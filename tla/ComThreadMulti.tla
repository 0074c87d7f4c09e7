--------------------------- MODULE ComThreadMulti ---------------------------
(***************************************************************************)
(* One ComThreadMulti: the shadow thread that com4j starts for a Java      *)
(* thread (its peer) and on which every COM object created by that peer    *)
(* lives.  Java threads hand it tasks through execute() and block; it runs *)
(* them one at a time, releases the COM pointers of wrappers the garbage   *)
(* collector has found dead, and ends when it is killed or when its peer   *)
(* and all its objects are gone.                                           *)
(*                                                                         *)
(* A task is a value of Tasks.  The code allocates a Task per call; here a *)
(* value is used again once nobody refers to it, so that Tasks bounds the  *)
(* number of outstanding tasks and not the length of a behaviour.          *)
(***************************************************************************)
EXTENDS Integers, Sequences

CONSTANTS
  Threads,        \* Java threads that call execute() or kill()
  Peer,           \* the thread this ComThreadMulti was created for
  Killers,        \* threads that may call kill(): the peer, the shutdown hook
  CookieHolders,  \* threads that hold an EventCookie issued on this thread
  Tasks,          \* task objects that can be outstanding at the same time
  Objects,        \* wrappers that can be created
  None

ASSUME ThreadsAssumption ==
  /\ Peer \in Threads
  /\ Killers \subseteq Threads
  /\ CookieHolders \subseteq Threads

ASSUME NoneAssumption ==
  /\ None \notin Tasks
  /\ None \notin Objects

VARIABLES
  wpc,          \* where the worker is in run0()
  serving,      \* the task the worker has taken off taskList
  taskList,     \* tasks that need to be processed
  die,          \* forcible death has been asked for
  event,        \* Win32 event behind lock: is it signalled?
  handle,       \* the event's handle: "open" or "closed"
  req,          \* what a task is to do
  done,         \* Task.done
  outcome,      \* Task.result / Task.exception
  pc,           \* where each Java thread is in execute() or kill()
  cur,          \* the task a Java thread is executing
  detached,     \* the peer's thread-local entry for this thread is removed
  live,         \* liveComObjects
  collectable,  \* the phantom references the collector has enqueued
  ptr,          \* NativePointerPhantomReference.ptr
  releases,     \* history: calls of IUnknown::Release per wrapper
  disposed,     \* wrappers whose isDisposed is set
  reachable     \* wrappers Java code refers to (tasks in flight not counted)

workerVars == <<wpc, serving, die, event, handle>>
taskVars   == <<req, done, outcome>>
threadVars == <<pc, cur, detached>>
refVars    == <<live, collectable, ptr, releases>>
objectVars == <<live, collectable, ptr, releases, disposed, reachable>>

vars == <<workerVars, taskList, taskVars, threadVars, objectVars>>

\* A task calls through a wrapper or disposes of it; obj is None when its
\* closure holds no wrapper (COM4J's own tasks, EventProxy.close()).
Requests ==
  [op : {"call"}, obj : Objects \cup {None}] \cup [op : {"dispose"}, obj : Objects]

WorkerStates == {"top", "suspend", "collect", "tasks", "invoke", "running",
                 "activate", "collectTask", "collectLast", "clobber",
                 "close", "dead"}

\* The worker has left its loop: no task is taken off taskList any more.
Exiting == {"collectLast", "clobber", "close", "dead"}

\* A thread inside execute(); with the monitor of its task in the first two.
Inside == {"activate", "check", "wait", "wake", "interrupted"}

ThreadStates == Inside \cup {"idle", "killSignal", "join", "exited"}

Queued == {taskList[i] : i \in DOMAIN taskList}

\* Tasks some thread or the queue still refers to.
InUse == Queued \cup {serving} \cup {cur[c] : c \in Threads}

\* Wrappers that cannot become phantom reachable: a task holds its wrapper.
Roots == reachable \cup {req[t].obj : t \in InUse \cap Tasks}

Init ==
  /\ wpc = "top"
  /\ serving = None
  /\ taskList = <<>>
  /\ die = FALSE
  /\ event = FALSE
  /\ handle = "open"
  /\ req = [t \in Tasks |-> [op |-> "call", obj |-> None]]
  /\ done = [t \in Tasks |-> FALSE]
  /\ outcome = [t \in Tasks |-> "none"]
  /\ pc = [c \in Threads |-> "idle"]
  /\ cur = [c \in Threads |-> None]
  /\ detached = FALSE
  /\ live = {}
  /\ collectable = {}
  /\ ptr = [o \in Objects |-> "none"]
  /\ releases = [o \in Objects |-> 0]
  /\ disposed = {}
  /\ reachable = {}

-----------------------------------------------------------------------------
(* Native helpers.                                                         *)

\* SetEvent on the lock's handle; on a closed handle it fails.
Activate == event' = (event \/ handle = "open")

\* Mutant: the reference forgets to clear its pointer.
ReleaseNativeKeepsPtr(S) ==
  /\ releases' = [o \in Objects |-> IF o \in S /\ ptr[o] = "held"
                                    THEN releases[o] + 1 ELSE releases[o]]
  /\ UNCHANGED ptr

\* releaseNative() of every reference in S: at most one Release each.
ReleaseNative(S) ==
  /\ ptr' = [o \in Objects |-> IF o \in S /\ ptr[o] = "held"
                               THEN "zero" ELSE ptr[o]]
  /\ releases' = [o \in Objects |-> IF o \in S /\ ptr[o] = "held"
                                    THEN releases[o] + 1 ELSE releases[o]]

\* Mutant: every live reference is released, not only the enqueued ones.
CollectEverything ==
  /\ ReleaseNative(live)
  /\ live' = live \ collectable
  /\ collectable' = {}

\* Mutant: references are taken off the books without a release.
CollectWithoutRelease ==
  /\ live' = live \ collectable
  /\ collectable' = {}
  /\ UNCHANGED <<ptr, releases>>

\* collectGarbage(): the poll loop, one step.  A reference enqueued while it
\* runs is as if enqueued before the first poll or after the last.
CollectGarbage ==
  /\ ReleaseNative(collectable)
  /\ live' = live \ collectable
  /\ collectable' = {}

-----------------------------------------------------------------------------
(* The worker: run0().                                                     *)

\* Mutant: the live objects do not count.
CanExitWithPeer == die \/ pc[Peer] = "exited"

\* Mutant: a kill is not looked at.
CanExitNaturally == pc[Peer] = "exited" /\ live = {}

\* Mutant: only a kill ends the worker.
CanExitByKill == die

CanExit == die \/ (pc[Peer] = "exited" /\ live = {})

WorkerAt(from, to) == wpc = from /\ wpc' = to

TestExit ==
  /\ wpc = "top"
  /\ wpc' = IF CanExit THEN "collectLast" ELSE "suspend"
  /\ UNCHANGED <<serving, die, event, handle, taskList, taskVars, threadVars,
                 objectVars>>

\* lock.suspend(GARBAGE_COLLECTION_INTERVAL): signalled or timed out; the
\* event is auto-reset.
WakeUp ==
  /\ WorkerAt("suspend", "collect")
  /\ event' = FALSE
  /\ UNCHANGED <<serving, die, handle, taskList, taskVars, threadVars,
                 objectVars>>

Collect ==
  /\ \/ WorkerAt("collect", "tasks")
     \/ WorkerAt("collectTask", "tasks")
     \/ WorkerAt("collectLast", "clobber")
  /\ CollectGarbage
  /\ UNCHANGED <<serving, die, event, handle, taskList, taskVars, threadVars,
                 disposed, reachable>>

\* Mutant: the newest task is taken first.
TakeNewest ==
  /\ WorkerAt("tasks", "invoke")
  /\ taskList # <<>>
  /\ serving' = taskList[Len(taskList)]
  /\ taskList' = SubSeq(taskList, 1, Len(taskList) - 1)
  /\ UNCHANGED <<die, event, handle, taskVars, threadVars, objectVars>>

\* Only the worker removes, so isEmpty(), get(0) and remove(0) are one step.
TakeTask ==
  /\ WorkerAt("tasks", "invoke")
  /\ taskList # <<>>
  /\ serving' = Head(taskList)
  /\ taskList' = Tail(taskList)
  /\ UNCHANGED <<die, event, handle, taskVars, threadVars, objectVars>>

TasksDrained ==
  /\ WorkerAt("tasks", "top")
  /\ taskList = <<>>
  /\ UNCHANGED <<serving, die, event, handle, taskList, taskVars, threadVars,
                 objectVars>>

\* A thread between entering synchronized(task) and task.wait().
HoldsMonitor(c, t) == cur[c] = t /\ pc[c] \in {"activate", "check"}

\* Task.invoke() is synchronized on the task.
BeginInvoke ==
  /\ WorkerAt("invoke", "running")
  /\ \A c \in Threads : ~HoldsMonitor(c, serving)
  /\ UNCHANGED <<serving, die, event, handle, taskList, taskVars, threadVars,
                 objectVars>>

\* Subscribing to events takes a wrapper of the event source.
SomeWrapperWasMade == \E o \in Objects : ptr[o] # "none"

\* Code runs on the worker in a task, and in an event callback that the
\* message loop of suspend() dispatches.
RunsCode == wpc = "running" \/ (wpc = "suspend" /\ SomeWrapperWasMade)

\* Wrapper's constructor registers the new wrapper with addLiveObject().
NewWrapper(o) ==
  /\ RunsCode
  /\ ptr[o] = "none"
  /\ ptr' = [ptr EXCEPT ![o] = "held"]
  /\ live' = live \cup {o}
  /\ reachable' = reachable \cup {o}
  /\ UNCHANGED <<workerVars, taskList, taskVars, threadVars, collectable,
                 releases, disposed>>

\* dispose0(), on the worker only.
Dispose0(o) ==
  /\ ReleaseNative({o} \ disposed)
  /\ disposed' = disposed \cup {o}

\* dispose() called by code that runs on the worker: Task.execute() calls
\* it at once.
NestedDispose(o) ==
  /\ RunsCode
  /\ o \in reachable \ disposed
  /\ Dispose0(o)
  /\ UNCHANGED <<workerVars, taskList, taskVars, threadVars, live,
                 collectable, reachable>>

\* Mutant: notify() is missing.
EndInvokeSilently(r) ==
  /\ WorkerAt("running", "activate")
  /\ r = "exception" => req[serving].op # "dispose"
  /\ IF req[serving].op = "dispose"
     THEN Dispose0(req[serving].obj)
     ELSE UNCHANGED <<ptr, releases, disposed>>
  /\ outcome' = [outcome EXCEPT ![serving] = r]
  /\ done' = [done EXCEPT ![serving] = TRUE]
  /\ serving' = None
  /\ UNCHANGED <<die, event, handle, taskList, req, threadVars, live,
                 collectable, reachable>>

\* call() returns or throws; done, and notify() wakes the caller if it waits.
EndInvoke(r) ==
  /\ WorkerAt("running", "activate")
  /\ r = "exception" => req[serving].op # "dispose"
  /\ IF req[serving].op = "dispose"
     THEN Dispose0(req[serving].obj)
     ELSE UNCHANGED <<ptr, releases, disposed>>
  /\ outcome' = [outcome EXCEPT ![serving] = r]
  /\ done' = [done EXCEPT ![serving] = TRUE]
  /\ pc' = [c \in Threads |-> IF cur[c] = serving /\ pc[c] = "wait"
                              THEN "wake" ELSE pc[c]]
  /\ serving' = None
  /\ UNCHANGED <<die, event, handle, taskList, req, cur, detached, live,
                 collectable, reachable>>

ActivateSelf ==
  /\ WorkerAt("activate", "collectTask")
  /\ Activate
  /\ UNCHANGED <<serving, die, handle, taskList, taskVars, threadVars,
                 objectVars>>

\* Mutant: the live references are forgotten, not released.
ClobberWithoutRelease ==
  /\ WorkerAt("clobber", "close")
  /\ live' = {}
  /\ UNCHANGED <<serving, die, event, handle, taskList, taskVars, threadVars,
                 collectable, ptr, releases, disposed, reachable>>

\* The references that are left are cleared and released.
Clobber ==
  /\ WorkerAt("clobber", "close")
  /\ ReleaseNative(live)
  /\ live' = {}
  /\ UNCHANGED <<serving, die, event, handle, taskList, taskVars, threadVars,
                 collectable, disposed, reachable>>

CloseHandle ==
  /\ WorkerAt("close", "dead")
  /\ handle' = "closed"
  /\ UNCHANGED <<serving, die, event, taskList, taskVars, threadVars,
                 objectVars>>

-----------------------------------------------------------------------------
(* Java threads: execute().                                                *)

ThreadAt(c, from, to) == pc[c] = from /\ pc' = [pc EXCEPT ![c] = to]

\* Task.execute() with ComThreadMulti.get() reaches this worker from its peer
\* alone; EventProxy.close() from any holder of the cookie; calls on a wrapper
\* from any thread that refers to it, until its isDisposed is set.
MaySubmit(c, r) ==
  IF r.obj = None
  THEN (c = Peer /\ ~detached) \/ (c \in CookieHolders /\ SomeWrapperWasMade)
  ELSE r.obj \in reachable \ disposed

\* synchronized(task) { task.reset(); taskList.add(task); ...
Submit(c, t, r) ==
  /\ ThreadAt(c, "idle", "activate")
  /\ t \notin InUse
  /\ MaySubmit(c, r)
  /\ cur' = [cur EXCEPT ![c] = t]
  /\ req' = [req EXCEPT ![t] = r]
  /\ done' = [done EXCEPT ![t] = FALSE]
  /\ outcome' = [outcome EXCEPT ![t] = "none"]
  /\ taskList' = Append(taskList, t)
  /\ UNCHANGED <<workerVars, detached, objectVars>>

\* Mutant: execute() leaves the wake-up to the timeout.
ActivateNobody(c) ==
  /\ ThreadAt(c, "activate", "check")
  /\ UNCHANGED <<workerVars, taskList, taskVars, cur, detached, objectVars>>

ActivateWorker(c) ==
  /\ ThreadAt(c, "activate", "check")
  /\ Activate
  /\ UNCHANGED <<wpc, serving, die, handle, taskList, taskVars, cur,
                 detached, objectVars>>

\* while (!task.isDone()) task.wait(): wait() gives up the task's monitor.
Wait(c) ==
  /\ ThreadAt(c, "check", "wait")
  /\ ~done[cur[c]]
  /\ UNCHANGED <<workerVars, taskList, taskVars, cur, detached,
                 objectVars>>

\* Mutant: the wait is not in a loop, any wake-up ends it.
ReturnUnchecked(c) ==
  /\ ThreadAt(c, "check", "idle")
  /\ outcome' = [outcome EXCEPT ![cur[c]] = "none"]
  /\ cur' = [cur EXCEPT ![c] = None]
  /\ UNCHANGED <<workerVars, taskList, req, done, detached, objectVars>>

\* Mutant: the caller leaves, but stays bound to its task.
ReturnBound(c) ==
  /\ ThreadAt(c, "check", "idle")
  /\ done[cur[c]]
  /\ outcome' = [outcome EXCEPT ![cur[c]] = "none"]
  /\ UNCHANGED <<workerVars, taskList, req, done, cur, detached, objectVars>>

\* The task is done: its result or its exception goes to the caller and is
\* cleared in the task.
Return(c) ==
  /\ ThreadAt(c, "check", "idle")
  /\ done[cur[c]]
  /\ outcome' = [outcome EXCEPT ![cur[c]] = "none"]
  /\ cur' = [cur EXCEPT ![c] = None]
  /\ UNCHANGED <<workerVars, taskList, req, done, detached, objectVars>>

\* wait() may return without a notification, or throw InterruptedException.
Unblock(c) ==
  /\ \/ ThreadAt(c, "wait", "wake")
     \/ ThreadAt(c, "wait", "interrupted")
     \/ ThreadAt(c, "wake", "interrupted")
  /\ UNCHANGED <<workerVars, taskList, taskVars, cur, detached,
                 objectVars>>

MonitorFree(c) == ~(wpc = "running" /\ serving = cur[c])

Reacquire(c) ==
  /\ ThreadAt(c, "wake", "check")
  /\ MonitorFree(c)
  /\ UNCHANGED <<workerVars, taskList, taskVars, cur, detached,
                 objectVars>>

\* catch (InterruptedException): execute() throws, the task stays where it is.
GiveUp(c) ==
  /\ ThreadAt(c, "interrupted", "idle")
  /\ MonitorFree(c)
  /\ cur' = [cur EXCEPT ![c] = None]
  /\ UNCHANGED <<workerVars, taskList, taskVars, detached, objectVars>>

-----------------------------------------------------------------------------
(* Java threads: kill(), detach(), flushFreeList(), the end of the peer.   *)

Kill(c) ==
  /\ c \in Killers
  /\ ThreadAt(c, "idle", "killSignal")
  /\ die' = TRUE
  /\ UNCHANGED <<wpc, serving, event, handle, taskList, taskVars, cur,
                 detached, objectVars>>

KillSignal(c) ==
  /\ ThreadAt(c, "killSignal", "join")
  /\ Activate
  /\ UNCHANGED <<wpc, serving, die, handle, taskList, taskVars, cur,
                 detached, objectVars>>

\* join() returns when the worker is dead; the peer came through detach(),
\* which removes its thread-local entry.
KillReturns(c) ==
  /\ ThreadAt(c, "join", "idle")
  /\ detached' = (detached \/ c = Peer)
  /\ UNCHANGED <<workerVars, taskList, taskVars, cur, objectVars>>

Join(c) == wpc = "dead" /\ KillReturns(c)

\* "if someone interrupts us, process that later": kill() returns early.
JoinInterrupted(c) == KillReturns(c)

FlushFreeList ==
  /\ pc[Peer] = "idle"
  /\ ~detached
  /\ Activate
  /\ UNCHANGED <<wpc, serving, die, handle, taskList, taskVars, threadVars,
                 objectVars>>

PeerExits ==
  /\ ThreadAt(Peer, "idle", "exited")
  /\ UNCHANGED <<workerVars, taskList, taskVars, cur, detached,
                 objectVars>>

-----------------------------------------------------------------------------
(* The Java heap (the code only sees the reference queue).                 *)

\* Java code forgets a wrapper.
Drop(o) ==
  /\ o \in reachable
  /\ reachable' = reachable \ {o}
  /\ UNCHANGED <<workerVars, taskList, taskVars, threadVars, refVars,
                 disposed>>

\* The collector enqueues the reference of a wrapper nothing refers to.  The
\* reference must itself be reachable (from liveComObjects) and not cleared.
Enqueue(o) ==
  /\ o \in live \ (collectable \cup Roots)
  /\ collectable' = collectable \cup {o}
  /\ UNCHANGED <<workerVars, taskList, taskVars, threadVars, live, ptr,
                 releases, disposed, reachable>>

-----------------------------------------------------------------------------
WorkerStep ==
  \/ TestExit \/ WakeUp \/ Collect \/ TakeTask \/ TasksDrained
  \/ BeginInvoke \/ ActivateSelf \/ Clobber \/ CloseHandle
  \/ \E r \in {"result", "exception"} : EndInvoke(r)

ThreadStep(c) ==
  \/ ActivateWorker(c) \/ Wait(c) \/ Return(c) \/ Reacquire(c) \/ GiveUp(c)
  \/ KillSignal(c) \/ Join(c)

Environment ==
  \/ \E c \in Threads, t \in Tasks, r \in Requests : Submit(c, t, r)
  \/ \E c \in Threads : Unblock(c) \/ Kill(c) \/ JoinInterrupted(c)
  \/ \E o \in Objects :
       NewWrapper(o) \/ NestedDispose(o) \/ Drop(o) \/ Enqueue(o)
  \/ FlushFreeList
  \/ PeerExits

Next == WorkerStep \/ (\E c \in Threads : ThreadStep(c)) \/ Environment

Spec == Init /\ [][Next]_vars

\* The JVM schedules every thread, COM calls return, and a monitor that is
\* released again and again is granted (BeginInvoke).  Nothing obliges Java
\* code to call, to die or to drop a wrapper, nor the collector to run.
Fairness ==
  /\ WF_vars(WorkerStep)
  /\ SF_vars(BeginInvoke)
  /\ \A c \in Threads : WF_vars(ThreadStep(c))

FairSpec == Spec /\ Fairness

-----------------------------------------------------------------------------
(* What should be true of it.                                              *)

\* Type correctness of the whole state.
TypeOK ==
  /\ wpc \in WorkerStates
  /\ serving \in Tasks \cup {None}
  /\ serving # None <=> wpc \in {"invoke", "running"}
  /\ taskList \in Seq(Tasks)
  /\ die \in BOOLEAN
  /\ event \in BOOLEAN
  /\ handle \in {"open", "closed"}
  /\ req \in [Tasks -> Requests]
  /\ done \in [Tasks -> BOOLEAN]
  /\ outcome \in [Tasks -> {"none", "result", "exception"}]
  /\ pc \in [Threads -> ThreadStates]
  /\ cur \in [Threads -> Tasks \cup {None}]
  /\ \A c \in Threads : cur[c] # None <=> pc[c] \in Inside
  /\ detached \in BOOLEAN
  /\ live \subseteq Objects
  /\ collectable \subseteq Objects
  /\ ptr \in [Objects -> {"none", "held", "zero"}]
  /\ releases \in [Objects -> Nat]
  /\ disposed \subseteq Objects
  /\ reachable \subseteq Objects

\* canExit() waits "because other threads might still want to talk to these
\* objects": a worker that leaves its loop of its own accord leaves no wrapper
\* that Java code can call, and no thread that waits for one of its tasks.
NaturalDeathStrandsNobody ==
  wpc \in Exiting /\ ~die =>
    /\ reachable = {}
    /\ \A c \in Threads : pc[c] \notin Inside

\* The wake-up protocol does not live off the 10 ms timeout: when the worker
\* sleeps with a task queued or a kill requested, its event is signalled or
\* the thread responsible is about to signal it.
NoLostWakeup ==
  wpc = "suspend" =>
    /\ taskList # <<>> =>
         event \/ \E c \in Threads : pc[c] = "activate"
    /\ die => event \/ \E c \in Threads : pc[c] = "killSignal"

\* Every COM pointer is released at most once, whichever of dispose(), the
\* collector and the end of the worker come together on one wrapper.
ReleasedOnce == \A o \in Objects : releases[o] <= 1

\* A pointer not yet released is in liveComObjects, so that the collector or
\* the end of the worker releases it: a dead worker leaks nothing.
HeldIsTracked == \A o \in Objects : ptr[o] = "held" => o \in live

\* The pointer of a wrapper that Java code or a task still refers to goes away
\* by dispose() or by a kill, never by garbage collection.
NotPulledAway ==
  \A o \in Roots \cap Objects :
    ptr[o] = "zero" => o \in disposed \/ die

\* "Executes a Task in a ComThread and returns its result": every thread that
\* enters execute() leaves it.
ExecuteReturns == \A c \in Threads : pc[c] \in Inside ~> pc[c] = "idle"

\* A reference the collector has enqueued is released, by the running loop or
\* by the end of the worker.
GarbageReleased == \A o \in Objects : o \in collectable ~> ptr[o] = "zero"

\* kill() is noticed only between two rounds of taskList: it ends the worker
\* provided that tasks stop coming.
KillEndsWorker ==
  <>[][~\E c \in Threads : pc[c] = "idle" /\ pc'[c] = "activate"]_vars
    => (die ~> wpc = "dead")

\* A worker whose peer is dead and whose wrappers are all collected ends; no
\* one signals it, the timeout of suspend() makes it look.
WorkerRetires ==
  <>[](pc[Peer] = "exited" /\ live = {}) => <>(wpc = "dead")

-----------------------------------------------------------------------------
(* The service this thread implements.                                     *)

Service == INSTANCE TaskService WITH
  backlog <- taskList,
  busy <- serving,
  asked <- cur,
  reply <- outcome,
  leaving <- {c \in Threads : pc[c] = "interrupted"}

\* Whatever sleeps, wakes, is collected or killed: tasks are served in order,
\* one at a time, once, and a caller gets its own outcome or was interrupted.
ImplementsService == Service!Spec

\* Without a kill, the service is never shut down.
ImplementsFairService == Service!FairSpec
=============================================================================
