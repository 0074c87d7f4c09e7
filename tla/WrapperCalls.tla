---------------------------- MODULE WrapperCalls ----------------------------
(***************************************************************************)
(* Calls on one Wrapper.  Wrapper.invoke() puts a call (method and         *)
(* arguments) into an InvocationThunk and executes that on the wrapper's   *)
(* ComThreadMulti.  A thunk is a Task and is used again: invCache holds    *)
(* one that was free when it was put there.  invCache and isDisposed are   *)
(* read and written without a monitor.                                     *)
(*                                                                         *)
(* Sleeping and waking of the worker are ComThreadMulti's business; here   *)
(* it is not killed and always gets to its queue.  A call is a value of    *)
(* Calls, used again when nobody refers to it; so is a thunk of Thunks.    *)
(***************************************************************************)
EXTENDS Integers, Sequences

CONSTANTS
  Threads,      \* Java threads that share the wrapper
  Worker,       \* the ComThreadMulti, which calls in event handlers
  Callers,      \* those of both that do call
  Disposers,    \* Java threads that call dispose()
  Direct,       \* Java threads that have the Wrapper itself and not a proxy
  Thunks,       \* InvocationThunks that can be in use at the same time
  Calls,        \* calls that can be outstanding at the same time
  TakeTurns,    \* do the callers of the wrapper take turns?
  Interrupts,   \* may a thread that waits for a thunk be interrupted?
  MaxBacklog,   \* no Java thread begins anything when so much is queued
  None

ASSUME CallersAssumption ==
  /\ Worker \notin Threads
  /\ Callers \subseteq Threads \cup {Worker}
  /\ Disposers \subseteq Threads
  /\ Direct \subseteq Threads
  /\ Thunks \cap Threads = {}
  /\ TakeTurns \in BOOLEAN
  /\ Interrupts \in BOOLEAN
  /\ MaxBacklog \in Nat

ASSUME NoneAssumption ==
  None \notin Threads \cup {Worker} \cup Thunks \cup Calls

Actors == Threads \cup {Worker}

VARIABLES
  isDisposed,
  invCache,   \* the cached thunk or null
  call,       \* InvocationThunk.method and args: the call they make up
  done,       \* Task.done
  outcome,    \* Task.result or exception: of which call, or "npe"
  monitor,    \* who owns the monitor of a thunk
  queue,      \* taskList: thunks; other tasks are named by their thread
  serving,    \* the task the worker is at
  running,    \* is the worker inside call(), with the task's monitor?
  current,    \* the call it has read from the thunk
  pc,         \* where an actor is in Wrapper.invoke()
  wants,      \* the call it makes
  thunk,      \* the thunk it has read from invCache
  runs        \* history: how often a call has been run (2: twice or more)

thunkVars == <<call, done, outcome>>
workVars  == <<queue, serving, running, current>>
actorVars == <<pc, wants, thunk>>

vars == <<isDisposed, invCache, thunkVars, monitor, workVars, actorVars, runs>>

Queued == {queue[i] : i \in DOMAIN queue}

\* A thunk that new InvocationThunk() may be: nobody refers to it.
Fresh(t) ==
  t \notin {invCache, serving} \cup Queued \cup {thunk[a] : a \in Actors}

Unused(k) ==
  k \notin {current} \cup {wants[a] : a \in Actors}
             \cup UNION {{call[t], outcome[t]} : t \in Thunks}

Init ==
  /\ isDisposed = FALSE
  /\ invCache = None
  /\ call = [t \in Thunks |-> None]
  /\ done = [t \in Thunks |-> FALSE]
  /\ outcome = [t \in Thunks |-> None]
  /\ monitor = [t \in Thunks |-> None]
  /\ queue = <<>>
  /\ serving = None
  /\ running = FALSE
  /\ current = None
  /\ pc = [a \in Actors |-> "idle"]
  /\ wants = [a \in Actors |-> None]
  /\ thunk = [a \in Actors |-> None]
  /\ runs = [k \in Calls |-> 0]

Count(k) == IF runs[k] < 2 THEN runs[k] + 1 ELSE 2

Goto(a, from, to) == pc[a] = from /\ pc' = [pc EXCEPT ![a] = to]

\* Monitors are reentrant.
Acquire(t, a) ==
  /\ monitor[t] \in {None, a}
  /\ monitor' = [monitor EXCEPT ![t] = a]

Release(t) == monitor' = [monitor EXCEPT ![t] = None]

-----------------------------------------------------------------------------
(* Wrapper.invoke(), on any thread.                                        *)

\* Callers take turns; an event handler has the turn of the call it is in.
Turn(a) ==
  \/ ~TakeTurns
  \/ a = Worker /\ running
  \/ \A b \in Actors \ {a} : pc[b] = "idle"

\* isDisposed is not set, so that no IllegalStateException is thrown.  The
\* worker calls in event handlers: from the message loop of suspend(), or
\* while the COM call of a task runs.
BeginCall(a, k) ==
  /\ a \in Callers
  /\ IF a = Worker THEN serving = None \/ running
                    ELSE Len(queue) < MaxBacklog
  /\ Turn(a)
  /\ ~isDisposed
  /\ Unused(k)
  /\ Goto(a, "idle", "lookup")
  /\ wants' = [wants EXCEPT ![a] = k]
  /\ runs' = [runs EXCEPT ![k] = 0]
  /\ UNCHANGED <<isDisposed, invCache, thunkVars, monitor, workVars, thunk>>

\* if (invCache == null)
LookUp(a) ==
  /\ Goto(a, "lookup", IF invCache = None THEN "create" ELSE "read")
  /\ UNCHANGED <<isDisposed, invCache, thunkVars, monitor, workVars, wants,
                 thunk, runs>>

\* invCache = new InvocationThunk();
Create(a, t) ==
  /\ Goto(a, "create", "read")
  /\ Fresh(t)
  /\ invCache' = t
  /\ call' = [call EXCEPT ![t] = None]
  /\ done' = [done EXCEPT ![t] = FALSE]
  /\ outcome' = [outcome EXCEPT ![t] = None]
  /\ UNCHANGED <<isDisposed, monitor, workVars, wants, thunk, runs>>

\* Mutant: the cache is expected to be full still.
ReadUnchecked(a) ==
  /\ Goto(a, "read", "enter")
  /\ thunk' = [thunk EXCEPT ![a] = invCache]
  /\ UNCHANGED <<isDisposed, invCache, thunkVars, monitor, workVars, wants,
                 runs>>

\* The second read of invCache, for invCache.invoke(...): the receiver.
Read(a) ==
  /\ invCache # None
  /\ Goto(a, "read", "enter")
  /\ thunk' = [thunk EXCEPT ![a] = invCache]
  /\ UNCHANGED <<isDisposed, invCache, thunkVars, monitor, workVars, wants,
                 runs>>

\* ... which is null if another caller has taken the thunk meanwhile.
ReadNull(a) ==
  /\ invCache = None
  /\ Goto(a, "read", "idle")
  /\ UNCHANGED <<isDisposed, invCache, thunkVars, monitor, workVars, wants,
                 thunk, runs>>

\* Mutant: the thunk stays in the cache while it is in use.
EnterSharing(a) ==
  /\ Goto(a, "enter", "submit")
  /\ Acquire(thunk[a], a)
  /\ call' = [call EXCEPT ![thunk[a]] = wants[a]]
  /\ UNCHANGED <<isDisposed, invCache, done, outcome, workVars, wants, thunk, runs>>

\* synchronized invoke(): invCache = null; this.method = method; ...
Enter(a) ==
  /\ Goto(a, "enter", "submit")
  /\ Acquire(thunk[a], a)
  /\ invCache' = None
  /\ call' = [call EXCEPT ![thunk[a]] = wants[a]]
  /\ UNCHANGED <<isDisposed, done, outcome, workVars, wants, thunk, runs>>

\* ComThreadMulti.execute(): reset(), taskList.add(), wait() until done.
Submit(a) ==
  /\ a # Worker
  /\ Goto(a, "submit", "wait")
  /\ done' = [done EXCEPT ![thunk[a]] = FALSE]
  /\ queue' = Append(queue, thunk[a])
  /\ Release(thunk[a])
  /\ UNCHANGED <<isDisposed, invCache, call, outcome, serving, running, current,
                 wants, thunk, runs>>

\* Leaving invoke(): finally { invCache = this; }.
Leave(a) ==
  /\ pc' = [pc EXCEPT ![a] = "idle"]
  /\ thunk' = [thunk EXCEPT ![a] = None]
  /\ invCache' = thunk[a]

\* A call in an event handler: Task.execute() calls call() at once.
CallDirectly ==
  /\ pc[Worker] = "submit"
  /\ runs' = [runs EXCEPT ![wants[Worker]] = Count(wants[Worker])]
  /\ \/ call' = [call EXCEPT ![thunk[Worker]] = None]
     \/ UNCHANGED call   \* method.invoke() has thrown
  /\ IF running /\ serving = thunk[Worker] THEN UNCHANGED monitor
     ELSE Release(thunk[Worker])
  /\ Leave(Worker)
  /\ UNCHANGED <<isDisposed, done, outcome, workVars, wants>>

\* A wait may end without a notification, or by an interrupt.
Unblock(a) ==
  /\ \/ Goto(a, "wait", "wake")
     \/ Interrupts /\ (Goto(a, "wait", "interrupted") \/ Goto(a, "wake", "interrupted"))
  /\ UNCHANGED <<isDisposed, invCache, thunkVars, monitor, workVars, wants,
                 thunk, runs>>

WaitAgain(a) ==
  /\ Goto(a, "wake", "wait")
  /\ monitor[thunk[a]] = None
  /\ ~done[thunk[a]]
  /\ UNCHANGED <<isDisposed, invCache, thunkVars, monitor, workVars, wants,
                 thunk, runs>>

\* Mutant: a finished wait is taken for an answer.
ReturnUnchecked(a) ==
  /\ pc[a] = "wake"
  /\ monitor[thunk[a]] = None
  /\ outcome' = [outcome EXCEPT ![thunk[a]] = None]
  /\ Leave(a)
  /\ UNCHANGED <<isDisposed, call, done, monitor, workVars, wants, runs>>

\* The result or the exception goes to the caller and is cleared.
Return(a) ==
  /\ pc[a] = "wake"
  /\ monitor[thunk[a]] = None
  /\ done[thunk[a]]
  /\ outcome' = [outcome EXCEPT ![thunk[a]] = None]
  /\ Leave(a)
  /\ UNCHANGED <<isDisposed, call, done, monitor, workVars, wants, runs>>

\* Mutant: a caller that gives up takes its thunk off the queue.
GiveUpDropping(a) ==
  /\ pc[a] = "interrupted"
  /\ monitor[thunk[a]] = None
  /\ Leave(a)
  /\ queue' = SelectSeq(queue, LAMBDA t : t # thunk[a])
  /\ UNCHANGED <<isDisposed, thunkVars, monitor, serving, running, current,
                 wants, runs>>

\* InterruptedException: the caller leaves, the thunk may still be queued.
GiveUp(a) ==
  /\ pc[a] = "interrupted"
  /\ monitor[thunk[a]] = None
  /\ Leave(a)
  /\ UNCHANGED <<isDisposed, thunkVars, monitor, workVars, wants, runs>>

\* A task of the thread's own.
SubmitOwn(c, to) ==
  /\ Turn(c)
  /\ Len(queue) < MaxBacklog
  /\ Goto(c, "idle", to)
  /\ queue' = Append(queue, c)
  /\ UNCHANGED <<isDisposed, invCache, thunkVars, monitor, serving, running,
                 current, wants, thunk, runs>>

\* dispose()
Dispose(c) == c \in Disposers /\ ~isDisposed /\ SubmitOwn(c, "disposing")

\* Mutant: isDisposed is not looked at.
QueryUnchecked(c) == SubmitOwn(c, "querying")

\* queryInterface() or is(), which through a proxy throw when isDisposed is
\* set; on the Wrapper itself nothing is checked.
Query(c) == (~isDisposed \/ c \in Direct) /\ SubmitOwn(c, "querying")

-----------------------------------------------------------------------------
(* The worker.                                                             *)

\* Mutant: the task is not removed.
TakeKeeping ==
  /\ serving = None
  /\ pc[Worker] = "idle"
  /\ queue # <<>>
  /\ serving' = Head(queue)
  /\ UNCHANGED <<isDisposed, invCache, thunkVars, monitor, queue, running,
                 current, actorVars, runs>>

\* taskList.get(0), taskList.remove(0)
Take ==
  /\ serving = None
  /\ pc[Worker] = "idle"
  /\ queue # <<>>
  /\ serving' = Head(queue)
  /\ queue' = Tail(queue)
  /\ UNCHANGED <<isDisposed, invCache, thunkVars, monitor, running, current,
                 actorVars, runs>>

\* Task.invoke() and call() are synchronized; method.invoke(ptr, args).
BeginInvoke ==
  /\ serving \in Thunks
  /\ ~running
  /\ Acquire(serving, Worker)
  /\ running' = TRUE
  /\ current' = call[serving]
  /\ runs' = [k \in Calls |-> IF k = call[serving] THEN Count(k) ELSE runs[k]]
  /\ UNCHANGED <<isDisposed, invCache, thunkVars, queue, serving, actorVars>>

\* notify(): one of the threads that wait on the task, if any.
Notify(t) ==
  LET waiting == {c \in Threads : pc[c] = "wait" /\ thunk[c] = t}
  IN  IF waiting = {} THEN UNCHANGED pc
      ELSE \E c \in waiting : pc' = [pc EXCEPT ![c] = "wake"]

\* Mutant: nobody is notified.
EndInvokeSilently ==
  /\ running
  /\ pc[Worker] = "idle"
  /\ outcome' = [outcome EXCEPT ![serving] = IF current = None THEN "npe" ELSE current]
  /\ call' = [call EXCEPT ![serving] = None] \/ UNCHANGED call
  /\ done' = [done EXCEPT ![serving] = TRUE]
  /\ Release(serving)
  /\ serving' = None
  /\ running' = FALSE
  /\ current' = None
  /\ UNCHANGED <<isDisposed, invCache, queue, actorVars, runs>>

\* method and args are cleared unless the call has thrown; where method was
\* null the outcome is a NullPointerException.
EndInvoke ==
  /\ running
  /\ pc[Worker] = "idle"
  /\ outcome' = [outcome EXCEPT ![serving] = IF current = None THEN "npe" ELSE current]
  /\ call' = [call EXCEPT ![serving] = None] \/ UNCHANGED call
  /\ done' = [done EXCEPT ![serving] = TRUE]
  /\ Notify(serving)
  /\ Release(serving)
  /\ serving' = None
  /\ running' = FALSE
  /\ current' = None
  /\ UNCHANGED <<isDisposed, invCache, queue, wants, thunk, runs>>

\* dispose0(), or a query; the thread that waits for it goes on.
ServeOwn ==
  /\ serving \in Threads
  /\ isDisposed' = (isDisposed \/ pc[serving] = "disposing")
  /\ pc' = [pc EXCEPT ![serving] = "idle"]
  /\ serving' = None
  /\ UNCHANGED <<invCache, thunkVars, monitor, queue, running, current, wants,
                 thunk, runs>>

-----------------------------------------------------------------------------
WorkerStep == Take \/ BeginInvoke \/ EndInvoke \/ ServeOwn \/ CallDirectly

\* What an actor does once it has begun a call.
Proceed(a) ==
  \/ LookUp(a) \/ (\E t \in Thunks : Create(a, t)) \/ Read(a) \/ ReadNull(a)
  \/ Enter(a) \/ Submit(a) \/ WaitAgain(a) \/ Return(a) \/ GiveUp(a)

Next ==
  \/ WorkerStep
  \/ \E a \in Actors : Proceed(a) \/ (\E k \in Calls : BeginCall(a, k))
  \/ \E c \in Threads : Unblock(c) \/ Dispose(c) \/ Query(c)

Spec == Init /\ [][Next]_vars

\* The JVM schedules every thread; COM calls return, however often they run
\* event handlers meanwhile.
FairSpec ==
  /\ Spec
  /\ WF_vars(WorkerStep)
  /\ SF_vars(EndInvoke)
  /\ \A a \in Actors : WF_vars(Proceed(a))

-----------------------------------------------------------------------------
(* What should be true of it.                                              *)

\* Type correctness of the whole state.
TypeOK ==
  /\ isDisposed \in BOOLEAN
  /\ invCache \in Thunks \cup {None}
  /\ call \in [Thunks -> Calls \cup {None}]
  /\ done \in [Thunks -> BOOLEAN]
  /\ outcome \in [Thunks -> Calls \cup {None, "npe"}]
  /\ monitor \in [Thunks -> Actors \cup {None}]
  /\ queue \in Seq(Thunks \cup Threads)
  /\ serving \in Thunks \cup Threads \cup {None}
  /\ running \in BOOLEAN
  /\ running => serving \in Thunks
  /\ current \in Calls \cup {None}
  /\ pc \in [Actors -> {"idle", "lookup", "create", "read", "enter", "submit",
                        "wait", "wake", "interrupted", "disposing", "querying"}]
  /\ wants \in [Actors -> Calls \cup {None}]
  /\ thunk \in [Actors -> Thunks \cup {None}]
  /\ \A a \in Actors :
       thunk[a] # None <=> pc[a] \in {"enter", "submit", "wait", "wake", "interrupted"}
  /\ runs \in [Calls -> 0..2]

\* "Invokes the method on the peer ComThread and returns its return value": a
\* caller that leaves invoke() of its own accord has the outcome of its own
\* call, not that of another one and no NullPointerException of com4j's.
OwnOutcome ==
  [][\A a \in Actors :
       pc[a] \in {"read", "wake"} /\ pc'[a] = "idle"
         => pc[a] = "wake" /\ outcome[thunk[a]] = wants[a]]_vars

\* A COM method is called at most once per call of the proxy.
RunAtMostOnce == \A k \in Calls : runs[k] <= 1

\* The worker's COM calls go to a pointer that dispose0() has not released,
\* but for queries of threads that bypass the proxy.
NoCallOnReleased ==
  /\ running => ~isDisposed
  /\ isDisposed => \A c \in Threads \ Direct : serving = c => pc[c] # "querying"

\* The cached thunk is one no task in flight needs.
CacheHoldsFreeThunk ==
  invCache # None =>
    invCache \notin Queued \cup {serving} \cup {thunk[c] : c \in {b \in Threads : pc[b] # "enter"}}

\* Also where callers collide and calls are interrupted, the thunk of a caller
\* that waits is queued, being served or done.
WaiterIsServed ==
  \A c \in Threads : pc[c] = "wait" =>
    \/ thunk[c] \in Queued \cup {serving}
    \/ done[thunk[c]]

\* Every call of a proxy ends.
CallReturns == \A a \in Actors : pc[a] = "lookup" ~> pc[a] = "idle"
=============================================================================
