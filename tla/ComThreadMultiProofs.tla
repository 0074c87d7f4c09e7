------------------------ MODULE ComThreadMultiProofs ------------------------
(***************************************************************************)
(* Theorems about ComThreadMulti, for any sets of threads, tasks and       *)
(* wrappers.                                                               *)
(***************************************************************************)
EXTENDS ComThreadMulti, TLAPS

(***************************************************************************)
(* Helpers.                                                                *)
(***************************************************************************)

\* Releasing references keeps the pointers and their counters well typed.
LEMMA ReleaseNativeType ==
  ASSUME NEW S, ReleaseNative(S),
         ptr \in [Objects -> {"none", "held", "zero"}],
         releases \in [Objects -> Nat]
  PROVE  /\ ptr' \in [Objects -> {"none", "held", "zero"}]
         /\ releases' \in [Objects -> Nat]
  BY DEF ReleaseNative

\* What a sequence of tasks keeps under Append and Tail.
LEMMA TaskSeq ==
  ASSUME NEW q \in Seq(Tasks), NEW t \in Tasks
  PROVE  /\ Append(q, t) \in Seq(Tasks)
         /\ q # <<>> => Head(q) \in Tasks /\ Tail(q) \in Seq(Tasks)
  OBVIOUS

(***************************************************************************)
(* Type correctness.                                                       *)
(***************************************************************************)

\* Type correctness in the initial state.
LEMMA InitType == Init => TypeOK
<1> SUFFICES ASSUME Init PROVE TypeOK
  OBVIOUS
<1>1. taskList \in Seq(Tasks)
  BY DEF Init
<1>2. req \in [Tasks -> Requests]
  BY DEF Init, Requests
<1>3. /\ pc \in [Threads -> ThreadStates]
      /\ cur \in [Threads -> Tasks \cup {None}]
      /\ \A c \in Threads : cur[c] # None <=> pc[c] \in Inside
  BY DEF Init, ThreadStates, Inside
<1> QED
  BY <1>1, <1>2, <1>3 DEF Init, TypeOK, WorkerStates

\* One step keeps the types, action by action.
LEMMA NextType == TypeOK /\ [Next]_vars => TypeOK'
<1> SUFFICES ASSUME TypeOK, [Next]_vars PROVE TypeOK'
  OBVIOUS
<1> USE NoneAssumption, ThreadsAssumption
<1> USE DEF TypeOK, workerVars, taskVars, threadVars, objectVars, refVars
<1>1. CASE TestExit
  BY <1>1 DEF TestExit, WorkerStates
<1>2. CASE WakeUp
  BY <1>2 DEF WakeUp, WorkerAt, WorkerStates
<1>3. CASE Collect
  BY <1>3, ReleaseNativeType
     DEF Collect, CollectGarbage, WorkerAt, WorkerStates
<1>4. CASE TakeTask
  BY <1>4, TaskSeq DEF TakeTask, WorkerAt, WorkerStates
<1>5. CASE TasksDrained
  BY <1>5 DEF TasksDrained, WorkerAt, WorkerStates
<1>6. CASE BeginInvoke
  BY <1>6 DEF BeginInvoke, WorkerAt, WorkerStates
<1>7. ASSUME NEW r \in {"result", "exception"}, EndInvoke(r)
      PROVE  TypeOK'
  <2>1. disposed' \subseteq Objects
    BY <1>7 DEF EndInvoke, Dispose0, Requests, WorkerAt
  <2>2. /\ ptr' \in [Objects -> {"none", "held", "zero"}]
        /\ releases' \in [Objects -> Nat]
    BY <1>7, ReleaseNativeType DEF EndInvoke, Dispose0
  <2>3. pc' \in [Threads -> ThreadStates]
    BY <1>7 DEF EndInvoke, ThreadStates, Inside
  <2>4. \A c \in Threads : cur'[c] # None <=> pc'[c] \in Inside
    BY <1>7 DEF EndInvoke, Inside
  <2> QED
    BY <1>7, <2>1, <2>2, <2>3, <2>4 DEF EndInvoke, WorkerAt, WorkerStates
<1>8. CASE ActivateSelf
  BY <1>8 DEF ActivateSelf, Activate, WorkerAt, WorkerStates
<1>9. CASE Clobber
  BY <1>9, ReleaseNativeType DEF Clobber, WorkerAt, WorkerStates
<1>10. CASE CloseHandle
  BY <1>10 DEF CloseHandle, WorkerAt, WorkerStates
<1>11. ASSUME NEW c \in Threads, NEW t \in Tasks, NEW r \in Requests,
              Submit(c, t, r)
       PROVE  TypeOK'
  <2>1. taskList' \in Seq(Tasks)
    BY <1>11, TaskSeq DEF Submit
  <2> QED
    BY <1>11, <2>1 DEF Submit, ThreadAt, ThreadStates, Inside
<1>12. ASSUME NEW c \in Threads, ThreadStep(c)
       PROVE  TypeOK'
  <2>1. CASE ActivateWorker(c)
    BY <2>1 DEF ActivateWorker, Activate, ThreadAt, ThreadStates, Inside
  <2>2. CASE Wait(c)
    BY <2>2 DEF Wait, ThreadAt, ThreadStates, Inside
  <2>3. CASE Return(c)
    BY <2>3 DEF Return, ThreadAt, ThreadStates, Inside
  <2>4. CASE Reacquire(c)
    BY <2>4 DEF Reacquire, ThreadAt, ThreadStates, Inside
  <2>5. CASE GiveUp(c)
    BY <2>5 DEF GiveUp, ThreadAt, ThreadStates, Inside
  <2>6. CASE KillSignal(c)
    BY <2>6 DEF KillSignal, Activate, ThreadAt, ThreadStates, Inside
  <2>7. CASE Join(c)
    BY <2>7 DEF Join, KillReturns, ThreadAt, ThreadStates, Inside
  <2> QED
    BY <1>12, <2>1, <2>2, <2>3, <2>4, <2>5, <2>6, <2>7 DEF ThreadStep
<1>13. ASSUME NEW c \in Threads, Unblock(c) \/ Kill(c) \/ JoinInterrupted(c)
       PROVE  TypeOK'
  <2>1. CASE Unblock(c)
    BY <2>1 DEF Unblock, ThreadAt, ThreadStates, Inside
  <2>2. CASE Kill(c)
    BY <2>2 DEF Kill, ThreadAt, ThreadStates, Inside
  <2>3. CASE JoinInterrupted(c)
    BY <2>3 DEF JoinInterrupted, KillReturns, ThreadAt, ThreadStates, Inside
  <2> QED
    BY <1>13, <2>1, <2>2, <2>3
<1>14. ASSUME NEW o \in Objects,
              NewWrapper(o) \/ NestedDispose(o) \/ Drop(o) \/ Enqueue(o)
       PROVE  TypeOK'
  <2>1. CASE NewWrapper(o)
    BY <2>1 DEF NewWrapper
  <2>2. CASE NestedDispose(o)
    BY <2>2, ReleaseNativeType DEF NestedDispose, Dispose0
  <2>3. CASE Drop(o)
    BY <2>3 DEF Drop
  <2>4. CASE Enqueue(o)
    BY <2>4 DEF Enqueue
  <2> QED
    BY <1>14, <2>1, <2>2, <2>3, <2>4
<1>15. CASE FlushFreeList
  BY <1>15 DEF FlushFreeList, Activate
<1>16. CASE PeerExits
  BY <1>16 DEF PeerExits, ThreadAt, ThreadStates, Inside
<1>17. CASE UNCHANGED vars
  BY <1>17 DEF vars
<1> QED
  BY <1>1, <1>2, <1>3, <1>4, <1>5, <1>6, <1>7, <1>8, <1>9, <1>10, <1>11,
     <1>12, <1>13, <1>14, <1>15, <1>16, <1>17
     DEF Next, WorkerStep, Environment

\* Every reachable state of the worker, its tasks, threads and wrappers has
\* the types of TypeOK.
THEOREM TypeCorrect == Spec => []TypeOK
  BY InitType, NextType, PTL DEF Spec

(***************************************************************************)
(* COM pointers: who releases them, and how often.                         *)
(***************************************************************************)

\* The release counter of a reference follows its pointer.
CountFollowsPtr ==
  \A o \in Objects : releases[o] = IF ptr[o] = "zero" THEN 1 ELSE 0

PtrInv == CountFollowsPtr /\ HeldIsTracked

\* The steps that touch pointers or liveComObjects.
PtrStep ==
  \/ Collect
  \/ Clobber
  \/ \E r \in {"result", "exception"} : EndInvoke(r)
  \/ \E o \in Objects : NewWrapper(o) \/ NestedDispose(o)

\* All other steps leave them alone.
LEMMA PtrFrame ==
  ASSUME [Next]_vars, ~PtrStep
  PROVE  UNCHANGED <<ptr, releases, live>>
<1> USE DEF objectVars
<1>1. CASE WorkerStep
  BY <1>1 DEF WorkerStep, PtrStep, TestExit, WakeUp, TakeTask, TasksDrained,
              BeginInvoke, ActivateSelf, CloseHandle
<1>2. ASSUME NEW c \in Threads, ThreadStep(c)
      PROVE  UNCHANGED <<ptr, releases, live>>
  BY <1>2 DEF ThreadStep, ActivateWorker, Wait, Return, Reacquire, GiveUp,
              KillSignal, Join, KillReturns
<1>3. CASE Environment
  BY <1>3 DEF Environment, PtrStep, Submit, Unblock, Kill, JoinInterrupted,
              KillReturns, Drop, Enqueue, refVars, FlushFreeList, PeerExits
<1>4. CASE UNCHANGED vars
  BY <1>4 DEF vars
<1> QED
  BY <1>1, <1>2, <1>3, <1>4 DEF Next

\* Releasing a set of references keeps counter and pointer together and
\* leaves none of the set held.
LEMMA ReleaseNativeCounts ==
  ASSUME NEW S, TypeOK, CountFollowsPtr, ReleaseNative(S)
  PROVE  /\ CountFollowsPtr'
         /\ \A o \in Objects : ptr'[o] = "held" => ptr[o] = "held" /\ o \notin S
  BY DEF TypeOK, CountFollowsPtr, ReleaseNative

\* releaseNative() runs with a pointer that is not zero, and sets it to zero.
LEMMA PtrInductive == TypeOK /\ PtrInv /\ [Next]_vars => PtrInv'
<1> SUFFICES ASSUME TypeOK, PtrInv, [Next]_vars PROVE PtrInv'
  OBVIOUS
<1> USE DEF PtrInv, HeldIsTracked
<1>1. CASE ~PtrStep
  BY <1>1, PtrFrame DEF CountFollowsPtr
<1>2. CASE Collect
  BY <1>2, ReleaseNativeCounts DEF Collect, CollectGarbage
<1>3. CASE Clobber
  BY <1>3, ReleaseNativeCounts DEF Clobber
<1>4. ASSUME NEW r \in {"result", "exception"}, EndInvoke(r)
      PROVE  PtrInv'
  <2>1. CASE req[serving].op = "dispose"
    BY <1>4, <2>1, ReleaseNativeCounts DEF EndInvoke, Dispose0
  <2>2. CASE req[serving].op # "dispose"
    BY <1>4, <2>2 DEF EndInvoke, CountFollowsPtr
  <2> QED
    BY <2>1, <2>2
<1>5. ASSUME NEW o \in Objects, NewWrapper(o)
      PROVE  PtrInv'
  BY <1>5 DEF NewWrapper, CountFollowsPtr, TypeOK
<1>6. ASSUME NEW o \in Objects, NestedDispose(o)
      PROVE  PtrInv'
  BY <1>6, ReleaseNativeCounts DEF NestedDispose, Dispose0
<1> QED
  BY <1>1, <1>2, <1>3, <1>4, <1>5, <1>6 DEF PtrStep

LEMMA PtrAlways == Spec => []PtrInv
<1>1. Init => PtrInv
  BY DEF Init, PtrInv, CountFollowsPtr, HeldIsTracked
<1> QED
  BY <1>1, PtrInductive, TypeCorrect, PTL DEF Spec

\* However dispose(), the collector and the end of the worker meet on a
\* wrapper, its COM pointer is released once at most.
THEOREM PointersReleasedOnce == Spec => []ReleasedOnce
<1>1. PtrInv => ReleasedOnce
  BY DEF PtrInv, CountFollowsPtr, ReleasedOnce
<1> QED
  BY <1>1, PtrAlways, PTL

\* A COM pointer that is not released yet is that of a wrapper which is still
\* in liveComObjects, so that the end of the worker finds it.
THEOREM PointersAreTracked == Spec => []HeldIsTracked
<1>1. PtrInv => HeldIsTracked
  BY DEF PtrInv
<1> QED
  BY <1>1, PtrAlways, PTL

(***************************************************************************)
(* Who keeps the worker alive.                                             *)
(*                                                                         *)
(* The worker may leave its loop once its peer is dead and liveComObjects  *)
(* is empty.  That strands nobody because everything a thread or a task    *)
(* refers to is in liveComObjects and not yet enqueued (RootsAreLive),     *)
(* and a task without a wrapper comes from the peer (OwnTasksAreThePeers), *)
(* which is why an EventCookie in another thread's hands breaks it.        *)
(***************************************************************************)

RootsAreLive == ~die => Roots \cap Objects \subseteq live \ collectable

LiveIsCreated == \A o \in live \cup collectable : ptr[o] # "none"

ExitsWhenAlone ==
  wpc \in Exiting /\ ~die => live = {} /\ pc[Peer] = "exited"

RootsInv == RootsAreLive /\ LiveIsCreated /\ ExitsWhenAlone

OwnTasksAreThePeers ==
  \A c \in Threads : pc[c] \in Inside /\ req[cur[c]].obj = None => c = Peer

\* Queued after a task is appended, and after the first one is removed.
LEMMA QueuedAppend ==
  ASSUME TypeOK, NEW t \in Tasks, taskList' = Append(taskList, t)
  PROVE  Queued' = Queued \cup {t}
<1>1. /\ DOMAIN taskList' = 1 .. Len(taskList) + 1
      /\ DOMAIN taskList = 1 .. Len(taskList)
      /\ Len(taskList) \in Nat
      /\ \A i \in 1 .. Len(taskList) : taskList'[i] = taskList[i]
      /\ taskList'[Len(taskList) + 1] = t
  BY DEF TypeOK
<1> QED
  BY <1>1 DEF Queued

\* What is left of taskList after its first task has been removed.
LEMMA QueuedTail ==
  ASSUME TypeOK, taskList # <<>>, taskList' = Tail(taskList)
  PROVE  /\ Queued' \subseteq Queued
         /\ Head(taskList) \in Queued
<1>1. /\ DOMAIN taskList' = 1 .. Len(taskList) - 1
      /\ DOMAIN taskList = 1 .. Len(taskList)
      /\ Len(taskList) \in Nat \ {0}
      /\ \A i \in 1 .. Len(taskList) - 1 : taskList'[i] = taskList[i + 1]
      /\ Head(taskList) = taskList[1]
  BY DEF TypeOK
<1> QED
  BY <1>1 DEF Queued

\* Except for a submission, no step puts a task to use or changes a request.
LEMMA UseShrinks ==
  ASSUME TypeOK, [Next]_vars,
         ~\E c \in Threads, t \in Tasks, r \in Requests : Submit(c, t, r)
  PROVE  /\ req' = req
         /\ InUse' \subseteq InUse \cup {None}
<1> USE DEF taskVars, threadVars, workerVars, InUse
<1>1. CASE TakeTask
  <2>1. Queued' \subseteq Queued /\ serving' \in Queued
    BY <1>1, QueuedTail DEF TakeTask
  <2> QED
    BY <1>1, <2>1 DEF TakeTask
<1>2. ASSUME NEW r \in {"result", "exception"}, EndInvoke(r)
      PROVE  req' = req /\ InUse' \subseteq InUse \cup {None}
  BY <1>2 DEF EndInvoke, Queued
<1>3. ASSUME NEW c \in Threads, Return(c) \/ GiveUp(c)
      PROVE  req' = req /\ InUse' \subseteq InUse \cup {None}
  BY <1>3 DEF Return, GiveUp, Queued, TypeOK
<1>4. ASSUME UNCHANGED <<req, taskList, serving, cur>>
      PROVE  req' = req /\ InUse' \subseteq InUse \cup {None}
  BY <1>4 DEF Queued
<1>5. CASE WorkerStep
  <2>1. \/ TakeTask
        \/ \E r \in {"result", "exception"} : EndInvoke(r)
        \/ UNCHANGED <<req, taskList, serving, cur>>
    BY <1>5 DEF WorkerStep, TestExit, WakeUp, Collect, TasksDrained,
                BeginInvoke, ActivateSelf, Clobber, CloseHandle
  <2> QED
    BY <2>1, <1>1, <1>2, <1>4
<1>6. ASSUME NEW c \in Threads, ThreadStep(c)
      PROVE  req' = req /\ InUse' \subseteq InUse \cup {None}
  <2>1. Return(c) \/ GiveUp(c) \/ UNCHANGED <<req, taskList, serving, cur>>
    BY <1>6 DEF ThreadStep, ActivateWorker, Wait, Reacquire, KillSignal, Join,
                KillReturns
  <2> QED
    BY <2>1, <1>3, <1>4
<1>7. CASE Environment
  <2>1. UNCHANGED <<req, taskList, serving, cur>>
    BY <1>7 DEF Environment, Unblock, Kill, JoinInterrupted, KillReturns,
                NewWrapper, NestedDispose, Drop, Enqueue, FlushFreeList,
                PeerExits
  <2> QED
    BY <2>1, <1>4
<1>8. CASE UNCHANGED vars
  BY <1>8, <1>4 DEF vars
<1> QED
  BY <1>5, <1>6, <1>7, <1>8 DEF Next

\* A submission adds no root: the thread already referred to the wrapper.
LEMMA SubmitRoots ==
  ASSUME TypeOK, NEW c \in Threads, NEW t \in Tasks, NEW r \in Requests,
         Submit(c, t, r)
  PROVE  /\ Roots' \subseteq Roots \cup {None}
         /\ \A u \in InUse \cap Tasks : req'[u] = req[u]
<1>1. Queued' = Queued \cup {t}
  BY QueuedAppend DEF Submit
<1>2. InUse' \subseteq InUse \cup {t}
  BY <1>1 DEF Submit, InUse, workerVars, TypeOK
<1>3. \A u \in InUse \cap Tasks : req'[u] = req[u]
  BY DEF Submit, TypeOK
<1>4. req'[t].obj \in reachable \cup {None} /\ reachable' = reachable
  BY DEF Submit, MaySubmit, TypeOK, objectVars
<1> QED
  BY <1>2, <1>3, <1>4 DEF Roots

\* Every other step leaves of the roots what Java code still refers to.
LEMMA OtherRoots ==
  ASSUME TypeOK, [Next]_vars,
         ~\E c \in Threads, t \in Tasks, r \in Requests : Submit(c, t, r)
  PROVE  Roots' \subseteq Roots \cup reachable'
  BY UseShrinks, NoneAssumption DEF Roots

\* What the steps that concern neither wrappers, the worker's exit nor the
\* peer's life leave alone.
RootsStep ==
  \/ PtrStep \/ TestExit \/ CloseHandle \/ PeerExits
  \/ \E c \in Threads, t \in Tasks, r \in Requests : Submit(c, t, r)
  \/ \E o \in Objects : Drop(o) \/ Enqueue(o)

\* Steps that leave the wrappers and their registration alone and refer to no
\* further ones keep the invariant about those referred to.
LEMMA RootsFrame ==
  ASSUME TypeOK, [Next]_vars, ~RootsStep
  PROVE  /\ UNCHANGED <<live, collectable, ptr, reachable>>
         /\ die => die'
         /\ wpc' \in Exiting <=> wpc \in Exiting
         /\ pc[Peer] = "exited" => pc'[Peer] = "exited"
<1> USE ThreadsAssumption
    DEF objectVars, refVars, workerVars, threadVars, WorkerAt, ThreadAt,
        Exiting, TypeOK
<1>1. CASE WorkerStep
  BY <1>1 DEF WorkerStep, RootsStep, PtrStep, WakeUp, TakeTask, TasksDrained,
              BeginInvoke, ActivateSelf
<1>2. ASSUME NEW c \in Threads, ThreadStep(c)
      PROVE  /\ UNCHANGED <<live, collectable, ptr, reachable, wpc, die>>
             /\ pc[Peer] = "exited" => pc'[Peer] = "exited"
  BY <1>2 DEF ThreadStep, ActivateWorker, Wait, Return, Reacquire, GiveUp,
              KillSignal, Join, KillReturns
<1>3. CASE Environment
  BY <1>3 DEF Environment, RootsStep, PtrStep, Unblock, Kill,
              JoinInterrupted, KillReturns, FlushFreeList
<1>4. CASE UNCHANGED vars
  BY <1>4 DEF vars
<1> QED
  BY <1>1, <1>2, <1>3, <1>4 DEF Next

\* Every step keeps what is known of the wrappers referred to.
LEMMA RootsInductive == TypeOK /\ RootsInv /\ [Next]_vars => RootsInv'
<1> SUFFICES ASSUME TypeOK, RootsInv, [Next]_vars PROVE RootsInv'
  OBVIOUS
<1> USE NoneAssumption
    DEF RootsInv, RootsAreLive, LiveIsCreated, ExitsWhenAlone
<1>1. ASSUME NEW c \in Threads, NEW t \in Tasks, NEW r \in Requests,
             Submit(c, t, r)
      PROVE  RootsInv'
  <2>1. UNCHANGED <<live, collectable, ptr, die, wpc>>
    BY <1>1 DEF Submit, workerVars, objectVars
  <2>2. pc[Peer] = "exited" => pc'[Peer] = "exited"
    BY <1>1, ThreadsAssumption DEF Submit, ThreadAt, TypeOK
  <2> QED
    BY <1>1, <2>1, <2>2, SubmitRoots
<1>2. ASSUME ~\E c \in Threads, t \in Tasks, r \in Requests : Submit(c, t, r)
      PROVE  RootsInv'
  <2> USE DEF workerVars, objectVars, refVars, threadVars
  <2>1. Roots' \subseteq Roots \cup reachable' /\ reachable \subseteq Roots
    BY <1>2, OtherRoots DEF Roots
  <2>2. CASE ~RootsStep
    BY <2>1, <2>2, RootsFrame
  <2>3. CASE Collect
    BY <2>1, <2>3 DEF Collect, CollectGarbage, ReleaseNative, Exiting,
                      WorkerAt, TypeOK
  <2>4. CASE Clobber
    BY <2>1, <2>4 DEF Clobber, ReleaseNative, Exiting, WorkerAt, TypeOK
  <2>5. ASSUME NEW r \in {"result", "exception"}, EndInvoke(r)
        PROVE  RootsInv'
    <3>1. UNCHANGED <<live, collectable, reachable, die>>
      BY <2>5 DEF EndInvoke
    <3>2. \A o \in Objects : ptr[o] # "none" => ptr'[o] # "none"
      BY <2>5 DEF EndInvoke, Dispose0, ReleaseNative
    <3>3. wpc' \notin Exiting
      BY <2>5 DEF EndInvoke, WorkerAt, Exiting
    <3> QED
      BY <2>1, <3>1, <3>2, <3>3 DEF TypeOK
  <2>6. ASSUME NEW o \in Objects, NewWrapper(o)
        PROVE  RootsInv'
    BY <2>1, <2>6 DEF NewWrapper, RunsCode, Exiting, TypeOK
  <2>7. ASSUME NEW o \in Objects, NestedDispose(o)
        PROVE  RootsInv'
    <3>1. UNCHANGED <<live, collectable, reachable, die, wpc, pc>>
      BY <2>7 DEF NestedDispose
    <3>2. \A x \in Objects : ptr[x] # "none" => ptr'[x] # "none"
      BY <2>7 DEF NestedDispose, Dispose0, ReleaseNative
    <3> QED
      BY <2>1, <3>1, <3>2 DEF TypeOK
  <2>8. CASE TestExit
    BY <2>1, <2>8 DEF TestExit, CanExit, Exiting
  <2>9. CASE CloseHandle
    BY <2>1, <2>9 DEF CloseHandle, Exiting, WorkerAt
  <2>10. CASE PeerExits
    BY <2>1, <2>10, ThreadsAssumption DEF PeerExits, ThreadAt, TypeOK
  <2>11. ASSUME NEW o \in Objects, Drop(o)
         PROVE  RootsInv'
    BY <2>1, <2>11 DEF Drop
  <2>12. ASSUME NEW o \in Objects, Enqueue(o)
         PROVE  RootsInv'
    BY <2>1, <2>12 DEF Enqueue
  <2> QED
    BY <1>2, <2>2, <2>3, <2>4, <2>5, <2>6, <2>7, <2>8, <2>9, <2>10, <2>11,
       <2>12 DEF RootsStep, PtrStep
<1> QED
  BY <1>1, <1>2

\* RootsInv holds in every reachable state.
LEMMA RootsAlways == Spec => []RootsInv
<1>1. ASSUME Init PROVE RootsInv
  <2>1. InUse \cap Tasks = {}
    BY <1>1, NoneAssumption DEF Init, InUse, Queued
  <2> QED
    BY <1>1, <2>1 DEF Init, RootsInv, RootsAreLive, LiveIsCreated,
                      ExitsWhenAlone, Roots, Exiting
<1> QED
  BY <1>1, RootsInductive, TypeCorrect, PTL DEF Spec

\* Without a cookie, a task that holds no wrapper was submitted by the peer.
LEMMA OwnTasksInductive ==
  ASSUME CookieHolders = {}
  PROVE  TypeOK /\ OwnTasksAreThePeers /\ [Next]_vars => OwnTasksAreThePeers'
<1> SUFFICES ASSUME TypeOK, OwnTasksAreThePeers, [Next]_vars
             PROVE  OwnTasksAreThePeers'
  OBVIOUS
<1> USE DEF OwnTasksAreThePeers
<1>1. ASSUME NEW c \in Threads, NEW t \in Tasks, NEW r \in Requests,
             Submit(c, t, r)
      PROVE  OwnTasksAreThePeers'
  <2>1. r.obj = None => c = Peer
    BY <1>1 DEF Submit, MaySubmit
  <2>2. \A d \in Threads \ {c} :
          cur'[d] = cur[d] /\ pc'[d] = pc[d] /\ cur[d] # t
    BY <1>1 DEF Submit, ThreadAt, InUse, TypeOK
  <2>3. \A u \in Tasks \ {t} : req'[u] = req[u]
    BY <1>1 DEF Submit, TypeOK
  <2>4. cur'[c] = t /\ req'[t] = r
    BY <1>1 DEF Submit, TypeOK
  <2>5. SUFFICES ASSUME NEW d \in Threads, pc'[d] \in Inside, req'[cur'[d]].obj = None
                 PROVE  d = Peer
    OBVIOUS
  <2>6. CASE d = c
    BY <2>1, <2>4, <2>5, <2>6
  <2>7. CASE d # c
    <3>1. cur'[d] = cur[d] /\ pc'[d] = pc[d] /\ cur[d] # t
      BY <2>2, <2>7
    <3>2. cur[d] \in Tasks
      BY <2>5, <3>1 DEF TypeOK, Inside
    <3>3. req'[cur[d]] = req[cur[d]]
      BY <3>1, <3>2, <2>3
    <3> QED
      BY <2>5, <3>1, <3>3
  <2> QED
    BY <2>6, <2>7
<1>2. ASSUME ~\E c \in Threads, t \in Tasks, r \in Requests : Submit(c, t, r)
      PROVE  OwnTasksAreThePeers'
  <2>1. req' = req
    BY <1>2, UseShrinks
  <2>2. \A c \in Threads : pc'[c] \in Inside =>
                             pc[c] \in Inside /\ cur'[c] = cur[c]
    <3> USE DEF threadVars, Inside, ThreadAt, TypeOK
    <3>1. CASE WorkerStep
      BY <3>1 DEF WorkerStep, TestExit, WakeUp, Collect, TakeTask,
                  TasksDrained, BeginInvoke, EndInvoke, ActivateSelf, Clobber,
                  CloseHandle
    <3>2. ASSUME NEW c \in Threads, ThreadStep(c)
          PROVE  \A d \in Threads : pc'[d] \in Inside =>
                                      pc[d] \in Inside /\ cur'[d] = cur[d]
      BY <3>2 DEF ThreadStep, ActivateWorker, Wait, Return, Reacquire, GiveUp,
                  KillSignal, Join, KillReturns
    <3>3. CASE Environment
      BY <1>2, <3>3, ThreadsAssumption
         DEF Environment, Unblock, Kill, JoinInterrupted, KillReturns,
             NewWrapper, NestedDispose, Drop, Enqueue, FlushFreeList, PeerExits
    <3>4. CASE UNCHANGED vars
      BY <3>4 DEF vars
    <3> QED
      BY <3>1, <3>2, <3>3, <3>4 DEF Next
  <2> QED
    BY <2>1, <2>2
<1> QED
  BY <1>1, <1>2

\* When nobody holds an event cookie, a worker that leaves its loop without
\* having been killed leaves no wrapper Java code can call and no thread that
\* waits for one of its tasks.
THEOREM NaturalDeathIsSafe ==
  ASSUME CookieHolders = {}
  PROVE  Spec => []NaturalDeathStrandsNobody
<1>1. Init => OwnTasksAreThePeers
  BY DEF Init, OwnTasksAreThePeers, Inside
<1>2. TypeOK /\ RootsInv /\ OwnTasksAreThePeers => NaturalDeathStrandsNobody
  <2> SUFFICES ASSUME TypeOK, RootsInv, OwnTasksAreThePeers,
                      wpc \in Exiting, ~die
               PROVE  /\ reachable = {}
                      /\ \A c \in Threads : pc[c] \notin Inside
    BY DEF NaturalDeathStrandsNobody
  <2>1. Roots \cap Objects = {} /\ pc[Peer] = "exited"
    BY DEF RootsInv, RootsAreLive, ExitsWhenAlone
  <2>2. ASSUME NEW c \in Threads, pc[c] \in Inside
        PROVE  FALSE
    <3>1. cur[c] \in InUse \cap Tasks
      BY <2>2 DEF TypeOK, InUse
    <3>2. req[cur[c]].obj \in Objects \cup {None}
      BY <3>1 DEF TypeOK, Requests
    <3>3. req[cur[c]].obj = None
      BY <2>1, <3>1, <3>2 DEF Roots
    <3> QED
      BY <2>1, <2>2, <3>3 DEF OwnTasksAreThePeers, Inside
  <2> QED
    BY <2>1, <2>2 DEF Roots, TypeOK
<1> QED
  BY <1>1, <1>2, OwnTasksInductive, RootsAlways, TypeCorrect, PTL DEF Spec

\* Only dispose() and a kill take the pointer of a wrapper that Java code or
\* a task still refers to.
LEMMA NotPulledAwayInductive ==
  TypeOK /\ RootsInv /\ NotPulledAway /\ [Next]_vars => NotPulledAway'
<1> SUFFICES ASSUME TypeOK, RootsInv, NotPulledAway, [Next]_vars,
                    NEW o \in Roots' \cap Objects, ptr'[o] = "zero"
             PROVE  o \in disposed' \/ die'
  BY DEF NotPulledAway
<1> USE NoneAssumption
<1>1. /\ die => die'
      /\ disposed \subseteq disposed'
  <2> USE DEF workerVars, objectVars
  <2>1. CASE WorkerStep
    BY <2>1 DEF WorkerStep, TestExit, WakeUp, Collect, TakeTask, TasksDrained,
                BeginInvoke, EndInvoke, Dispose0, ActivateSelf, Clobber,
                CloseHandle
  <2>2. ASSUME NEW c \in Threads, ThreadStep(c)
        PROVE  (die => die') /\ disposed \subseteq disposed'
    BY <2>2 DEF ThreadStep, ActivateWorker, Wait, Return, Reacquire, GiveUp,
                KillSignal, Join, KillReturns
  <2>3. CASE Environment
    <3>1. ASSUME NEW x \in Objects,
                 NewWrapper(x) \/ NestedDispose(x) \/ Drop(x) \/ Enqueue(x)
          PROVE  die' = die /\ disposed \subseteq disposed'
      BY <3>1 DEF NewWrapper, NestedDispose, Dispose0, Drop, Enqueue
    <3>2. ASSUME NEW c \in Threads,
                 Unblock(c) \/ Kill(c) \/ JoinInterrupted(c)
          PROVE  (die => die') /\ disposed' = disposed
      BY <3>2 DEF Unblock, Kill, JoinInterrupted, KillReturns
    <3> QED
      BY <2>3, <3>1, <3>2 DEF Environment, Submit, FlushFreeList, PeerExits
  <2>4. CASE UNCHANGED vars
    BY <2>4 DEF vars
  <2> QED
    BY <2>1, <2>2, <2>3, <2>4 DEF Next
<1>2. o \in Roots \/ \E x \in Objects : NewWrapper(x) /\ o = x
  <2>1. CASE \E c \in Threads, t \in Tasks, r \in Requests : Submit(c, t, r)
    BY <2>1, SubmitRoots
  <2>2. CASE ~\E c \in Threads, t \in Tasks, r \in Requests : Submit(c, t, r)
    <3>1. reachable' \subseteq reachable \/ \E x \in Objects : NewWrapper(x)
      <4> USE DEF objectVars
      <4>1. CASE WorkerStep
        BY <4>1 DEF WorkerStep, TestExit, WakeUp, Collect, TakeTask,
                    TasksDrained, BeginInvoke, EndInvoke, ActivateSelf,
                    Clobber, CloseHandle
      <4>2. ASSUME NEW c \in Threads, ThreadStep(c)
            PROVE  reachable' = reachable
        BY <4>2 DEF ThreadStep, ActivateWorker, Wait, Return, Reacquire,
                    GiveUp, KillSignal, Join, KillReturns
      <4>3. CASE Environment
        BY <2>2, <4>3 DEF Environment, Unblock, Kill, JoinInterrupted,
                    KillReturns, NestedDispose, Drop, Enqueue, FlushFreeList,
                    PeerExits
      <4>4. CASE UNCHANGED vars
        BY <4>4 DEF vars
      <4> QED
        BY <4>1, <4>2, <4>3, <4>4 DEF Next
    <3>2. \A x \in Objects : NewWrapper(x) => reachable' = reachable \cup {x}
      BY DEF NewWrapper
    <3> QED
      BY <2>2, <3>1, <3>2, OtherRoots DEF Roots
  <2> QED
    BY <2>1, <2>2
<1>3. ASSUME NEW x \in Objects, NewWrapper(x)
      PROVE  ptr'[x] = "held"
  BY <1>3 DEF NewWrapper, TypeOK
<1>4. CASE o \in Roots /\ ptr[o] = "zero"
  BY <1>1, <1>4 DEF NotPulledAway
<1>5. CASE o \in Roots /\ ptr[o] # "zero"
  <2>1. PtrStep
    BY <1>5, PtrFrame
  <2>2. CASE Collect
    BY <1>1, <1>5, <2>2
       DEF Collect, CollectGarbage, ReleaseNative, RootsInv, RootsAreLive
  <2>3. CASE Clobber
    BY <1>1, <1>5, <2>3
       DEF Clobber, WorkerAt, Exiting, ReleaseNative, RootsInv, RootsAreLive,
           ExitsWhenAlone
  <2>4. ASSUME NEW r \in {"result", "exception"}, EndInvoke(r)
        PROVE  o \in disposed'
    BY <1>5, <2>4 DEF EndInvoke, Dispose0, ReleaseNative
  <2>5. ASSUME NEW x \in Objects, NewWrapper(x) \/ NestedDispose(x)
        PROVE  o \in disposed'
    BY <1>5, <2>5 DEF NewWrapper, NestedDispose, Dispose0, ReleaseNative, TypeOK
  <2> QED
    BY <2>1, <2>2, <2>3, <2>4, <2>5 DEF PtrStep
<1> QED
  BY <1>2, <1>3, <1>4, <1>5

\* collectGarbage() takes no pointer of a wrapper somebody still refers to: what
\* is not there any more has been disposed of or killed.
THEOREM GarbageCollectionIsSafe == Spec => []NotPulledAway
<1>1. Init => NotPulledAway
  BY DEF Init, NotPulledAway
<1> QED
  BY <1>1, NotPulledAwayInductive, RootsAlways, TypeCorrect, PTL DEF Spec

(***************************************************************************)
(* The wake-up protocol.                                                   *)
(***************************************************************************)

\* The event counts from the moment the worker has seen taskList empty, and
\* its handle is open as long as the worker can sleep on it.
WakeInv ==
  /\ wpc # "dead" => handle = "open"
  /\ wpc \in {"top", "suspend"} /\ taskList # <<>> =>
       event \/ \E c \in Threads : pc[c] = "activate"
  /\ wpc = "suspend" /\ die =>
       event \/ \E c \in Threads : pc[c] = "killSignal"

\* Every step keeps the promise of a wake-up, wherever the worker is on its way
\* to suspend().
LEMMA WakeInductive == TypeOK /\ WakeInv /\ [Next]_vars => WakeInv'
<1> SUFFICES ASSUME TypeOK, WakeInv, [Next]_vars PROVE WakeInv'
  OBVIOUS
<1> USE DEF WakeInv, workerVars, threadVars
<1>1. CASE WorkerStep
  <2>1. CASE TestExit
    BY <2>1 DEF TestExit, CanExit
  <2>2. CASE \E r \in {"result", "exception"} : EndInvoke(r)
    BY <2>2 DEF EndInvoke, WorkerAt
  <2> QED
    BY <1>1, <2>1, <2>2
       DEF WorkerStep, WakeUp, Collect, TakeTask, TasksDrained, BeginInvoke,
           ActivateSelf, Clobber, CloseHandle, WorkerAt
<1>2. ASSUME NEW c \in Threads, NEW t \in Tasks, NEW r \in Requests,
             Submit(c, t, r)
      PROVE  WakeInv'
  <2>1. pc'[c] = "activate" /\ pc[c] = "idle"
    BY <1>2 DEF Submit, ThreadAt, TypeOK
  <2>2. \A d \in Threads : pc[d] = "killSignal" => pc'[d] = "killSignal"
    BY <1>2 DEF Submit, ThreadAt, TypeOK
  <2> QED
    BY <1>2, <2>1, <2>2 DEF Submit
<1>3. ASSUME NEW c \in Threads, ActivateWorker(c) \/ KillSignal(c)
      PROVE  WakeInv'
  BY <1>3 DEF ActivateWorker, KillSignal, Activate
<1>4. ASSUME NEW c \in Threads, Kill(c)
      PROVE  WakeInv'
  <2>1. /\ pc'[c] = "killSignal"
        /\ \A d \in Threads : pc[d] = "activate" => pc'[d] = "activate"
    BY <1>4 DEF Kill, ThreadAt, TypeOK
  <2> QED
    BY <1>4, <2>1 DEF Kill
<1>5. ASSUME UNCHANGED <<wpc, die, event, handle, taskList>>,
             \A d \in Threads :
               pc[d] \in {"activate", "killSignal"} => pc'[d] = pc[d]
      PROVE  WakeInv'
  BY <1>5
<1>6. ASSUME NEW c \in Threads,
             \/ Wait(c) \/ Return(c) \/ Reacquire(c) \/ GiveUp(c) \/ Join(c)
             \/ Unblock(c) \/ JoinInterrupted(c)
      PROVE  WakeInv'
  <2>1. \A d \in Threads :
          pc[d] \in {"activate", "killSignal"} => pc'[d] = pc[d]
    BY <1>6 DEF Wait, Return, Reacquire, GiveUp, Join, Unblock,
                JoinInterrupted, KillReturns, ThreadAt, TypeOK
  <2>2. UNCHANGED <<wpc, die, event, handle, taskList>>
    BY <1>6 DEF Wait, Return, Reacquire, GiveUp, Join, Unblock,
                JoinInterrupted, KillReturns
  <2> QED
    BY <1>5, <2>1, <2>2
<1>7. ASSUME NEW o \in Objects,
             NewWrapper(o) \/ NestedDispose(o) \/ Drop(o) \/ Enqueue(o)
      PROVE  WakeInv'
  BY <1>7, <1>5 DEF NewWrapper, NestedDispose, Drop, Enqueue
<1>8. CASE FlushFreeList
  BY <1>8 DEF FlushFreeList, Activate
<1>9. CASE PeerExits
  BY <1>9, <1>5 DEF PeerExits, ThreadAt, TypeOK
<1>10. CASE UNCHANGED vars
  BY <1>10, <1>5 DEF vars
<1> QED
  BY <1>1, <1>2, <1>3, <1>4, <1>6, <1>7, <1>8, <1>9, <1>10
     DEF Next, ThreadStep, Environment

\* A worker asleep with work to do or a kill to obey is about to be woken by
\* its event, not by the timeout.
THEOREM WakeUpsAreNotLost == Spec => []NoLostWakeup
<1>1. Init => WakeInv
  BY DEF Init, WakeInv
<1>2. WakeInv => NoLostWakeup
  BY DEF WakeInv, NoLostWakeup
<1> QED
  BY <1>1, <1>2, WakeInductive, TypeCorrect, PTL DEF Spec

(***************************************************************************)
(* ComThreadMulti implements TaskService.                                  *)
(***************************************************************************)

\* A task is executed by one thread at a time, and one that is done has an
\* outcome for the thread that executes it.
AnswerInv ==
  /\ \A c, d \in Threads : cur[c] = cur[d] /\ cur[c] # None => c = d
  /\ \A c \in Threads :
       cur[c] # None /\ done[cur[c]] => outcome[cur[c]] # "none"

\* Most steps leave tasks and callers alone.
LEMMA AnswerFrame ==
  ASSUME [Next]_vars,
         ~\E r \in {"result", "exception"} : EndInvoke(r),
         ~\E c \in Threads, t \in Tasks, r \in Requests : Submit(c, t, r),
         ~\E c \in Threads : Return(c) \/ GiveUp(c)
  PROVE  UNCHANGED <<cur, done, outcome>>
<1> USE DEF taskVars, threadVars
<1>1. CASE WorkerStep
  BY <1>1 DEF WorkerStep, TestExit, WakeUp, Collect, TakeTask, TasksDrained,
              BeginInvoke, ActivateSelf, Clobber, CloseHandle
<1>2. ASSUME NEW c \in Threads, ThreadStep(c)
      PROVE  UNCHANGED <<cur, done, outcome>>
  BY <1>2 DEF ThreadStep, ActivateWorker, Wait, Reacquire, KillSignal, Join,
              KillReturns
<1>3. CASE Environment
  BY <1>3 DEF Environment, Unblock, Kill, JoinInterrupted, KillReturns,
              NewWrapper, NestedDispose, Drop, Enqueue, FlushFreeList,
              PeerExits
<1>4. CASE UNCHANGED vars
  BY <1>4 DEF vars
<1> QED
  BY <1>1, <1>2, <1>3, <1>4 DEF Next

\* Every step keeps outcomes and done of the tasks together.
LEMMA AnswerInductive == TypeOK /\ AnswerInv /\ [Next]_vars => AnswerInv'
<1> SUFFICES ASSUME TypeOK, AnswerInv, [Next]_vars PROVE AnswerInv'
  OBVIOUS
<1> USE NoneAssumption DEF AnswerInv
<1>1. ASSUME NEW r \in {"result", "exception"}, EndInvoke(r)
      PROVE  AnswerInv'
  BY <1>1 DEF EndInvoke, TypeOK
<1>2. ASSUME NEW c \in Threads, NEW t \in Tasks, NEW r \in Requests,
             Submit(c, t, r)
      PROVE  AnswerInv'
  <2>1. \A d \in Threads \ {c} : cur'[d] = cur[d] /\ cur[d] # t
    BY <1>2 DEF Submit, InUse, TypeOK
  <2>2. cur'[c] = t /\ ~done'[t]
    BY <1>2 DEF Submit, TypeOK
  <2>3. \A u \in Tasks \ {t} : done'[u] = done[u] /\ outcome'[u] = outcome[u]
    BY <1>2 DEF Submit, TypeOK
  <2>4. \A d, e \in Threads : cur'[d] = cur'[e] /\ cur'[d] # None => d = e
    BY <2>1, <2>2
  <2>5. ASSUME NEW d \in Threads, cur'[d] # None, done'[cur'[d]]
        PROVE  outcome'[cur'[d]] # "none"
    BY <2>1, <2>2, <2>3, <2>5 DEF TypeOK
  <2> QED
    BY <2>4, <2>5
<1>3. ASSUME NEW c \in Threads, Return(c)
      PROVE  AnswerInv'
  <2>1. cur[c] \in Tasks
    BY <1>3 DEF Return, ThreadAt, Inside, TypeOK
  <2>2. /\ cur'[c] = None
        /\ \A d \in Threads \ {c} : cur'[d] = cur[d] /\ cur[d] # cur[c]
    BY <1>3, <2>1 DEF Return, TypeOK
  <2>3. /\ done' = done
        /\ \A u \in Tasks \ {cur[c]} : outcome'[u] = outcome[u]
    BY <1>3, <2>1 DEF Return, TypeOK
  <2>4. \A d, e \in Threads : cur'[d] = cur'[e] /\ cur'[d] # None => d = e
    BY <2>2
  <2>5. ASSUME NEW d \in Threads, cur'[d] # None, done'[cur'[d]]
        PROVE  outcome'[cur'[d]] # "none"
    <3>1. d # c /\ cur'[d] = cur[d] /\ cur[d] # cur[c]
      BY <2>2, <2>5
    <3>2. cur[d] \in Tasks
      BY <2>5, <3>1 DEF TypeOK
    <3> QED
      BY <2>3, <2>5, <3>1, <3>2
  <2> QED
    BY <2>4, <2>5
<1>4. ASSUME NEW c \in Threads, GiveUp(c)
      PROVE  AnswerInv'
  <2>1. /\ cur'[c] = None
        /\ \A d \in Threads \ {c} : cur'[d] = cur[d]
    BY <1>4 DEF GiveUp, TypeOK
  <2>2. UNCHANGED <<done, outcome>>
    BY <1>4 DEF GiveUp, taskVars
  <2> QED
    BY <2>1, <2>2
<1> QED
  BY <1>1, <1>2, <1>3, <1>4, AnswerFrame

\* Every step of the detailed specification is a step of the service or
\* leaves it unchanged.
LEMMA StepImplements ==
  TypeOK /\ AnswerInv /\ [Next]_vars => [Service!Next]_(Service!vars)
<1> SUFFICES ASSUME TypeOK, AnswerInv, [Next]_vars
             PROVE  [Service!Next]_(Service!vars)
  OBVIOUS
<1> DEFINE Leaving == {c \in Threads : pc[c] = "interrupted"}
<1>1. ASSUME NEW c \in Threads, NEW t \in Tasks, NEW r \in Requests,
             Submit(c, t, r)
      PROVE  Service!Next
  <2>1. cur[c] = None /\ t \notin Service!Pending
    BY <1>1 DEF Submit, ThreadAt, Inside, InUse, Queued, Service!Pending, TypeOK
  <2>2. Leaving' = Leaving
    BY <1>1 DEF Submit, ThreadAt, TypeOK
  <2> HIDE DEF Leaving
  <2>3. Service!Request(c, t)
    BY <1>1, <2>1, <2>2 DEF Submit, Service!Request, workerVars, Leaving
  <2> QED
    BY <2>3 DEF Service!Next
<1>2. CASE TakeTask
  <2>1. serving = None
    BY <1>2 DEF TakeTask, WorkerAt, TypeOK
  <2>2. Service!Begin
    BY <1>2, <2>1 DEF TakeTask, Service!Begin, taskVars, threadVars
  <2> QED
    BY <2>2 DEF Service!Next
<1>3. ASSUME NEW r \in {"result", "exception"}, EndInvoke(r)
      PROVE  Service!Next
  <2>1. serving # None
    BY <1>3 DEF EndInvoke, WorkerAt, TypeOK
  <2>2. Leaving' = Leaving
    <3>1. \A c \in Threads : pc'[c] = "interrupted" <=> pc[c] = "interrupted"
      BY <1>3 DEF EndInvoke
    <3> QED
      BY <3>1
  <2>3. Service!Finish(r)
    BY <1>3, <2>1, <2>2 DEF EndInvoke, Service!Finish
  <2> QED
    BY <2>3 DEF Service!Next
<1>4. ASSUME NEW c \in Threads, Return(c)
      PROVE  Service!Next
  <2>1. cur[c] # None /\ c \notin Leaving /\ outcome[cur[c]] # "none"
    BY <1>4 DEF Return, ThreadAt, Inside, TypeOK, AnswerInv
  <2>2. Leaving' = Leaving
    BY <1>4 DEF Return, ThreadAt, TypeOK
  <2>3. Service!Answer(c)
    BY <1>4, <2>1, <2>2 DEF Return, Service!Answer, workerVars
  <2> QED
    BY <2>3 DEF Service!Next
<1>5. ASSUME NEW c \in Threads, GiveUp(c)
      PROVE  Service!Next
  <2>1. c \in Leaving /\ Leaving' = Leaving \ {c}
    BY <1>5 DEF GiveUp, ThreadAt, TypeOK
  <2>2. Service!Abandon(c)
    BY <1>5, <2>1 DEF GiveUp, Service!Abandon, workerVars, taskVars
  <2> QED
    BY <2>2 DEF Service!Next
<1>6. ASSUME NEW c \in Threads, Unblock(c)
      PROVE  [Service!Next]_(Service!vars)
  <2>1. UNCHANGED <<taskList, serving, cur, outcome>>
    BY <1>6 DEF Unblock, workerVars, taskVars
  <2>2. CASE pc'[c] = "interrupted"
    <3>1. cur[c] # None /\ Leaving' = Leaving \cup {c}
      BY <1>6, <2>2 DEF Unblock, ThreadAt, Inside, TypeOK
    <3>2. Service!Interrupt(c)
      BY <2>1, <3>1 DEF Service!Interrupt
    <3> QED
      BY <3>2 DEF Service!Next
  <2>3. CASE pc'[c] # "interrupted"
    <3>1. Leaving' = Leaving
      BY <1>6, <2>3 DEF Unblock, ThreadAt, TypeOK
    <3> QED
      BY <2>1, <3>1 DEF Service!vars
  <2> QED
    BY <2>2, <2>3
<1>7. ASSUME UNCHANGED <<taskList, serving, cur, outcome>>,
             Leaving' = Leaving
      PROVE  UNCHANGED Service!vars
  BY <1>7 DEF Service!vars
<1>8. CASE WorkerStep
  <2>1. \/ TakeTask
        \/ \E r \in {"result", "exception"} : EndInvoke(r)
        \/ UNCHANGED <<taskList, serving, cur, outcome, pc>>
    BY <1>8 DEF WorkerStep, TestExit, WakeUp, Collect, TasksDrained,
                BeginInvoke, ActivateSelf, Clobber, CloseHandle, taskVars,
                threadVars
  <2> QED
    BY <2>1, <1>2, <1>3, <1>7
<1>9. ASSUME NEW c \in Threads, ThreadStep(c)
      PROVE  [Service!Next]_(Service!vars)
  <2>1. CASE Return(c) \/ GiveUp(c)
    BY <2>1, <1>4, <1>5
  <2>2. CASE ~(Return(c) \/ GiveUp(c))
    <3>1. UNCHANGED <<taskList, serving, cur, outcome>>
      BY <1>9, <2>2 DEF ThreadStep, ActivateWorker, Wait, Reacquire,
                        KillSignal, Join, KillReturns, workerVars, taskVars
    <3>2. Leaving' = Leaving
      BY <1>9, <2>2 DEF ThreadStep, ActivateWorker, Wait, Reacquire,
                        KillSignal, Join, KillReturns, ThreadAt, TypeOK
    <3> QED
      BY <3>1, <3>2, <1>7
  <2> QED
    BY <2>1, <2>2
<1>10. CASE Environment
  <2>1. ASSUME NEW c \in Threads, Kill(c) \/ JoinInterrupted(c)
        PROVE  UNCHANGED Service!vars
    <3>1. UNCHANGED <<taskList, serving, cur, outcome>>
      BY <2>1 DEF Kill, JoinInterrupted, KillReturns, workerVars, taskVars
    <3>2. Leaving' = Leaving
      BY <2>1 DEF Kill, JoinInterrupted, KillReturns, ThreadAt, TypeOK
    <3> QED
      BY <3>1, <3>2, <1>7
  <2>2. ASSUME NEW o \in Objects,
               NewWrapper(o) \/ NestedDispose(o) \/ Drop(o) \/ Enqueue(o)
        PROVE  UNCHANGED Service!vars
    BY <2>2, <1>7 DEF NewWrapper, NestedDispose, Drop, Enqueue, workerVars,
                      taskVars, threadVars
  <2>3. CASE FlushFreeList
    BY <2>3, <1>7 DEF FlushFreeList, taskVars, threadVars
  <2>4. CASE PeerExits
    <3>1. Leaving' = Leaving
      BY <2>4, ThreadsAssumption DEF PeerExits, ThreadAt, TypeOK
    <3> QED
      BY <2>4, <3>1, <1>7 DEF PeerExits, workerVars, taskVars
  <2> QED
    BY <1>10, <2>1, <2>2, <2>3, <2>4, <1>1, <1>6 DEF Environment
<1>11. CASE UNCHANGED vars
  BY <1>11, <1>7 DEF vars, workerVars, taskVars, threadVars
<1> QED
  BY <1>8, <1>9, <1>10, <1>11 DEF Next

\* However threads sleep, wake, are interrupted, kill the worker or drop
\* wrappers: tasks are served one at a time, in order, once, and a thread
\* leaves execute() with the outcome of its own task or interrupted.
THEOREM ServiceImplemented == Spec => ImplementsService
<1>1. Init => Service!Init
  <2> SUFFICES ASSUME Init PROVE Service!Init
    OBVIOUS
  <2>1. {c \in Threads : pc[c] = "interrupted"} = {}
    BY DEF Init
  <2> QED
    BY <2>1 DEF Init, Service!Init
<1>2. Init => AnswerInv
  BY DEF Init, AnswerInv
<1> QED
  BY <1>1, <1>2, AnswerInductive, StepImplements, TypeCorrect, PTL
     DEF Spec, ImplementsService, Service!Spec
=============================================================================
