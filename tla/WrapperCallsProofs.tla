------------------------- MODULE WrapperCallsProofs -------------------------
(* Theorems about WrapperCalls, for every set of threads, thunks and calls. *)
(* The first two hold whether callers take turns or not and whether they    *)
(* are interrupted or not; the others need both TakeTurns and ~Interrupts,  *)
(* without which the runs "collide" and "interrupt" refute them.            *)
EXTENDS WrapperCalls, TLAPS

USE CallersAssumption, NoneAssumption

Own == {"disposing", "querying"}

\* A thread has a task of its own queued or being served, and only one, while
\* it waits for that.
OwnTasks ==
  /\ \A i \in DOMAIN queue : queue[i] \in Threads =>
       /\ pc[queue[i]] \in Own
       /\ queue[i] # serving
       /\ \A j \in DOMAIN queue : queue[j] = queue[i] => j = i
  /\ serving \in Threads => pc[serving] \in Own

TypeInv == TypeOK /\ OwnTasks

\* What a thread that waits, or has woken up, relies on.
WaiterInv ==
  \A c \in Threads : pc[c] \in {"wait", "wake"} =>
    \/ thunk[c] \in Queued \cup {serving}
    \/ done[thunk[c]]

\* What a disjunct of Notify does to pc, whichever thread is notified.
LEMMA NotifyPc ==
  ASSUME TypeOK, NEW t \in Thunks, Notify(t)
  PROVE  /\ pc' \in [Actors -> {"idle", "lookup", "create", "read", "enter",
                      "submit", "wait", "wake", "interrupted", "disposing", "querying"}]
         /\ \A a \in Actors : \/ pc'[a] = pc[a]
                              \/ a \in Threads /\ pc[a] = "wait" /\ pc'[a] = "wake"
  BY DEF Notify, TypeOK, Actors

\* What is queued after a task has been added.
LEMMA QueuedAppend ==
  ASSUME TypeOK, NEW x \in Thunks \cup Threads, queue' = Append(queue, x)
  PROVE  Queued' = Queued \cup {x}
<1>1. /\ Len(queue) \in Nat
      /\ DOMAIN queue = 1 .. Len(queue)
      /\ DOMAIN queue' = 1 .. Len(queue) + 1
      /\ queue'[Len(queue) + 1] = x
      /\ \A i \in 1 .. Len(queue) : queue'[i] = queue[i]
  BY DEF TypeOK
<1>2. \A i \in DOMAIN queue' : i \in DOMAIN queue \/ i = Len(queue) + 1
  BY <1>1
<1>3. DOMAIN queue \subseteq DOMAIN queue' /\ Len(queue) + 1 \in DOMAIN queue'
  BY <1>1
<1> QED
  BY <1>1, <1>2, <1>3 DEF Queued

\* What is queued after the first task has been taken.
LEMMA QueuedTail ==
  ASSUME TypeOK, queue # <<>>, queue' = Tail(queue)
  PROVE  Queued = Queued' \cup {Head(queue)}
<1>1. /\ DOMAIN queue' = 1 .. Len(queue) - 1
      /\ DOMAIN queue = 1 .. Len(queue)
      /\ Len(queue) \in Nat \ {0}
      /\ \A i \in 1 .. Len(queue) - 1 : queue'[i] = queue[i + 1]
      /\ Head(queue) = queue[1]
  BY DEF TypeOK
<1>2. ASSUME NEW i \in DOMAIN queue, i # 1
      PROVE  i - 1 \in DOMAIN queue' /\ queue[i] = queue'[i - 1]
  <2>1. i - 1 \in 1 .. Len(queue) - 1 /\ (i - 1) + 1 = i
    BY <1>1, <1>2
  <2> QED
    BY <1>1, <2>1
<1>3. \A i \in DOMAIN queue' : i + 1 \in DOMAIN queue /\ queue'[i] = queue[i + 1]
  BY <1>1
<1>4. 1 \in DOMAIN queue
  BY <1>1
<1> QED
  BY <1>1, <1>2, <1>3, <1>4 DEF Queued

\* Type correctness in the initial state.
LEMMA InitType == Init => TypeInv
<1> SUFFICES ASSUME Init PROVE TypeInv OBVIOUS
<1> USE DEF Init, Actors
<1>1. queue \in Seq(Thunks \cup Threads) /\ DOMAIN queue = {}
  OBVIOUS
<1>2. runs \in [Calls -> 0..2]
  OBVIOUS
<1>3. TypeOK
  BY <1>1, <1>2 DEF TypeOK
<1>4. OwnTasks
  BY <1>1 DEF OwnTasks
<1> QED
  BY <1>3, <1>4 DEF TypeInv

\* Every step keeps the types, and the tasks of the threads' own apart.
LEMMA NextType == TypeInv /\ [Next]_vars => TypeInv'
<1> SUFFICES ASSUME TypeInv, [Next]_vars PROVE TypeInv' OBVIOUS
<1> USE DEF TypeInv, TypeOK, OwnTasks, Own, Actors, thunkVars, workVars, actorVars
<1>1. ASSUME NEW a \in Actors, NEW k \in Calls, BeginCall(a, k) PROVE TypeInv'
  BY <1>1 DEF BeginCall, Goto
<1>2. ASSUME NEW a \in Actors, LookUp(a) PROVE TypeInv'
  BY <1>2 DEF LookUp, Goto
<1>3. ASSUME NEW a \in Actors, NEW t \in Thunks, Create(a, t) PROVE TypeInv'
  BY <1>3 DEF Create, Goto
<1>4. ASSUME NEW a \in Actors, Read(a) PROVE TypeInv'
  BY <1>4 DEF Read, Goto
<1>5. ASSUME NEW a \in Actors, ReadNull(a) PROVE TypeInv'
  BY <1>5 DEF ReadNull, Goto
<1>6. ASSUME NEW a \in Actors, Enter(a) PROVE TypeInv'
  BY <1>6 DEF Enter, Goto, Acquire
<1>7. ASSUME NEW a \in Actors, Submit(a) PROVE TypeInv'
  BY <1>7 DEF Submit, Goto, Release
<1>8. ASSUME NEW a \in Actors, WaitAgain(a) PROVE TypeInv'
  BY <1>8 DEF WaitAgain, Goto
<1>9. ASSUME NEW a \in Actors, Return(a) PROVE TypeInv'
  BY <1>9 DEF Return, Leave
<1>10. ASSUME NEW a \in Actors, GiveUp(a) PROVE TypeInv'
  BY <1>10 DEF GiveUp, Leave
<1>11. ASSUME NEW c \in Threads, Unblock(c) PROVE TypeInv'
  BY <1>11 DEF Unblock, Goto
<1>12. ASSUME NEW c \in Threads, NEW to \in Own, SubmitOwn(c, to) PROVE TypeInv'
  <2>1. /\ pc[c] = "idle"
        /\ pc' = [pc EXCEPT ![c] = to]
        /\ queue' \in Seq(Thunks \cup Threads)
        /\ DOMAIN queue = 1 .. Len(queue)
        /\ DOMAIN queue' = 1 .. Len(queue) + 1
        /\ Len(queue) \in Nat
        /\ queue'[Len(queue) + 1] = c
        /\ \A i \in 1 .. Len(queue) : queue'[i] = queue[i]
    BY <1>12 DEF SubmitOwn, Goto
  <2>2. c # serving /\ \A i \in DOMAIN queue : queue[i] # c
    BY <2>1
  <2>3. TypeOK'
    BY <1>12, <2>1 DEF SubmitOwn
  <2>4. ASSUME NEW i \in DOMAIN queue', queue'[i] \in Threads
        PROVE  /\ pc'[queue'[i]] \in Own
               /\ queue'[i] # serving'
               /\ \A j \in DOMAIN queue' : queue'[j] = queue'[i] => j = i
    <3>1. CASE i = Len(queue) + 1
      BY <1>12, <2>1, <2>2, <3>1 DEF SubmitOwn
    <3>2. CASE i \in DOMAIN queue
      BY <1>12, <2>1, <2>2, <2>4, <3>2 DEF SubmitOwn
    <3> QED
      BY <2>1, <3>1, <3>2
  <2>5. serving' \in Threads => pc'[serving'] \in Own
    BY <1>12, <2>1, <2>2 DEF SubmitOwn
  <2> QED
    BY <2>3, <2>4, <2>5
<1>13. CASE CallDirectly
  <2> USE <1>13 DEF CallDirectly, Leave
  <2>1. thunk[Worker] \in Thunks
    OBVIOUS
  <2>2. runs' \in [Calls -> 0..2]
    <3>1. \A k \in Calls : runs[k] \in 0..2 /\ Count(k) \in 0..2
      BY DEF Count
    <3>2. runs' = [runs EXCEPT ![wants[Worker]] = Count(wants[Worker])]
      OBVIOUS
    <3> HIDE <1>13 DEF CallDirectly, Leave
    <3> QED
      BY <3>1, <3>2
  <2>3. monitor' \in [Thunks -> Actors \cup {None}]
    BY DEF Release
  <2>4. call' \in [Thunks -> Calls \cup {None}]
    BY <2>1
  <2>5. /\ pc' = [pc EXCEPT ![Worker] = "idle"]
        /\ thunk' = [thunk EXCEPT ![Worker] = None]
        /\ invCache' = thunk[Worker]
        /\ isDisposed' = isDisposed /\ done' = done /\ outcome' = outcome
        /\ wants' = wants /\ queue' = queue /\ serving' = serving
        /\ running' = running /\ current' = current
    OBVIOUS
  <2> HIDE <1>13 DEF CallDirectly, Leave
  <2>6. OwnTasks'
    BY <2>5
  <2>7. TypeOK'
    BY <2>1, <2>2, <2>3, <2>4, <2>5
  <2> QED
    BY <2>6, <2>7
<1>14. CASE Take
  BY <1>14 DEF Take
<1>15. CASE BeginInvoke
  BY <1>15 DEF BeginInvoke, Acquire, Count
<1>16. CASE EndInvoke
  <2> USE <1>16 DEF EndInvoke
  <2>1. serving \in Thunks /\ Notify(serving)
    OBVIOUS
  <2>2. /\ call' \in [Thunks -> Calls \cup {None}]
        /\ outcome' \in [Thunks -> Calls \cup {None, "npe"}]
    BY <2>1
  <2>3. OwnTasks'
    BY <2>1, NotifyPc
  <2> QED
    BY <2>1, <2>2, <2>3, NotifyPc DEF Release
<1>17. CASE ServeOwn
  BY <1>17 DEF ServeOwn
<1>18. CASE UNCHANGED vars
  BY <1>18 DEF vars
<1> QED
  BY <1>1, <1>2, <1>3, <1>4, <1>5, <1>6, <1>7, <1>8, <1>9, <1>10, <1>11, <1>12,
     <1>13, <1>14, <1>15, <1>16, <1>17, <1>18
     DEF Next, WorkerStep, Proceed, Dispose, Query

\* TypeOK holds in every reachable state: WorkerStep and the callers keep to
\* the places of pc, and the worker has a thunk exactly where it needs one.
THEOREM TypeCorrect == Spec => []TypeOK
<1>1. TypeInv => TypeOK
  BY DEF TypeInv
<1> QED
  BY <1>1, InitType, NextType, PTL DEF Spec

-----------------------------------------------------------------------------
\* Every step keeps what a waiting thread relies on: a task leaves the queue
\* only to be served, and is served until it is done.
LEMMA NextWaiter == TypeInv /\ WaiterInv /\ [Next]_vars => WaiterInv'
<1> SUFFICES ASSUME TypeInv, WaiterInv, [Next]_vars, NEW c \in Threads,
                    pc'[c] \in {"wait", "wake"}
             PROVE  \/ thunk'[c] \in Queued' \cup {serving'}
                    \/ done'[thunk'[c]]
  BY DEF WaiterInv
<1> USE DEF Actors
<1>0. TypeOK
  BY DEF TypeInv
<1>a. /\ pc[c] \in {"wait", "wake"} =>
           thunk[c] \in Thunks /\ (thunk[c] \in Queued \cup {serving} \/ done[thunk[c]])
      /\ c # Worker
  BY <1>0 DEF WaiterInv, TypeOK
<1>b. ASSUME UNCHANGED <<queue, serving, done>>, thunk'[c] = thunk[c],
             pc[c] \in {"wait", "wake"}
      PROVE  thunk'[c] \in Queued' \cup {serving'} \/ done'[thunk'[c]]
  BY <1>a, <1>b DEF Queued
<1>1. CASE \E a \in Actors :
             \/ LookUp(a) \/ Read(a) \/ ReadNull(a) \/ Enter(a)
             \/ WaitAgain(a) \/ Return(a) \/ GiveUp(a)
             \/ \E k \in Calls : BeginCall(a, k)
  <2>1. /\ UNCHANGED <<queue, serving, done>>
        /\ thunk'[c] = thunk[c]
        /\ pc[c] \in {"wait", "wake"}
    BY <1>0, <1>1 DEF TypeOK, LookUp, Read, ReadNull, Enter, WaitAgain, Return,
                      GiveUp, BeginCall, Goto, Leave, thunkVars, workVars
  <2> QED
    BY <2>1, <1>b
<1>2. ASSUME NEW a \in Actors, NEW t \in Thunks, Create(a, t)
      PROVE  thunk'[c] \in Queued' \cup {serving'} \/ done'[thunk'[c]]
  <2>1. /\ pc[c] \in {"wait", "wake"}
        /\ thunk' = thunk /\ queue' = queue /\ serving' = serving
        /\ t # thunk[c]
        /\ done' = [done EXCEPT ![t] = FALSE]
    BY <1>0, <1>2 DEF TypeOK, Create, Goto, Fresh, workVars
  <2> QED
    BY <1>0, <1>a, <2>1 DEF Queued, TypeOK
<1>3. ASSUME NEW a \in Actors, Submit(a)
      PROVE  thunk'[c] \in Queued' \cup {serving'} \/ done'[thunk'[c]]
  <2>1. /\ thunk[a] \in Thunks
        /\ thunk' = thunk /\ serving' = serving
        /\ queue' = Append(queue, thunk[a])
        /\ done' = [done EXCEPT ![thunk[a]] = FALSE]
        /\ c # a => pc[c] \in {"wait", "wake"}
    BY <1>0, <1>3 DEF TypeOK, Submit, Goto
  <2>2. Queued' = Queued \cup {thunk[a]}
    BY <1>0, <2>1, QueuedAppend
  <2> QED
    BY <1>0, <1>a, <2>1, <2>2 DEF TypeOK
<1>4. ASSUME NEW d \in Threads, NEW to \in Own, SubmitOwn(d, to)
      PROVE  thunk'[c] \in Queued' \cup {serving'} \/ done'[thunk'[c]]
  <2>1. /\ pc[c] \in {"wait", "wake"}
        /\ thunk' = thunk /\ serving' = serving /\ done' = done
        /\ queue' = Append(queue, d)
    BY <1>0, <1>4 DEF TypeOK, SubmitOwn, Goto, thunkVars, Own
  <2>2. Queued' = Queued \cup {d}
    BY <1>0, <2>1, QueuedAppend
  <2> QED
    BY <1>a, <2>1, <2>2
<1>5. ASSUME NEW d \in Threads, Unblock(d)
      PROVE  thunk'[c] \in Queued' \cup {serving'} \/ done'[thunk'[c]]
  BY <1>0, <1>5, <1>b DEF TypeOK, Unblock, Goto, workVars, thunkVars
<1>6. CASE CallDirectly
  BY <1>0, <1>a, <1>b, <1>6 DEF TypeOK, CallDirectly, Leave, workVars
<1>7. CASE Take
  <2>1. /\ pc[c] \in {"wait", "wake"}
        /\ thunk' = thunk /\ done' = done
        /\ serving = None /\ serving' = Head(queue)
        /\ queue # <<>> /\ queue' = Tail(queue)
    BY <1>7 DEF Take, actorVars, thunkVars
  <2>2. Queued = Queued' \cup {serving'}
    BY <1>0, <2>1, QueuedTail
  <2> QED
    BY <1>a, <2>1, <2>2, NoneAssumption
<1>8. CASE BeginInvoke
  BY <1>b, <1>8 DEF BeginInvoke, actorVars, thunkVars
<1>9. CASE EndInvoke
  <2>1. /\ thunk' = thunk /\ queue' = queue /\ serving \in Thunks
        /\ done' = [done EXCEPT ![serving] = TRUE]
        /\ Notify(serving)
    BY <1>0, <1>9 DEF EndInvoke, TypeOK
  <2>2. pc[c] \in {"wait", "wake"}
    BY <1>0, <2>1, NotifyPc
  <2> QED
    BY <1>0, <1>a, <2>1, <2>2 DEF Queued, TypeOK
<1>10. CASE ServeOwn
  <2>1. /\ thunk' = thunk /\ done' = done /\ queue' = queue
        /\ serving \in Threads
        /\ pc[c] \in {"wait", "wake"}
    BY <1>0, <1>10 DEF ServeOwn, TypeOK, thunkVars
  <2> QED
    BY <1>a, <2>1, CallersAssumption DEF Queued
<1>11. CASE UNCHANGED vars
  BY <1>b, <1>11 DEF vars, workVars, actorVars, thunkVars
<1> QED
  BY <1>1, <1>2, <1>3, <1>4, <1>5, <1>6, <1>7, <1>8, <1>9, <1>10, <1>11
     DEF Next, WorkerStep, Proceed, Dispose, Query, Own

\* A thread that waits in execute() has its thunk with the worker or done, also
\* where callers collide and calls are interrupted.
THEOREM WaitersAreServed == Spec => []WaiterIsServed
<1>1. Init => WaiterInv
  BY DEF Init, WaiterInv, Actors
<1>2. WaiterInv => WaiterIsServed
  BY DEF WaiterInv, WaiterIsServed
<1> QED
  BY <1>1, <1>2, InitType, NextType, NextWaiter, PTL DEF Spec

-----------------------------------------------------------------------------
(* Callers that take turns and are not interrupted.                        *)

Busy == {"lookup", "create", "read", "enter", "submit"}
Waiting == {"wait", "wake"}

\* One thread at a time uses the wrapper, the worker only in an event handler
\* meanwhile; the one task in flight is that thread's.
TurnInv ==
  /\ \A c \in Threads : pc[c] # "interrupted"
  /\ \A c, d \in Threads : pc[c] # "idle" /\ pc[d] # "idle" => c = d
  /\ pc[Worker] # "idle" =>
       /\ pc[Worker] \in Busy
       /\ \A c \in Threads :
            pc[c] = "idle" \/ (pc[c] \in Waiting /\ running /\ thunk[c] = serving)
  /\ Len(queue) <= 1
  /\ queue # <<>> => serving = None
  /\ \A t \in Thunks : t \in Queued \cup {serving} =>
       ~done[t] /\ \E c \in Threads : pc[c] \in Waiting /\ thunk[c] = t

\* No two actors have the same thunk, and the cache has it only until it is
\* entered.
CacheInv ==
  /\ \A a \in Actors :
       /\ pc[a] = "read" => invCache # None
       /\ pc[a] = "enter" => thunk[a] = invCache
       /\ pc[a] \in {"submit"} \cup Waiting => thunk[a] # invCache
  /\ \A a, b \in Actors : a # b /\ thunk[a] # None => thunk[a] # thunk[b]

\* Has c's call not been run yet?
NotRun(c) ==
  \/ pc[c] \in Busy
  \/ pc[c] \in Waiting /\ ~done[thunk[c]] /\ ~(running /\ serving = thunk[c])

\* A call of an actor is where it should be: in the thunk, with the worker, or
\* back as the outcome.
OwnCall(a) ==
  /\ pc[a] \in Busy \cup Waiting => wants[a] \in Calls
  /\ pc[a] = "submit" => call[thunk[a]] = wants[a]
  /\ NotRun(a) => runs[wants[a]] = 0
  /\ pc[a] \in Waiting /\ NotRun(a) => call[thunk[a]] = wants[a]
  /\ pc[a] \in Waiting /\ done[thunk[a]] => outcome[thunk[a]] = wants[a]
  /\ pc[a] \in Waiting /\ running /\ serving = thunk[a] => current = wants[a]

\* No two actors make the same call.
CallInv ==
  /\ \A a, b \in Actors : a # b /\ wants[a] # None => wants[a] # wants[b]
  /\ \A a \in Actors : OwnCall(a)
  /\ RunAtMostOnce

\* Nobody calls a wrapper that has been disposed of, but for a query past the
\* proxy.
DisposedInv ==
  /\ isDisposed => \A a \in Actors : pc[a] \notin Busy \cup Waiting
  /\ isDisposed => \A c \in Threads : pc[c] = "querying" => c \in Direct

TakenTurnsInv == TypeInv /\ TurnInv /\ CacheInv /\ CallInv /\ DisposedInv

\* Who is busy is alone, but for the thread whose call the event handler is in.
LEMMA Alone ==
  ASSUME TypeInv, TurnInv, NEW a \in Actors, pc[a] \in Busy
  PROVE  \A b \in Actors \ {a} :
           \/ pc[b] = "idle"
           \/ /\ a = Worker /\ b \in Threads /\ pc[b] \in Waiting
              /\ running /\ thunk[b] = serving /\ ~done[thunk[b]]
BY DEF TypeInv, TypeOK, TurnInv, Actors, Busy, Waiting

LEMMA QueuedSame == UNCHANGED queue => UNCHANGED Queued
BY DEF Queued

\* Where only one actor moves, within InvocationThunk.invoke(), and the worker's
\* task stays, the turns are kept.
LEMMA TurnKept ==
  ASSUME TypeInv, TurnInv, NEW a \in Actors, pc[a] \in Busy,
         pc' = [pc EXCEPT ![a] = pc'[a]], pc'[a] \in Busy \cup {"idle"},
         UNCHANGED <<queue, serving, running>>,
         \A b \in Actors \ {a} : thunk'[b] = thunk[b],
         \A b \in Actors \ {a} : thunk[b] # None => done'[thunk[b]] = done[thunk[b]]
  PROVE  TurnInv'
<1>1. \A b \in Actors \ {a} :
        /\ pc'[b] = pc[b]
        /\ \/ pc[b] = "idle"
           \/ /\ a = Worker /\ b \in Threads /\ pc[b] \in Waiting
              /\ running /\ thunk[b] = serving /\ ~done[thunk[b]]
  BY Alone DEF TypeInv, TypeOK
<1>2. UNCHANGED Queued
  BY QueuedSame
<1>3. \A t \in Thunks : t \in Queued \cup {serving} =>
        \E c \in Threads : c # a /\ pc[c] \in Waiting /\ thunk[c] = t /\ ~done[t]
  BY DEF TurnInv, Busy, Waiting
<1>4. \A t \in Thunks : t \in Queued' \cup {serving'} =>
        ~done'[t] /\ \E c \in Threads : pc'[c] \in Waiting /\ thunk'[c] = t
  BY <1>1, <1>2, <1>3, NoneAssumption DEF Actors
<1>5. pc'[Worker] # "idle" =>
        /\ pc'[Worker] \in Busy
        /\ \A c \in Threads :
             pc'[c] = "idle" \/ (pc'[c] \in Waiting /\ running' /\ thunk'[c] = serving')
  BY <1>1 DEF TurnInv, Actors, Busy, Waiting
<1>6. \A c \in Threads : pc'[c] # "interrupted"
  BY <1>1 DEF TurnInv, Actors, Busy
<1>7. \A c, d \in Threads : pc'[c] # "idle" /\ pc'[d] # "idle" => c = d
  BY <1>1 DEF TurnInv, Actors
<1> QED
  BY <1>4, <1>5, <1>6, <1>7 DEF TurnInv

\* Who finds all others idle finds nothing in flight either.
LEMMA NothingInFlight ==
  ASSUME TypeInv, TurnInv, NEW a \in Actors, pc[a] \notin Waiting \cup Own,
         \A b \in Actors \ {a} : pc[b] = "idle"
  PROVE  /\ queue = <<>> /\ Len(queue) = 0 /\ Queued = {}
         /\ serving = None /\ ~running
<1> USE DEF Actors
<1>1. \A b \in Actors : pc[b] \notin Waiting \cup Own
  BY DEF Waiting, Own
<1>2. \A t \in Thunks : t \notin Queued \cup {serving}
  BY <1>1 DEF TurnInv
<1>3. \A i \in DOMAIN queue : queue[i] \in Thunks \cup Threads
  BY DEF TypeInv, TypeOK
<1>4. DOMAIN queue = {}
  <2>1. SUFFICES ASSUME NEW i \in DOMAIN queue PROVE FALSE
    OBVIOUS
  <2>2. queue[i] \in Queued
    BY DEF Queued
  <2>3. queue[i] \in Threads
    BY <1>2, <1>3, <2>2
  <2>4. pc[queue[i]] \in Own
    BY <2>3 DEF TypeInv, OwnTasks
  <2> QED
    BY <1>1, <2>3, <2>4
<1>5. queue = <<>>
  BY <1>4 DEF TypeInv, TypeOK
<1>6. serving = None
  BY <1>1, <1>2 DEF TypeInv, TypeOK, OwnTasks
<1> QED
  BY <1>4, <1>5, <1>6 DEF Queued, TypeInv, TypeOK

\* The queue has one task at most.
LEMMA OneQueued ==
  ASSUME TypeInv, TurnInv
  PROVE  /\ queue # <<>> => Queued = {Head(queue)} /\ Tail(queue) = <<>>
         /\ queue = <<>> => Queued = {}
<1>1. CASE queue # <<>>
  <2>1. queue \in Seq(Thunks \cup Threads) /\ Len(queue) <= 1
    BY DEF TypeInv, TypeOK, TurnInv
  <2>2. Len(queue) \in Nat /\ Len(queue) # 0
    BY <1>1, <2>1
  <2>3. \A n \in Nat : n <= 1 /\ n # 0 => n = 1 /\ 1 .. n = {1} /\ 1 .. n - 1 = {}
    OBVIOUS
  <2>4. /\ DOMAIN queue = 1 .. Len(queue) /\ Head(queue) = queue[1]
        /\ Tail(queue) \in Seq(Thunks \cup Threads)
        /\ Len(Tail(queue)) = Len(queue) - 1
    BY <1>1, <2>1
  <2>5. Len(queue) = 1 /\ DOMAIN queue = {1}
    BY <2>1, <2>2, <2>3, <2>4
  <2>6. Len(Tail(queue)) = 0
    BY <2>4, <2>5
  <2>7. Tail(queue) = <<>>
    <3>1. ASSUME NEW S, NEW s \in Seq(S), Len(s) = 0
          PROVE  s = <<>>
      BY <3>1
    <3> QED
      BY <2>4, <2>6, <3>1
  <2> QED
    BY <1>1, <2>4, <2>5, <2>7 DEF Queued
<1>2. CASE queue = <<>>
  BY <1>2 DEF Queued
<1> QED
  BY <1>1, <1>2

\* Who returns is alone, too.
LEMMA ReturnAlone ==
  ASSUME TypeInv, TurnInv, NEW a \in Actors, Return(a)
  PROVE  /\ a \in Threads
         /\ \A b \in Actors \ {a} : pc[b] = "idle"
         /\ thunk[a] \in Thunks /\ thunk[a] \notin Queued \cup {serving}
<1>1. pc[a] = "wake" /\ done[thunk[a]] /\ thunk[a] \in Thunks
  BY DEF Return, TypeInv, TypeOK
<1>2. a \in Threads
  BY <1>1 DEF TurnInv, Busy, Actors
<1>3. thunk[a] \notin Queued \cup {serving}
  BY <1>1 DEF TurnInv
<1>4. pc[Worker] = "idle"
  BY <1>1, <1>2, <1>3 DEF TurnInv
<1> QED
  BY <1>1, <1>2, <1>3, <1>4 DEF TurnInv, Actors

\* Every step keeps the turns: who begins finds the others idle, and who
\* waits stays until its task is done.
LEMMA NextTurn ==
  ASSUME TakeTurns, ~Interrupts, TypeInv, TurnInv, TypeInv', [Next]_vars
  PROVE  TurnInv'
<1> USE DEF Actors
<1>a. TypeOK /\ pc \in [Actors -> {"idle", "lookup", "create", "read", "enter", "submit",
                                   "wait", "wake", "interrupted", "disposing", "querying"}]
  BY DEF TypeInv, TypeOK
<1>1. ASSUME NEW a \in Actors, NEW k \in Calls, BeginCall(a, k)
      PROVE  TurnInv'
  <2>1. /\ pc[a] = "idle" /\ pc' = [pc EXCEPT ![a] = "lookup"]
        /\ UNCHANGED <<queue, serving, running, thunk, done, Queued>>
    BY <1>1, QueuedSame DEF BeginCall, Goto, workVars, thunkVars
  <2>2. \/ \A b \in Actors \ {a} : pc[b] = "idle"
        \/ a = Worker /\ running
    BY <1>1 DEF BeginCall, Turn
  <2>3. ASSUME a = Worker, running
        PROVE  \A c \in Threads : pc[c] = "idle" \/ (pc[c] \in Waiting /\ thunk[c] = serving)
    BY <2>3, <1>a DEF TypeOK, TurnInv, Waiting
  <2>4. pc'[Worker] # "idle" =>
          /\ pc'[Worker] \in Busy
          /\ \A c \in Threads :
               pc'[c] = "idle" \/ (pc'[c] \in Waiting /\ running' /\ thunk'[c] = serving')
    BY <1>a, <2>1, <2>2, <2>3 DEF Busy
  <2>5. \A c, d \in Threads : pc'[c] # "idle" /\ pc'[d] # "idle" => c = d
    BY <1>a, <2>1, <2>2 DEF TurnInv
  <2>6. \A t \in Thunks : t \in Queued \cup {serving} =>
          ~done'[t] /\ \E c \in Threads : pc'[c] \in Waiting /\ thunk'[c] = t
    BY <1>a, <2>1 DEF TurnInv, Waiting
  <2> QED
    BY <1>a, <2>1, <2>4, <2>5, <2>6 DEF TurnInv
<1>2. ASSUME NEW a \in Actors, LookUp(a) \/ Read(a) \/ ReadNull(a) \/ Enter(a)
      PROVE  TurnInv'
  <2>1. /\ pc[a] \in Busy /\ pc' = [pc EXCEPT ![a] = pc'[a]] /\ pc'[a] \in Busy \cup {"idle"}
        /\ UNCHANGED <<queue, serving, running, done>>
        /\ \A b \in Actors \ {a} : thunk'[b] = thunk[b]
    BY <1>2, <1>a DEF TypeOK, LookUp, Read, ReadNull, Enter, Goto, Busy, workVars, thunkVars
  <2> QED
    BY <2>1, TurnKept
<1>3. ASSUME NEW a \in Actors, NEW t \in Thunks, Create(a, t)
      PROVE  TurnInv'
  <2>1. /\ pc[a] \in Busy /\ pc' = [pc EXCEPT ![a] = pc'[a]] /\ pc'[a] \in Busy \cup {"idle"}
        /\ UNCHANGED <<queue, serving, running, thunk>>
        /\ \A b \in Actors : thunk[b] # t
        /\ done' = [done EXCEPT ![t] = FALSE]
    BY <1>3, <1>a DEF Create, Fresh, Goto, Busy, workVars
  <2>2. \A b \in Actors : thunk[b] # None => done'[thunk[b]] = done[thunk[b]]
    <3>1. \A b \in Actors : thunk[b] # None => thunk[b] \in Thunks /\ thunk[b] # t
      BY <2>1, <1>a DEF TypeOK
    <3>2. \A u \in Thunks : u # t => done'[u] = done[u]
      BY <2>1, <1>a DEF TypeOK
    <3> QED
      BY <3>1, <3>2
  <2> QED
    BY <2>1, <2>2, TurnKept
<1>4. CASE CallDirectly
  <2>1. /\ pc[Worker] \in Busy /\ pc' = [pc EXCEPT ![Worker] = pc'[Worker]]
        /\ pc'[Worker] = "idle" /\ UNCHANGED <<queue, serving, running, done>>
        /\ \A b \in Actors \ {Worker} : thunk'[b] = thunk[b]
    BY <1>4, <1>a DEF TypeOK, CallDirectly, Leave, Busy, workVars
  <2> QED
    BY <2>1, TurnKept
<1>5. ASSUME NEW a \in Actors, Submit(a)
      PROVE  TurnInv'
  <2>1. /\ a \in Threads /\ pc[a] = "submit" /\ pc' = [pc EXCEPT ![a] = "wait"]
        /\ thunk[a] \in Thunks
        /\ done' = [done EXCEPT ![thunk[a]] = FALSE]
        /\ queue' = Append(queue, thunk[a])
        /\ UNCHANGED <<serving, running, thunk>>
    BY <1>5, <1>a DEF Submit, Goto, TypeOK
  <2>2. \A b \in Actors \ {a} : pc[b] = "idle"
    BY <2>1, Alone DEF Busy
  <2>3. queue = <<>> /\ Queued = {} /\ serving = None
    BY <2>1, <2>2, NothingInFlight DEF Waiting, Own
  <2>4. Queued' = {thunk[a]}
    BY <2>1, <2>3, <1>a, QueuedAppend
  <2>5. Len(queue') = 1 /\ serving' = None
    BY <2>1, <2>3
  <2>6. pc'[a] = "wait" /\ ~done'[thunk[a]] /\ thunk'[a] = thunk[a]
    BY <2>1, <1>a DEF TypeOK
  <2>7. \A t \in Thunks : t \in Queued' \cup {serving'} =>
          ~done'[t] /\ \E c \in Threads : pc'[c] \in Waiting /\ thunk'[c] = t
    BY <2>1, <2>4, <2>5, <2>6 DEF Waiting
  <2> QED
    BY <1>a, <2>1, <2>2, <2>5, <2>7 DEF TurnInv
<1>6. ASSUME NEW c \in Threads, NEW to \in Own, SubmitOwn(c, to)
      PROVE  TurnInv'
  <2>1. /\ pc[c] = "idle" /\ pc' = [pc EXCEPT ![c] = to]
        /\ queue' = Append(queue, c)
        /\ UNCHANGED <<serving, running, thunk, done>>
        /\ \A b \in Actors \ {c} : pc[b] = "idle"
    BY <1>6 DEF SubmitOwn, Goto, Turn, thunkVars
  <2>3. queue = <<>> /\ Queued = {} /\ serving = None
    BY <2>1, NothingInFlight DEF Waiting, Own
  <2>4. Queued' = {c}
    BY <2>1, <2>3, <1>a, QueuedAppend
  <2>5. Len(queue') = 1 /\ serving' = None
    BY <2>1, <2>3
  <2>7. \A t \in Thunks : t \notin Queued' \cup {serving'}
    BY <2>4, <2>5
  <2> QED
    BY <1>a, <2>1, <2>5, <2>7 DEF TurnInv, Own
<1>7. ASSUME NEW a \in Actors, WaitAgain(a) \/ (a \in Threads /\ Unblock(a))
      PROVE  TurnInv'
  <2>1. /\ pc[a] \in Waiting /\ pc'[a] \in Waiting /\ pc' = [pc EXCEPT ![a] = pc'[a]]
        /\ UNCHANGED <<queue, serving, running, thunk, done, Queued>>
    BY <1>7, <1>a, QueuedSame DEF WaitAgain, Unblock, Goto, Waiting, workVars, thunkVars
  <2>2. a \in Threads
    BY <2>1 DEF TurnInv, Waiting, Busy
  <2>3. /\ \A b \in Actors : pc'[b] = "idle" <=> pc[b] = "idle"
        /\ \A b \in Actors : pc'[b] \in Waiting <=> pc[b] \in Waiting
        /\ pc'[Worker] = pc[Worker]
        /\ \A b \in Actors : pc'[b] = "interrupted" => pc[b] = "interrupted"
    BY <1>a, <2>1, <2>2 DEF Waiting
  <2> QED
    BY <2>1, <2>3 DEF TurnInv
<1>8. ASSUME NEW a \in Actors, Return(a)
      PROVE  TurnInv'
  <2>1. /\ pc[a] = "wake" /\ pc' = [pc EXCEPT ![a] = "idle"]
        /\ thunk[a] \in Thunks /\ done[thunk[a]]
        /\ thunk' = [thunk EXCEPT ![a] = None]
        /\ UNCHANGED <<queue, serving, running, done, Queued>>
    BY <1>8, <1>a, QueuedSame DEF Return, Leave, TypeOK, workVars
  <2>4. a # Worker /\ pc[Worker] = "idle"
    BY <1>8, ReturnAlone
  <2>5. \A t \in Thunks : t \in Queued' \cup {serving'} =>
          ~done'[t] /\ \E c \in Threads : pc'[c] \in Waiting /\ thunk'[c] = t
    <3>1. SUFFICES ASSUME NEW t \in Thunks, t \in Queued \cup {serving}
                   PROVE  ~done[t] /\ \E c \in Threads : pc'[c] \in Waiting /\ thunk'[c] = t
      BY <2>1
    <3>2. PICK c \in Threads : pc[c] \in Waiting /\ thunk[c] = t /\ ~done[t]
      BY <3>1 DEF TurnInv
    <3>3. c # a
      BY <3>2, <2>1
    <3> QED
      BY <1>a, <3>2, <3>3, <2>1 DEF TypeOK
  <2>6. \A c \in Threads : pc'[c] # "idle" => pc[c] # "idle" /\ pc'[c] = pc[c]
    BY <1>a, <2>1
  <2>7. pc'[Worker] = "idle"
    BY <1>a, <2>1, <2>4
  <2> QED
    BY <2>1, <2>5, <2>6, <2>7 DEF TurnInv
<1>9. ASSUME NEW a \in Actors, GiveUp(a)
      PROVE  FALSE
  BY <1>9 DEF GiveUp, TurnInv, Busy
<1>10. CASE Take
  <2>1. /\ serving = None /\ pc[Worker] = "idle" /\ queue # <<>>
        /\ serving' = Head(queue) /\ queue' = Tail(queue)
        /\ UNCHANGED <<pc, thunk, done, running>>
    BY <1>10 DEF Take, actorVars, thunkVars
  <2>2. queue' = <<>> /\ Queued = {serving'}
    BY <2>1, OneQueued
  <2>3. Queued' = {} /\ Len(queue') = 0
    BY <2>2 DEF Queued
  <2>4. \A t \in Thunks : t \in Queued' \cup {serving'} => t \in Queued
    BY <2>2, <2>3
  <2> QED
    BY <2>1, <2>2, <2>3, <2>4 DEF TurnInv
<1>11. CASE BeginInvoke
  <2>1. /\ serving \in Thunks /\ ~running
        /\ UNCHANGED <<pc, thunk, done, queue, serving, Queued>>
    BY <1>11, QueuedSame DEF BeginInvoke, actorVars, thunkVars
  <2>2. pc[Worker] = "idle"
    BY <2>1 DEF TurnInv, Waiting
  <2> QED
    BY <2>1, <2>2 DEF TurnInv
<1>12. CASE EndInvoke
  <2>1. /\ running /\ pc[Worker] = "idle" /\ serving \in Thunks
        /\ serving' = None /\ Notify(serving)
        /\ UNCHANGED <<thunk, queue, Queued>>
    BY <1>12, <1>a, QueuedSame DEF EndInvoke, TypeOK
  <2>2. queue = <<>> /\ Queued' = {}
    BY <2>1, OneQueued DEF TurnInv
  <2>3. \A t \in Thunks : t \notin Queued' \cup {serving'}
    BY <2>1, <2>2
  <2>4. \A b \in Actors : \/ pc'[b] = pc[b]
                          \/ b \in Threads /\ pc[b] = "wait" /\ pc'[b] = "wake"
    BY <1>a, <2>1, NotifyPc
  <2>5. pc'[Worker] = "idle"
    BY <2>1, <2>4
  <2>6. \A c \in Threads : pc'[c] # "interrupted" /\ (pc'[c] # "idle" => pc[c] # "idle")
    BY <2>4 DEF TurnInv
  <2> QED
    BY <2>1, <2>2, <2>3, <2>5, <2>6 DEF TurnInv
<1>13. CASE ServeOwn
  <2>1. /\ serving \in Threads /\ pc[serving] \in Own
        /\ pc' = [pc EXCEPT ![serving] = "idle"] /\ serving' = None
        /\ UNCHANGED <<thunk, done, queue, Queued>>
    BY <1>13, QueuedSame DEF ServeOwn, TypeInv, OwnTasks, thunkVars
  <2>2. queue = <<>> /\ Queued' = {}
    BY <2>1, OneQueued DEF TurnInv
  <2>3. pc[Worker] = "idle"
    BY <2>1 DEF TurnInv, Own, Waiting
  <2>4. \A t \in Thunks : t \notin Queued' \cup {serving'}
    BY <2>1, <2>2
  <2>5. \A c \in Threads : pc'[c] # "interrupted" /\ (pc'[c] # "idle" => pc[c] # "idle")
    BY <1>a, <2>1 DEF TurnInv
  <2>6. pc'[Worker] = "idle"
    BY <1>a, <2>1, <2>3
  <2> QED
    BY <2>1, <2>2, <2>4, <2>5, <2>6 DEF TurnInv
<1>14. CASE UNCHANGED vars
  <2>1. UNCHANGED <<pc, thunk, done, running, queue, serving, Queued>>
    BY <1>14, QueuedSame DEF vars, actorVars, thunkVars, workVars
  <2> QED
    BY <2>1 DEF TurnInv
<1> QED
  BY <1>1, <1>2, <1>3, <1>4, <1>5, <1>6, <1>7, <1>8, <1>9, <1>10, <1>11, <1>12, <1>13,
     <1>14 DEF Next, WorkerStep, Proceed, Dispose, Query, Own

\* Steps that change neither the cache nor who has which thunk, and bring
\* nobody to where invCache is used.
LEMMA CacheKept ==
  ASSUME CacheInv, UNCHANGED <<invCache, thunk>>,
         \A b \in Actors :
           /\ pc'[b] \in {"read", "enter"} => pc'[b] = pc[b]
           /\ pc'[b] \in {"submit"} \cup Waiting => pc[b] \in {"submit"} \cup Waiting
  PROVE  CacheInv'
BY DEF CacheInv

\* Every step keeps the thunks apart.
LEMMA NextCache ==
  ASSUME TypeInv, TurnInv, CacheInv, [Next]_vars
  PROVE  CacheInv'
<1> USE DEF Actors
<1>a. TypeOK /\ pc \in [Actors -> {"idle", "lookup", "create", "read", "enter", "submit",
                                   "wait", "wake", "interrupted", "disposing", "querying"}]
  BY DEF TypeInv, TypeOK
<1>b. thunk \in [Actors -> Thunks \cup {None}] /\ invCache \in Thunks \cup {None}
  BY <1>a DEF TypeOK
<1>1. ASSUME NEW a \in Actors,
             \/ \E k \in Calls : BeginCall(a, k)
             \/ WaitAgain(a)
             \/ a \in Threads /\ Unblock(a)
             \/ a \in Threads /\ \E to \in Own : SubmitOwn(a, to)
      PROVE  CacheInv'
  <2>1. /\ UNCHANGED <<invCache, thunk>>
        /\ pc' = [pc EXCEPT ![a] = pc'[a]]
        /\ pc'[a] \notin {"read", "enter", "submit"}
        /\ pc'[a] \in Waiting => pc[a] \in Waiting
    BY <1>1, <1>a DEF BeginCall, WaitAgain, Unblock, SubmitOwn, Goto, Waiting, Own
  <2>2. \A b \in Actors \ {a} : pc'[b] = pc[b]
    BY <1>a, <2>1
  <2> QED
    BY <2>1, <2>2, CacheKept
<1>2. ASSUME NEW a \in Actors, ReadNull(a) \/ GiveUp(a)
      PROVE  FALSE
  BY <1>2 DEF ReadNull, GiveUp, Goto, CacheInv, TurnInv, Busy
<1>3. ASSUME NEW a \in Actors, LookUp(a)
      PROVE  CacheInv'
  <2>1. /\ UNCHANGED <<invCache, thunk>>
        /\ \A b \in Actors \ {a} : pc'[b] = pc[b]
        /\ pc'[a] \in {"create", "read"} /\ (pc'[a] = "read" => invCache # None)
    BY <1>3, <1>a DEF LookUp, Goto
  <2> QED
    BY <2>1 DEF CacheInv, Waiting
<1>4. ASSUME NEW a \in Actors, NEW t \in Thunks, Create(a, t)
      PROVE  CacheInv'
  <2>1. /\ pc[a] \in Busy /\ pc'[a] = "read" /\ \A b \in Actors \ {a} : pc'[b] = pc[b]
        /\ thunk' = thunk /\ invCache' = t /\ \A b \in Actors : thunk[b] # t
    BY <1>4, <1>a DEF Create, Fresh, Goto, Busy
  <2>2. \A b \in Actors \ {a} : pc[b] \in {"idle"} \cup Waiting
    BY <2>1, Alone
  <2> QED
    BY <2>1, <2>2, NoneAssumption DEF CacheInv, Waiting
<1>5. ASSUME NEW a \in Actors, Read(a)
      PROVE  CacheInv'
  <2>1. /\ pc[a] \in Busy /\ pc'[a] = "enter" /\ \A b \in Actors \ {a} : pc'[b] = pc[b]
        /\ invCache' = invCache /\ invCache # None
        /\ thunk'[a] = invCache /\ \A b \in Actors \ {a} : thunk'[b] = thunk[b]
    BY <1>5, <1>a, <1>b DEF Read, Goto, Busy
  <2>2. \A b \in Actors \ {a} : pc[b] \in {"idle"} \cup Waiting
    BY <2>1, Alone
  <2>3. \A b \in Actors \ {a} : thunk[b] # invCache
    BY <1>a, <2>1, <2>2 DEF CacheInv, TypeOK, Waiting
  <2>4. \A b, d \in Actors : b # d /\ thunk'[b] # None => thunk'[b] # thunk'[d]
    BY <2>1, <2>3 DEF CacheInv
  <2> QED
    BY <2>1, <2>2, <2>4 DEF CacheInv, Waiting
<1>6. ASSUME NEW a \in Actors, Enter(a)
      PROVE  CacheInv'
  <2>1. /\ pc[a] \in Busy /\ pc'[a] = "submit" /\ \A b \in Actors \ {a} : pc'[b] = pc[b]
        /\ invCache' = None /\ thunk' = thunk /\ thunk[a] # None
    BY <1>6, <1>a DEF Enter, Goto, Busy, TypeOK
  <2>2. \A b \in Actors \ {a} : pc[b] \in {"idle"} \cup Waiting
    BY <2>1, Alone
  <2>3. \A b \in Actors : pc[b] \in Waiting => thunk[b] # None
    BY <1>a DEF TypeOK, Waiting
  <2> QED
    BY <2>1, <2>2, <2>3 DEF CacheInv, Waiting
<1>7. ASSUME NEW a \in Actors, Submit(a)
      PROVE  CacheInv'
  <2>1. /\ UNCHANGED <<invCache, thunk>>
        /\ pc[a] = "submit" /\ pc'[a] = "wait"
        /\ \A b \in Actors \ {a} : pc'[b] = pc[b]
    BY <1>7, <1>a DEF Submit, Goto
  <2> QED
    BY <2>1, CacheKept
\* Leaving puts the thunk back that nobody else has.
<1>8. ASSUME NEW a \in Actors, Leave(a), thunk[a] # None,
             \A b \in Actors \ {a} : pc[b] \in {"idle"} \cup Waiting
      PROVE  CacheInv'
  <2>1. /\ pc'[a] = "idle" /\ \A b \in Actors \ {a} : pc'[b] = pc[b]
        /\ invCache' = thunk[a]
        /\ thunk'[a] = None /\ \A b \in Actors \ {a} : thunk'[b] = thunk[b]
    BY <1>8, <1>a, <1>b DEF Leave
  <2>2. \A b, d \in Actors : b # d /\ thunk'[b] # None => thunk'[b] # thunk'[d]
    BY <2>1 DEF CacheInv
  <2>3. \A b \in Actors \ {a} : thunk[b] # thunk[a]
    BY <1>8 DEF CacheInv
  <2> QED
    BY <1>8, <2>1, <2>2, <2>3 DEF CacheInv, Waiting
<1>9. ASSUME NEW a \in Actors, Return(a)
      PROVE  CacheInv'
  <2>1. Leave(a)
    BY <1>9 DEF Return
  <2> QED
    BY <2>1, <1>8, <1>9, ReturnAlone, NoneAssumption
<1>10. CASE CallDirectly
  <2>1. Leave(Worker) /\ pc[Worker] = "submit" /\ thunk[Worker] # None
    BY <1>10, <1>a DEF CallDirectly, TypeOK
  <2>2. \A b \in Actors \ {Worker} : pc[b] \in {"idle"} \cup Waiting
    BY <2>1, Alone DEF Busy
  <2> QED
    BY <2>1, <2>2, <1>8
<1>11. CASE Take \/ BeginInvoke
  BY <1>11, CacheKept DEF Take, BeginInvoke, actorVars
<1>12. CASE EndInvoke
  <2>1. UNCHANGED <<invCache, thunk>> /\ serving \in Thunks /\ Notify(serving)
    BY <1>12, <1>a DEF EndInvoke, TypeOK
  <2>2. \A b \in Actors : pc'[b] = pc[b] \/ (pc[b] = "wait" /\ pc'[b] = "wake")
    BY <1>a, <2>1, NotifyPc
  <2> QED
    BY <2>1, <2>2, CacheKept DEF Waiting
<1>13. CASE ServeOwn
  <2>1. /\ UNCHANGED <<invCache, thunk>> /\ serving \in Threads
        /\ pc' = [pc EXCEPT ![serving] = "idle"]
    BY <1>13 DEF ServeOwn
  <2>2. \A b \in Actors : pc'[b] = pc[b] \/ pc'[b] = "idle"
    BY <1>a, <2>1
  <2> QED
    BY <2>1, <2>2, CacheKept DEF Waiting
<1>14. CASE UNCHANGED vars
  BY <1>14, CacheKept DEF vars, actorVars
<1> QED
  BY <1>1, <1>2, <1>3, <1>4, <1>5, <1>6, <1>7, <1>9, <1>10, <1>11, <1>12, <1>13, <1>14
     DEF Next, WorkerStep, Proceed, Dispose, Query, Own

\* An actor's call stays where it should be, when nothing it depends on is
\* touched.
LEMMA OwnCallKept ==
  ASSUME NEW b \in Actors, OwnCall(b),
         pc'[b] = pc[b] \/ {pc[b], pc'[b]} \subseteq Waiting,
         wants'[b] = wants[b], thunk'[b] = thunk[b],
         pc[b] \in {"submit"} \cup Waiting => call'[thunk[b]] = call[thunk[b]],
         pc[b] \in Waiting =>
           /\ done'[thunk[b]] = done[thunk[b]]
           /\ outcome'[thunk[b]] = outcome[thunk[b]]
           /\ running' /\ serving' = thunk[b] <=> running /\ serving = thunk[b]
           /\ running /\ serving = thunk[b] => current' = current,
         pc[b] \in Busy \cup Waiting => runs'[wants[b]] = runs[wants[b]]
  PROVE  OwnCall(b)'
<1>1. pc'[b] \in Waiting <=> pc[b] \in Waiting
  OBVIOUS
<1>2. pc'[b] \in Busy <=> pc[b] \in Busy
  BY DEF Busy, Waiting
<1>3. pc'[b] = "submit" <=> pc[b] = "submit"
  BY DEF Waiting
<1>4. NotRun(b)' <=> NotRun(b)
  BY <1>1, <1>2 DEF NotRun
<1>5. NotRun(b) => pc[b] \in Busy \cup Waiting
  BY DEF NotRun
<1> QED
  BY <1>1, <1>2, <1>3, <1>4, <1>5 DEF OwnCall, Busy

\* Who makes no call has nothing to lose.
LEMMA NoCall ==
  ASSUME NEW b \in Actors, pc[b] \notin Busy \cup Waiting
  PROVE  OwnCall(b)
BY DEF OwnCall, NotRun, Busy, Waiting

\* Every step keeps the calls where they should be.
LEMMA NextCall ==
  ASSUME TypeInv, TypeInv', TurnInv, CacheInv, CallInv, [Next]_vars
  PROVE  CallInv'
<1> USE DEF Actors
<1>a. TypeOK /\ pc \in [Actors -> {"idle", "lookup", "create", "read", "enter", "submit",
                                   "wait", "wake", "interrupted", "disposing", "querying"}]
  BY DEF TypeInv, TypeOK
<1>b. /\ thunk \in [Actors -> Thunks \cup {None}] /\ wants \in [Actors -> Calls \cup {None}]
      /\ call \in [Thunks -> Calls \cup {None}] /\ done \in [Thunks -> BOOLEAN]
      /\ outcome \in [Thunks -> Calls \cup {None, "npe"}]
      /\ runs \in [Calls -> 0..2]
  BY <1>a DEF TypeOK
<1>c. \A b \in Actors :
        /\ OwnCall(b)
        /\ pc[b] \in {"submit"} \cup Waiting => thunk[b] \in Thunks
        /\ pc[b] \in Busy \cup Waiting => wants[b] \in Calls
        /\ \A d \in Actors \ {b} :
             /\ thunk[d] # None => thunk[d] # thunk[b]
             /\ wants[d] # None => wants[d] # wants[b]
  BY <1>a DEF CallInv, CacheInv, OwnCall, TypeOK, Waiting
\* Only pc changes, and keeps everybody's place.
<1>d. ASSUME UNCHANGED <<wants, thunk, call, done, outcome, runs>>,
             \A b \in Actors : pc[b] \in Waiting =>
               /\ running' /\ serving' = thunk[b] <=> running /\ serving = thunk[b]
               /\ running /\ serving = thunk[b] => current' = current,
             \A b \in Actors :
               \/ pc'[b] = pc[b]
               \/ pc[b] \in Waiting /\ pc'[b] \in Waiting
               \/ pc[b] \in Busy /\ pc'[b] \in Busy \ {"submit"}
               \/ pc'[b] \notin Busy \cup Waiting
      PROVE  CallInv'
  <2>1. SUFFICES ASSUME NEW b \in Actors PROVE OwnCall(b)'
    BY <1>d DEF CallInv, RunAtMostOnce
  <2>2. CASE pc'[b] = pc[b] \/ (pc[b] \in Waiting /\ pc'[b] \in Waiting)
    BY <1>c, <1>d, <2>2, OwnCallKept
  <2>3. CASE pc[b] \in Busy /\ pc'[b] \in Busy \ {"submit"}
    <3>1. runs[wants[b]] = 0 /\ wants[b] \in Calls
      BY <1>c, <2>3 DEF OwnCall, NotRun
    <3> QED
      BY <1>d, <2>3, <3>1 DEF OwnCall, NotRun, Busy, Waiting
  <2>4. CASE pc'[b] \notin Busy \cup Waiting
    BY <2>4 DEF OwnCall, NotRun, Busy, Waiting
  <2> QED
    BY <1>d, <2>2, <2>3, <2>4
<1>1. ASSUME NEW a \in Actors, NEW k \in Calls, BeginCall(a, k)
      PROVE  CallInv'
  <2>1. /\ pc'[a] = "lookup" /\ \A b \in Actors \ {a} : pc'[b] = pc[b]
        /\ wants'[a] = k /\ \A b \in Actors \ {a} : wants'[b] = wants[b]
        /\ \A b \in Actors : wants[b] # k
        /\ runs'[k] = 0 /\ \A h \in Calls \ {k} : runs'[h] = runs[h]
        /\ UNCHANGED <<thunk, call, done, outcome, running, serving, current>>
    BY <1>1, <1>a, <1>b DEF BeginCall, Unused, Goto, thunkVars, workVars
  <2>2. OwnCall(a)'
    BY <2>1 DEF OwnCall, NotRun, Busy, Waiting
  <2>3. ASSUME NEW b \in Actors \ {a} PROVE OwnCall(b)'
    BY <1>c, <2>1, OwnCallKept
  <2>4. \A b, d \in Actors : b # d /\ wants'[b] # None => wants'[b] # wants'[d]
    BY <1>c, <2>1
  <2>5. RunAtMostOnce'
    BY <2>1 DEF CallInv, RunAtMostOnce
  <2> QED
    BY <2>2, <2>3, <2>4, <2>5 DEF CallInv
<1>2. ASSUME NEW a \in Actors,
             \/ LookUp(a) \/ WaitAgain(a)
             \/ a \in Threads /\ Unblock(a)
             \/ a \in Threads /\ \E to \in Own : SubmitOwn(a, to)
      PROVE  CallInv'
  <2>1. /\ UNCHANGED <<wants, thunk, call, done, outcome, runs, running, serving, current>>
        /\ pc' = [pc EXCEPT ![a] = pc'[a]]
        /\ \/ pc[a] \in Waiting /\ pc'[a] \in Waiting
           \/ pc[a] \in Busy /\ pc'[a] \in Busy \ {"submit"}
           \/ pc'[a] \notin Busy \cup Waiting
    BY <1>2, <1>a DEF LookUp, WaitAgain, Unblock, SubmitOwn, Goto, Busy, Waiting, Own,
                      thunkVars, workVars
  <2>2. \A b \in Actors \ {a} : pc'[b] = pc[b]
    BY <1>a, <2>1
  <2> QED
    BY <2>1, <2>2, <1>d
<1>3. ASSUME NEW a \in Actors, ReadNull(a) \/ GiveUp(a)
      PROVE  FALSE
  BY <1>3 DEF ReadNull, GiveUp, Goto, CacheInv, TurnInv, Busy
<1>4. ASSUME NEW a \in Actors, NEW t \in Thunks, Create(a, t)
      PROVE  CallInv'
  <2>1. /\ pc[a] \in Busy /\ pc'[a] = "read" /\ \A b \in Actors \ {a} : pc'[b] = pc[b]
        /\ \A b \in Actors : thunk[b] # t
        /\ \A u \in Thunks \ {t} :
             call'[u] = call[u] /\ done'[u] = done[u] /\ outcome'[u] = outcome[u]
        /\ UNCHANGED <<wants, thunk, runs, running, serving, current>>
    BY <1>4, <1>a, <1>b DEF Create, Fresh, Goto, Busy, workVars
  <2>2. OwnCall(a)'
    BY <1>c, <2>1 DEF OwnCall, NotRun, Busy, Waiting
  <2>3. ASSUME NEW b \in Actors \ {a} PROVE OwnCall(b)'
    BY <1>c, <2>1, OwnCallKept
  <2> QED
    BY <2>1, <2>2, <2>3 DEF CallInv, RunAtMostOnce
<1>5. ASSUME NEW a \in Actors, Read(a)
      PROVE  CallInv'
  <2>1. /\ pc[a] \in Busy /\ pc'[a] = "enter" /\ \A b \in Actors \ {a} : pc'[b] = pc[b]
        /\ \A b \in Actors \ {a} : thunk'[b] = thunk[b]
        /\ UNCHANGED <<wants, call, done, outcome, runs, running, serving, current>>
    BY <1>5, <1>a, <1>b DEF Read, Goto, Busy, thunkVars, workVars
  <2>2. OwnCall(a)'
    BY <1>c, <2>1 DEF OwnCall, NotRun, Busy, Waiting
  <2>3. ASSUME NEW b \in Actors \ {a} PROVE OwnCall(b)'
    BY <1>c, <2>1, OwnCallKept
  <2> QED
    BY <2>1, <2>2, <2>3 DEF CallInv, RunAtMostOnce
<1>6. ASSUME NEW a \in Actors, Enter(a)
      PROVE  CallInv'
  <2>1. /\ pc[a] \in Busy /\ pc'[a] = "submit" /\ \A b \in Actors \ {a} : pc'[b] = pc[b]
        /\ thunk[a] \in Thunks
        /\ call'[thunk[a]] = wants[a]
        /\ \A u \in Thunks \ {thunk[a]} : call'[u] = call[u]
        /\ UNCHANGED <<wants, thunk, done, outcome, runs, running, serving, current>>
    BY <1>6, <1>a, <1>b DEF Enter, Goto, Busy, TypeOK, workVars
  <2>2. OwnCall(a)'
    BY <1>c, <2>1 DEF OwnCall, NotRun, Busy, Waiting
  <2>3. ASSUME NEW b \in Actors \ {a} PROVE OwnCall(b)'
    BY <1>c, <2>1, OwnCallKept, NoneAssumption
  <2> QED
    BY <2>1, <2>2, <2>3 DEF CallInv, RunAtMostOnce
<1>7. ASSUME NEW a \in Actors, Submit(a)
      PROVE  CallInv'
  <2>1. /\ pc[a] = "submit" /\ pc'[a] = "wait" /\ \A b \in Actors \ {a} : pc'[b] = pc[b]
        /\ a \in Threads /\ thunk[a] \in Thunks
        /\ ~done'[thunk[a]]
        /\ \A u \in Thunks \ {thunk[a]} : done'[u] = done[u]
        /\ UNCHANGED <<wants, thunk, call, outcome, runs, running, serving, current>>
    BY <1>7, <1>a, <1>b DEF Submit, Goto, TypeOK
  <2>2. \A b \in Actors \ {a} : pc[b] = "idle"
    BY <2>1, Alone DEF Busy
  <2>3. ~running
    BY <2>1, <2>2, NothingInFlight DEF Waiting, Own
  <2>4. OwnCall(a)'
    BY <1>c, <2>1, <2>3 DEF OwnCall, NotRun, Busy, Waiting
  <2>5. ASSUME NEW b \in Actors \ {a} PROVE OwnCall(b)'
    BY <2>1, <2>2 DEF OwnCall, NotRun, Busy, Waiting
  <2> QED
    BY <2>1, <2>4, <2>5 DEF CallInv, RunAtMostOnce
<1>8. ASSUME NEW a \in Actors, Return(a)
      PROVE  CallInv'
  <2>1. /\ pc'[a] = "idle" /\ \A b \in Actors \ {a} : pc'[b] = pc[b]
        /\ UNCHANGED <<wants, runs>>
    BY <1>8, <1>a DEF Return, Leave
  <2>2. \A b \in Actors : pc'[b] = "idle"
    BY <1>8, <2>1, ReturnAlone
  <2>3. ASSUME NEW b \in Actors PROVE OwnCall(b)'
    BY <2>2 DEF OwnCall, NotRun, Busy, Waiting
  <2> QED
    BY <2>1, <2>3 DEF CallInv, RunAtMostOnce
<1>9. CASE CallDirectly
  <2>1. /\ pc[Worker] = "submit" /\ thunk[Worker] \in Thunks
    BY <1>9, <1>a DEF CallDirectly, TypeOK
  <2>2. wants[Worker] \in Calls /\ runs[wants[Worker]] = 0
    BY <1>c, <2>1 DEF OwnCall, NotRun, Busy
  <2>3. /\ pc'[Worker] = "idle" /\ \A b \in Actors \ {Worker} : pc'[b] = pc[b]
        /\ \A b \in Actors \ {Worker} : thunk'[b] = thunk[b]
        /\ \A u \in Thunks \ {thunk[Worker]} : call'[u] = call[u]
        /\ runs'[wants[Worker]] = 1
        /\ \A h \in Calls \ {wants[Worker]} : runs'[h] = runs[h]
        /\ UNCHANGED <<wants, done, outcome, running, serving, current>>
    BY <1>9, <1>a, <1>b, <2>2 DEF CallDirectly, Leave, Count, workVars
  <2>4. OwnCall(Worker)'
    BY <2>3 DEF OwnCall, NotRun, Busy, Waiting
  <2>5. ASSUME NEW b \in Actors \ {Worker} PROVE OwnCall(b)'
    BY <1>c, <2>1, <2>2, <2>3, OwnCallKept, NoneAssumption
  <2>6. RunAtMostOnce'
    BY <2>3 DEF CallInv, RunAtMostOnce
  <2> QED
    BY <2>3, <2>4, <2>5, <2>6 DEF CallInv
<1>10. CASE Take
  <2>1. /\ UNCHANGED <<pc, wants, thunk, call, done, outcome, runs, running>>
        /\ serving = None
    BY <1>10 DEF Take, actorVars, thunkVars
  <2>2. ~running
    BY <1>a, <2>1, NoneAssumption DEF TypeOK
  <2> QED
    BY <2>1, <2>2, <1>d
<1>11. CASE BeginInvoke
  <2>1. /\ UNCHANGED <<pc, wants, thunk, call, done, outcome, serving>>
        /\ serving \in Thunks /\ ~running /\ running'
        /\ current' = call[serving]
        /\ runs' = [k \in Calls |-> IF k = call[serving] THEN Count(k) ELSE runs[k]]
    BY <1>11 DEF BeginInvoke, actorVars, thunkVars
  <2>2. PICK c \in Threads : pc[c] \in Waiting /\ thunk[c] = serving /\ ~done[serving]
    BY <2>1 DEF TurnInv
  <2>3. NotRun(c)
    BY <2>1, <2>2 DEF NotRun
  <2>4. call[serving] = wants[c] /\ runs[wants[c]] = 0 /\ wants[c] \in Calls
    BY <1>c, <2>2, <2>3 DEF OwnCall
  <2>5. runs'[wants[c]] = 1 /\ \A h \in Calls \ {wants[c]} : runs'[h] = runs[h]
    BY <2>1, <2>4 DEF Count
  <2>6. OwnCall(c)'
    BY <1>c, <2>1, <2>2, <2>4 DEF OwnCall, NotRun, Busy, Waiting
  <2>7. ASSUME NEW b \in Actors \ {c} PROVE OwnCall(b)'
    <3>1. pc[b] \in Busy \cup Waiting => wants[b] \in Calls /\ wants[b] # wants[c]
      BY <1>c, NoneAssumption
    <3>2. pc[b] \in Waiting => thunk[b] # serving
      BY <1>c, <2>2, NoneAssumption
    <3> QED
      BY <1>c, <2>1, <2>5, <3>1, <3>2, OwnCallKept
  <2>8. RunAtMostOnce'
    BY <2>5 DEF CallInv, RunAtMostOnce
  <2> QED
    BY <2>1, <2>6, <2>7, <2>8 DEF CallInv
<1>12. CASE EndInvoke
  <2>1. /\ running /\ ~running' /\ serving \in Thunks /\ Notify(serving)
        /\ outcome'[serving] = IF current = None THEN "npe" ELSE current
        /\ done'[serving]
        /\ \A u \in Thunks \ {serving} :
             call'[u] = call[u] /\ done'[u] = done[u] /\ outcome'[u] = outcome[u]
        /\ UNCHANGED <<wants, thunk, runs>>
    BY <1>12, <1>a, <1>b DEF EndInvoke, TypeOK
  <2>2. \A b \in Actors : \/ pc'[b] = pc[b]
                          \/ pc[b] = "wait" /\ pc'[b] = "wake"
    BY <1>a, <2>1, NotifyPc
  <2>3. PICK c \in Threads : pc[c] \in Waiting /\ thunk[c] = serving
    BY <2>1 DEF TurnInv
  <2>4. current = wants[c] /\ wants[c] \in Calls
    BY <1>c, <2>1, <2>3 DEF OwnCall
  <2>5. pc'[c] \in Waiting
    BY <2>2, <2>3 DEF Waiting
  <2>6. outcome'[serving] = wants[c]
    BY <2>1, <2>4, NoneAssumption
  <2>7. OwnCall(c)'
    BY <2>1, <2>3, <2>4, <2>5, <2>6 DEF OwnCall, NotRun, Busy, Waiting
  <2>8. ASSUME NEW b \in Actors \ {c} PROVE OwnCall(b)'
    <3>1. pc[b] \in {"submit"} \cup Waiting => thunk[b] \in Thunks \ {serving}
      BY <1>c, <2>3, NoneAssumption
    <3>2. pc'[b] = pc[b] \/ {pc[b], pc'[b]} \subseteq Waiting
      BY <2>2 DEF Waiting
    <3> QED
      BY <1>c, <2>1, <3>1, <3>2, OwnCallKept
  <2> QED
    BY <2>1, <2>7, <2>8 DEF CallInv, RunAtMostOnce
<1>13. CASE ServeOwn
  <2>1. /\ UNCHANGED <<wants, thunk, call, done, outcome, runs, running>>
        /\ serving \in Threads
        /\ pc' = [pc EXCEPT ![serving] = "idle"]
    BY <1>13 DEF ServeOwn, thunkVars
  <2>2. \A b \in Actors : pc'[b] = pc[b] \/ pc'[b] = "idle"
    BY <1>a, <2>1
  <2>3. ~running
    BY <1>a, <2>1 DEF TypeOK
  <2> QED
    BY <2>1, <2>2, <2>3, <1>d DEF Busy, Waiting
<1>14. CASE UNCHANGED vars
  BY <1>14, <1>d DEF vars, actorVars, thunkVars, workVars
<1> QED
  BY <1>1, <1>2, <1>3, <1>4, <1>5, <1>6, <1>7, <1>8, <1>9, <1>10, <1>11, <1>12, <1>13,
     <1>14 DEF Next, WorkerStep, Proceed, Dispose, Query, Own

\* Nobody gets past a check of isDisposed that was true, nor is under way when
\* it becomes so: the thread that disposes is alone.
LEMMA NextDisposed ==
  ASSUME TakeTurns, TypeInv, TurnInv, DisposedInv, [Next]_vars
  PROVE  DisposedInv'
<1> USE DEF Actors
<1>a. TypeOK /\ pc \in [Actors -> {"idle", "lookup", "create", "read", "enter", "submit",
                                   "wait", "wake", "interrupted", "disposing", "querying"}]
  BY DEF TypeInv, TypeOK
\* Steps of those who are in a call already, or leave.
<1>b. ASSUME isDisposed' = isDisposed,
             \A b \in Actors :
               /\ pc'[b] \in Busy \cup Waiting => pc[b] \in Busy \cup Waiting
               /\ pc'[b] = "querying" => pc[b] = "querying"
      PROVE  DisposedInv'
  BY <1>b DEF DisposedInv
<1>1. ASSUME NEW a \in Actors, NEW k \in Calls, BeginCall(a, k)
      PROVE  DisposedInv'
  BY <1>1 DEF BeginCall, DisposedInv
<1>2. ASSUME NEW a \in Actors,
             \/ LookUp(a) \/ (\E t \in Thunks : Create(a, t)) \/ Read(a) \/ ReadNull(a)
             \/ Enter(a) \/ Submit(a) \/ WaitAgain(a)
             \/ a \in Threads /\ Unblock(a)
      PROVE  DisposedInv'
  <2>1. /\ isDisposed' = isDisposed
        /\ pc[a] \in Busy \cup Waiting
        /\ \A b \in Actors \ {a} : pc'[b] = pc[b]
        /\ pc'[a] # "querying"
    BY <1>2, <1>a DEF LookUp, Create, Read, ReadNull, Enter, Submit, WaitAgain, Unblock,
                      Goto, Busy, Waiting
  <2> QED
    BY <2>1, <1>b
<1>3. ASSUME NEW a \in Actors, Return(a) \/ GiveUp(a) \/ (a = Worker /\ CallDirectly)
      PROVE  DisposedInv'
  <2>1. /\ isDisposed' = isDisposed
        /\ \A b \in Actors : pc'[b] = pc[b] \/ pc'[b] = "idle"
    BY <1>3, <1>a DEF Return, GiveUp, CallDirectly, Leave
  <2> QED
    BY <2>1, <1>b DEF Busy, Waiting
<1>4. ASSUME NEW c \in Threads, Dispose(c) \/ Query(c)
      PROVE  DisposedInv'
  <2>1. /\ isDisposed' = isDisposed
        /\ \A b \in Actors \ {c} : pc'[b] = pc[b]
        /\ pc'[c] \in Own
        /\ pc'[c] = "querying" => ~isDisposed \/ c \in Direct
    BY <1>4, <1>a DEF Dispose, Query, SubmitOwn, Goto, Own
  <2> QED
    BY <2>1 DEF DisposedInv, Own, Busy, Waiting
<1>5. CASE Take \/ BeginInvoke
  BY <1>5, <1>b DEF Take, BeginInvoke, actorVars
<1>6. CASE EndInvoke
  <2>1. isDisposed' = isDisposed /\ serving \in Thunks /\ Notify(serving)
    BY <1>6, <1>a DEF EndInvoke, TypeOK
  <2>2. \A b \in Actors : pc'[b] = pc[b] \/ (pc[b] = "wait" /\ pc'[b] = "wake")
    BY <1>a, <2>1, NotifyPc
  <2> QED
    BY <2>1, <2>2, <1>b DEF Waiting
<1>7. CASE ServeOwn
  <2>1. /\ serving \in Threads /\ pc[serving] \in Own
        /\ pc' = [pc EXCEPT ![serving] = "idle"]
    BY <1>7 DEF ServeOwn, TypeInv, OwnTasks
  <2>2. \A c \in Threads \ {serving} : pc[c] = "idle"
    BY <2>1 DEF TurnInv, Own
  <2>3. pc[Worker] = "idle"
    BY <2>1 DEF TurnInv, Own, Waiting
  <2>4. \A b \in Actors : pc'[b] = "idle"
    BY <1>a, <2>1, <2>2, <2>3
  <2> QED
    BY <2>4 DEF DisposedInv, Busy, Waiting
<1>8. CASE UNCHANGED vars
  BY <1>8, <1>b DEF vars, actorVars
<1> QED
  BY <1>1, <1>2, <1>3, <1>4, <1>5, <1>6, <1>7, <1>8 DEF Next, WorkerStep, Proceed

LEMMA InitTakenTurns == Init => TakenTurnsInv
<1> SUFFICES ASSUME Init PROVE TakenTurnsInv OBVIOUS
<1> USE DEF Actors
<1>1. TypeInv
  BY InitType
<1>2. /\ queue = <<>> /\ Len(queue) = 0 /\ Queued = {} /\ serving = None
      /\ ~isDisposed /\ \A a \in Actors : pc[a] = "idle" /\ thunk[a] = None /\ wants[a] = None
      /\ \A k \in Calls : runs[k] = 0
  BY DEF Init, Queued
<1>3. TurnInv
  BY <1>2, NoneAssumption DEF TurnInv
<1>4. CacheInv
  BY <1>2 DEF CacheInv, Waiting
<1>5. CallInv
  BY <1>2, NoCall DEF CallInv, Busy, Waiting, RunAtMostOnce
<1>6. DisposedInv
  BY <1>2 DEF DisposedInv
<1> QED
  BY <1>1, <1>3, <1>4, <1>5, <1>6 DEF TakenTurnsInv

\* The invariant of callers that take turns and wait for their answers.
LEMMA TakenTurns ==
  ASSUME TakeTurns, ~Interrupts
  PROVE  Spec => []TakenTurnsInv
<1>1. TakenTurnsInv /\ [Next]_vars => TakenTurnsInv'
  BY NextType, NextTurn, NextCache, NextCall, NextDisposed DEF TakenTurnsInv
<1> QED
  BY <1>1, InitTakenTurns, PTL DEF Spec

\* Callers that take turns, and wait until they have their answer, share the
\* cached thunk safely: no call of the proxy runs a COM method twice.
THEOREM CallsRunOnce ==
  ASSUME TakeTurns, ~Interrupts
  PROVE  Spec => []RunAtMostOnce
<1>1. TakenTurnsInv => RunAtMostOnce
  BY DEF TakenTurnsInv, CallInv
<1> QED
  BY <1>1, TakenTurns, PTL

\* ... the thunk in the cache is one that no task in flight needs, so that the
\* next call may have it.
THEOREM CachedThunkIsFree ==
  ASSUME TakeTurns, ~Interrupts
  PROVE  Spec => []CacheHoldsFreeThunk
<1>1. ASSUME TakenTurnsInv PROVE CacheHoldsFreeThunk
  <2> USE <1>1 DEF TakenTurnsInv, Actors
  <2>1. SUFFICES ASSUME invCache # None
                 PROVE  /\ invCache \notin Queued \cup {serving}
                        /\ \A c \in Threads : pc[c] # "enter" => thunk[c] # invCache
    BY DEF CacheHoldsFreeThunk
  <2>2. invCache \in Thunks
    BY <2>1 DEF TypeInv, TypeOK
  <2>3. \A c \in Threads : pc[c] \in Waiting => thunk[c] # invCache
    BY DEF CacheInv
  <2>4. invCache \notin Queued \cup {serving}
    BY <2>2, <2>3 DEF TurnInv
  <2>5. ASSUME NEW c \in Threads, pc[c] # "enter"
        PROVE  thunk[c] # invCache
    <3>1. CASE pc[c] \in {"submit"} \cup Waiting
      BY <3>1 DEF CacheInv
    <3>2. CASE pc[c] \notin {"submit"} \cup Waiting
      BY <2>1, <2>5, <3>2 DEF TypeInv, TypeOK, TurnInv, Waiting
    <3> QED
      BY <3>1, <3>2
  <2> QED
    BY <2>4, <2>5
<1> QED
  BY <1>1, TakenTurns, PTL

\* ... and no COM call goes to a pointer that dispose() has released, but for
\* the queries of threads that bypass the proxy.
THEOREM DisposedIsNotCalled ==
  ASSUME TakeTurns, ~Interrupts
  PROVE  Spec => []NoCallOnReleased
<1>1. ASSUME TakenTurnsInv PROVE NoCallOnReleased
  <2> USE <1>1 DEF TakenTurnsInv, Actors
  <2>1. ASSUME running PROVE ~isDisposed
    <3>1. serving \in Thunks
      BY <2>1 DEF TypeInv, TypeOK
    <3>2. PICK c \in Threads : pc[c] \in Waiting
      BY <3>1 DEF TurnInv
    <3> QED
      BY <3>2 DEF DisposedInv
  <2>2. isDisposed => \A c \in Threads \ Direct : pc[c] # "querying"
    BY DEF DisposedInv
  <2> QED
    BY <2>1, <2>2 DEF NoCallOnReleased
<1> QED
  BY <1>1, TakenTurns, PTL

\* The proxy returns the outcome of the very call that was made: invoke() meets
\* no cache another caller has emptied, and no answer of another call.
THEOREM CallersGetTheirOwn ==
  ASSUME TakeTurns, ~Interrupts
  PROVE  Spec => OwnOutcome
<1> DEFINE Own1(a) == pc[a] \in {"read", "wake"} /\ pc'[a] = "idle"
                        => pc[a] = "wake" /\ outcome[thunk[a]] = wants[a]
<1>1. ASSUME TakenTurnsInv, [Next]_vars
      PROVE  [\A a \in Actors : Own1(a)]_vars
  <2> USE DEF Actors
  <2>0. TypeInv /\ TurnInv /\ CacheInv /\ CallInv
    BY <1>1 DEF TakenTurnsInv
  <2>a. TypeOK /\ pc \in [Actors -> {"idle", "lookup", "create", "read", "enter", "submit",
                                     "wait", "wake", "interrupted", "disposing", "querying"}]
    BY <2>0 DEF TypeInv, TypeOK
  <2>1. SUFFICES ASSUME NEW b \in Actors, pc[b] \in {"read", "wake"}, pc'[b] = "idle"
                 PROVE  pc[b] = "wake" /\ outcome[thunk[b]] = wants[b]
    OBVIOUS
  <2>2. ASSUME NEW a \in Actors,
               \/ \E k \in Calls : BeginCall(a, k)
               \/ LookUp(a) \/ (\E t \in Thunks : Create(a, t)) \/ Read(a)
               \/ Enter(a) \/ Submit(a) \/ WaitAgain(a)
               \/ a \in Threads /\ (Unblock(a) \/ \E to \in Own : SubmitOwn(a, to))
        PROVE  FALSE
    <3>1. pc'[a] # "idle" /\ \A d \in Actors \ {a} : pc'[d] = pc[d]
      BY <2>2, <2>a DEF BeginCall, LookUp, Create, Read, Enter, Submit, WaitAgain, Unblock,
                        SubmitOwn, Goto, Own
    <3> QED
      BY <2>1, <3>1
  <2>3. ASSUME NEW a \in Actors, ReadNull(a) \/ GiveUp(a)
        PROVE  FALSE
    BY <2>0, <2>3 DEF ReadNull, GiveUp, Goto, CacheInv, TurnInv, Busy
  <2>4. ASSUME NEW a \in Actors, Return(a)
        PROVE  pc[b] = "wake" /\ outcome[thunk[b]] = wants[b]
    <3>1. pc[a] = "wake" /\ done[thunk[a]] /\ \A d \in Actors \ {a} : pc'[d] = pc[d]
      BY <2>4, <2>a DEF Return, Leave
    <3>2. outcome[thunk[a]] = wants[a]
      BY <2>0, <3>1 DEF CallInv, OwnCall, Waiting
    <3> QED
      BY <2>1, <3>1, <3>2
  <2>5. CASE CallDirectly
    <3>1. pc[Worker] = "submit" /\ \A d \in Actors \ {Worker} : pc'[d] = pc[d]
      BY <2>5, <2>a DEF CallDirectly, Leave
    <3> QED
      BY <2>1, <3>1
  <2>6. CASE Take \/ BeginInvoke \/ UNCHANGED vars
    BY <2>1, <2>6 DEF Take, BeginInvoke, actorVars, vars
  <2>7. CASE EndInvoke
    <3>1. serving \in Thunks /\ Notify(serving)
      BY <2>7, <2>a DEF EndInvoke, TypeOK
    <3> QED
      BY <2>a, <2>1, <3>1, NotifyPc
  <2>8. CASE ServeOwn
    <3>1. /\ pc[serving] \in Own /\ serving \in Threads
          /\ \A d \in Actors \ {serving} : pc'[d] = pc[d]
      BY <2>0, <2>8, <2>a DEF ServeOwn, TypeInv, OwnTasks
    <3> QED
      BY <2>1, <3>1 DEF Own
  <2> QED
    BY <1>1, <2>2, <2>3, <2>4, <2>5, <2>6, <2>7, <2>8
       DEF Next, WorkerStep, Proceed, Dispose, Query, Own
<1> QED
  BY <1>1, TakenTurns, PTL DEF Spec, OwnOutcome
=============================================================================
