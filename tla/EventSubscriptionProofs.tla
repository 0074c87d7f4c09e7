----------------------- MODULE EventSubscriptionProofs -----------------------
(***************************************************************************)
(* Proofs about EventSubscription, for every set of threads and            *)
(* subscriptions and every bound on queue and nesting.                     *)
(***************************************************************************)
EXTENDS EventSubscription, TLAPS

\* A task, queued or run, for subscription e.
TaskFor(x, e) == x.op # "event" /\ x.proxy = e

\* Only tasks of threads are queued, and none of them has started.
QueueInv ==
  \A i \in DOMAIN queue :
    queue[i].op # "event" /\ queue[i].by \in Threads /\ queue[i].at = "start"

\* A thread at place x is busy with e.
Uses(x, e) == x # Idle /\ x.proxy = e

NoTask(e) ==
  /\ \A i \in DOMAIN queue : ~TaskFor(queue[i], e)
  /\ \A i \in DOMAIN frames : ~TaskFor(frames[i], e)

\* There is at most one task for e, queued or on the stack, and at most one
\* thread is busy with it.
OneAtATime(e) ==
  /\ \A i, j \in DOMAIN queue : TaskFor(queue[i], e) /\ TaskFor(queue[j], e) => i = j
  /\ \A i, j \in DOMAIN frames : TaskFor(frames[i], e) /\ TaskFor(frames[j], e) => i = j
  /\ \A i \in DOMAIN queue, j \in DOMAIN frames :
       ~(TaskFor(queue[i], e) /\ TaskFor(frames[j], e))
  /\ \A c, d \in Threads : Uses(pc[c], e) /\ Uses(pc[d], e) => c = d

\* What a task x for e may count on.
Stage(x, e) ==
  /\ x.op = "advise" =>
       /\ ~cookie[e] /\ ~nativeProxy[e]
       /\ receiver[e] = IF x.at = "start" THEN "none" ELSE "new"
  /\ x.op = "unadvise" =>
       /\ cookie[e] /\ nativeProxy[e] /\ receiver[e] = "connected"
       /\ x.by \in Threads => pc[x.by] = Waits(e)

TaskStages(e) ==
  /\ \A i \in DOMAIN queue : TaskFor(queue[i], e) => Stage(queue[i], e)
  /\ \A i \in DOMAIN frames : TaskFor(frames[i], e) => Stage(frames[i], e)

\* A thread with an answer: its task is gone; advise() left a connected
\* receiver if it succeeded, close() a deleted one.
AnswerInv(e) ==
  \A c \in Threads, ok \in BOOLEAN : pc[c] = Answered(e, ok) =>
    /\ NoTask(e)
    /\ cookie[e] => ok /\ receiver[e] = "deleted"
    /\ ~cookie[e] /\ ok => nativeProxy[e] /\ receiver[e] = "connected"

\* What holds of a subscription whose closes never overlapped.
SubscriptionInv(e) ==
  /\ OneAtATime(e)
  /\ TaskStages(e)
  /\ AnswerInv(e)
  /\ receiver[e] = "none" => ~cookie[e] /\ ~nativeProxy[e]
  /\ cookie[e] /\ ~InHand(e) => (nativeProxy[e] <=> receiver[e] = "connected")

Inv ==
  /\ TypeOK
  /\ QueueInv
  /\ NoDanglingSink
  /\ SafeToClose
  /\ \A e \in Proxies : ~spoilt[e] => SubscriptionInv(e)

-----------------------------------------------------------------------------
(* Stacks of frames, innermost first.                                      *)

\* A task of a thread is at the bottom of the stack.
StackOK(s) == s \in Seq(Frames) /\ \A i \in DOMAIN s : s[i].by \in Threads => i = Len(s)

LEMMA SeqFacts ==
  ASSUME NEW s \in Seq(Frames)
  PROVE  /\ Len(s) \in Nat /\ DOMAIN s = 1 .. Len(s)
         /\ \A i \in DOMAIN s : s[i] \in Frames
         /\ s # <<>> => 1 \in DOMAIN s /\ Head(s) = s[1] /\ Head(s) \in Frames
         /\ s = <<>> => DOMAIN s = {}
OBVIOUS

LEMMA FrameFacts ==
  ASSUME NEW op \in {"advise", "unadvise", "event"}, NEW e \in Proxies,
         NEW by \in Threads \cup {Worker}
  PROVE  LET f == Frame(op, e, by)
         IN  f \in Frames /\ f.op = op /\ f.proxy = e /\ f.by = by /\ f.at = "start"
BY DEF Frame, Frames

\* Nothing that works for a thread is put on top of something else.
LEMMA Push ==
  ASSUME NEW s \in Seq(Frames), StackOK(s), NEW f \in Frames, f.by = Worker
  PROVE  LET r == <<f>> \o s
         IN  /\ StackOK(r) /\ Len(r) = Len(s) + 1 /\ r[1] = f
             /\ \A i \in DOMAIN s : i + 1 \in DOMAIN r /\ r[i + 1] = s[i]
             /\ \A i \in DOMAIN r : i = 1 \/ (i - 1 \in DOMAIN s /\ r[i] = s[i - 1])
<1> DEFINE r == <<f>> \o s
<1>1. r \in Seq(Frames) /\ Len(r) = Len(s) + 1 /\ r[1] = f
  OBVIOUS
<1>2. /\ DOMAIN s = 1 .. Len(s) /\ DOMAIN r = 1 .. Len(s) + 1 /\ Len(s) \in Nat
      /\ \A i \in 1 .. Len(s) : r[i + 1] = s[i]
  OBVIOUS
<1>3. \A i \in DOMAIN r : i = 1 \/ (i - 1 \in DOMAIN s /\ r[i] = s[i - 1])
  <2>1. SUFFICES ASSUME NEW i \in DOMAIN r, i # 1
                 PROVE  i - 1 \in DOMAIN s /\ r[i] = s[i - 1]
    OBVIOUS
  <2>2. i \in Int /\ i - 1 \in 1 .. Len(s) /\ (i - 1) + 1 = i
    BY <2>1, <1>2
  <2> QED
    BY <2>2, <1>2
<1>4. \A i \in DOMAIN r : r[i].by \in Threads => i = Len(r)
  BY <1>1, <1>2, <1>3, ThreadsAssumption DEF StackOK
<1> QED
  BY <1>1, <1>2, <1>3, <1>4 DEF StackOK

LEMMA Pop ==
  ASSUME NEW s \in Seq(Frames), StackOK(s), s # <<>>
  PROVE  LET r == Tail(s)
         IN  /\ StackOK(r)
             /\ \A i \in DOMAIN r : i + 1 \in DOMAIN s /\ i + 1 # 1 /\ r[i] = s[i + 1]
             /\ \A i \in DOMAIN s : i = 1 \/ (i - 1 \in DOMAIN r /\ r[i - 1] = s[i])
<1> DEFINE r == Tail(s)
<1>1. /\ r \in Seq(Frames) /\ Len(r) = Len(s) - 1 /\ Len(s) \in Nat \ {0}
      /\ DOMAIN s = 1 .. Len(s) /\ DOMAIN r = 1 .. Len(s) - 1
      /\ \A i \in 1 .. Len(s) - 1 : r[i] = s[i + 1]
  OBVIOUS
<1>2. \A i \in DOMAIN r : i + 1 \in DOMAIN s /\ i + 1 # 1 /\ r[i] = s[i + 1]
  BY <1>1
<1>3. \A i \in DOMAIN s : i = 1 \/ (i - 1 \in DOMAIN r /\ r[i - 1] = s[i])
  <2>1. SUFFICES ASSUME NEW i \in DOMAIN s, i # 1
                 PROVE  i - 1 \in DOMAIN r /\ r[i - 1] = s[i]
    OBVIOUS
  <2>2. i \in Int /\ i - 1 \in 1 .. Len(s) - 1 /\ (i - 1) + 1 = i
    BY <2>1, <1>1
  <2> QED
    BY <2>2, <1>1
<1>4. \A i \in DOMAIN r : r[i].by \in Threads => i = Len(r)
  BY <1>1, <1>2 DEF StackOK
<1> QED
  BY <1>1, <1>2, <1>3, <1>4 DEF StackOK

LEMMA TopGoesOn ==
  ASSUME NEW s \in Seq(Frames), StackOK(s), s # <<>>
  PROVE  LET r == [s EXCEPT ![1].at = "calling"]
         IN  /\ StackOK(r) /\ DOMAIN r = DOMAIN s /\ 1 \in DOMAIN s
             /\ r[1].op = s[1].op /\ r[1].proxy = s[1].proxy /\ r[1].by = s[1].by
             /\ r[1].at = "calling"
             /\ \A i \in DOMAIN s : i # 1 => r[i] = s[i]
<1> DEFINE f == [s[1] EXCEPT !.at = "calling"]
           r == [s EXCEPT ![1] = f]
<1>1. 1 \in DOMAIN s /\ DOMAIN s = 1 .. Len(s) /\ Len(s) \in Nat /\ s[1] \in Frames
  OBVIOUS
<1>2. /\ f \in Frames /\ f.op = s[1].op /\ f.proxy = s[1].proxy /\ f.by = s[1].by
      /\ f.at = "calling"
  BY <1>1 DEF Frames
<1>3. /\ r \in Seq(Frames) /\ DOMAIN r = DOMAIN s /\ r[1] = f /\ Len(r) = Len(s)
      /\ \A i \in DOMAIN s : i # 1 => r[i] = s[i]
  BY <1>1, <1>2
<1>4. \A i \in DOMAIN r : r[i].by \in Threads => i = Len(r)
  BY <1>1, <1>2, <1>3 DEF StackOK
<1> QED
  BY <1>1, <1>2, <1>3, <1>4 DEF StackOK

-----------------------------------------------------------------------------
(* Type correctness.                                                       *)

LEMMA PlaceFacts ==
  /\ Idle \in Places /\ Idle.at = "idle"
  /\ \A e \in Proxies :
       Waits(e) \in Places /\ Waits(e).at = "waits" /\ Waits(e).proxy = e
  /\ \A e \in Proxies, ok \in BOOLEAN :
       /\ Answered(e, ok) \in Places /\ Answered(e, ok).at = "answered"
       /\ Answered(e, ok).proxy = e /\ Answered(e, ok).ok = ok
  /\ \A x \in Places : x # Idle =>
       /\ x.proxy \in Proxies
       /\ \/ x = Waits(x.proxy)
          \/ x.ok \in BOOLEAN /\ x = Answered(x.proxy, x.ok)
<1>1. Idle \in Places /\ Idle.at = "idle"
  BY DEF Places, Idle
<1>2. \A e \in Proxies : Waits(e) \in Places /\ Waits(e).at = "waits" /\ Waits(e).proxy = e
  BY DEF Places, Waits
<1>3. ASSUME NEW e \in Proxies, NEW ok \in BOOLEAN
      PROVE  /\ Answered(e, ok) \in Places /\ Answered(e, ok).at = "answered"
             /\ Answered(e, ok).proxy = e /\ Answered(e, ok).ok = ok
  <2>1. Answered(e, ok) \in Places
    BY DEF Places
  <2> QED
    BY <2>1 DEF Answered
<1>4. ASSUME NEW x \in Places, x # Idle
      PROVE  /\ x.proxy \in Proxies
             /\ \/ x = Waits(x.proxy)
                \/ x.ok \in BOOLEAN /\ x = Answered(x.proxy, x.ok)
  <2>1. CASE \E e \in Proxies : x = Waits(e)
    BY <2>1, <1>2
  <2>2. CASE \E e \in Proxies, ok \in BOOLEAN : x = Answered(e, ok)
    <3>1. PICK e \in Proxies, ok \in BOOLEAN : x = Answered(e, ok)
      BY <2>2
    <3>2. x.proxy = e /\ x.ok = ok
      BY <3>1, <1>3
    <3> QED
      BY <3>1, <3>2
  <2> QED
    BY <1>4, <2>1, <2>2 DEF Places
<1> QED
  BY <1>1, <1>2, <1>3, <1>4

\* The part of TypeOK that does not speak of the stack.
TypeOKBut ==
  /\ nativeProxy \in [Proxies -> BOOLEAN]
  /\ receiver \in [Proxies -> {"none", "new", "connected", "disconnected", "deleted"}]
  /\ registered \in [Proxies -> BOOLEAN]
  /\ cookie \in [Proxies -> BOOLEAN]
  /\ pc \in [Threads -> Places]
  /\ queue \in Seq(Frames)
  /\ crashed \in BOOLEAN
  /\ spoilt \in [Proxies -> BOOLEAN]

LEMMA TypeParts == TypeOK <=> TypeOKBut /\ StackOK(frames)
BY DEF TypeOK, TypeOKBut, StackOK

LEMMA TopFacts ==
  ASSUME TypeOK, frames # <<>>
  PROVE  /\ 1 \in DOMAIN frames /\ Top = frames[1] /\ Top \in Frames
         /\ Top.proxy \in Proxies /\ Top.by \in Threads \cup {Worker}
BY SeqFacts DEF TypeOK, Top, Frames

\* An answer goes to the thread that waits for it, if it does.
LEMMA AnswerFacts ==
  ASSUME TypeOK, frames # <<>>, NEW ok \in BOOLEAN, Answer(ok)
  PROVE  /\ pc' \in [Threads -> Places]
         /\ \A c \in Threads :
              \/ pc'[c] = pc[c]
              \/ /\ c = Top.by /\ pc[c] = Waits(Top.proxy)
                 /\ pc'[c] = Answered(Top.proxy, ok)
         /\ Top.by \in Threads /\ pc[Top.by] = Waits(Top.proxy)
              => pc'[Top.by] = Answered(Top.proxy, ok)
<1>1. Top.proxy \in Proxies /\ Answered(Top.proxy, ok) \in Places
  BY TopFacts, PlaceFacts
<1>2. pc \in [Threads -> Places]
  BY DEF TypeOK
<1> QED
  BY <1>1, <1>2 DEF Answer

LEMMA InitType == Init => TypeOK
<1> SUFFICES ASSUME Init PROVE TypeOK
  OBVIOUS
<1>1. pc \in [Threads -> Places]
  BY PlaceFacts DEF Init
<1>2. queue \in Seq(Frames)
  BY DEF Init
<1>3. TypeOKBut
  BY <1>1, <1>2 DEF Init, TypeOKBut
<1>4. frames \in Seq(Frames) /\ DOMAIN frames = {}
  BY DEF Init
<1>5. StackOK(frames)
  BY <1>4 DEF StackOK
<1> QED
  BY <1>3, <1>5, TypeParts

LEMMA NextType == TypeOK /\ [Next]_vars => TypeOK'
<1> SUFFICES ASSUME TypeOK, [Next]_vars
             PROVE  TypeOK'
  OBVIOUS
<1>a. TypeOKBut /\ StackOK(frames) /\ frames \in Seq(Frames)
  BY TypeParts DEF TypeOK
<1>b. SUFFICES TypeOKBut' /\ StackOK(frames')
  BY DEF TypeOK, TypeOKBut, StackOK
<1>c. ASSUME frames # <<>>, frames' = Tail(frames)
      PROVE  StackOK(frames')
  BY <1>a, <1>c, Pop
<1>d. ASSUME frames # <<>>, SetTop("calling")
      PROVE  StackOK(frames')
  BY <1>a, <1>d, TopGoesOn DEF SetTop
<1>1. CASE Take
  <2>1. /\ Head(queue) \in Frames /\ Tail(queue) \in Seq(Frames)
        /\ <<Head(queue)>> \in Seq(Frames) /\ Len(<<Head(queue)>>) = 1
        /\ DOMAIN <<Head(queue)>> = {1}
    BY <1>1, <1>a DEF Take, TypeOKBut
  <2>2. StackOK(frames')
    BY <1>1, <2>1 DEF Take, StackOK
  <2> QED
    BY <1>1, <1>a, <2>1, <2>2 DEF Take, TypeOKBut
<1>2. CASE Register
  BY <1>2, <1>a, <1>d, TopFacts DEF Register, At, TypeOKBut
<1>3. CASE Registered
  BY <1>3, <1>a, <1>c, TopFacts, AnswerFacts DEF Registered, At, TypeOKBut
<1>4. CASE NotRegistered
  BY <1>4, <1>a, <1>c, TopFacts, AnswerFacts DEF NotRegistered, At, TypeOKBut
<1>5. CASE Crash
  BY <1>5, <1>a DEF Crash, TypeOKBut
<1>6. CASE Disconnect
  BY <1>6, <1>a, <1>d DEF Disconnect, At, TypeOKBut
<1>7. ASSUME NEW ok \in BOOLEAN, Delete(ok)
      PROVE  TypeOKBut' /\ StackOK(frames')
  BY <1>7, <1>a, <1>c, TopFacts, AnswerFacts DEF Delete, At, TypeOKBut
<1>8. CASE EventHandled
  BY <1>8, <1>a, <1>c DEF EventHandled, At, TypeOKBut
<1>9. ASSUME NEW e \in Proxies, Deliver(e)
      PROVE  TypeOKBut' /\ StackOK(frames')
  <2>1. Frame("event", e, Worker) \in Frames /\ Frame("event", e, Worker).by = Worker
    BY FrameFacts
  <2>2. StackOK(<<Frame("event", e, Worker)>> \o frames)
    BY <2>1, <1>a, Push
  <2> QED
    BY <1>9, <1>a, <2>2 DEF Deliver, TypeOKBut
<1>10. ASSUME NEW e \in Proxies, CloseInHandler(e)
       PROVE  TypeOKBut' /\ StackOK(frames')
  <2>1. Frame("unadvise", e, Worker) \in Frames /\ Frame("unadvise", e, Worker).by = Worker
    BY FrameFacts
  <2>2. StackOK(<<Frame("unadvise", e, Worker)>> \o frames)
    BY <2>1, <1>a, Push
  <2>3. spoilt' \in [Proxies -> BOOLEAN]
    BY <1>10, <1>a DEF CloseInHandler, TypeOKBut, InHand
  <2> QED
    BY <1>10, <1>a, <2>2, <2>3 DEF CloseInHandler, TypeOKBut
<1>11. ASSUME NEW c \in Threads, Return(c)
       PROVE  TypeOKBut' /\ StackOK(frames')
  BY <1>11, <1>a, PlaceFacts DEF Return, TypeOKBut
<1>12. ASSUME NEW c \in Threads, Interrupt(c)
       PROVE  TypeOKBut' /\ StackOK(frames')
  BY <1>12, <1>a, PlaceFacts DEF Interrupt, TypeOKBut
<1>13. ASSUME NEW c \in Threads, NEW e \in Proxies, Advise(c, e) \/ Close(c, e)
       PROVE  TypeOKBut' /\ StackOK(frames')
  <2>1. \A op \in {"advise", "unadvise"} : Append(queue, Frame(op, e, c)) \in Seq(Frames)
    BY <1>a, FrameFacts DEF TypeOKBut
  <2>2. PICK op \in {"advise", "unadvise"} : Submit(c, op, e)
    BY <1>13 DEF Advise, Close
  <2>4. /\ pc' \in [Threads -> Places] /\ queue' \in Seq(Frames)
        /\ UNCHANGED <<nativeProxy, receiver, registered, cookie, frames, crashed>>
    BY <2>2, <1>a, <2>1, PlaceFacts DEF Submit, TypeOKBut
  <2>3. spoilt' \in [Proxies -> BOOLEAN]
    BY <1>13, <1>a DEF Advise, Close, TypeOKBut
  <2> QED
    BY <1>a, <2>4, <2>3 DEF TypeOKBut
<1>14. CASE UNCHANGED vars
  BY <1>14, <1>a DEF vars, TypeOKBut
<1> QED
  BY <1>1, <1>2, <1>3, <1>4, <1>5, <1>6, <1>7, <1>8, <1>9, <1>10, <1>11, <1>12, <1>13,
     <1>14 DEF Next, Work

\* Types, and the order of the stack: a task that the COM thread runs for a
\* thread is never on top of anything (ComThreadMulti.run0 takes the next
\* task when the last one is done).
THEOREM TypeCorrect == Spec => []TypeOK
BY InitType, NextType, PTL DEF Spec

-----------------------------------------------------------------------------
(* Steps that do not concern a subscription.                               *)

LEMMA InHandFacts ==
  ASSUME TypeOK, QueueInv, NEW e \in Proxies
  PROVE  InHand(e) <=> ~NoTask(e) \/ \E c \in Threads : Uses(pc[c], e)
BY DEF InHand, NoTask, TaskFor, Uses, QueueInv

\* The tasks for e in s are those in r, k places further.
SameTasks(s, r, k, e) ==
  /\ \A i \in DOMAIN r : TaskFor(r[i], e) => i + k \in DOMAIN s /\ r[i] = s[i + k]
  /\ \A i \in DOMAIN s : TaskFor(s[i], e) => \E j \in DOMAIN r : r[j] = s[i]

LEMMA SameTasksFacts ==
  ASSUME NEW s \in Seq(Frames), NEW r \in Seq(Frames), NEW k \in Int, NEW e, SameTasks(s, r, k, e)
  PROVE  /\ (\A i, j \in DOMAIN s : TaskFor(s[i], e) /\ TaskFor(s[j], e) => i = j) =>
              (\A i, j \in DOMAIN r : TaskFor(r[i], e) /\ TaskFor(r[j], e) => i = j)
         /\ (\A i \in DOMAIN s : ~TaskFor(s[i], e)) <=> (\A i \in DOMAIN r : ~TaskFor(r[i], e))
<1>1. ASSUME \A i, j \in DOMAIN s : TaskFor(s[i], e) /\ TaskFor(s[j], e) => i = j,
             NEW i \in DOMAIN r, NEW j \in DOMAIN r, TaskFor(r[i], e), TaskFor(r[j], e)
      PROVE  i = j
  <2>1. /\ i + k \in DOMAIN s /\ TaskFor(s[i + k], e)
        /\ j + k \in DOMAIN s /\ TaskFor(s[j + k], e)
    BY <1>1 DEF SameTasks
  <2>2. i + k = j + k
    BY <1>1, <2>1
  <2>3. i \in Int /\ j \in Int
    BY SeqFacts
  <2> QED
    BY <2>2, <2>3
<1>2. (\A i \in DOMAIN s : ~TaskFor(s[i], e)) <=> (\A i \in DOMAIN r : ~TaskFor(r[i], e))
  BY DEF SameTasks
<1> QED
  BY <1>1, <1>2

LEMMA SameTasksRefl ==
  ASSUME NEW s \in Seq(Frames), NEW e
  PROVE  SameTasks(s, s, 0, e)
BY SeqFacts DEF SameTasks

LEMMA SameTasksPush ==
  ASSUME NEW s \in Seq(Frames), StackOK(s), NEW f \in Frames, f.by = Worker,
         NEW e, ~TaskFor(f, e)
  PROVE  SameTasks(s, <<f>> \o s, -1, e)
<1> DEFINE r == <<f>> \o s
<1>1. /\ r[1] = f
      /\ \A i \in DOMAIN s : i + 1 \in DOMAIN r /\ r[i + 1] = s[i]
      /\ \A i \in DOMAIN r : i = 1 \/ (i - 1 \in DOMAIN s /\ r[i] = s[i - 1])
  BY Push
<1>2. \A i \in DOMAIN r : i + (-1) = i - 1
  BY SeqFacts
<1> HIDE DEF r
<1>3. SameTasks(s, r, -1, e)
  BY <1>1, <1>2 DEF SameTasks
<1> QED
  BY <1>3 DEF r

LEMMA SameTasksTail ==
  ASSUME NEW s \in Seq(Frames), s # <<>>, NEW e, ~TaskFor(Head(s), e)
  PROVE  SameTasks(s, Tail(s), 1, e)
<1> DEFINE r == Tail(s)
<1>1. /\ Len(s) \in Nat \ {0} /\ Head(s) = s[1]
      /\ DOMAIN s = 1 .. Len(s) /\ DOMAIN r = 1 .. Len(s) - 1
      /\ \A i \in 1 .. Len(s) - 1 : r[i] = s[i + 1]
  OBVIOUS
<1> HIDE DEF r
<1>2. \A i \in DOMAIN r : i + 1 \in DOMAIN s /\ r[i] = s[i + 1]
  BY <1>1
<1>3. ASSUME NEW i \in DOMAIN s, TaskFor(s[i], e)
      PROVE  \E j \in DOMAIN r : r[j] = s[i]
  <2>1. i # 1
    BY <1>1, <1>3
  <2>2. i - 1 \in DOMAIN r /\ (i - 1) + 1 = i
    BY <1>1, <2>1
  <2> QED
    BY <2>2, <1>1
<1>4. SameTasks(s, r, 1, e)
  BY <1>2, <1>3 DEF SameTasks
<1> QED
  BY <1>4 DEF r

LEMMA SameTasksAppend ==
  ASSUME NEW s \in Seq(Frames), NEW f \in Frames, NEW e, ~TaskFor(f, e)
  PROVE  SameTasks(s, Append(s, f), 0, e)
<1> DEFINE r == Append(s, f)
<1>1. /\ Len(s) \in Nat /\ DOMAIN s = 1 .. Len(s) /\ DOMAIN r = 1 .. Len(s) + 1
      /\ r[Len(s) + 1] = f /\ \A i \in 1 .. Len(s) : r[i] = s[i]
  OBVIOUS
<1> HIDE DEF r
<1>2. SameTasks(s, r, 0, e)
  BY <1>1 DEF SameTasks
<1> QED
  BY <1>2 DEF r

LEMMA SameTasksTop ==
  ASSUME NEW s \in Seq(Frames), StackOK(s), s # <<>>, NEW e, ~TaskFor(s[1], e)
  PROVE  SameTasks(s, [s EXCEPT ![1].at = "calling"], 0, e)
<1> DEFINE r == [s EXCEPT ![1].at = "calling"]
<1>1. /\ DOMAIN r = DOMAIN s /\ 1 \in DOMAIN s
      /\ r[1].op = s[1].op /\ r[1].proxy = s[1].proxy
      /\ \A i \in DOMAIN s : i # 1 => r[i] = s[i]
  BY TopGoesOn
<1>2. \A i \in DOMAIN s : i + 0 = i
  BY SeqFacts
<1> HIDE DEF r
<1>3. SameTasks(s, r, 0, e)
  BY <1>1, <1>2 DEF SameTasks, TaskFor
<1> QED
  BY <1>3 DEF r

\* The tasks for e, and the threads busy with it, stay: the tasks may move by
\* a places in the queue and b on the stack.
LEMMA Untouched ==
  ASSUME TypeOK, TypeOK', QueueInv, QueueInv', NEW e \in Proxies, SubscriptionInv(e),
         NEW a \in Int, NEW b \in Int,
         cookie'[e] = cookie[e], nativeProxy'[e] = nativeProxy[e], receiver'[e] = receiver[e],
         SameTasks(queue, queue', a, e), SameTasks(frames, frames', b, e),
         \A c \in Threads : pc'[c] = pc[c] \/ (~Uses(pc[c], e) /\ ~Uses(pc'[c], e))
  PROVE  SubscriptionInv(e)'
<1>1. queue \in Seq(Frames) /\ queue' \in Seq(Frames) /\ frames \in Seq(Frames) /\ frames' \in Seq(Frames)
  BY DEF TypeOK
<1>2. OneAtATime(e)'
  <2>0. OneAtATime(e)
    BY DEF SubscriptionInv
  <2>1. /\ \A i, j \in DOMAIN queue' : TaskFor(queue'[i], e) /\ TaskFor(queue'[j], e) => i = j
        /\ \A i, j \in DOMAIN frames' : TaskFor(frames'[i], e) /\ TaskFor(frames'[j], e) => i = j
    BY <1>1, <2>0, SameTasksFacts DEF OneAtATime
  <2>2. \A i \in DOMAIN queue', j \in DOMAIN frames' :
          ~(TaskFor(queue'[i], e) /\ TaskFor(frames'[j], e))
    BY <2>0 DEF OneAtATime, SameTasks
  <2>3. \A c, d \in Threads : Uses(pc'[c], e) /\ Uses(pc'[d], e) => c = d
    BY <2>0 DEF OneAtATime
  <2> QED
    BY <2>1, <2>2, <2>3 DEF OneAtATime, TaskFor, Uses
<1>3. NoTask(e) <=> NoTask(e)'
  <2>1. (\A i \in DOMAIN queue : ~TaskFor(queue[i], e)) <=> (\A i \in DOMAIN queue' : ~TaskFor(queue'[i], e))
    BY <1>1, SameTasksFacts
  <2>2. (\A i \in DOMAIN frames : ~TaskFor(frames[i], e)) <=> (\A i \in DOMAIN frames' : ~TaskFor(frames'[i], e))
    BY <1>1, SameTasksFacts
  <2> QED
    BY <2>1, <2>2 DEF NoTask, TaskFor
<1>4. Uses(Waits(e), e) /\ \A ok \in BOOLEAN : Uses(Answered(e, ok), e)
  BY PlaceFacts DEF Uses, Idle
<1>5. TaskStages(e)'
  <2>1. \A c \in Threads : pc[c] = Waits(e) => pc'[c] = Waits(e)
    BY <1>4
  <2>2. TaskStages(e)
    BY DEF SubscriptionInv
  <2>3. ASSUME NEW i \in DOMAIN queue', TaskFor(queue'[i], e)
        PROVE  Stage(queue[i], e)'
    <3>1. Stage(queue[i + a], e) /\ queue'[i] = queue[i + a]
      BY <2>2, <2>3 DEF TaskStages, SameTasks
    <3> QED
      BY <3>1, <2>1 DEF Stage
  <2>4. ASSUME NEW i \in DOMAIN frames', TaskFor(frames'[i], e)
        PROVE  Stage(frames[i], e)'
    <3>1. Stage(frames[i + b], e) /\ frames'[i] = frames[i + b]
      BY <2>2, <2>4 DEF TaskStages, SameTasks
    <3> QED
      BY <3>1, <2>1 DEF Stage
  <2> QED
    BY <2>3, <2>4 DEF TaskStages, TaskFor
<1>6. AnswerInv(e)'
  BY <1>3, <1>4 DEF SubscriptionInv, AnswerInv
<1>7. InHand(e) => InHand(e)'
  BY <1>3, InHandFacts DEF InHand, TaskFor, Uses, NoTask, QueueInv
<1> QED
  BY <1>2, <1>5, <1>6, <1>7 DEF SubscriptionInv

-----------------------------------------------------------------------------
(* Steps of a subscription's own task and threads.                         *)

LEMMA PlacesDiffer ==
  ASSUME NEW e \in Proxies
  PROVE  /\ Uses(Waits(e), e) /\ ~Uses(Idle, e)
         /\ \A ok \in BOOLEAN : Uses(Answered(e, ok), e) /\ Waits(e) # Answered(e, ok)
         /\ Idle # Waits(e)
         /\ \A ok \in BOOLEAN, ok2 \in BOOLEAN :
              Answered(e, ok) = Answered(e, ok2) => ok = ok2
<1>1. Idle.at = "idle" /\ Waits(e).at = "waits" /\ Waits(e).proxy = e
  BY PlaceFacts
<1>2. \A ok \in BOOLEAN : /\ Answered(e, ok).at = "answered" /\ Answered(e, ok).proxy = e
                          /\ Answered(e, ok).ok = ok
  BY PlaceFacts
<1>3. \A ok \in BOOLEAN, ok2 \in BOOLEAN : Answered(e, ok) = Answered(e, ok2) => ok = ok2
  BY <1>2
<1>4. \A ok \in BOOLEAN : Answered(e, ok) # Idle /\ Waits(e) # Answered(e, ok)
  BY <1>1, <1>2
<1> QED
  BY <1>1, <1>2, <1>3, <1>4 DEF Uses

\* The task on top is the only one for its subscription, and nobody has its
\* answer yet.
LEMMA TopAlone ==
  ASSUME TypeOK, NEW e \in Proxies, SubscriptionInv(e), frames # <<>>, TaskFor(Top, e)
  PROVE  /\ \A i \in DOMAIN queue : ~TaskFor(queue[i], e)
         /\ \A i \in DOMAIN frames : TaskFor(frames[i], e) => i = 1
         /\ Stage(Top, e)
         /\ \A c \in Threads, ok \in BOOLEAN : pc[c] # Answered(e, ok)
<1>1. Top = frames[1] /\ 1 \in DOMAIN frames
  BY TopFacts
<1>2. OneAtATime(e) /\ TaskStages(e) /\ AnswerInv(e)
  BY DEF SubscriptionInv
<1> QED
  BY <1>1, <1>2 DEF OneAtATime, TaskStages, AnswerInv, NoTask

\* advise() or close() is begun while nothing else is under way.
LEMMA SubmitOwn ==
  ASSUME TypeOK, TypeOK', QueueInv, QueueInv', NEW e \in Proxies, SubscriptionInv(e),
         ~InHand(e), NEW c \in Threads, NEW op \in {"advise", "unadvise"}, Submit(c, op, e),
         op = "advise" => receiver[e] = "none",
         op = "unadvise" => cookie[e] /\ nativeProxy[e]
  PROVE  SubscriptionInv(e)'
<1> DEFINE f == Frame(op, e, c)
<1>1. f \in Frames /\ f.op = op /\ f.proxy = e /\ f.by = c /\ f.at = "start"
  BY FrameFacts
<1>2. PICK n \in DOMAIN queue' :
        /\ queue'[n] = f
        /\ \A i \in DOMAIN queue' : i # n => i \in DOMAIN queue /\ queue'[i] = queue[i]
  <2>1. /\ Len(queue) + 1 \in DOMAIN queue' /\ queue'[Len(queue) + 1] = f
        /\ \A i \in DOMAIN queue' : i # Len(queue) + 1 => i \in DOMAIN queue /\ queue'[i] = queue[i]
    BY <1>1 DEF Submit, TypeOK
  <2> QED
    BY <2>1
<1>3. NoTask(e) /\ \A t \in Threads : ~Uses(pc[t], e)
  BY InHandFacts
<1>4. pc'[c] = Waits(e) /\ \A t \in Threads : t # c => pc'[t] = pc[t]
  BY DEF Submit, TypeOK
<1>5. \A i \in DOMAIN queue' : TaskFor(queue'[i], e) => i = n
  BY <1>2, <1>3 DEF NoTask
<1>6. \A i \in DOMAIN frames' : ~TaskFor(frames'[i], e)
  BY <1>3 DEF NoTask, Submit
<1>7. \A t \in Threads : Uses(pc'[t], e) => t = c
  BY <1>3, <1>4
<1>8. OneAtATime(e)'
  BY <1>5, <1>6, <1>7 DEF OneAtATime, TaskFor, Uses
<1>9. UNCHANGED <<cookie, nativeProxy, receiver>>
  BY DEF Submit
<1>10. TaskStages(e)'
  <2>1. Stage(queue[n], e)'
    BY <1>1, <1>2, <1>4, <1>9 DEF Stage, SubscriptionInv
  <2> QED
    BY <2>1, <1>5, <1>6 DEF TaskStages, TaskFor
<1>11. \A t \in Threads, ok \in BOOLEAN : pc'[t] # Answered(e, ok)
  BY <1>3, <1>4, PlacesDiffer
<1>12. InHand(e)'
  BY <1>4, PlacesDiffer DEF InHand, Uses
<1>13. receiver'[e] = "none" => ~cookie'[e] /\ ~nativeProxy'[e]
  BY <1>9 DEF SubscriptionInv
<1> QED
  BY <1>8, <1>10, <1>11, <1>12, <1>13 DEF SubscriptionInv, AnswerInv

LEMMA CloseInHandlerOwn ==
  ASSUME TypeOK, TypeOK', QueueInv, QueueInv', NEW e \in Proxies, SubscriptionInv(e),
         ~InHand(e), CloseInHandler(e)
  PROVE  SubscriptionInv(e)'
<1> DEFINE f == Frame("unadvise", e, Worker)
<1>1. f \in Frames /\ f.op = "unadvise" /\ f.proxy = e /\ f.by = Worker /\ f.at = "start"
  BY FrameFacts
<1>2. /\ 1 \in DOMAIN frames' /\ frames'[1] = f
      /\ \A i \in DOMAIN frames' : i # 1 => i - 1 \in DOMAIN frames /\ frames'[i] = frames[i - 1]
  <2>1. frames' = <<f>> \o frames /\ frames \in Seq(Frames) /\ StackOK(frames)
    BY TypeParts DEF CloseInHandler, TypeOK
  <2>2. Len(frames') = Len(frames) + 1 /\ Len(frames) \in Nat /\ frames' \in Seq(Frames)
    BY <2>1, <1>1, Push, SeqFacts DEF TypeOK
  <2>3. 1 \in DOMAIN frames'
    BY <2>2
  <2> QED
    BY <2>1, <2>3, <1>1, Push
<1>3. NoTask(e) /\ \A t \in Threads : ~Uses(pc[t], e)
  BY InHandFacts
<1>4. UNCHANGED <<cookie, nativeProxy, receiver, pc, queue>>
  BY DEF CloseInHandler
<1>5. \A i \in DOMAIN frames' : TaskFor(frames'[i], e) => i = 1
  BY <1>2, <1>3 DEF NoTask
<1>6. \A i \in DOMAIN queue' : ~TaskFor(queue'[i], e)
  BY <1>3, <1>4 DEF NoTask
<1>7. \A t \in Threads : ~Uses(pc'[t], e)
  BY <1>3, <1>4
<1>8. OneAtATime(e)'
  BY <1>5, <1>6, <1>7 DEF OneAtATime, TaskFor, Uses
<1>9. TaskStages(e)'
  <2>1. cookie[e] /\ nativeProxy[e] /\ receiver[e] = "connected"
    BY DEF CloseInHandler, MayClose, SubscriptionInv
  <2>2. Stage(frames[1], e)'
    BY <1>1, <1>2, <1>4, <2>1, ThreadsAssumption DEF Stage
  <2> QED
    BY <2>2, <1>5, <1>6 DEF TaskStages, TaskFor
<1>10. \A t \in Threads, ok \in BOOLEAN : pc'[t] # Answered(e, ok)
  BY <1>7, PlacesDiffer
<1>11. InHand(e)'
  BY <1>1, <1>2 DEF InHand
<1>12. receiver'[e] = "none" => ~cookie'[e] /\ ~nativeProxy'[e]
  BY <1>4 DEF SubscriptionInv
<1> QED
  BY <1>8, <1>9, <1>10, <1>11, <1>12 DEF SubscriptionInv, AnswerInv

LEMMA TakeOwn ==
  ASSUME TypeOK, TypeOK', QueueInv, QueueInv', NEW e \in Proxies, SubscriptionInv(e),
         Take, Head(queue).proxy = e
  PROVE  SubscriptionInv(e)'
<1>1. /\ 1 \in DOMAIN queue /\ Head(queue) = queue[1]
      /\ \A i \in DOMAIN queue' : queue'[i] = queue[i + 1] /\ i + 1 \in DOMAIN queue /\ i + 1 # 1
  BY DEF Take, TypeOK
<1>2. DOMAIN frames' = {1} /\ frames'[1] = queue[1]
  BY <1>1 DEF Take
<1>3. TaskFor(queue[1], e)
  BY <1>1 DEF TaskFor, QueueInv
<1>4. \A i \in DOMAIN queue : TaskFor(queue[i], e) => i = 1
  BY <1>1, <1>3 DEF SubscriptionInv, OneAtATime
<1>5. \A i \in DOMAIN queue' : ~TaskFor(queue'[i], e)
  BY <1>1, <1>4
<1>6. UNCHANGED <<cookie, nativeProxy, receiver, pc>>
  BY DEF Take
<1>7. OneAtATime(e)'
  BY <1>2, <1>5, <1>6 DEF SubscriptionInv, OneAtATime, TaskFor, Uses
<1>8. TaskStages(e)'
  <2>1. Stage(queue[1], e)
    BY <1>1, <1>3 DEF SubscriptionInv, TaskStages
  <2>2. Stage(frames[1], e)'
    BY <2>1, <1>2, <1>6 DEF Stage
  <2> QED
    BY <2>2, <1>2, <1>5 DEF TaskStages, TaskFor
<1>9. \A t \in Threads, ok \in BOOLEAN : pc'[t] # Answered(e, ok)
  BY <1>1, <1>3, <1>6 DEF SubscriptionInv, AnswerInv, NoTask
<1>10. InHand(e)'
  BY <1>2, <1>3 DEF InHand, TaskFor
<1>11. receiver'[e] = "none" => ~cookie'[e] /\ ~nativeProxy'[e]
  BY <1>6 DEF SubscriptionInv
<1> QED
  BY <1>7, <1>8, <1>9, <1>10, <1>11 DEF SubscriptionInv, AnswerInv

\* Advise() or Unadvise() is called, the receiver is still there.
LEMMA CallOwn ==
  ASSUME TypeOK, TypeOK', QueueInv, QueueInv', NEW e \in Proxies, SubscriptionInv(e),
         frames # <<>>, TaskFor(Top, e), SetTop("calling"),
         UNCHANGED <<queue, pc, cookie, nativeProxy>>,
         \/ Top.op = "advise" /\ receiver'[e] = "new"
         \/ Top.op = "unadvise" /\ receiver'[e] = receiver[e]
  PROVE  SubscriptionInv(e)'
<1>1. /\ DOMAIN frames' = DOMAIN frames /\ 1 \in DOMAIN frames /\ Top = frames[1]
      /\ frames'[1].op = Top.op /\ frames'[1].proxy = Top.proxy /\ frames'[1].by = Top.by
      /\ frames'[1].at = "calling"
      /\ \A i \in DOMAIN frames : i # 1 => frames'[i] = frames[i]
  BY TopFacts, TopGoesOn, TypeParts DEF SetTop, TypeOK
<1>2. /\ \A i \in DOMAIN queue : ~TaskFor(queue[i], e)
      /\ \A i \in DOMAIN frames : TaskFor(frames[i], e) => i = 1
      /\ Stage(Top, e)
      /\ \A c \in Threads, ok \in BOOLEAN : pc[c] # Answered(e, ok)
  BY TopAlone
<1>3. \A i \in DOMAIN frames' : TaskFor(frames'[i], e) => i = 1
  BY <1>1, <1>2
<1>4. OneAtATime(e)'
  BY <1>2, <1>3 DEF SubscriptionInv, OneAtATime, TaskFor, Uses
<1>5. TaskStages(e)'
  <2>1. Stage(frames[1], e)'
    BY <1>1, <1>2 DEF Stage, TaskFor
  <2> QED
    BY <2>1, <1>2, <1>3 DEF TaskStages, TaskFor
<1>6. InHand(e)'
  BY <1>1 DEF InHand, TaskFor
<1>7. receiver'[e] = "none" => ~cookie'[e] /\ ~nativeProxy'[e]
  BY DEF SubscriptionInv
<1> QED
  BY <1>2, <1>4, <1>5, <1>6, <1>7 DEF SubscriptionInv, AnswerInv

\* A task ends.
LEMMA EndOwn ==
  ASSUME TypeOK, TypeOK', QueueInv, QueueInv', NEW e \in Proxies, SubscriptionInv(e),
         frames # <<>>, TaskFor(Top, e), frames' = Tail(frames), UNCHANGED <<queue, cookie>>,
         NEW ok \in BOOLEAN, Answer(ok),
         \/ Top.op = "advise" /\ ok /\ receiver'[e] = "connected" /\ nativeProxy'[e]
         \/ Top.op = "advise" /\ ~ok /\ receiver'[e] = "disconnected"
         \/ /\ Top.op = "unadvise" /\ ok /\ receiver'[e] = "deleted"
            /\ nativeProxy'[e] = (nativeProxy[e] /\ Top.by # Worker)
  PROVE  SubscriptionInv(e)'
<1>1. /\ \A i \in DOMAIN frames' : i + 1 \in DOMAIN frames /\ i + 1 # 1 /\ frames'[i] = frames[i + 1]
      /\ Top.proxy = e /\ Top.by \in Threads \cup {Worker}
  BY Pop, TopFacts, TypeParts DEF TypeOK, TaskFor
<1>2. /\ \A i \in DOMAIN queue : ~TaskFor(queue[i], e)
      /\ \A i \in DOMAIN frames : TaskFor(frames[i], e) => i = 1
      /\ Stage(Top, e)
      /\ \A c \in Threads, k \in BOOLEAN : pc[c] # Answered(e, k)
  BY TopAlone
<1>3. NoTask(e)'
  BY <1>1, <1>2 DEF NoTask, TaskFor
<1>4. /\ \A c \in Threads : pc'[c] = pc[c] \/ (pc[c] = Waits(e) /\ pc'[c] = Answered(e, ok))
      /\ Top.by \in Threads /\ pc[Top.by] = Waits(e) => pc'[Top.by] = Answered(e, ok)
  BY <1>1, AnswerFacts
<1>5. \A c \in Threads : Uses(pc'[c], e) => Uses(pc[c], e)
  BY <1>4, PlacesDiffer
<1>6. OneAtATime(e)'
  <2>1. \A c, d \in Threads : Uses(pc'[c], e) /\ Uses(pc'[d], e) => c = d
    BY <1>5 DEF SubscriptionInv, OneAtATime
  <2> QED
    BY <2>1, <1>3 DEF OneAtATime, NoTask, TaskFor, Uses
<1>7. TaskStages(e)'
  BY <1>3 DEF TaskStages, NoTask
<1>8. AnswerInv(e)'
  <2>1. SUFFICES ASSUME NEW c \in Threads, NEW k \in BOOLEAN, pc'[c] = Answered(e, k)
                 PROVE  /\ cookie'[e] => k /\ receiver'[e] = "deleted"
                        /\ ~cookie'[e] /\ k => nativeProxy'[e] /\ receiver'[e] = "connected"
    BY <1>3 DEF AnswerInv
  <2>2. k = ok
    BY <1>2, <1>4, <2>1, PlacesDiffer
  <2>3. (Top.op = "advise" => ~cookie[e]) /\ (Top.op = "unadvise" => cookie[e])
    BY <1>2 DEF Stage
  <2> QED
    BY <2>2, <2>3
<1>9. receiver'[e] # "none"
  OBVIOUS
<1>10. ASSUME cookie'[e], ~InHand(e)'
       PROVE  nativeProxy'[e] <=> receiver'[e] = "connected"
  <2>1. Top.op = "unadvise"
    BY <1>2, <1>10 DEF Stage
  <2>2. \A c \in Threads : ~Uses(pc'[c], e)
    BY <1>10 DEF InHand, Uses
  <2>3. Top.by \notin Threads
    BY <1>2, <1>4, <2>1, <2>2, PlacesDiffer DEF Stage
  <2> QED
    BY <2>1, <2>3, <1>1
<1> QED
  BY <1>6, <1>7, <1>8, <1>9, <1>10 DEF SubscriptionInv

LEMMA ReturnOwn ==
  ASSUME TypeOK, TypeOK', QueueInv, QueueInv', NEW e \in Proxies, SubscriptionInv(e),
         NEW c \in Threads, Return(c), pc[c].proxy = e
  PROVE  SubscriptionInv(e)'
<1>1. PICK ok \in BOOLEAN : pc[c] = Answered(e, ok) /\ pc[c].ok = ok
  BY PlaceFacts DEF Return, TypeOK
<1>2. /\ NoTask(e)
      /\ cookie[e] => ok /\ receiver[e] = "deleted"
      /\ ~cookie[e] /\ ok => nativeProxy[e] /\ receiver[e] = "connected"
  BY <1>1 DEF SubscriptionInv, AnswerInv
<1>3. UNCHANGED <<queue, frames, receiver>>
  BY DEF Return
<1>4. /\ cookie'[e] = (cookie[e] \/ ok)
      /\ nativeProxy'[e] = (nativeProxy[e] /\ ~(cookie[e] /\ ok))
  BY <1>1 DEF Return, TypeOK
<1>5. pc'[c] = Idle /\ \A t \in Threads : t # c => pc'[t] = pc[t]
  BY DEF Return, TypeOK
<1>6. \A t \in Threads : ~Uses(pc'[t], e)
  BY <1>1, <1>5, PlacesDiffer DEF SubscriptionInv, OneAtATime
<1>7. NoTask(e)'
  BY <1>2, <1>3 DEF NoTask, TaskFor
<1>8. OneAtATime(e)' /\ TaskStages(e)'
  BY <1>6, <1>7 DEF OneAtATime, TaskStages, NoTask, TaskFor, Uses
<1>9. AnswerInv(e)'
  BY <1>6, PlacesDiffer DEF AnswerInv
<1>10. receiver'[e] = "none" => ~cookie'[e] /\ ~nativeProxy'[e]
  BY <1>2, <1>3, <1>4 DEF SubscriptionInv
<1>11. cookie'[e] => (nativeProxy'[e] <=> receiver'[e] = "connected")
  BY <1>2, <1>3, <1>4
<1> QED
  BY <1>8, <1>9, <1>10, <1>11 DEF SubscriptionInv

\* Who is interrupted in close() spoils the subscription, so this is advise().
LEMMA InterruptOwn ==
  ASSUME TypeOK, TypeOK', QueueInv, QueueInv', NEW e \in Proxies, SubscriptionInv(e),
         NEW c \in Threads, Interrupt(c), pc[c].proxy = e, ~cookie[e]
  PROVE  SubscriptionInv(e)'
<1>1. UNCHANGED <<queue, frames, receiver, cookie, nativeProxy>>
  BY DEF Interrupt
<1>2. pc'[c] = Idle /\ \A t \in Threads : t # c => pc'[t] = pc[t]
  BY DEF Interrupt, TypeOK
<1>3. \A t \in Threads : Uses(pc'[t], e) => pc'[t] = pc[t]
  BY <1>2, PlacesDiffer
<1>4. OneAtATime(e)'
  BY <1>1, <1>3 DEF SubscriptionInv, OneAtATime, TaskFor, Uses
<1>5. TaskStages(e)'
  BY <1>1 DEF SubscriptionInv, TaskStages, TaskFor, Stage
<1>6. AnswerInv(e)'
  BY <1>1, <1>3, PlacesDiffer DEF SubscriptionInv, AnswerInv, NoTask, TaskFor
<1> QED
  BY <1>1, <1>4, <1>5, <1>6 DEF SubscriptionInv

-----------------------------------------------------------------------------
(* The invariant.                                                          *)

LEMMA QueueStep == TypeOK /\ QueueInv /\ [Next]_vars => QueueInv'
<1> SUFFICES ASSUME TypeOK, QueueInv, [Next]_vars PROVE QueueInv'
  OBVIOUS
<1>1. CASE UNCHANGED queue
  BY <1>1 DEF QueueInv
<1>2. CASE Take
  <2>1. \A i \in DOMAIN queue' : i + 1 \in DOMAIN queue /\ queue'[i] = queue[i + 1]
    BY <1>2 DEF Take, TypeOK
  <2> QED
    BY <2>1 DEF QueueInv
<1>3. ASSUME NEW c \in Threads, NEW e \in Proxies, NEW op \in {"advise", "unadvise"},
             Submit(c, op, e)
      PROVE  QueueInv'
  <2> DEFINE f == Frame(op, e, c)
  <2>1. f \in Frames /\ f.op = op /\ f.by = c /\ f.at = "start"
    BY FrameFacts
  <2>2. \A i \in DOMAIN queue' : queue'[i] = f \/ (i \in DOMAIN queue /\ queue'[i] = queue[i])
    BY <1>3, <2>1 DEF Submit, TypeOK
  <2> QED
    BY <2>1, <2>2 DEF QueueInv
<1> QED
  BY <1>1, <1>2, <1>3 DEF Next, Work, Register, Registered, NotRegistered, Crash, Disconnect, Delete,
     EventHandled, Deliver, CloseInHandler, Return, Interrupt, Advise, Close, vars

\* A source that never refuses lets go of each receiver before it is deleted.
LEMMA SinkStep ==
  ASSUME ~UnadviseFails
  PROVE  TypeOK /\ NoDanglingSink /\ [Next]_vars => NoDanglingSink'
<1> SUFFICES ASSUME TypeOK, NoDanglingSink, [Next]_vars PROVE NoDanglingSink'
  OBVIOUS
<1>1. CASE UNCHANGED <<registered, receiver>>
  BY <1>1 DEF NoDanglingSink
<1>2. CASE Register
  BY <1>2 DEF Register, NoDanglingSink, TypeOK
<1>3. CASE Registered
  BY <1>3 DEF Registered, NoDanglingSink, TypeOK
<1>4. CASE NotRegistered
  BY <1>4 DEF NotRegistered, NoDanglingSink, TypeOK
<1>5. ASSUME NEW ok \in BOOLEAN, Delete(ok)
      PROVE  NoDanglingSink'
  BY <1>5 DEF Delete, NoDanglingSink, TypeOK
<1> QED
  BY <1>1, <1>2, <1>3, <1>4, <1>5 DEF Next, Work, Take, Crash, Disconnect,
     EventHandled, Deliver, CloseInHandler, Return, Interrupt, Advise, Close, Submit, vars

\* The COM thread stumbles only over a subscription whose closes overlapped.
LEMMA CrashStep ==
  ASSUME Inv, [Next]_vars
  PROVE  SafeToClose'
<1>1. \A e \in Proxies : spoilt[e] => spoilt'[e]
  BY DEF Inv, TypeOK, Next, Work, Take, Register, Registered, NotRegistered, Crash, Disconnect,
     Delete, EventHandled, Deliver, CloseInHandler, Return, Interrupt, Advise, Close, vars
<1>2. CASE crashed
  BY <1>1, <1>2 DEF Inv, SafeToClose
<1>3. CASE Crash
  <2>1. frames # <<>> /\ Top.op = "unadvise" /\ crashed' = TRUE /\ UNCHANGED spoilt
    BY <1>3 DEF Crash, At
  <2>2. Top.proxy \in Proxies /\ TaskFor(Top, Top.proxy)
    BY <2>1, TopFacts DEF Inv, TaskFor
  <2>3. ~nativeProxy[Top.proxy] \/ receiver[Top.proxy] = "deleted"
    BY <1>3 DEF Crash, At
  <2>4. spoilt[Top.proxy]
    BY <2>1, <2>2, <2>3, TopAlone DEF Inv, Stage
  <2> QED
    BY <2>1, <2>2, <2>4 DEF SafeToClose
<1>4. CASE UNCHANGED crashed
  BY <1>2, <1>4 DEF SafeToClose
<1>5. ASSUME NEW e \in Proxies, Deliver(e)
      PROVE  UNCHANGED crashed
  BY <1>5 DEF Deliver, Inv, NoDanglingSink
<1> QED
  BY <1>3, <1>4, <1>5 DEF Next, Work, Take, Register, Registered, NotRegistered, Disconnect,
     Delete, EventHandled, CloseInHandler, Return, Interrupt, Advise, Close, Submit, vars

LEMMA SubscriptionStep ==
  ASSUME ~UnadviseFails, Inv, TypeOK', QueueInv', [Next]_vars,
         NEW e \in Proxies, ~spoilt'[e]
  PROVE  SubscriptionInv(e)'
<1>a. TypeOK /\ QueueInv /\ queue \in Seq(Frames) /\ frames \in Seq(Frames) /\ StackOK(frames)
  BY TypeParts DEF Inv, TypeOK
<1>b. ~spoilt[e]
  BY DEF Inv, TypeOK, Next, Work, Take, Register, Registered, NotRegistered, Crash, Disconnect,
     Delete, EventHandled, Deliver, CloseInHandler, Return, Interrupt, Advise, Close, vars
<1>c. SubscriptionInv(e)
  BY <1>b DEF Inv
<1>d. SameTasks(queue, queue, 0, e) /\ SameTasks(frames, frames, 0, e)
  BY <1>a, SameTasksRefl
<1>e. ASSUME frames # <<>>, frames' = Tail(frames), ~TaskFor(Top, e)
      PROVE  SameTasks(frames, frames', 1, e)
  BY <1>a, <1>e, SameTasksTail DEF Top
<1>f. ASSUME frames # <<>>, SetTop("calling"), ~TaskFor(Top, e)
      PROVE  SameTasks(frames, frames', 0, e)
  BY <1>a, <1>f, SameTasksTop, TopFacts DEF SetTop
<1>g. ASSUME NEW f \in Frames, f.by = Worker, frames' = <<f>> \o frames, ~TaskFor(f, e)
      PROVE  SameTasks(frames, frames', -1, e)
  BY <1>a, <1>g, SameTasksPush
<1>1. CASE Take
  <2>1. CASE Head(queue).proxy = e
    BY <1>1, <1>a, <1>c, <2>1, TakeOwn
  <2>2. CASE Head(queue).proxy # e
    <3>1. SameTasks(queue, queue', 1, e)
      BY <1>1, <1>a, <2>2, SameTasksTail DEF Take, TaskFor
    <3>2. SameTasks(frames, frames', 0, e)
      BY <1>1, <2>2 DEF Take, SameTasks, TaskFor
    <3> QED
      BY <1>1, <1>a, <1>c, <3>1, <3>2, Untouched DEF Take
  <2> QED
    BY <2>1, <2>2
<1>2. CASE Register
  <2>1. /\ frames # <<>> /\ Top.op = "advise" /\ SetTop("calling")
        /\ UNCHANGED <<queue, pc, cookie, nativeProxy>>
        /\ receiver' = [receiver EXCEPT ![Top.proxy] = "new"]
    BY <1>2 DEF Register, At
  <2>2. CASE Top.proxy = e
    <3>1. TaskFor(Top, e) /\ receiver'[e] = "new"
      BY <1>a, <2>1, <2>2 DEF TaskFor, TypeOK
    <3> QED
      BY <1>a, <1>c, <2>1, <3>1, CallOwn
  <2>3. CASE Top.proxy # e
    <3>1. ~TaskFor(Top, e) /\ receiver'[e] = receiver[e]
      BY <1>a, <2>1, <2>3 DEF TaskFor, TypeOK
    <3> QED
      BY <1>a, <1>c, <1>d, <1>f, <2>1, <3>1, Untouched
  <2> QED
    BY <2>2, <2>3
<1>3. CASE Disconnect
  <2>1. /\ frames # <<>> /\ Top.op = "unadvise" /\ SetTop("calling")
        /\ UNCHANGED <<queue, pc, cookie, nativeProxy, receiver>>
    BY <1>3 DEF Disconnect, At
  <2>2. CASE TaskFor(Top, e)
    BY <1>a, <1>c, <2>1, <2>2, CallOwn
  <2>3. CASE ~TaskFor(Top, e)
    BY <1>a, <1>c, <1>d, <1>f, <2>1, <2>3, Untouched
  <2> QED
    BY <2>2, <2>3
<1>4. ASSUME NEW ok \in BOOLEAN,
             Answer(ok), frames # <<>>, frames' = Tail(frames), UNCHANGED <<queue, cookie>>,
             Top.op # "event",
             \A d \in Proxies \ {Top.proxy} : nativeProxy'[d] = nativeProxy[d] /\ receiver'[d] = receiver[d],
             \/ /\ Top.op = "advise" /\ ok
                /\ receiver'[Top.proxy] = "connected" /\ nativeProxy'[Top.proxy]
             \/ Top.op = "advise" /\ ~ok /\ receiver'[Top.proxy] = "disconnected"
             \/ /\ Top.op = "unadvise" /\ ok /\ receiver'[Top.proxy] = "deleted"
                /\ nativeProxy'[Top.proxy] = (nativeProxy[Top.proxy] /\ Top.by # Worker)
      PROVE  SubscriptionInv(e)'
  <2>1. CASE Top.proxy = e
    <3>1. TaskFor(Top, e)
      BY <1>4, <2>1 DEF TaskFor
    <3> QED
      BY <1>4, <1>a, <1>c, <2>1, <3>1, EndOwn
  <2>2. CASE Top.proxy # e
    <3>1. ~TaskFor(Top, e) /\ Top.proxy \in Proxies
      BY <1>4, <1>a, <2>2, TopFacts DEF TaskFor
    <3>2. \A c \in Threads : pc'[c] = pc[c] \/ (~Uses(pc[c], e) /\ ~Uses(pc'[c], e))
      BY <1>4, <1>a, <2>2, <3>1, AnswerFacts, PlaceFacts DEF Uses
    <3> QED
      BY <1>4, <1>a, <1>c, <1>d, <1>e, <2>2, <3>1, <3>2, Untouched
  <2> QED
    BY <2>1, <2>2
<1>5. CASE Registered
  BY <1>4, <1>5, <1>a, TopFacts DEF Registered, At, TypeOK
<1>6. CASE NotRegistered
  BY <1>4, <1>6, <1>a, TopFacts DEF NotRegistered, At, TypeOK
<1>7. ASSUME NEW ok \in BOOLEAN, Delete(ok)
      PROVE  SubscriptionInv(e)'
  BY <1>4, <1>7, <1>a, TopFacts DEF Delete, At, TypeOK
<1>8. CASE EventHandled
  <2>1. ~TaskFor(Top, e) /\ frames # <<>> /\ frames' = Tail(frames)
    BY <1>8 DEF EventHandled, At, TaskFor
  <2>2. UNCHANGED <<nativeProxy, receiver, cookie, pc, queue>>
    BY <1>8 DEF EventHandled
  <2>3. SameTasks(frames, frames', 1, e)
    BY <1>e, <2>1
  <2> QED
    BY <1>a, <1>c, <1>d, <2>2, <2>3, Untouched
<1>9. ASSUME NEW d \in Proxies, Deliver(d)
      PROVE  SubscriptionInv(e)'
  <2> DEFINE f == Frame("event", d, Worker)
  <2>1. f \in Frames /\ f.by = Worker /\ ~TaskFor(f, e)
    BY FrameFacts DEF TaskFor
  <2>2. UNCHANGED <<nativeProxy, receiver, cookie, pc, queue>>
    BY <1>9 DEF Deliver
  <2>3. frames' = <<f>> \o frames \/ UNCHANGED frames
    BY <1>9 DEF Deliver
  <2> HIDE DEF f
  <2>4. SameTasks(frames, frames', -1, e) \/ SameTasks(frames, frames', 0, e)
    BY <1>d, <1>g, <2>1, <2>3
  <2> QED
    BY <1>a, <1>c, <1>d, <2>2, <2>4, Untouched
<1>10. ASSUME NEW d \in Proxies, CloseInHandler(d)
       PROVE  SubscriptionInv(e)'
  <2> DEFINE f == Frame("unadvise", d, Worker)
  <2>1. f \in Frames /\ f.by = Worker /\ f.proxy = d
    BY FrameFacts
  <2>2. UNCHANGED <<nativeProxy, receiver, cookie, pc, queue>> /\ frames' = <<f>> \o frames
    BY <1>10 DEF CloseInHandler
  <2>3. CASE d = e
    <3>1. ~InHand(e)
      BY <1>10, <1>a, <2>3 DEF CloseInHandler, TypeOK
    <3> QED
      BY <1>10, <1>a, <1>c, <2>3, <3>1, CloseInHandlerOwn
  <2>4. CASE d # e
    <3>1. ~TaskFor(f, e)
      BY <2>1, <2>4 DEF TaskFor
    <3> HIDE DEF f
    <3>2. SameTasks(frames, frames', -1, e)
      BY <1>g, <2>1, <2>2, <3>1
    <3> QED
      BY <1>a, <1>c, <1>d, <2>2, <3>2, Untouched
  <2> QED
    BY <2>3, <2>4
<1>11. ASSUME NEW c \in Threads, Return(c)
       PROVE  SubscriptionInv(e)'
  <2>1. CASE pc[c].proxy = e
    BY <1>11, <1>a, <1>c, <2>1, ReturnOwn
  <2>2. CASE pc[c].proxy # e
    <3>1. \A t \in Threads : pc'[t] = pc[t] \/ (~Uses(pc[t], e) /\ ~Uses(pc'[t], e))
      BY <1>11, <1>a, <2>2 DEF Return, TypeOK, Uses
    <3>2. cookie'[e] = cookie[e] /\ nativeProxy'[e] = nativeProxy[e]
      BY <1>11, <1>a, <2>2 DEF Return, TypeOK
    <3> QED
      BY <1>11, <1>a, <1>c, <1>d, <3>1, <3>2, Untouched DEF Return
  <2> QED
    BY <2>1, <2>2
<1>12. ASSUME NEW c \in Threads, Interrupt(c)
       PROVE  SubscriptionInv(e)'
  <2>1. CASE pc[c].proxy = e
    <3>1. ~cookie[e]
      BY <1>12, <1>a, <2>1 DEF Interrupt, TypeOK
    <3> QED
      BY <1>12, <1>a, <1>c, <2>1, <3>1, InterruptOwn
  <2>2. CASE pc[c].proxy # e
    <3>1. \A t \in Threads : pc'[t] = pc[t] \/ (~Uses(pc[t], e) /\ ~Uses(pc'[t], e))
      BY <1>12, <1>a, <2>2 DEF Interrupt, TypeOK, Uses
    <3> QED
      BY <1>12, <1>a, <1>c, <1>d, <3>1, Untouched DEF Interrupt
  <2> QED
    BY <2>1, <2>2
<1>13. ASSUME NEW c \in Threads, NEW d \in Proxies, Advise(c, d) \/ Close(c, d)
       PROVE  SubscriptionInv(e)'
  <2>1. CASE d = e
    <3>1. ~InHand(e)
      BY <1>13, <1>a, <2>1 DEF Advise, Close, TypeOK
    <3> QED
      BY <1>13, <1>a, <1>c, <2>1, <3>1, SubmitOwn DEF Advise, Close, MayClose
  <2>2. CASE d # e
    <3>1. PICK op \in {"advise", "unadvise"} : Submit(c, op, d)
      BY <1>13 DEF Advise, Close
    <3> DEFINE f == Frame(op, d, c)
    <3>2. f \in Frames /\ ~TaskFor(f, e)
      BY <2>2, FrameFacts DEF TaskFor
    <3>3. queue' = Append(queue, f) /\ UNCHANGED <<nativeProxy, receiver, cookie, frames>>
      BY <3>1 DEF Submit
    <3>4. \A t \in Threads : pc'[t] = pc[t] \/ (~Uses(pc[t], e) /\ ~Uses(pc'[t], e))
      BY <3>1, <1>a, <2>2, PlaceFacts DEF Submit, TypeOK, Uses
    <3> HIDE DEF f
    <3>5. SameTasks(queue, queue', 0, e)
      BY <1>a, <3>2, <3>3, SameTasksAppend
    <3> QED
      BY <1>a, <1>c, <1>d, <3>3, <3>4, <3>5, Untouched
  <2> QED
    BY <2>1, <2>2
<1>14. CASE UNCHANGED <<nativeProxy, receiver, cookie, pc, queue, frames>>
  BY <1>14, <1>a, <1>c, <1>d, Untouched
<1> QED
  BY <1>1, <1>2, <1>3, <1>5, <1>6, <1>7, <1>8, <1>9, <1>10, <1>11, <1>12, <1>13, <1>14
     DEF Next, Work, Crash, vars

LEMMA InitInv == Init => Inv
<1> SUFFICES ASSUME Init PROVE Inv
  OBVIOUS
<1>1. TypeOK
  BY InitType
<1>2. QueueInv /\ NoDanglingSink /\ SafeToClose
  BY DEF Init, QueueInv, NoDanglingSink, SafeToClose
<1>3. ASSUME NEW e \in Proxies
      PROVE  SubscriptionInv(e)
  <2>1. DOMAIN queue = {} /\ DOMAIN frames = {}
    BY DEF Init
  <2>2. \A c \in Threads : pc[c] = Idle
    BY DEF Init
  <2>3. ~cookie[e] /\ ~nativeProxy[e]
    BY DEF Init
  <2>4. \A c \in Threads : ~Uses(pc[c], e)
    BY <2>2, PlacesDiffer
  <2> QED
    BY <2>1, <2>3, <2>4, PlacesDiffer DEF SubscriptionInv, OneAtATime, TaskStages, AnswerInv
<1> QED
  BY <1>1, <1>2, <1>3 DEF Inv

LEMMA NextInv ==
  ASSUME ~UnadviseFails
  PROVE  Inv /\ [Next]_vars => Inv'
<1> SUFFICES ASSUME Inv, [Next]_vars PROVE Inv'
  OBVIOUS
<1>1. TypeOK'
  BY NextType DEF Inv
<1>2. QueueInv'
  BY QueueStep DEF Inv
<1>3. NoDanglingSink'
  BY SinkStep DEF Inv
<1>4. SafeToClose'
  BY CrashStep
<1>5. \A e \in Proxies : ~spoilt'[e] => SubscriptionInv(e)'
  BY <1>1, <1>2, SubscriptionStep
<1> QED
  BY <1>1, <1>2, <1>3, <1>4, <1>5 DEF Inv

LEMMA Invariance ==
  ASSUME ~UnadviseFails
  PROVE  Spec => []Inv
BY InitInv, NextInv, PTL DEF Spec

\* The source never keeps a sink that com4j has deleted (eventReceiver.h:45-55),
\* however closes overlap, as long as it does not refuse to let go.
THEOREM SinksAreAlive ==
  ASSUME ~UnadviseFails
  PROVE  Spec => []NoDanglingSink
BY Invariance, PTL DEF Inv

\* EventProxy.close() and CEventReceiver::Invoke work on a receiver that is there,
\* unless closes of one cookie overlapped or one was interrupted.
THEOREM ClosingIsSafe ==
  ASSUME ~UnadviseFails
  PROVE  Spec => []SafeToClose
BY Invariance, PTL DEF Inv

\* Between operations, nativeProxy is set exactly when the receiver is connected
\* (EventProxy.java:48-58).
THEOREM CookiesOwnReceivers ==
  ASSUME ~UnadviseFails
  PROVE  Spec => []CookieOwnsReceiver
<1>1. Inv => CookieOwnsReceiver
  BY DEF Inv, SubscriptionInv, CookieOwnsReceiver
<1> QED
  BY <1>1, Invariance, PTL

\* A refusal is the only reason for which a repeated close() (EventCookie.java:23)
\* starts on a deleted receiver: one that nothing overlaps does not, if the source
\* always lets go.
THEOREM CloseMayBeRepeated ==
  ASSUME ~UnadviseFails
  PROVE  Spec => []CloseIsRepeatable
<1>1. Inv => CloseIsRepeatable
  <2> SUFFICES ASSUME Inv, At("unadvise", "start"), ~spoilt[Top.proxy]
               PROVE  receiver[Top.proxy] # "deleted"
    BY DEF CloseIsRepeatable
  <2>1. frames # <<>> /\ TaskFor(Top, Top.proxy) /\ Top.proxy \in Proxies
    BY TopFacts DEF At, TaskFor, Inv
  <2>2. Top.op = "unadvise"
    BY DEF At
  <2> QED
    BY <2>1, <2>2, TopAlone DEF Inv, Stage
<1> QED
  BY <1>1, Invariance, PTL
=============================================================================
