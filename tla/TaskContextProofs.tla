------------------------- MODULE TaskContextProofs -------------------------
(* Theorems about TaskContext, for every set of application threads, of    *)
(* threads with an STA and of threads that call, and every bound.          *)
EXTENDS TaskContext, SequenceTheorems, TLAPS

USE BoundsAssumption, UsersAssumption, NoneAssumption

Stacks == Seq(Frames)

\* The worker that a thread with stack s waits for, and the thread that a
\* worker with stack s is serving.
WaitsFor(s) ==
  {s[i].ct.on : i \in {j \in DOMAIN s :
     j = Len(s) /\ s[j].kind = "execute" /\ s[j].status = "waiting"}}
Served(s) == {s[i].by : i \in {j \in DOMAIN s : j = 1 /\ s[j].kind = "invoke"}}

\* The thread whose stack this is runs code.
Settled(s) == s # <<>> => s[Len(s)].status = "running"

\* The stack s of thread t agrees with c, its variable.  The frame that owns
\* the variable is the last "execute" as long as no task has been executed
\* further in; afterwards the variable is clear.
StackOK(t, s, c) ==
  /\ \A i \in DOMAIN s : s[i].kind = "execute" =>
       /\ s[i].ct \in ComThreads
       /\ s[i].status = "running" => s[i].ct.on = t
       /\ s[i].status = "waiting" => s[i].ct.on \in Workers \ {t}
       /\ s[i].nested \/ c = s[i].ct
  /\ \A i \in DOMAIN s : s[i].kind = "invoke" =>
       i = 1 /\ t \in Workers /\ s[i].by \in Threads \ {t}
  /\ \A i \in DOMAIN s : s[i].status # "running" => i = Len(s) /\ s[i].kind = "execute"
  /\ \A i, j \in DOMAIN s : i < j /\ s[j].kind = "execute" => s[i].nested
  /\ \A i \in DOMAIN s :
       s[i].nested /\ (\A j \in DOMAIN s : j > i => s[j].kind # "execute") => c = None
  /\ (\A i \in DOMAIN s : s[i].kind # "execute") => c = None

StackInv ==
  /\ comThread \in [Threads -> ComThreads \cup {None}]
  /\ frames \in [Threads -> Stacks]
  /\ \A t \in Threads : StackOK(t, frames[t], comThread[t])

\* Queues and workers know those that wait, and no others, once each.
QueueInv ==
  /\ taskList \in [Workers -> Seq(Threads)]
  /\ \A w \in Workers : \A i \in DOMAIN taskList[w] :
       /\ w \in WaitsFor(frames[taskList[w][i]])
       /\ taskList[w][i] \notin Served(frames[w])
       /\ \A j \in DOMAIN taskList[w] : taskList[w][j] = taskList[w][i] => j = i
  /\ \A w \in Workers : \A t \in Served(frames[w]) : w \in WaitsFor(frames[t])
  /\ \A t \in Threads : \A w \in WaitsFor(frames[t]) :
       t \in Served(frames[w]) \/ \E i \in DOMAIN taskList[w] : taskList[w][i] = t

WrapperInv ==
  /\ wrapper \in Seq(Wrappers) /\ Len(wrapper) <= MaxWrappers
  /\ objects \in Seq(DOMAIN wrapper)
  /\ missed \subseteq DOMAIN wrapper
  /\ BoundToItsThread

Inv == StackInv /\ QueueInv /\ WrapperInv

-----------------------------------------------------------------------------
(* What becomes of a stack.                                                *)

\* Facts about the COM threads.
LEMMA ComThreadFacts ==
  /\ Workers \subseteq Threads
  /\ \A t \in Threads : MultiOf(t) \in ComThreads
  /\ \A ct \in ComThreads : ct.on \in Threads /\ ct # None
  /\ \A ct \in ComThreads : ct.type = "multi" => ct.on \in Workers
  /\ \A w \in Workers : MultiOf(w).on = w
<1>1. \A a \in Apps : Worker(a) \in Workers /\ App(a) \in Threads
  BY DEF Worker, App, Workers, Threads
<1>2. Workers \subseteq Threads /\ \A t \in Threads : t.of \in Apps
  BY DEF Workers, Threads
<1>3. \A w \in Workers : Worker(w.of) = w
  BY DEF Workers, Threads, Worker
<1>4. \A a \in Apps : Multi(a) \in ComThreads /\ Multi(a).on = Worker(a)
  BY DEF Multi, ComThreads
<1>5. \A t \in StaUsers : Single(t).on = t /\ Single(t).type = "single"
  BY DEF Single
<1>6. \A ct \in ComThreads : \/ \E a \in Apps : ct = Multi(a)
                             \/ \E t \in StaUsers : ct = Single(t)
  BY DEF ComThreads
<1> QED
  BY <1>1, <1>2, <1>3, <1>4, <1>5, <1>6 DEF MultiOf

\* The frames begin with no task executed further in.
LEMMA FrameFacts ==
  ASSUME NEW kind \in {"execute", "invoke", "event", "disposeAll"},
         NEW ct \in ComThreads \cup {None}, NEW task \in Tasks,
         NEW by \in Threads \cup {None}
  PROVE  LET f == Frame(kind, ct, task, by)
         IN  /\ f \in Frames
             /\ f.kind = kind /\ f.ct = ct /\ f.task = task /\ f.by = by
             /\ f.status = "running" /\ ~f.nested
  BY DEF Frame, Frames

\* Dropping the last frame of a stack.
LEMMA FrontFacts ==
  ASSUME NEW s \in Stacks, s # <<>>
  PROVE  /\ Front(s) \in Stacks
         /\ Len(Front(s)) = Len(s) - 1
         /\ DOMAIN Front(s) = 1 .. Len(s) - 1
         /\ \A i \in 1 .. Len(s) - 1 : Front(s)[i] = s[i]
         /\ Len(s) \in DOMAIN s /\ Len(s) \in Nat \ {0} /\ DOMAIN s = 1 .. Len(s)
<1>1. /\ Len(s) \in DOMAIN s /\ Len(s) \in Nat \ {0} /\ DOMAIN s = 1 .. Len(s)
      /\ \A i \in 1 .. Len(s) : s[i] \in Frames
  BY DEF Stacks
<1>2. /\ SubSeq(s, 1, Len(s) - 1) \in Seq(Frames)
      /\ Len(SubSeq(s, 1, Len(s) - 1)) = Len(s) - 1
      /\ \A i \in 1 .. Len(s) - 1 : SubSeq(s, 1, Len(s) - 1)[i] = s[i]
  <2>1. Len(s) - 1 \in Int /\ 1 \in Int /\ \A i \in 1 .. Len(s) - 1 : s[i] \in Frames
    BY <1>1
  <2>2. /\ SubSeq(s, 1, Len(s) - 1) \in Seq(Frames)
        /\ Len(SubSeq(s, 1, Len(s) - 1)) = IF 1 <= Len(s) - 1 THEN Len(s) - 1 - 1 + 1 ELSE 0
        /\ \A i \in 1 .. Len(s) - 1 - 1 + 1 : SubSeq(s, 1, Len(s) - 1)[i] = s[1 + i - 1]
    BY <2>1, SubSeqProperties
  <2> QED
    BY <1>1, <2>2
<1> QED
  BY <1>1, <1>2 DEF Front, Stacks

\* The empty stack.
LEMMA EmptyStack ==
  ASSUME NEW t
  PROVE  <<>> \in Stacks /\ StackOK(t, <<>>, None) /\ WaitsFor(<<>>) = {} /\ Served(<<>>) = {}
  BY DEF Stacks, StackOK, WaitsFor, Served

\* Who runs does not wait.
LEMMA SettledWaits ==
  ASSUME NEW s \in Stacks, Settled(s)
  PROVE  WaitsFor(s) = {}
<1>1. \A j \in DOMAIN s : j = Len(s) => s[j].status = "running"
  BY DEF Stacks, Settled
<1> QED
  BY <1>1 DEF WaitsFor

\* A frame that is neither an execute nor an invoke comes in.
LEMMA PushOther ==
  ASSUME NEW t \in Threads, NEW c, NEW s \in Stacks, StackOK(t, s, c), Settled(s),
         NEW f \in Frames, f.kind \in {"event", "disposeAll"}, f.status = "running", ~f.nested
  PROVE  LET r == Append(s, f)
         IN  /\ r \in Stacks /\ StackOK(t, r, c) /\ Settled(r)
             /\ Served(r) = Served(s)
<1> DEFINE r == Append(s, f)
<1>1. /\ r \in Stacks /\ Len(s) \in Nat /\ Len(r) = Len(s) + 1
      /\ DOMAIN s = 1 .. Len(s) /\ DOMAIN r = 1 .. Len(s) + 1
      /\ \A i \in 1 .. Len(s) : r[i] = s[i]
      /\ r[Len(s) + 1] = f
  BY DEF Stacks
<1> HIDE DEF r
<1>2. \A i \in DOMAIN s : s[i].status = "running"
  BY <1>1 DEF StackOK, Settled
<1>3. \A i \in DOMAIN r : \/ i \in DOMAIN s /\ r[i] = s[i]
                          \/ i = Len(s) + 1 /\ r[i] = f
  BY <1>1
<1>4. \A i \in DOMAIN s : i \in DOMAIN r /\ r[i] = s[i] /\ i < Len(s) + 1
  BY <1>1
<1>5. StackOK(t, r, c)
  <2>1. \A i \in DOMAIN r : r[i].kind = "execute" =>
          /\ r[i].ct \in ComThreads
          /\ r[i].status = "running" => r[i].ct.on = t
          /\ r[i].status = "waiting" => r[i].ct.on \in Workers \ {t}
          /\ r[i].nested \/ c = r[i].ct
    BY <1>3 DEF StackOK
  <2>2. \A i \in DOMAIN r : r[i].kind = "invoke" =>
          i = 1 /\ t \in Workers /\ r[i].by \in Threads \ {t}
    BY <1>3 DEF StackOK
  <2>3. \A i \in DOMAIN r : r[i].status # "running" => i = Len(r) /\ r[i].kind = "execute"
    BY <1>2, <1>3
  <2>4. \A i, j \in DOMAIN r : i < j /\ r[j].kind = "execute" => r[i].nested
    <3>1. \A i, j \in DOMAIN r : i < j /\ j \in DOMAIN s => i \in DOMAIN s
      BY <1>1
    <3> QED
      BY <3>1, <1>3 DEF StackOK
  <2>5. \A i \in DOMAIN r :
          r[i].nested /\ (\A j \in DOMAIN r : j > i => r[j].kind # "execute") => c = None
    BY <1>3, <1>4 DEF StackOK
  <2>6. (\A i \in DOMAIN r : r[i].kind # "execute") => c = None
    BY <1>4 DEF StackOK
  <2> QED
    BY <2>1, <2>2, <2>3, <2>4, <2>5, <2>6 DEF StackOK
<1>6. Served(r) = Served(s)
  <2>1. {j \in DOMAIN r : j = 1 /\ r[j].kind = "invoke"} =
        {j \in DOMAIN s : j = 1 /\ s[j].kind = "invoke"}
    BY <1>3, <1>4
  <2> QED
    BY <2>1, <1>4 DEF Served
<1> QED
  BY <1>1, <1>5, <1>6 DEF Settled, r

\* A function on 1..k is a sequence of that length.
LEMMA FunctionIsSeq ==
  ASSUME NEW k \in Nat, NEW n \in [1 .. k -> Frames]
  PROVE  n \in Seq(Frames) /\ Len(n) = k
BY SeqDef, LenProperties

\* What noting makes of the frames.
Note(s) == [i \in DOMAIN s |-> [s[i] EXCEPT !.nested = TRUE]]
LEMMA NotedFrames ==
  ASSUME NEW s \in Stacks, NEW n, n = Note(s)
  PROVE  /\ n \in Stacks /\ Len(n) = Len(s) /\ DOMAIN n = DOMAIN s
         /\ \A i \in DOMAIN s :
              /\ n[i].kind = s[i].kind /\ n[i].ct = s[i].ct /\ n[i].by = s[i].by
              /\ n[i].status = s[i].status /\ n[i].nested
<1>0. /\ s \in Seq(Frames) /\ DOMAIN s = 1 .. Len(s) /\ Len(s) \in Nat
      /\ \A i \in DOMAIN s : s[i] \in Frames
  BY DEF Stacks
<1>1. \A i \in DOMAIN s :
        /\ n[i] \in Frames
        /\ n[i].kind = s[i].kind /\ n[i].ct = s[i].ct /\ n[i].by = s[i].by
        /\ n[i].status = s[i].status /\ n[i].nested
  <2>1. \A i \in DOMAIN s : n[i] = [s[i] EXCEPT !.nested = TRUE]
    BY DEF Note
  <2>2. SUFFICES ASSUME NEW i \in DOMAIN s
                 PROVE  /\ n[i] \in Frames
                        /\ n[i].kind = s[i].kind /\ n[i].ct = s[i].ct /\ n[i].by = s[i].by
                        /\ n[i].status = s[i].status /\ n[i].nested
    OBVIOUS
  <2>3. PICK f \in Frames : f = s[i]
    BY <1>0
  <2>4. n[i] = [f EXCEPT !.nested = TRUE]
    BY <2>1, <2>3
  <2>5. [f EXCEPT !.nested = TRUE] \in Frames
    BY DEF Frames
  <2>6. LET g == [f EXCEPT !.nested = TRUE]
        IN  /\ g.kind = f.kind /\ g.ct = f.ct /\ g.by = f.by
            /\ g.status = f.status /\ g.nested
    BY DEF Frames
  <2> QED
    BY <2>3, <2>4, <2>5, <2>6
<1>2. DOMAIN n = 1 .. Len(s)
  BY <1>0, Zenon DEF Note
<1>3. n = [i \in 1 .. Len(s) |-> n[i]]
  BY <1>0, Zenon DEF Note
<1>4. n \in [1 .. Len(s) -> Frames]
  BY <1>3, <1>0, <1>1, Zenon
<1>5. n \in Seq(Frames) /\ Len(n) = Len(s)
  BY <1>4, <1>0, FunctionIsSeq, Zenon
<1> QED
  BY <1>5, <1>2, <1>0, <1>1, Zenon DEF Stacks

\* Frames that all took note keep the stack in order, without a variable.
LEMMA NotedStack ==
  ASSUME NEW t \in Threads, NEW c, NEW s \in Stacks, StackOK(t, s, c), Settled(s),
         NEW n \in Stacks, Len(n) = Len(s), DOMAIN n = DOMAIN s,
         \A i \in DOMAIN s :
           /\ n[i].kind = s[i].kind /\ n[i].ct = s[i].ct /\ n[i].by = s[i].by
           /\ n[i].status = s[i].status /\ n[i].nested
  PROVE  StackOK(t, n, None) /\ Settled(n) /\ Served(n) = Served(s)
<1>1. StackOK(t, n, None)
  BY DEF StackOK
<1>2. Served(n) = Served(s)
  <2>1. {j \in DOMAIN n : j = 1 /\ n[j].kind = "invoke"} =
        {j \in DOMAIN s : j = 1 /\ s[j].kind = "invoke"}
    OBVIOUS
  <2> QED
    BY <2>1 DEF Served
<1>3. Settled(n)
  <2>1. n # <<>> => s # <<>> /\ Len(s) \in DOMAIN s
    BY DEF Stacks
  <2> QED
    BY <2>1 DEF Settled
<1> QED
  BY <1>1, <1>2, <1>3

\* A task is executed further in: every frame takes note.
LEMMA Noted ==
  ASSUME NEW t \in Threads, NEW c, NEW s \in Stacks, StackOK(t, s, c), Settled(s),
         NEW n, n = [i \in DOMAIN s |-> [s[i] EXCEPT !.nested = TRUE]]
  PROVE  /\ n \in Stacks /\ StackOK(t, n, None) /\ Settled(n)
         /\ Served(n) = Served(s)
         /\ \A i \in DOMAIN n : n[i].nested
<1>0. n = Note(s)
  BY DEF Note
<1>1. /\ n \in Stacks /\ Len(n) = Len(s) /\ DOMAIN n = DOMAIN s
      /\ \A i \in DOMAIN s :
           /\ n[i].kind = s[i].kind /\ n[i].ct = s[i].ct /\ n[i].by = s[i].by
           /\ n[i].status = s[i].status /\ n[i].nested
  BY <1>0, NotedFrames, Zenon
<1>2. StackOK(t, n, None) /\ Settled(n) /\ Served(n) = Served(s)
  BY <1>1, NotedStack
<1> QED
  BY <1>1, <1>2, Zenon

\* The frame of an execute comes in, on top of frames that took note.
LEMMA PushExecute ==
  ASSUME NEW t \in Threads, NEW n \in Stacks, StackOK(t, n, None), Settled(n),
         \A i \in DOMAIN n : n[i].nested,
         NEW f \in Frames, f.kind = "execute", f.ct \in ComThreads, ~f.nested,
         \/ f.status = "running" /\ f.ct.on = t
         \/ f.status = "waiting" /\ f.ct.on \in Workers \ {t}
  PROVE  LET r == Append(n, f)
         IN  /\ r \in Stacks /\ StackOK(t, r, f.ct)
             /\ Served(r) = Served(n)
             /\ WaitsFor(r) = IF f.status = "waiting" THEN {f.ct.on} ELSE {}
<1> DEFINE r == Append(n, f)
<1>1. /\ r \in Stacks /\ Len(n) \in Nat /\ Len(r) = Len(n) + 1
      /\ DOMAIN n = 1 .. Len(n) /\ DOMAIN r = 1 .. Len(n) + 1
      /\ \A i \in 1 .. Len(n) : r[i] = n[i]
      /\ r[Len(n) + 1] = f
  BY DEF Stacks
<1> HIDE DEF r
<1>2. \A i \in DOMAIN n : n[i].status = "running"
  BY <1>1 DEF StackOK, Settled
<1>3. \A i \in DOMAIN r : \/ i \in DOMAIN n /\ r[i] = n[i]
                          \/ i = Len(n) + 1 /\ r[i] = f
  BY <1>1
<1>4. \A i \in DOMAIN n : i \in DOMAIN r /\ r[i] = n[i] /\ i < Len(n) + 1
  BY <1>1
<1>5. StackOK(t, r, f.ct)
  <2>1. \A i \in DOMAIN r : r[i].kind = "execute" =>
          /\ r[i].ct \in ComThreads
          /\ r[i].status = "running" => r[i].ct.on = t
          /\ r[i].status = "waiting" => r[i].ct.on \in Workers \ {t}
          /\ r[i].nested \/ f.ct = r[i].ct
    BY <1>3 DEF StackOK
  <2>2. \A i \in DOMAIN r : r[i].kind = "invoke" =>
          i = 1 /\ t \in Workers /\ r[i].by \in Threads \ {t}
    BY <1>3 DEF StackOK
  <2>3. \A i \in DOMAIN r : r[i].status # "running" => i = Len(r) /\ r[i].kind = "execute"
    BY <1>1, <1>2, <1>3
  <2>4. \A i, j \in DOMAIN r : i < j /\ r[j].kind = "execute" => r[i].nested
    <3>1. \A i, j \in DOMAIN r : i < j => i \in DOMAIN n
      BY <1>1
    <3> QED
      BY <3>1, <1>4
  <2>5. \A i \in DOMAIN r :
          r[i].nested /\ (\A j \in DOMAIN r : j > i => r[j].kind # "execute") => f.ct = None
    <3>1. Len(n) + 1 \in DOMAIN r
      BY <1>1
    <3> QED
      BY <1>1, <1>3, <1>4, <3>1
  <2>6. (\A i \in DOMAIN r : r[i].kind # "execute") => f.ct = None
    BY <1>1
  <2> QED
    BY <2>1, <2>2, <2>3, <2>4, <2>5, <2>6 DEF StackOK
<1>6. Served(r) = Served(n)
  <2>1. {j \in DOMAIN r : j = 1 /\ r[j].kind = "invoke"} =
        {j \in DOMAIN n : j = 1 /\ n[j].kind = "invoke"}
    BY <1>3, <1>4
  <2> QED
    BY <2>1, <1>4 DEF Served
<1>7. WaitsFor(r) = IF f.status = "waiting" THEN {f.ct.on} ELSE {}
  <2>1. {j \in DOMAIN r : j = Len(r) /\ r[j].kind = "execute" /\ r[j].status = "waiting"} =
        IF f.status = "waiting" THEN {Len(r)} ELSE {}
    BY <1>1
  <2> QED
    BY <2>1, <1>1 DEF WaitsFor
<1> QED
  BY <1>1, <1>5, <1>6, <1>7 DEF r

\* The last frame goes away; an execute clears the variable.
LEMMA Drop ==
  ASSUME NEW t \in Threads, NEW c, NEW s \in Stacks, StackOK(t, s, c), s # <<>>,
         s[Len(s)].kind # "invoke",
         NEW d, d = IF s[Len(s)].kind = "execute" THEN None ELSE c
  PROVE  LET r == Front(s)
         IN  /\ r \in Stacks /\ StackOK(t, r, d) /\ Settled(r)
             /\ Served(r) = Served(s)
<1> DEFINE r == Front(s)
           m == Len(s)
<1>1. /\ r \in Stacks /\ Len(r) = m - 1 /\ DOMAIN r = 1 .. m - 1
      /\ \A i \in 1 .. m - 1 : r[i] = s[i]
      /\ m \in DOMAIN s /\ m \in Nat \ {0} /\ DOMAIN s = 1 .. m
  BY FrontFacts
<1> HIDE DEF r, m
<1>2. \A i \in DOMAIN s : i \in DOMAIN r \/ i = m
  BY <1>1
<1>3. \A i \in DOMAIN r : i \in DOMAIN s /\ r[i] = s[i] /\ i < m
  BY <1>1
<1>4. \A i \in DOMAIN r : r[i].status = "running"
  BY <1>1, <1>3 DEF StackOK, m
<1>5. StackOK(t, r, d)
  <2>1. \A i \in DOMAIN r : r[i].kind = "execute" =>
          /\ r[i].ct \in ComThreads
          /\ r[i].status = "running" => r[i].ct.on = t
          /\ r[i].status = "waiting" => r[i].ct.on \in Workers \ {t}
          /\ r[i].nested \/ d = r[i].ct
    <3>1. CASE s[m].kind = "execute"
      BY <1>1, <1>3, <3>1 DEF StackOK
    <3>2. CASE s[m].kind # "execute"
      BY <1>3, <3>2 DEF StackOK, m
    <3> QED
      BY <3>1, <3>2
  <2>2. \A i \in DOMAIN r : r[i].kind = "invoke" =>
          i = 1 /\ t \in Workers /\ r[i].by \in Threads \ {t}
    BY <1>3 DEF StackOK
  <2>3. \A i \in DOMAIN r : r[i].status # "running" => i = Len(r) /\ r[i].kind = "execute"
    BY <1>4
  <2>4. \A i, j \in DOMAIN r : i < j /\ r[j].kind = "execute" => r[i].nested
    BY <1>3 DEF StackOK
  <2>5. \A i \in DOMAIN r :
          r[i].nested /\ (\A j \in DOMAIN r : j > i => r[j].kind # "execute") => d = None
    BY <1>2, <1>3 DEF StackOK, m
  <2>6. (\A i \in DOMAIN r : r[i].kind # "execute") => d = None
    BY <1>2, <1>3 DEF StackOK, m
  <2> QED
    BY <2>1, <2>2, <2>3, <2>4, <2>5, <2>6 DEF StackOK
<1>6. Served(r) = Served(s)
  <2>1. {j \in DOMAIN r : j = 1 /\ r[j].kind = "invoke"} =
        {j \in DOMAIN s : j = 1 /\ s[j].kind = "invoke"}
    BY <1>2, <1>3 DEF m
  <2> QED
    BY <2>1, <1>3 DEF Served
<1>7. Settled(r)
  BY <1>1, <1>4 DEF Settled
<1> QED
  BY <1>1, <1>5, <1>6, <1>7 DEF r

\* An exception passes through.
LEMMA Unwound ==
  ASSUME NEW t \in Threads, NEW s \in Stacks, StackOK(t, s, None), Settled(s)
  PROVE  /\ Unwind(s) \in Stacks /\ StackOK(t, Unwind(s), None) /\ Settled(Unwind(s))
         /\ Served(Unwind(s)) = Served(s)
  BY Drop DEF Unwind

\* The last frame goes on: in its loop, or with an answer.
LEMMA TopGoesOn ==
  ASSUME NEW t \in Threads, NEW c, NEW s \in Stacks, StackOK(t, s, c), s # <<>>,
         NEW f \in Frames, f.kind = s[Len(s)].kind, f.ct = s[Len(s)].ct,
         f.by = s[Len(s)].by, f.nested = s[Len(s)].nested,
         \/ f.status = s[Len(s)].status
         \/ f.kind = "execute" /\ f.status \in {"done", "failed"}
  PROVE  LET r == SetTop(s, f)
         IN  /\ r \in Stacks /\ StackOK(t, r, c)
             /\ Served(r) = Served(s)
             /\ f.status = "running" => Settled(r)
             /\ f.status # "waiting" => WaitsFor(r) = {}
<1> DEFINE r == SetTop(s, f)
           m == Len(s)
<1>1. /\ r \in Stacks /\ Len(r) = m /\ DOMAIN r = 1 .. m /\ DOMAIN s = 1 .. m
      /\ m \in Nat \ {0} /\ m \in DOMAIN s
      /\ r[m] = f /\ \A i \in 1 .. m : i # m => r[i] = s[i]
  BY DEF SetTop, Stacks
<1> HIDE DEF r, m
<1>2. \A i \in DOMAIN s : /\ r[i].kind = s[i].kind /\ r[i].ct = s[i].ct
                          /\ r[i].by = s[i].by /\ r[i].nested = s[i].nested
  BY <1>1
<1>3. \A i \in DOMAIN s : \/ r[i].status = s[i].status
                          \/ s[i].kind = "execute" /\ i = Len(s) /\ r[i].status \in {"done", "failed"}
  BY <1>1 DEF m
<1>8. DOMAIN r = DOMAIN s /\ Len(r) = Len(s)
  BY <1>1 DEF m
<1>4. StackOK(t, r, c)
  <2>1. \A i \in DOMAIN r : r[i].kind = "execute" =>
          /\ r[i].ct \in ComThreads
          /\ r[i].status = "running" => r[i].ct.on = t
          /\ r[i].status = "waiting" => r[i].ct.on \in Workers \ {t}
          /\ r[i].nested \/ c = r[i].ct
    BY <1>8, <1>2, <1>3 DEF StackOK
  <2>2. \A i \in DOMAIN r : r[i].kind = "invoke" =>
          i = 1 /\ t \in Workers /\ r[i].by \in Threads \ {t}
    BY <1>8, <1>2 DEF StackOK
  <2>3. \A i \in DOMAIN r : r[i].status # "running" => i = Len(r) /\ r[i].kind = "execute"
    BY <1>8, <1>2, <1>3 DEF StackOK
  <2>4. \A i, j \in DOMAIN r : i < j /\ r[j].kind = "execute" => r[i].nested
    BY <1>8, <1>2 DEF StackOK
  <2>5. \A i \in DOMAIN r :
          r[i].nested /\ (\A j \in DOMAIN r : j > i => r[j].kind # "execute") => c = None
    BY <1>8, <1>2 DEF StackOK
  <2>6. (\A i \in DOMAIN r : r[i].kind # "execute") => c = None
    BY <1>8, <1>2 DEF StackOK
  <2> QED
    BY <2>1, <2>2, <2>3, <2>4, <2>5, <2>6 DEF StackOK
<1>5. Served(r) = Served(s)
  <2>1. {j \in DOMAIN r : j = 1 /\ r[j].kind = "invoke"} =
        {j \in DOMAIN s : j = 1 /\ s[j].kind = "invoke"}
    BY <1>1, <1>2
  <2> QED
    BY <2>1, <1>2 DEF Served
<1>6. f.status # "waiting" => WaitsFor(r) = {}
  BY <1>1 DEF WaitsFor
<1>7. f.status = "running" => Settled(r)
  BY <1>1 DEF Settled
<1> QED
  BY <1>1, <1>4, <1>5, <1>6, <1>7 DEF r

-----------------------------------------------------------------------------
(* Steps that change one stack.                                            *)

\* Each thread's stack and variable still agree after thread t's have changed.
LEMMA StackStep ==
  ASSUME StackInv, NEW t \in Threads, NEW s \in Stacks,
         NEW c \in ComThreads \cup {None}, StackOK(t, s, c),
         frames' = [frames EXCEPT ![t] = s],
         comThread' = [comThread EXCEPT ![t] = c]
  PROVE  StackInv'
<1>1. frames' \in [Threads -> Stacks] /\ comThread' \in [Threads -> ComThreads \cup {None}]
  BY DEF StackInv
<1>2. \A u \in Threads : StackOK(u, frames'[u], comThread'[u])
  BY DEF StackInv
<1> QED
  BY <1>1, <1>2 DEF StackInv

\* A step after which t waits, and serves, as before leaves the queues in order.
LEMMA QuietStep ==
  ASSUME StackInv, QueueInv, NEW t \in Threads, NEW s,
         frames' = [frames EXCEPT ![t] = s], taskList' = taskList,
         WaitsFor(s) = WaitsFor(frames[t]), Served(s) = Served(frames[t])
  PROVE  QueueInv'
<1>1. \A u \in Threads : /\ WaitsFor(frames'[u]) = WaitsFor(frames[u])
                         /\ Served(frames'[u]) = Served(frames[u])
  BY DEF StackInv
<1>2. Workers \subseteq Threads
  BY ComThreadFacts
<1>3. \A w \in Workers : \A i \in DOMAIN taskList[w] : taskList[w][i] \in Threads
  BY DEF QueueInv
<1>4. \A w \in Workers : \A u \in Served(frames[w]) : u \in Threads
  BY <1>2 DEF Served, StackInv, StackOK
<1>5. \A u \in Threads : \A w \in WaitsFor(frames[u]) : w \in Workers
  BY DEF WaitsFor, StackInv, StackOK
<1> QED
  BY <1>1, <1>2, <1>3, <1>4, <1>5 DEF QueueInv

\* The threads that the queues speak of.
LEMMA QueueFacts ==
  ASSUME StackInv, QueueInv
  PROVE  /\ \A w \in Workers : /\ taskList[w] \in Seq(Threads)
                               /\ \A i \in DOMAIN taskList[w] : taskList[w][i] \in Threads
         /\ \A w \in Workers : \A u \in Served(frames[w]) : u \in Threads /\ u # w
         /\ \A u \in Threads : \A w \in WaitsFor(frames[u]) :
              /\ w \in Workers /\ w # u
              /\ \A v \in WaitsFor(frames[u]) : v = w
<1>1. \A w \in Workers : \A i \in DOMAIN taskList[w] : taskList[w][i] \in Threads
  BY DEF QueueInv
<1>2. \A w \in Workers : \A u \in Served(frames[w]) : u \in Threads /\ u # w
  BY ComThreadFacts DEF Served, StackInv, StackOK
<1>3. \A u \in Threads : \A w \in WaitsFor(frames[u]) :
        /\ w \in Workers /\ w # u
        /\ \A v \in WaitsFor(frames[u]) : v = w
  BY DEF WaitsFor, StackInv, StackOK
<1> QED
  BY <1>1, <1>2, <1>3 DEF QueueInv

\* A thread that did not wait queues its task for worker w.
LEMMA Submission ==
  ASSUME StackInv, QueueInv, NEW t \in Threads, NEW s, NEW w \in Workers,
         WaitsFor(frames[t]) = {}, WaitsFor(s) = {w}, Served(s) = Served(frames[t]),
         frames' = [frames EXCEPT ![t] = s],
         taskList' = [taskList EXCEPT ![w] = Append(@, t)]
  PROVE  QueueInv'
<1>1. \A u \in Threads : /\ Served(frames'[u]) = Served(frames[u])
                         /\ WaitsFor(frames'[u]) = IF u = t THEN {w} ELSE WaitsFor(frames[u])
  BY DEF StackInv
<1>2. /\ Len(taskList[w]) \in Nat
      /\ DOMAIN taskList[w] = 1 .. Len(taskList[w])
      /\ DOMAIN taskList'[w] = 1 .. Len(taskList[w]) + 1
      /\ taskList'[w][Len(taskList[w]) + 1] = t
      /\ \A i \in DOMAIN taskList[w] : taskList'[w][i] = taskList[w][i]
      /\ \A v \in Workers : v # w => taskList'[v] = taskList[v]
      /\ taskList' \in [Workers -> Seq(Threads)]
  BY DEF QueueInv
<1>3. \A v \in Workers : /\ \A i \in DOMAIN taskList[v] : taskList[v][i] # t
                         /\ t \notin Served(frames[v])
  BY DEF QueueInv
<1>4. Workers \subseteq Threads
  BY ComThreadFacts
<1>5. \A v \in Workers : \A i \in DOMAIN taskList'[v] :
        \/ i \in DOMAIN taskList[v] /\ taskList'[v][i] = taskList[v][i]
        \/ v = w /\ i = Len(taskList[w]) + 1 /\ taskList'[v][i] = t
  BY <1>2
<1>6. \A v \in Workers : \A i \in DOMAIN taskList[v] :
        i \in DOMAIN taskList'[v] /\ taskList'[v][i] = taskList[v][i]
  BY <1>2
<1>7. \A v \in Workers : \A i \in DOMAIN taskList'[v] :
        /\ v \in WaitsFor(frames'[taskList'[v][i]])
        /\ taskList'[v][i] \notin Served(frames'[v])
        /\ \A j \in DOMAIN taskList'[v] : taskList'[v][j] = taskList'[v][i] => j = i
  BY <1>1, <1>3, <1>4, <1>5, QueueFacts DEF QueueInv
<1>8. \A v \in Workers : \A u \in Served(frames'[v]) : v \in WaitsFor(frames'[u])
  BY <1>1, <1>3, <1>4, QueueFacts DEF QueueInv
<1>9. \A u \in Threads : \A v \in WaitsFor(frames'[u]) :
        u \in Served(frames'[v]) \/ \E i \in DOMAIN taskList'[v] : taskList'[v][i] = u
  <2>1. SUFFICES ASSUME NEW u \in Threads, NEW v \in WaitsFor(frames'[u])
                 PROVE  u \in Served(frames'[v]) \/ \E i \in DOMAIN taskList'[v] : taskList'[v][i] = u
    OBVIOUS
  <2>2. CASE u = t
    BY <2>2, <1>1, <1>2
  <2>3. CASE u # t
    BY <2>3, <1>1, <1>4, <1>6, QueueFacts DEF QueueInv
  <2> QED
    BY <2>2, <2>3
<1> QED
  BY <1>2, <1>7, <1>8, <1>9 DEF QueueInv

\* Task.execute() on thread t, whose stack has become s.
LEMMA ExecuteStep ==
  ASSUME StackInv, QueueInv, NEW t \in Threads, NEW s \in Stacks,
         StackOK(t, s, comThread[t]), Settled(s),
         Served(s) = Served(frames[t]), WaitsFor(frames[t]) = {},
         NEW ct \in ComThreads, NEW task \in Tasks, Execute(t, s, ct, task)
  PROVE  StackInv' /\ QueueInv'
<1> DEFINE n == [i \in DOMAIN s |-> [s[i] EXCEPT !.nested = TRUE]]
           f == Frame("execute", ct, task, None)
           g == [f EXCEPT !.status = "waiting"]
<1>1. /\ n \in Stacks /\ StackOK(t, n, None) /\ Settled(n)
      /\ Served(n) = Served(frames[t])
      /\ \A i \in DOMAIN n : n[i].nested
  BY Noted
<1>2. /\ f \in Frames /\ f.kind = "execute" /\ f.ct = ct
      /\ f.status = "running" /\ ~f.nested
  BY FrameFacts
<1>3. /\ g \in Frames /\ g.kind = "execute" /\ g.ct = ct
      /\ g.status = "waiting" /\ ~g.nested
  <2> HIDE DEF f
  <2> QED
    BY <1>2 DEF Frames
<1>4. CASE /\ ct.on = t
           /\ comThread' = [comThread EXCEPT ![t] = ct]
           /\ frames' = [frames EXCEPT ![t] = Append(n, f)]
           /\ taskList' = taskList
  <2> HIDE DEF n, f
  <2>1. /\ Append(n, f) \in Stacks /\ StackOK(t, Append(n, f), ct)
        /\ Served(Append(n, f)) = Served(frames[t])
        /\ WaitsFor(Append(n, f)) = {}
    BY <1>1, <1>2, <1>4, PushExecute
  <2> QED
    BY <1>4, <2>1, StackStep, QuietStep
<1>5. CASE /\ ct.on # t /\ ct.type = "multi"
           /\ comThread' = [comThread EXCEPT ![t] = ct]
           /\ frames' = [frames EXCEPT ![t] = Append(n, g)]
           /\ taskList' = [taskList EXCEPT ![ct.on] = Append(@, t)]
  <2> HIDE DEF n, g
  <2>1. ct.on \in Workers \ {t}
    BY <1>5, ComThreadFacts
  <2>2. /\ Append(n, g) \in Stacks /\ StackOK(t, Append(n, g), ct)
        /\ Served(Append(n, g)) = Served(frames[t])
        /\ WaitsFor(Append(n, g)) = {ct.on}
    BY <1>1, <1>3, <2>1, PushExecute
  <2> QED
    BY <1>5, <2>1, <2>2, StackStep, Submission
<1>6. CASE /\ comThread' = [comThread EXCEPT ![t] = None]
           /\ frames' = [frames EXCEPT ![t] = Unwind(n)]
           /\ taskList' = taskList
  <2> HIDE DEF n
  <2>1. /\ Unwind(n) \in Stacks /\ StackOK(t, Unwind(n), None) /\ Settled(Unwind(n))
        /\ Served(Unwind(n)) = Served(frames[t])
    BY <1>1, Unwound
  <2>2. WaitsFor(Unwind(n)) = {}
    BY <2>1, SettledWaits
  <2> QED
    BY <1>6, <2>1, <2>2, StackStep, QuietStep
<1> QED
  BY <1>4, <1>5, <1>6 DEF Execute

\* The worker takes the first of its queue; its stack was empty.
LEMMA TakeStep ==
  ASSUME StackInv, QueueInv, NEW w \in Workers, Take(w)
  PROVE  StackInv' /\ QueueInv'
<1> DEFINE t == Head(taskList[w])
           s == <<Frame("invoke", MultiOf(w), Top(t).task, t)>>
<1>1. /\ w \in Threads /\ frames[w] = <<>> /\ taskList[w] # <<>>
      /\ frames' = [frames EXCEPT ![w] = s]
      /\ taskList' = [taskList EXCEPT ![w] = Tail(@)]
      /\ comThread' = comThread
  BY ComThreadFacts DEF Take
<1>2. /\ Len(taskList[w]) \in Nat \ {0}
      /\ DOMAIN taskList[w] = 1 .. Len(taskList[w]) /\ 1 \in DOMAIN taskList[w]
      /\ t = taskList[w][1] /\ t \in Threads
      /\ DOMAIN taskList'[w] = 1 .. Len(taskList[w]) - 1
      /\ \A i \in DOMAIN taskList'[w] :
           i + 1 \in DOMAIN taskList[w] /\ i + 1 # 1 /\ taskList'[w][i] = taskList[w][i + 1]
      /\ \A i \in DOMAIN taskList[w] :
           i # 1 => i - 1 \in DOMAIN taskList'[w] /\ taskList'[w][i - 1] = taskList[w][i]
      /\ \A v \in Workers : v # w => taskList'[v] = taskList[v]
      /\ taskList' \in [Workers -> Seq(Threads)]
  BY <1>1, QueueFacts DEF QueueInv
<1>3. w \in WaitsFor(frames[t]) /\ t # w /\ \A v \in WaitsFor(frames[t]) : v = w
  <2> HIDE DEF t, s
  <2>1. w \in WaitsFor(frames[t])
    BY <1>2 DEF QueueInv
  <2> QED
    BY <1>2, <2>1, QueueFacts
<1>4. Top(t) \in Frames
  <2>1. frames[t] # <<>> /\ frames[t] \in Stacks
    BY <1>2, <1>3 DEF WaitsFor, StackInv
  <2> QED
    BY <2>1, FrontFacts DEF Top, Stacks
<1>5. Top(t).task \in Tasks
  BY <1>4 DEF Frames
<1> HIDE DEF t
<1>6. /\ s \in Stacks /\ Len(s) = 1 /\ DOMAIN s = {1}
      /\ s[1].kind = "invoke" /\ s[1].by = t /\ s[1].status = "running" /\ ~s[1].nested
  <2> DEFINE f == Frame("invoke", MultiOf(w), Top(t).task, t)
  <2>1. MultiOf(w) \in ComThreads
    BY <1>1, ComThreadFacts
  <2>2. f \in Frames /\ f.kind = "invoke" /\ f.by = t /\ f.status = "running" /\ ~f.nested
    BY <1>2, <1>5, <2>1, FrameFacts
  <2> HIDE DEF f
  <2>3. <<f>> \in Stacks /\ Len(<<f>>) = 1 /\ DOMAIN <<f>> = {1} /\ <<f>>[1] = f
    BY <2>2 DEF Stacks
  <2> QED
    BY <2>2, <2>3 DEF f
<1> HIDE DEF s
<1>7. comThread[w] = None
  BY <1>1 DEF StackInv, StackOK
<1>8. StackInv'
  <2>1. StackOK(w, s, None)
    BY <1>2, <1>3, <1>6 DEF StackOK
  <2>2. comThread' = [comThread EXCEPT ![w] = None]
    BY <1>1, <1>7 DEF StackInv
  <2> QED
    BY <1>1, <1>6, <2>1, <2>2, StackStep
<1>9. \A u \in Threads : /\ WaitsFor(frames'[u]) = WaitsFor(frames[u])
                         /\ Served(frames'[u]) = IF u = w THEN {t} ELSE Served(frames[u])
  <2>1. WaitsFor(s) = {} /\ WaitsFor(frames[w]) = {} /\ Served(s) = {t}
    BY <1>1, <1>6, EmptyStack DEF WaitsFor, Served
  <2> QED
    BY <1>1, <2>1 DEF StackInv
<1>10. Served(frames[w]) = {}
  BY <1>1, EmptyStack
<1>11. \A v \in Workers : \A i \in DOMAIN taskList'[v] :
        /\ v \in WaitsFor(frames'[taskList'[v][i]])
        /\ taskList'[v][i] \notin Served(frames'[v])
        /\ \A j \in DOMAIN taskList'[v] : taskList'[v][j] = taskList'[v][i] => j = i
  <2>1. SUFFICES ASSUME NEW v \in Workers, NEW i \in DOMAIN taskList'[v]
                 PROVE  /\ v \in WaitsFor(frames'[taskList'[v][i]])
                        /\ taskList'[v][i] \notin Served(frames'[v])
                        /\ \A j \in DOMAIN taskList'[v] : taskList'[v][j] = taskList'[v][i] => j = i
    OBVIOUS
  <2>2. CASE v = w
    <3>1. \A j \in DOMAIN taskList'[w] : j \in Nat
      BY <1>2
    <3>2. /\ taskList[w][i + 1] \in Threads /\ w \in WaitsFor(frames[taskList[w][i + 1]])
          /\ taskList[w][i + 1] # taskList[w][1]
          /\ \A j \in DOMAIN taskList[w] : taskList[w][j] = taskList[w][i + 1] => j = i + 1
      BY <1>2, <2>2, QueueFacts DEF QueueInv
    <3>3. \A j \in DOMAIN taskList'[w] : taskList'[w][j] = taskList'[w][i] => j = i
      BY <1>2, <2>2, <3>1, <3>2
    <3> QED
      BY <1>1, <1>2, <1>9, <2>2, <3>2, <3>3
  <2>3. CASE v # w
    BY <1>2, <1>9, <2>3, ComThreadFacts, QueueFacts DEF QueueInv
  <2> QED
    BY <2>2, <2>3
<1>12. \A v \in Workers : \A u \in Served(frames'[v]) : v \in WaitsFor(frames'[u])
  <2>1. SUFFICES ASSUME NEW v \in Workers, NEW u \in Served(frames'[v])
                 PROVE  v \in WaitsFor(frames'[u])
    OBVIOUS
  <2>2. CASE v = w
    BY <1>1, <1>2, <1>3, <1>9, <2>2
  <2>3. CASE v # w
    <3>1. v \in Threads /\ u \in Served(frames[v]) /\ u \in Threads
      BY <1>9, <2>3, ComThreadFacts, QueueFacts
    <3> QED
      BY <1>9, <3>1 DEF QueueInv
  <2> QED
    BY <2>2, <2>3
<1>13. \A u \in Threads : \A v \in WaitsFor(frames'[u]) :
        u \in Served(frames'[v]) \/ \E i \in DOMAIN taskList'[v] : taskList'[v][i] = u
  <2>1. SUFFICES ASSUME NEW u \in Threads, NEW v \in WaitsFor(frames'[u])
                 PROVE  u \in Served(frames'[v]) \/ \E i \in DOMAIN taskList'[v] : taskList'[v][i] = u
    OBVIOUS
  <2>2. v \in WaitsFor(frames[u]) /\ v \in Workers /\ v \in Threads
    BY <1>9, ComThreadFacts, QueueFacts
  <2>3. CASE v = w
    <3>1. PICK i \in DOMAIN taskList[w] : taskList[w][i] = u
      BY <1>10, <2>2, <2>3 DEF QueueInv
    <3>2. CASE i = 1
      BY <1>1, <1>2, <1>9, <2>3, <3>1, <3>2
    <3>3. CASE i # 1
      BY <1>2, <2>3, <3>1, <3>3
    <3> QED
      BY <3>2, <3>3
  <2>4. CASE v # w
    BY <1>2, <1>9, <2>2, <2>4 DEF QueueInv
  <2> QED
    BY <2>3, <2>4
<1> QED
  BY <1>2, <1>8, <1>11, <1>12, <1>13 DEF QueueInv

\* The worker answers: the thread it has served no longer waits, and finds
\* the frame it waits in.
LEMMA AnswerStep ==
  ASSUME StackInv, QueueInv, NEW w \in Threads, frames[w] # <<>>,
         Top(w).kind = "invoke", NEW failed \in BOOLEAN, Answer(w, failed),
         comThread' = comThread, taskList' = taskList
  PROVE  StackInv' /\ QueueInv'
<1> DEFINE t == Top(w).by
           s == Below(w)
           f == [Top(t) EXCEPT !.status = IF failed THEN "failed" ELSE "done"]
           r == SetTop(frames[t], f)
<1>1. /\ frames[w] \in Stacks /\ Len(frames[w]) = 1 /\ w \in Workers
      /\ DOMAIN frames[w] = {1} /\ t = frames[w][1].by /\ frames[w][1].kind = "invoke"
      /\ t \in Threads \ {w}
  <2>1. /\ frames[w] \in Stacks /\ StackOK(w, frames[w], comThread[w])
        /\ Len(frames[w]) \in DOMAIN frames[w] /\ DOMAIN frames[w] = 1 .. Len(frames[w])
    BY FrontFacts DEF StackInv
  <2>2. /\ Len(frames[w]) = 1 /\ w \in Workers
        /\ frames[w][1].kind = "invoke" /\ frames[w][1].by \in Threads \ {w}
    BY <2>1 DEF StackOK, Top
  <2>3. 1 .. Len(frames[w]) = {1}
    BY <2>2
  <2> QED
    BY <2>1, <2>2, <2>3 DEF Top
<1>2. frames' = [frames EXCEPT ![w] = s, ![t] = r]
  BY <1>1 DEF Answer, StackInv
<1>3. s = <<>>
  <2>1. s \in Seq(Frames) /\ Len(s) = 0
    BY <1>1, FrontFacts DEF Below, Stacks
  <2> QED
    BY <2>1
<1>4. Served(frames[w]) = {t} /\ w \in WaitsFor(frames[t])
  <2>1. Served(frames[w]) = {t}
    BY <1>1 DEF Served
  <2> QED
    BY <1>1, <2>1 DEF QueueInv
<1>5. /\ frames[t] # <<>> /\ frames[t] \in Stacks /\ Top(t) = frames[t][Len(frames[t])]
      /\ Top(t).kind = "execute" /\ Top(t) \in Frames
  <2>1. frames[t] # <<>> /\ frames[t] \in Stacks
    BY <1>1, <1>4 DEF WaitsFor, StackInv
  <2> QED
    BY <1>4, <2>1, FrontFacts DEF WaitsFor, Top, Stacks
<1>6. /\ f \in Frames /\ f.kind = Top(t).kind /\ f.ct = Top(t).ct /\ f.by = Top(t).by
      /\ f.nested = Top(t).nested /\ f.status \in {"done", "failed"}
  BY <1>5 DEF Frames
<1> HIDE DEF f, s, t
<1>7. /\ r \in Stacks /\ StackOK(t, r, comThread[t])
      /\ Served(r) = Served(frames[t]) /\ WaitsFor(r) = {}
  BY <1>1, <1>5, <1>6, TopGoesOn DEF StackInv
<1> HIDE DEF r
<1>8. StackInv'
  <2>1. comThread[w] = None
    BY <1>1 DEF StackInv, StackOK
  <2>2. frames' \in [Threads -> Stacks]
    BY <1>2, <1>3, <1>7, EmptyStack DEF StackInv
  <2>3. \A u \in Threads : StackOK(u, frames'[u], comThread[u])
    <3>1. StackOK(w, <<>>, comThread[w])
      BY <2>1, EmptyStack
    <3> QED
      BY <1>1, <1>2, <1>3, <1>7, <3>1 DEF StackInv
  <2> QED
    BY <2>2, <2>3 DEF StackInv
<1>9. \A u \in Threads :
        /\ Served(frames'[u]) = IF u = w THEN {} ELSE Served(frames[u])
        /\ WaitsFor(frames'[u]) = IF u = t THEN {} ELSE WaitsFor(frames[u])
  <2>1. WaitsFor(frames[w]) = {}
    BY <1>1 DEF WaitsFor
  <2> QED
    BY <1>1, <1>2, <1>3, <1>7, <2>1, EmptyStack DEF StackInv
<1>10. \A v \in WaitsFor(frames[t]) : v = w
  BY <1>1, <1>4, QueueFacts
<1>11. \A v \in Workers : /\ \A i \in DOMAIN taskList[v] : taskList[v][i] # t
                          /\ t \in Served(frames[v]) => v = w
  BY <1>4, <1>10 DEF QueueInv
<1>12. \A v \in Workers : \A i \in DOMAIN taskList[v] :
        /\ v \in WaitsFor(frames'[taskList[v][i]])
        /\ taskList[v][i] \notin Served(frames'[v])
  BY <1>9, <1>11, ComThreadFacts, QueueFacts DEF QueueInv
<1>13. \A v \in Workers : \A u \in Served(frames'[v]) : v \in WaitsFor(frames'[u])
  BY <1>9, <1>11, ComThreadFacts, QueueFacts DEF QueueInv
<1>14. \A u \in Threads : \A v \in WaitsFor(frames'[u]) :
        u \in Served(frames'[v]) \/ \E i \in DOMAIN taskList[v] : taskList[v][i] = u
  BY <1>4, <1>9, ComThreadFacts, QueueFacts DEF QueueInv
<1> QED
  BY <1>8, <1>12, <1>13, <1>14 DEF QueueInv

-----------------------------------------------------------------------------
(* The actions.                                                            *)

\* The last frame of a thread in the midst of something.
LEMMA TopFacts ==
  ASSUME StackInv, NEW t \in Threads, frames[t] # <<>>
  PROVE  /\ frames[t] \in Stacks /\ StackOK(t, frames[t], comThread[t])
         /\ Top(t) = frames[t][Len(frames[t])] /\ Top(t) \in Frames
         /\ Top(t).kind # "execute" => Top(t).status = "running"
         /\ Top(t).status = "running" => Settled(frames[t]) /\ WaitsFor(frames[t]) = {}
<1>1. /\ frames[t] \in Stacks /\ StackOK(t, frames[t], comThread[t])
      /\ Len(frames[t]) \in DOMAIN frames[t]
      /\ Top(t) = frames[t][Len(frames[t])] /\ Top(t) \in Frames
  BY FrontFacts DEF StackInv, Top, Stacks
<1>2. Top(t).kind # "execute" => Top(t).status = "running"
  BY <1>1 DEF StackOK
<1>3. Top(t).status = "running" => Settled(frames[t])
  BY <1>1 DEF Settled
<1> QED
  BY <1>1, <1>2, <1>3, SettledWaits

\* A thread that runs Java code does not wait.
LEMMA InJavaFacts ==
  ASSUME StackInv, NEW t \in Threads, InJava(t)
  PROVE  /\ frames[t] \in Stacks /\ StackOK(t, frames[t], comThread[t])
         /\ Settled(frames[t]) /\ WaitsFor(frames[t]) = {}
<1>1. CASE TopIs(t, "event")
  BY <1>1, TopFacts DEF TopIs
<1>2. CASE frames[t] = <<>>
  BY <1>2, EmptyStack DEF StackInv, Settled
<1> QED
  BY <1>1, <1>2 DEF InJava

\* Nothing happens to the wrappers.
LEMMA WrappersUnchanged ==
  ASSUME WrapperInv, UNCHANGED <<wrapper, objects, missed>>
  PROVE  WrapperInv'
  BY DEF WrapperInv, BoundToItsThread

\* The wrappers made so far.
LEMMA WrapperFacts ==
  ASSUME WrapperInv
  PROVE  \A o \in DOMAIN wrapper :
           /\ wrapper[o] \in Wrappers /\ wrapper[o].ct \in ComThreads
           /\ \A op \in {"call", "dispose"} : [op |-> op, obj |-> o] \in Tasks
<1>1. \A o \in DOMAIN wrapper : wrapper[o] \in Wrappers /\ o \in 0 .. MaxWrappers
  BY DEF WrapperInv
<1> QED
  BY <1>1 DEF Wrappers, Tasks

LEMMA CreateStep ==
  ASSUME Inv, NEW t \in Threads, NEW ct \in ComThreads, Create(t, ct)
  PROVE  Inv'
<1>1. [op |-> "create", obj |-> 0] \in Tasks
  BY DEF Tasks
<1>2. StackInv' /\ QueueInv'
  BY <1>1, InJavaFacts, ExecuteStep DEF Inv, Create
<1> QED
  BY <1>2, WrappersUnchanged DEF Inv, Create

LEMMA CallStep ==
  ASSUME Inv, NEW t \in Threads, NEW o \in DOMAIN wrapper,
         NEW op \in {"call", "dispose"}, Call(t, o, op)
  PROVE  Inv'
<1>1. [op |-> op, obj |-> o] \in Tasks /\ wrapper[o].ct \in ComThreads
  BY WrapperFacts DEF Inv
<1>2. StackInv' /\ QueueInv'
  BY <1>1, InJavaFacts, ExecuteStep DEF Inv, Call
<1> QED
  BY <1>2, WrappersUnchanged DEF Inv, Call

\* An event, or the loop of disposeAll(), begins.
LEMMA PushStep ==
  ASSUME Inv, NEW t \in Threads, Settled(frames[t]), WaitsFor(frames[t]) = {},
         NEW f \in Frames, f.kind \in {"event", "disposeAll"}, f.status = "running", ~f.nested,
         frames' = [frames EXCEPT ![t] = Append(@, f)],
         UNCHANGED <<comThread, taskList, wrapper, objects, missed>>
  PROVE  Inv'
<1> DEFINE r == Append(frames[t], f)
<1>1. /\ frames[t] \in Stacks /\ StackOK(t, frames[t], comThread[t])
      /\ comThread[t] \in ComThreads \cup {None}
      /\ frames' = [frames EXCEPT ![t] = r]
      /\ comThread' = [comThread EXCEPT ![t] = comThread[t]]
  BY DEF Inv, StackInv
<1>2. /\ r \in Stacks /\ StackOK(t, r, comThread[t]) /\ Settled(r)
      /\ Served(r) = Served(frames[t])
  BY <1>1, PushOther
<1>3. WaitsFor(r) = {}
  BY <1>2, SettledWaits
<1> HIDE DEF r
<1>4. StackInv'
  BY <1>1, <1>2, StackStep DEF Inv
<1>5. QueueInv'
  BY <1>1, <1>2, <1>3, QuietStep DEF Inv
<1> QED
  BY <1>4, <1>5, WrappersUnchanged DEF Inv

LEMMA DeliverStep ==
  ASSUME Inv, NEW t \in Threads, DeliverEvent(t)
  PROVE  Inv'
<1>1. Settled(frames[t]) /\ WaitsFor(frames[t]) = {}
  <2>1. CASE InNative(t)
    BY <2>1, TopFacts DEF InNative, Inv
  <2>2. CASE frames[t] = <<>>
    BY <2>2, EmptyStack DEF Settled
  <2> QED
    BY <2>1, <2>2 DEF DeliverEvent
<1>2. NoTask \in Tasks
  BY DEF NoTask, Tasks
<1> DEFINE f == Frame("event", None, NoTask, None)
<1>3. f \in Frames /\ f.kind = "event" /\ f.status = "running" /\ ~f.nested
  BY <1>2, FrameFacts
<1>4. /\ frames' = [frames EXCEPT ![t] = Append(@, f)]
      /\ UNCHANGED <<comThread, taskList, wrapper, objects, missed>>
  BY DEF DeliverEvent
<1> HIDE DEF f
<1> QED
  BY <1>1, <1>3, <1>4, PushStep

LEMMA DisposeAllStep ==
  ASSUME Inv, DisposeAll
  PROVE  Inv'
<1> DEFINE t == App(Owner)
           e == Frame("disposeAll", None, NoTask, None)
           f == [e EXCEPT !.next = 1, !.size = Len(objects)]
<1>1. t \in Threads /\ NoTask \in Tasks
  BY DEF App, Threads, NoTask, Tasks
<1>2. Settled(frames[t]) /\ WaitsFor(frames[t]) = {}
  BY <1>1, InJavaFacts DEF DisposeAll, Inv
<1>3. e \in Frames /\ e.kind = "disposeAll" /\ e.status = "running" /\ ~e.nested
  BY <1>1, FrameFacts
<1>4. Len(objects) \in Nat
  BY DEF Inv, WrapperInv
<1>5. /\ frames' = [frames EXCEPT ![t] = Append(@, f)]
      /\ UNCHANGED <<comThread, taskList, wrapper, objects, missed>>
  BY DEF DisposeAll
<1>6. f \in Frames /\ f.kind = "disposeAll" /\ f.status = "running" /\ ~f.nested
  <2> HIDE DEF e
  <2> QED
    BY <1>3, <1>4 DEF Frames
<1> HIDE DEF f, t
<1> QED
  BY <1>1, <1>2, <1>5, <1>6, PushStep

\* An event, or the loop, ends.
LEMMA PopStep ==
  ASSUME StackInv, QueueInv, NEW t \in Threads, frames[t] # <<>>,
         Top(t).kind \in {"event", "disposeAll"},
         frames' = Pop(t), UNCHANGED <<comThread, taskList>>
  PROVE  StackInv' /\ QueueInv'
<1> DEFINE r == Front(frames[t])
<1>1. /\ frames[t] \in Stacks /\ StackOK(t, frames[t], comThread[t])
      /\ WaitsFor(frames[t]) = {} /\ Top(t) = frames[t][Len(frames[t])]
      /\ comThread[t] \in ComThreads \cup {None}
      /\ frames' = [frames EXCEPT ![t] = r]
      /\ comThread' = [comThread EXCEPT ![t] = comThread[t]]
  BY TopFacts DEF StackInv, Pop, Below
<1>2. /\ r \in Stacks /\ StackOK(t, r, comThread[t]) /\ Settled(r)
      /\ Served(r) = Served(frames[t])
  BY <1>1, Drop
<1>3. WaitsFor(r) = {}
  BY <1>2, SettledWaits
<1> HIDE DEF r
<1>4. StackInv'
  BY <1>1, <1>2, StackStep
<1> QED
  BY <1>1, <1>2, <1>3, <1>4, QuietStep

\* The end of Task.execute().
LEMMA LeaveStep ==
  ASSUME StackInv, QueueInv, NEW t \in Threads, frames[t] # <<>>,
         Top(t).kind = "execute", WaitsFor(frames[t]) = {},
         NEW failed \in BOOLEAN, LeaveExecute(t, failed), UNCHANGED taskList
  PROVE  StackInv' /\ QueueInv'
<1> DEFINE b == Front(frames[t])
           r == IF failed THEN Unwind(b) ELSE b
<1>1. /\ frames[t] \in Stacks /\ StackOK(t, frames[t], comThread[t])
      /\ Top(t) = frames[t][Len(frames[t])]
      /\ frames' = [frames EXCEPT ![t] = r]
      /\ comThread' = [comThread EXCEPT ![t] = None]
  BY TopFacts DEF LeaveExecute, Below
<1>2. /\ b \in Stacks /\ StackOK(t, b, None) /\ Settled(b)
      /\ Served(b) = Served(frames[t])
  BY <1>1, Drop
<1>3. /\ r \in Stacks /\ StackOK(t, r, None) /\ Settled(r)
      /\ Served(r) = Served(frames[t])
  BY <1>2, Unwound
<1>4. WaitsFor(r) = {}
  BY <1>3, SettledWaits
<1> HIDE DEF r
<1>5. StackInv'
  BY <1>1, <1>3, StackStep
<1> QED
  BY <1>1, <1>3, <1>4, <1>5, QuietStep

\* What a wrapper made now is bound to.
LEMMA ContextIsRight ==
  ASSUME StackInv, NEW t \in Threads, InNative(t)
  PROVE  /\ ContextOf(t) \in ComThreads
         /\ \/ ContextOf(t).on = t
            \/ Top(t).nested /\ ContextOf(t) = MultiOf(t) /\ t \notin Workers
<1> DEFINE s == frames[t]
           m == Len(s)
<1>1. /\ s \in Stacks /\ StackOK(t, s, comThread[t]) /\ Top(t) = s[m]
      /\ m \in DOMAIN s /\ DOMAIN s = 1 .. m /\ m \in Nat
      /\ s[m].kind \in {"execute", "invoke"} /\ s[m].status = "running"
  BY TopFacts, FrontFacts DEF InNative
<1>2. /\ comThread[t] \in ComThreads \cup {None} /\ MultiOf(t) \in ComThreads
      /\ t \in Workers => MultiOf(t).on = t
  BY ComThreadFacts DEF StackInv
<1>3. comThread[t] = None => ContextOf(t) = MultiOf(t)
  BY DEF ContextOf
<1>4. comThread[t] # None => ContextOf(t) = comThread[t]
  BY DEF ContextOf
<1> HIDE DEF m
<1>5. CASE s[m].kind = "invoke"
  <2>1. m = 1 /\ t \in Workers
    BY <1>1, <1>5 DEF StackOK
  <2>2. \A i \in DOMAIN s : s[i].kind # "execute"
    BY <1>1, <1>5, <2>1
  <2>3. comThread[t] = None
    BY <1>1, <2>2 DEF StackOK
  <2> QED
    BY <1>2, <1>3, <2>1, <2>3
<1>6. CASE s[m].kind = "execute" /\ s[m].nested
  <2>1. \A j \in DOMAIN s : ~(j > m)
    BY <1>1
  <2>2. comThread[t] = None
    BY <1>1, <1>6, <2>1 DEF StackOK
  <2> QED
    BY <1>1, <1>2, <1>3, <1>6, <2>2
<1>7. CASE s[m].kind = "execute" /\ ~s[m].nested
  <2>1. comThread[t] = s[m].ct /\ s[m].ct \in ComThreads /\ s[m].ct.on = t
    BY <1>1, <1>7 DEF StackOK
  <2>2. comThread[t] # None
    BY <2>1, ComThreadFacts
  <2> QED
    BY <1>4, <2>1, <2>2
<1> QED
  BY <1>1, <1>5, <1>6, <1>7

\* call() has done its work.
LEMMA WorkStep ==
  ASSUME StackInv, WrapperInv, NEW t \in Threads, InNative(t), Done(t) \/ Failed(t)
  PROVE  WrapperInv'
<1>1. Top(t) \in Frames
  BY TopFacts DEF InNative
<1>2. /\ wrapper \in Seq(Wrappers) /\ Len(wrapper) \in Nat /\ DOMAIN wrapper = 1 .. Len(wrapper)
      /\ objects \in Seq(DOMAIN wrapper)
  BY DEF WrapperInv
<1>3. CASE NewWrapper(t)
  <2> DEFINE w == [ct |-> ContextOf(t), home |-> t, nested |-> Top(t).nested, disposed |-> FALSE]
  <2>1. /\ w \in Wrappers /\ w.home = t /\ w.ct = ContextOf(t) /\ w.nested = Top(t).nested
    BY <1>1, ContextIsRight DEF Wrappers, Frames
  <2>2. \/ w.ct.on = w.home
        \/ w.nested /\ w.ct = MultiOf(w.home) /\ w.home \notin Workers
    BY <2>1, ContextIsRight
  <2>3. wrapper' = Append(wrapper, w) /\ missed' = missed /\ Len(wrapper) < MaxWrappers
    BY <1>3 DEF NewWrapper
  <2>4. objects' = objects \/ objects' = Append(objects, Len(wrapper'))
    BY <1>3 DEF NewWrapper
  <2> HIDE DEF w
  <2>5. /\ wrapper' \in Seq(Wrappers) /\ Len(wrapper') = Len(wrapper) + 1
        /\ DOMAIN wrapper' = 1 .. Len(wrapper) + 1
        /\ wrapper'[Len(wrapper) + 1] = w
        /\ \A i \in DOMAIN wrapper : wrapper'[i] = wrapper[i]
    BY <1>2, <2>1, <2>3
  <2>6. DOMAIN wrapper \subseteq DOMAIN wrapper' /\ Len(wrapper') \in DOMAIN wrapper'
    BY <1>2, <2>5
  <2>7. objects' \in Seq(DOMAIN wrapper')
    <3>1. objects \in Seq(DOMAIN wrapper')
      BY <1>2, <2>6, SeqMonotonic
    <3> QED
      BY <2>4, <2>6, <3>1, AppendProperties
  <2>8. BoundToItsThread'
    <3>1. \A o \in DOMAIN wrapper' : \/ o \in DOMAIN wrapper /\ wrapper'[o] = wrapper[o]
                                    \/ wrapper'[o] = w
      BY <1>2, <2>5
    <3> QED
      BY <2>2, <3>1 DEF BoundToItsThread, WrapperInv
  <2>9. missed' \subseteq DOMAIN wrapper'
    BY <2>3, <2>6 DEF WrapperInv
  <2>10. Len(wrapper') <= MaxWrappers
    BY <1>2, <2>3, <2>5
  <2> QED
    BY <2>5, <2>7, <2>8, <2>9, <2>10 DEF WrapperInv
<1>4. CASE /\ Top(t).task.op = "dispose"
           /\ wrapper' = [wrapper EXCEPT ![Top(t).task.obj].disposed = TRUE]
           /\ UNCHANGED <<objects, missed>>
  <2>1. /\ DOMAIN wrapper' = DOMAIN wrapper
        /\ \A o \in DOMAIN wrapper :
             /\ wrapper'[o] \in Wrappers
             /\ wrapper'[o].ct = wrapper[o].ct /\ wrapper'[o].home = wrapper[o].home
             /\ wrapper'[o].nested = wrapper[o].nested
    <3> DEFINE k == Top(t).task.obj
               x == [wrapper[k] EXCEPT !.disposed = TRUE]
    <3>1. wrapper' = [wrapper EXCEPT ![k] = x]
      BY <1>4
    <3>2. \A o \in DOMAIN wrapper : wrapper[o] \in Wrappers
      BY <1>2
    <3>3. k \in DOMAIN wrapper => /\ x \in Wrappers /\ x.ct = wrapper[k].ct
                                 /\ x.home = wrapper[k].home /\ x.nested = wrapper[k].nested
      BY <3>2 DEF Wrappers
    <3> HIDE DEF k, x
    <3> QED
      BY <3>1, <3>2, <3>3
  <2>2. wrapper' \in Seq(Wrappers) /\ Len(wrapper') = Len(wrapper)
    <3>1. wrapper' \in [1 .. Len(wrapper) -> Wrappers]
      <4>1. wrapper' = [o \in DOMAIN wrapper' |-> wrapper'[o]]
        BY <1>4
      <4> QED
        BY <1>2, <2>1, <4>1
    <3> QED
      BY <1>2, <2>1, <3>1, SeqDef, LenProperties
  <2> QED
    BY <1>4, <2>1, <2>2 DEF WrapperInv, BoundToItsThread
<1>5. CASE UNCHANGED <<wrapper, objects, missed>>
  BY <1>5, WrappersUnchanged
<1> QED
  BY <1>3, <1>4, <1>5 DEF Done, Failed

LEMMA EndCallStep ==
  ASSUME Inv, NEW t \in Threads, EndCall(t)
  PROVE  Inv'
<1>1. /\ InNative(t) /\ UNCHANGED taskList /\ frames[t] # <<>> /\ WaitsFor(frames[t]) = {}
  BY TopFacts DEF EndCall, InNative, Inv
<1>2. PICK failed \in BOOLEAN :
        /\ IF failed THEN Failed(t) ELSE Done(t)
        /\ \/ Top(t).kind = "execute" /\ LeaveExecute(t, failed)
           \/ Top(t).kind = "invoke" /\ Answer(t, failed) /\ UNCHANGED comThread
  BY DEF EndCall
<1>3. WrapperInv'
  BY <1>1, <1>2, WorkStep DEF Inv
<1>4. CASE Top(t).kind = "execute" /\ LeaveExecute(t, failed)
  BY <1>1, <1>3, <1>4, LeaveStep DEF Inv
<1>5. CASE Top(t).kind = "invoke" /\ Answer(t, failed) /\ UNCHANGED comThread
  BY <1>1, <1>3, <1>5, AnswerStep DEF Inv
<1> QED
  BY <1>2, <1>4, <1>5

LEMMA ReturnStep ==
  ASSUME Inv, NEW t \in Threads, Return(t)
  PROVE  Inv'
<1>1. frames[t] # <<>> /\ Top(t).kind = "execute" /\ Top(t).status # "waiting"
  BY DEF Return, TopIs
<1>2. WaitsFor(frames[t]) = {}
  BY <1>1, TopFacts DEF WaitsFor, Inv
<1>3. \E failed \in BOOLEAN : LeaveExecute(t, failed)
  BY DEF Return
<1> QED
  BY <1>1, <1>2, <1>3, LeaveStep, WrappersUnchanged DEF Inv, Return

\* The loop of disposeAll() goes on.
LEMMA LoopFacts ==
  ASSUME StackInv, NEW t \in Threads, InLoop(t), NEW k \in Nat
  PROVE  LET s == SetTop(frames[t], [Top(t) EXCEPT !.next = k])
         IN  /\ s \in Stacks /\ StackOK(t, s, comThread[t]) /\ Settled(s)
             /\ Served(s) = Served(frames[t])
             /\ WaitsFor(s) = {} /\ WaitsFor(frames[t]) = {}
<1>1. /\ frames[t] # <<>> /\ Top(t) \in Frames /\ Top(t).status = "running"
      /\ frames[t] \in Stacks /\ StackOK(t, frames[t], comThread[t])
      /\ Top(t) = frames[t][Len(frames[t])] /\ WaitsFor(frames[t]) = {}
  BY TopFacts DEF InLoop, TopIs
<1> DEFINE f == [Top(t) EXCEPT !.next = k]
<1>2. /\ f \in Frames /\ f.kind = Top(t).kind /\ f.ct = Top(t).ct /\ f.by = Top(t).by
      /\ f.nested = Top(t).nested /\ f.status = "running"
  BY <1>1 DEF Frames
<1> HIDE DEF f
<1>3. LET s == SetTop(frames[t], f)
      IN  /\ s \in Stacks /\ StackOK(t, s, comThread[t]) /\ Settled(s)
          /\ Served(s) = Served(frames[t]) /\ WaitsFor(s) = {}
  BY <1>1, <1>2, TopGoesOn
<1> QED
  BY <1>1, <1>3 DEF f

LEMMA NextObjectStep ==
  ASSUME Inv, NEW t \in Threads, NextObject(t)
  PROVE  Inv'
<1>1. /\ InLoop(t) /\ frames[t] # <<>> /\ Top(t).next \in Nat /\ Top(t).next > 0
      /\ ~(Top(t).next > Len(objects)) /\ UNCHANGED <<wrapper, objects, missed>>
  BY TopFacts DEF NextObject, InLoop, TopIs, AtEnd, Frames, Inv
<1> DEFINE o == objects[Top(t).next]
           s == SetTop(frames[t], [Top(t) EXCEPT !.next = @ + 1])
<1>2. o \in DOMAIN wrapper
  <2>1. objects \in Seq(DOMAIN wrapper) /\ Top(t).next \in 1 .. Len(objects)
    BY <1>1 DEF Inv, WrapperInv
  <2> QED
    BY <2>1, ElementOfSeq
<1>3. /\ s \in Stacks /\ StackOK(t, s, comThread[t]) /\ Settled(s)
      /\ Served(s) = Served(frames[t])
      /\ WaitsFor(s) = {} /\ WaitsFor(frames[t]) = {}
  <2>1. Top(t).next + 1 \in Nat
    BY <1>1
  <2>2. [Top(t) EXCEPT !.next = @ + 1] = [Top(t) EXCEPT !.next = Top(t).next + 1]
    OBVIOUS
  <2> QED
    BY <1>1, <2>1, <2>2, LoopFacts DEF Inv
<1>4. CASE /\ frames' = [frames EXCEPT ![t] = s]
           /\ UNCHANGED <<comThread, taskList>>
  <2> HIDE DEF s
  <2>1. /\ comThread[t] \in ComThreads \cup {None}
        /\ comThread' = [comThread EXCEPT ![t] = comThread[t]]
    BY <1>4 DEF Inv, StackInv
  <2>2. StackInv'
    BY <1>3, <1>4, <2>1, StackStep DEF Inv
  <2>3. QueueInv'
    BY <1>3, <1>4, QuietStep DEF Inv
  <2> QED
    BY <1>1, <2>2, <2>3, WrappersUnchanged DEF Inv
<1>5. CASE Execute(t, s, wrapper[o].ct, [op |-> "dispose", obj |-> o])
  <2> HIDE DEF s, o
  <2>1. [op |-> "dispose", obj |-> o] \in Tasks /\ wrapper[o].ct \in ComThreads
    BY <1>2, WrapperFacts DEF Inv
  <2>2. StackInv' /\ QueueInv'
    BY <1>3, <1>5, <2>1, ExecuteStep DEF Inv
  <2> QED
    BY <1>1, <2>2, WrappersUnchanged DEF Inv
<1> QED
  BY <1>4, <1>5 DEF NextObject

LEMMA LoopEndsStep ==
  ASSUME Inv, NEW t \in Threads, LoopEnds(t)
  PROVE  Inv'
<1> DEFINE s == SetTop(frames[t], [Top(t) EXCEPT !.next = 0])
<1>1. /\ InLoop(t) /\ frames' = [frames EXCEPT ![t] = s]
      /\ UNCHANGED <<comThread, taskList, wrapper, objects, missed>>
  BY DEF LoopEnds, Inv, StackInv
<1>2. /\ s \in Stacks /\ StackOK(t, s, comThread[t])
      /\ Served(s) = Served(frames[t])
      /\ WaitsFor(s) = WaitsFor(frames[t])
  BY <1>1, LoopFacts DEF Inv
<1> HIDE DEF s
<1>3. /\ comThread[t] \in ComThreads \cup {None}
      /\ comThread' = [comThread EXCEPT ![t] = comThread[t]]
  BY <1>1 DEF Inv, StackInv
<1>4. StackInv'
  BY <1>1, <1>2, <1>3, StackStep DEF Inv
<1>5. QueueInv'
  BY <1>1, <1>2, QuietStep DEF Inv
<1> QED
  BY <1>1, <1>4, <1>5, WrappersUnchanged DEF Inv

LEMMA LoopStops ==
  ASSUME Inv, NEW t \in Threads, LoopFails(t) \/ Clear(t) \/ EndEvent(t)
  PROVE  Inv'
<1>1. /\ frames[t] # <<>> /\ Top(t).kind \in {"event", "disposeAll"}
      /\ frames' = Pop(t) /\ UNCHANGED <<comThread, taskList>>
  BY DEF LoopFails, Clear, EndEvent, InLoop, TopIs
<1>2. StackInv' /\ QueueInv'
  BY <1>1, PopStep DEF Inv
<1>3. CASE Clear(t)
  <2>1. /\ objects' = <<>> /\ wrapper' = wrapper
        /\ missed' = missed \cup {objects[i] : i \in Top(t).size + 1 .. Len(objects)}
    BY <1>3 DEF Clear
  <2>2. \A i \in Top(t).size + 1 .. Len(objects) : objects[i] \in DOMAIN wrapper
    <3>1. Top(t).size \in Nat /\ objects \in Seq(DOMAIN wrapper) /\ Len(objects) \in Nat
      BY <1>1, TopFacts DEF Frames, Inv, WrapperInv
    <3>2. \A i \in Top(t).size + 1 .. Len(objects) : i \in 1 .. Len(objects)
      BY <3>1
    <3> QED
      BY <3>1, <3>2, ElementOfSeq
  <2>3. WrapperInv'
    BY <2>1, <2>2 DEF WrapperInv, Inv, BoundToItsThread
  <2> QED
    BY <1>2, <2>3 DEF Inv
<1>4. CASE UNCHANGED <<wrapper, objects, missed>>
  BY <1>2, <1>4, WrappersUnchanged DEF Inv
<1> QED
  BY <1>3, <1>4 DEF LoopFails, EndEvent

-----------------------------------------------------------------------------
(* The theorems.                                                           *)

LEMMA InitInv == Init => Inv
<1> SUFFICES ASSUME Init PROVE Inv
  OBVIOUS
<1>1. StackInv
  BY EmptyStack DEF Init, StackInv
<1>2. QueueInv
  <2>1. \A t \in Threads : frames[t] = <<>>
    BY DEF Init
  <2>2. \A t \in Threads : WaitsFor(frames[t]) = {} /\ Served(frames[t]) = {}
    BY <2>1, EmptyStack
  <2>3. \A w \in Workers : taskList[w] = <<>> /\ DOMAIN taskList[w] = {}
    BY DEF Init
  <2>4. taskList \in [Workers -> Seq(Threads)]
    BY DEF Init
  <2> QED
    BY <2>2, <2>3, <2>4, ComThreadFacts DEF QueueInv
<1>3. WrapperInv
  <2>1. DOMAIN wrapper = {} /\ wrapper \in Seq(Wrappers) /\ Len(wrapper) = 0
    BY DEF Init
  <2>2. objects \in Seq(DOMAIN wrapper) /\ missed = {}
    BY DEF Init
  <2> QED
    BY <2>1, <2>2 DEF WrapperInv, BoundToItsThread
<1> QED
  BY <1>1, <1>2, <1>3 DEF Inv

LEMMA NextInv == Inv /\ [Next]_vars => Inv'
<1> SUFFICES ASSUME Inv, [Next]_vars PROVE Inv'
  OBVIOUS
<1>1. CASE \E t \in Threads, ct \in ComThreads : Create(t, ct)
  BY <1>1, CreateStep
<1>2. CASE \E t \in Threads : \E o \in DOMAIN wrapper, op \in {"call", "dispose"} : Call(t, o, op)
  BY <1>2, CallStep
<1>3. CASE \E t \in Threads : DeliverEvent(t)
  BY <1>3, DeliverStep
<1>4. CASE \E t \in Threads : EndEvent(t) \/ LoopFails(t) \/ Clear(t)
  BY <1>4, LoopStops
<1>5. CASE \E t \in Threads : EndCall(t)
  BY <1>5, EndCallStep
<1>6. CASE \E t \in Threads : Return(t)
  BY <1>6, ReturnStep
<1>7. CASE \E t \in Threads : NextObject(t)
  BY <1>7, NextObjectStep
<1>8. CASE \E t \in Threads : LoopEnds(t)
  BY <1>8, LoopEndsStep
<1>9. CASE \E w \in Workers : Take(w)
  BY <1>9, TakeStep, WrappersUnchanged DEF Inv, Take
<1>10. CASE DisposeAll
  BY <1>10, DisposeAllStep
<1>11. CASE UNCHANGED vars
  BY <1>11, WrappersUnchanged DEF vars, Inv, StackInv, QueueInv
<1> QED
  BY <1>1, <1>2, <1>3, <1>4, <1>5, <1>6, <1>7, <1>8, <1>9, <1>10, <1>11 DEF Next

LEMMA InvHolds == Spec => []Inv
  BY InitInv, NextInv, PTL DEF Spec

\* Frames, queues and lists hold what they should.
THEOREM TypeCorrect == Spec => []TypeOK
<1>1. Inv => TypeOK
  BY DEF Inv, StackInv, QueueInv, WrapperInv, Stacks, TypeOK
<1> QED
  BY <1>1, InvHolds, PTL

\* A wrapper is bound to the thread its object lives on, unless a task was
\* executed in the middle of the one that makes it, on a thread that is no
\* worker.
THEOREM WrappersAreBound == Spec => []BoundToItsThread
<1>1. Inv => BoundToItsThread
  BY DEF Inv, WrapperInv
<1> QED
  BY <1>1, InvHolds, PTL

\* Who waits for a worker is queued there once, or served, and never waits
\* for itself.
THEOREM WaitersAreKnown == Spec => []NobodyWaitsInVain
<1>1. Inv => NobodyWaitsInVain
  <2> SUFFICES ASSUME Inv, NEW t \in Threads, Waiting(t)
               PROVE  LET w == Top(t).ct.on
                      IN  /\ w # t
                          /\ IF Serves(w, t) THEN Places(w, t) = {}
                             ELSE \E i \in DOMAIN taskList[w] : Places(w, t) = {i}
    BY DEF NobodyWaitsInVain
  <2> DEFINE w == Top(t).ct.on
  <2>1. w \in WaitsFor(frames[t])
    <3>1. frames[t] # <<>> /\ Top(t).kind = "execute" /\ Top(t).status = "waiting"
      BY DEF Waiting, TopIs
    <3>2. Len(frames[t]) \in DOMAIN frames[t] /\ Top(t) = frames[t][Len(frames[t])]
      BY <3>1, FrontFacts DEF Inv, StackInv, Top
    <3> QED
      BY <3>1, <3>2 DEF WaitsFor
  <2> HIDE DEF w
  <2>2. w \in Workers /\ w \in Threads /\ w # t
    BY <2>1, QueueFacts, ComThreadFacts DEF Inv
  <2>3. Serves(w, t) <=> t \in Served(frames[w])
    <3>1. frames[w] \in Stacks /\ (frames[w] # <<>> => 1 \in DOMAIN frames[w])
      BY <2>2 DEF Inv, StackInv, Stacks
    <3>2. frames[w] = <<>> => DOMAIN frames[w] = {}
      OBVIOUS
    <3> QED
      BY <3>1, <3>2 DEF Serves, Served
  <2>4. CASE t \in Served(frames[w])
    BY <2>2, <2>3, <2>4 DEF Places, Inv, QueueInv, w
  <2>5. CASE t \notin Served(frames[w])
    <3>1. PICK i \in DOMAIN taskList[w] : taskList[w][i] = t
      BY <2>1, <2>5 DEF Inv, QueueInv
    <3>2. Places(w, t) = {i}
      BY <2>2, <3>1 DEF Places, Inv, QueueInv
    <3> QED
      BY <2>2, <2>3, <2>5, <3>2 DEF w
  <2> QED
    BY <2>4, <2>5
<1> QED
  BY <1>1, InvHolds, PTL

-----------------------------------------------------------------------------
(* The collector.  While disposeAll() is at an element, what came before it *)
(* is disposed of, but for the one whose dispose task is the next frame of  *)
(* the stack; that task does not fail, and if another thread runs it, it    *)
(* has run when the answer is there.                                        *)

Disposes(f, o) == f.kind = "execute" /\ f.task = [op |-> "dispose", obj |-> o]
Gone(w) == {o \in DOMAIN w : w[o].disposed}

TaskOK(f, w) ==
  f.task.op = "dispose" =>
    /\ f.task.obj \in DOMAIN w
    /\ f.kind = "execute" => f.status # "failed" /\ (f.status = "done" => f.task.obj \in Gone(w))

TasksOK(s, w) == \A i \in DOMAIN s : TaskOK(s[i], w)

\* The loops in the stack s of thread t, when the wrappers D are disposed of.
LoopsOK(t, s, D, objs) ==
  \A i \in DOMAIN s : s[i].kind = "disposeAll" =>
    /\ t = App(Owner)
    /\ s[i].size <= Len(objs) /\ s[i].next <= s[i].size + 1
    /\ \A j \in 1 .. s[i].size : s[i].next = 0 \/ j < s[i].next =>
         objs[j] \in D \/ (i + 1 \in DOMAIN s /\ Disposes(s[i + 1], objs[j]))
    /\ \A j \in DOMAIN s : s[j].kind = "disposeAll" => j = i

\* Whom a worker with stack s serves, and the task it runs.
Invokes(s) == {<<s[i].by, s[i].task>> : i \in {j \in DOMAIN s : s[j].kind = "invoke"}}

CollectInv ==
  /\ \A t \in Threads : LoopsOK(t, frames[t], Gone(wrapper), objects) /\ TasksOK(frames[t], wrapper)
  /\ \A w \in Workers : \A p \in Invokes(frames[w]) : Top(p[1]).task = p[2]
  /\ CollectorRemembers

\* A stack in order, seen from thread t.
InOrder(t, s, D, w, objs) == LoopsOK(t, s, D, objs) /\ TasksOK(s, w)

\* Frames come in above the loops; a dispose task makes up for its wrapper.
LEMMA OrderPush ==
  ASSUME NEW t, NEW s \in Stacks, NEW C, NEW D, NEW w, NEW objs, InOrder(t, s, C, w, objs),
         NEW f \in Frames, f.kind # "disposeAll", f.kind # "invoke", TaskOK(f, w),
         \A o \in C : o \in D \/ (Disposes(f, o) /\ s # <<>> /\ s[Len(s)].kind = "disposeAll")
  PROVE  LET r == Append(s, f)
         IN  InOrder(t, r, D, w, objs) /\ Invokes(r) = Invokes(s)
<1> DEFINE r == Append(s, f)
<1>1. /\ Len(s) \in Nat /\ Len(r) = Len(s) + 1
      /\ DOMAIN s = 1 .. Len(s) /\ DOMAIN r = 1 .. Len(s) + 1
      /\ \A i \in 1 .. Len(s) : r[i] = s[i]
      /\ r[Len(s) + 1] = f
      /\ (s # <<>> => Len(s) \in DOMAIN s)
  BY DEF Stacks
<1> HIDE DEF r
<1>2. \A i \in DOMAIN r : i = Len(s) + 1 \/ (i \in DOMAIN s /\ r[i] = s[i])
  BY <1>1
<1>3. \A i \in DOMAIN s : i \in DOMAIN r /\ r[i] = s[i]
  BY <1>1
<1>4. TasksOK(r, w)
  BY <1>1, <1>2 DEF TasksOK, InOrder
<1>5. ASSUME NEW i \in DOMAIN r, r[i].kind = "disposeAll"
      PROVE  /\ t = App(Owner)
             /\ r[i].size <= Len(objs) /\ r[i].next <= r[i].size + 1
             /\ \A j \in 1 .. r[i].size : r[i].next = 0 \/ j < r[i].next =>
                  objs[j] \in D \/ (i + 1 \in DOMAIN r /\ Disposes(r[i + 1], objs[j]))
             /\ \A j \in DOMAIN r : r[j].kind = "disposeAll" => j = i
  <2>1. i \in DOMAIN s /\ r[i] = s[i]
    BY <1>1, <1>2, <1>5
  <2>2. /\ t = App(Owner)
        /\ s[i].size <= Len(objs) /\ s[i].next <= s[i].size + 1
        /\ \A j \in 1 .. s[i].size : s[i].next = 0 \/ j < s[i].next =>
             objs[j] \in C \/ (i + 1 \in DOMAIN s /\ Disposes(s[i + 1], objs[j]))
        /\ \A j \in DOMAIN s : s[j].kind = "disposeAll" => j = i
    BY <1>5, <2>1 DEF InOrder, LoopsOK
  <2>3. \A j \in DOMAIN r : r[j].kind = "disposeAll" => j = i
    BY <1>1, <1>2, <2>2
  <2>4. ASSUME NEW j \in 1 .. s[i].size, s[i].next = 0 \/ j < s[i].next
        PROVE  objs[j] \in D \/ (i + 1 \in DOMAIN r /\ Disposes(r[i + 1], objs[j]))
    <3>1. CASE i + 1 \in DOMAIN s /\ Disposes(s[i + 1], objs[j])
      BY <1>3, <3>1
    <3>2. CASE objs[j] \in C /\ objs[j] \notin D
      <4>1. i = Len(s)
        BY <1>1, <2>2, <3>2
      <4> QED
        BY <1>1, <3>2, <4>1
    <3> QED
      BY <2>2, <2>4, <3>1, <3>2
  <2> QED
    BY <2>1, <2>2, <2>3, <2>4
<1>6. LoopsOK(t, r, D, objs)
  BY <1>5 DEF LoopsOK
<1>7. Invokes(r) = Invokes(s)
  <2>1. {j \in DOMAIN r : r[j].kind = "invoke"} = {j \in DOMAIN s : s[j].kind = "invoke"}
    BY <1>1, <1>2, <1>3
  <2> QED
    BY <1>3, <2>1 DEF Invokes
<1> QED
  BY <1>4, <1>6, <1>7 DEF InOrder, r

\* The last frame goes; if it disposed of something, that is done.
LEMMA OrderPop ==
  ASSUME NEW t, NEW s \in Stacks, s # <<>>, NEW D, NEW w, NEW objs,
         InOrder(t, s, D, w, objs),
         \A o : Disposes(s[Len(s)], o) => o \in D
  PROVE  LET r == Front(s)
         IN  InOrder(t, r, D, w, objs) /\ Invokes(r) \subseteq Invokes(s)
<1> DEFINE r == Front(s)
           m == Len(s)
<1>1. /\ r \in Stacks /\ Len(r) = m - 1 /\ DOMAIN r = 1 .. m - 1
      /\ \A i \in 1 .. m - 1 : r[i] = s[i]
      /\ m \in DOMAIN s /\ m \in Nat \ {0} /\ DOMAIN s = 1 .. m
  BY FrontFacts
<1> HIDE DEF r, m
<1>2. \A i \in DOMAIN r : i \in DOMAIN s /\ r[i] = s[i] /\ (i + 1 \in DOMAIN r \/ i + 1 = m)
  BY <1>1
<1>3. TasksOK(r, w)
  BY <1>2 DEF TasksOK, InOrder
<1>4. \A i \in DOMAIN r : i + 1 \in DOMAIN r => r[i + 1] = s[i + 1]
  BY <1>1
<1>5. LoopsOK(t, r, D, objs)
  <2>1. ASSUME NEW i \in DOMAIN r, r[i].kind = "disposeAll"
        PROVE  /\ t = App(Owner)
               /\ r[i].size <= Len(objs) /\ r[i].next <= r[i].size + 1
               /\ \A j \in 1 .. r[i].size : r[i].next = 0 \/ j < r[i].next =>
                    objs[j] \in D \/ (i + 1 \in DOMAIN r /\ Disposes(r[i + 1], objs[j]))
               /\ \A j \in DOMAIN r : r[j].kind = "disposeAll" => j = i
    <3>1. /\ t = App(Owner)
          /\ s[i].size <= Len(objs) /\ s[i].next <= s[i].size + 1
          /\ \A j \in 1 .. s[i].size : s[i].next = 0 \/ j < s[i].next =>
               objs[j] \in D \/ (i + 1 \in DOMAIN s /\ Disposes(s[i + 1], objs[j]))
          /\ \A j \in DOMAIN s : s[j].kind = "disposeAll" => j = i
      BY <1>2, <2>1 DEF InOrder, LoopsOK
    <3>2. \A j \in DOMAIN r : r[j].kind = "disposeAll" => j = i
      BY <1>2, <3>1
    <3> QED
      BY <1>2, <1>4, <3>1, <3>2 DEF m
  <2> QED
    BY <2>1 DEF LoopsOK
<1>6. Invokes(r) \subseteq Invokes(s)
  BY <1>2 DEF Invokes
<1> QED
  BY <1>3, <1>5, <1>6 DEF InOrder, r

\* Above a loop there is no other: without the top one there is none.
LEMMA OrderUnwind ==
  ASSUME NEW t, NEW s \in Stacks, NEW C, NEW D, NEW w, NEW objs, InOrder(t, s, C, w, objs),
         \A o \in C : o \in D \/ (s # <<>> /\ s[Len(s)].kind = "disposeAll")
  PROVE  InOrder(t, Unwind(s), D, w, objs) /\ Invokes(Unwind(s)) \subseteq Invokes(s)
<1>1. CASE s # <<>> /\ s[Len(s)].kind = "disposeAll"
  <2> DEFINE r == Front(s)
             m == Len(s)
  <2>1. /\ DOMAIN r = 1 .. m - 1
        /\ \A i \in 1 .. m - 1 : r[i] = s[i]
        /\ m \in DOMAIN s /\ m \in Nat \ {0} /\ DOMAIN s = 1 .. m
    BY <1>1, FrontFacts
  <2>2. Unwind(s) = r
    BY <1>1 DEF Unwind
  <2> HIDE DEF r, m
  <2>3. \A i \in DOMAIN r : i \in DOMAIN s /\ r[i] = s[i] /\ i # m
    BY <2>1
  <2>4. \A i \in DOMAIN s : s[i].kind = "disposeAll" => i = m
    BY <1>1, <2>1 DEF InOrder, LoopsOK, m
  <2>5. LoopsOK(t, r, D, objs)
    BY <2>3, <2>4 DEF LoopsOK
  <2>6. TasksOK(r, w) /\ Invokes(r) \subseteq Invokes(s)
    BY <2>3 DEF TasksOK, InOrder, Invokes
  <2> QED
    BY <2>2, <2>5, <2>6 DEF InOrder
<1>2. CASE ~(s # <<>> /\ s[Len(s)].kind = "disposeAll")
  <2>1. Unwind(s) = s /\ C \subseteq D
    BY <1>2 DEF Unwind
  <2>2. LoopsOK(t, s, D, objs)
    BY <2>1 DEF InOrder, LoopsOK
  <2> QED
    BY <2>1, <2>2 DEF InOrder
<1> QED
  BY <1>1, <1>2

\* Stacks that differ in what their frames have noted.
SameTasks(n, s) ==
  /\ DOMAIN n = DOMAIN s
  /\ \A i \in DOMAIN s :
       /\ n[i].kind = s[i].kind /\ n[i].task = s[i].task /\ n[i].by = s[i].by
       /\ n[i].status = s[i].status /\ n[i].next = s[i].next /\ n[i].size = s[i].size

\* The order of a stack does not depend on that.
LEMMA OrderSame ==
  ASSUME NEW t, NEW s, NEW D, NEW w, NEW objs, InOrder(t, s, D, w, objs),
         NEW n, SameTasks(n, s)
  PROVE  InOrder(t, n, D, w, objs) /\ Invokes(n) = Invokes(s)
<1>1. TasksOK(n, w)
  BY DEF SameTasks, InOrder, TasksOK, TaskOK
<1>2. LoopsOK(t, n, D, objs)
  <2>1. \A i \in DOMAIN s : \A o : Disposes(n[i], o) <=> Disposes(s[i], o)
    BY DEF SameTasks, Disposes
  <2> QED
    BY <2>1 DEF SameTasks, InOrder, LoopsOK
<1>3. Invokes(n) = Invokes(s)
  <2>1. {j \in DOMAIN n : n[j].kind = "invoke"} = {j \in DOMAIN s : s[j].kind = "invoke"}
    BY DEF SameTasks
  <2> QED
    BY <2>1 DEF SameTasks, Invokes
<1> QED
  BY <1>1, <1>2, <1>3 DEF InOrder

\* Frames take note, and are otherwise as they were.
LEMMA OrderNote ==
  ASSUME NEW t, NEW s \in Stacks, NEW D, NEW w, NEW objs, InOrder(t, s, D, w, objs),
         NEW n, n = [i \in DOMAIN s |-> [s[i] EXCEPT !.nested = TRUE]]
  PROVE  /\ n \in Stacks /\ Len(n) = Len(s) /\ (n = <<>> <=> s = <<>>)
         /\ \A i \in DOMAIN s : n[i].kind = s[i].kind
         /\ InOrder(t, n, D, w, objs) /\ Invokes(n) = Invokes(s)
<1>1. /\ n \in Stacks /\ Len(n) = Len(s) /\ DOMAIN n = DOMAIN s
      /\ \A i \in DOMAIN s :
           /\ n[i].kind = s[i].kind /\ n[i].ct = s[i].ct /\ n[i].by = s[i].by
           /\ n[i].status = s[i].status /\ n[i].nested
  <2>1. n = Note(s)
    BY DEF Note
  <2> QED
    BY <2>1, NotedFrames, Zenon
<1>2. \A i \in DOMAIN s :
        n[i].task = s[i].task /\ n[i].next = s[i].next /\ n[i].size = s[i].size
  <2>1. \A i \in DOMAIN s : n[i] = [s[i] EXCEPT !.nested = TRUE] /\ s[i] \in Frames
    BY DEF Stacks
  <2>2. \A f \in Frames : LET g == [f EXCEPT !.nested = TRUE]
                          IN  g.task = f.task /\ g.next = f.next /\ g.size = f.size
    BY DEF Frames
  <2> QED
    BY <2>1, <2>2
<1>3. n = <<>> <=> s = <<>>
  BY <1>1 DEF Stacks
<1>4. SameTasks(n, s)
  BY <1>1, <1>2 DEF SameTasks
<1>5. InOrder(t, n, D, w, objs) /\ Invokes(n) = Invokes(s)
  BY <1>4, OrderSame, Zenon
<1> QED
  BY <1>1, <1>3, <1>5, Zenon

\* More wrappers are disposed of, more have been made, more are listed.
Later(w, v, objs, list) ==
  /\ \A o \in DOMAIN w : o \in DOMAIN v /\ v[o].ct = w[o].ct /\ (w[o].disposed => v[o].disposed)
  /\ Len(objs) \in Nat /\ Len(list) \in Nat /\ Len(objs) <= Len(list)
  /\ \A j \in 1 .. Len(objs) : list[j] = objs[j]

LEMMA OrderLater ==
  ASSUME NEW t, NEW s \in Stacks, NEW w, NEW v, NEW objs, NEW list, Later(w, v, objs, list),
         InOrder(t, s, Gone(w), w, objs)
  PROVE  InOrder(t, s, Gone(v), v, list)
<1>1. Gone(w) \subseteq Gone(v)
  BY DEF Gone, Later
<1>2. TasksOK(s, v)
  BY <1>1 DEF InOrder, TasksOK, TaskOK, Later
<1>3. \A i \in DOMAIN s : s[i].size \in Nat /\ s[i].next \in Nat
  <2>1. \A i \in DOMAIN s : s[i] \in Frames
    BY DEF Stacks
  <2>2. \A f \in Frames : f.size \in Nat /\ f.next \in Nat
    BY DEF Frames
  <2> QED
    BY <2>1, <2>2
<1>4. ASSUME NEW i \in DOMAIN s, s[i].kind = "disposeAll"
      PROVE  /\ t = App(Owner)
             /\ s[i].size <= Len(list) /\ s[i].next <= s[i].size + 1
             /\ \A j \in 1 .. s[i].size : s[i].next = 0 \/ j < s[i].next =>
                  list[j] \in Gone(v) \/ (i + 1 \in DOMAIN s /\ Disposes(s[i + 1], list[j]))
             /\ \A j \in DOMAIN s : s[j].kind = "disposeAll" => j = i
  <2>1. /\ t = App(Owner)
        /\ s[i].size <= Len(objs) /\ s[i].next <= s[i].size + 1
        /\ \A j \in 1 .. s[i].size : s[i].next = 0 \/ j < s[i].next =>
             objs[j] \in Gone(w) \/ (i + 1 \in DOMAIN s /\ Disposes(s[i + 1], objs[j]))
        /\ \A j \in DOMAIN s : s[j].kind = "disposeAll" => j = i
    BY <1>4 DEF InOrder, LoopsOK
  <2>2. s[i].size <= Len(list) /\ \A j \in 1 .. s[i].size : list[j] = objs[j]
    BY <1>3, <2>1 DEF Later
  <2> QED
    BY <1>1, <2>1, <2>2
<1> QED
  BY <1>2, <1>4 DEF InOrder, LoopsOK

\* The last frame goes on, in its loop or with an answer.
LEMMA OrderTop ==
  ASSUME NEW t, NEW s \in Stacks, s # <<>>, NEW D, NEW E, D \subseteq E, NEW w, NEW objs,
         InOrder(t, s, D, w, objs),
         NEW f, f.kind = s[Len(s)].kind, f.task = s[Len(s)].task, f.by = s[Len(s)].by,
         TaskOK(f, w),
         f.kind = "disposeAll" =>
           /\ f.size = s[Len(s)].size /\ f.next <= f.size + 1
           /\ \A j \in 1 .. f.size : f.next = 0 \/ j < f.next => objs[j] \in E
  PROVE  LET r == SetTop(s, f)
         IN  InOrder(t, r, E, w, objs) /\ Invokes(r) = Invokes(s)
<1> DEFINE r == SetTop(s, f)
           m == Len(s)
<1>1. /\ DOMAIN r = DOMAIN s /\ m \in DOMAIN s /\ r[m] = f
      /\ \A i \in DOMAIN s : i # m => r[i] = s[i]
  BY DEF SetTop, Stacks
<1> HIDE DEF r, m
<1>2. \A i \in DOMAIN s : /\ r[i].kind = s[i].kind /\ r[i].task = s[i].task /\ r[i].by = s[i].by
                          /\ \A o : Disposes(r[i], o) <=> Disposes(s[i], o)
  BY <1>1 DEF Disposes, m
<1>3. TasksOK(r, w)
  BY <1>1 DEF InOrder, TasksOK
<1>4. ASSUME NEW i \in DOMAIN r, r[i].kind = "disposeAll"
      PROVE  /\ t = App(Owner)
             /\ r[i].size <= Len(objs) /\ r[i].next <= r[i].size + 1
             /\ \A j \in 1 .. r[i].size : r[i].next = 0 \/ j < r[i].next =>
                  objs[j] \in E \/ (i + 1 \in DOMAIN r /\ Disposes(r[i + 1], objs[j]))
             /\ \A j \in DOMAIN r : r[j].kind = "disposeAll" => j = i
  <2>1. /\ t = App(Owner)
        /\ s[i].size <= Len(objs) /\ s[i].next <= s[i].size + 1
        /\ \A j \in 1 .. s[i].size : s[i].next = 0 \/ j < s[i].next =>
             objs[j] \in D \/ (i + 1 \in DOMAIN s /\ Disposes(s[i + 1], objs[j]))
        /\ \A j \in DOMAIN s : s[j].kind = "disposeAll" => j = i
    BY <1>1, <1>2, <1>4 DEF InOrder, LoopsOK
  <2>2. \A j \in DOMAIN r : r[j].kind = "disposeAll" => j = i
    BY <1>1, <1>2, <2>1
  <2>3. CASE i = m
    BY <1>1, <1>4, <2>1, <2>2, <2>3 DEF m
  <2>4. CASE i # m
    BY <1>1, <1>2, <2>1, <2>2, <2>4
  <2> QED
    BY <2>3, <2>4
<1>5. Invokes(r) = Invokes(s)
  <2>1. {j \in DOMAIN r : r[j].kind = "invoke"} = {j \in DOMAIN s : s[j].kind = "invoke"}
    BY <1>1, <1>2
  <2> QED
    BY <1>2, <2>1 DEF Invokes
<1> QED
  BY <1>3, <1>4, <1>5 DEF InOrder, LoopsOK, r

\* The loop of disposeAll() begins, on the thread that has no other.
LEMMA OrderLoop ==
  ASSUME NEW t, t = App(Owner), NEW s \in Stacks, NEW D, NEW w, NEW objs, Len(objs) \in Nat,
         InOrder(t, s, D, w, objs), \A i \in DOMAIN s : s[i].kind # "disposeAll",
         NEW f, f.kind = "disposeAll", f.task = NoTask, f.next = 1, f.size = Len(objs)
  PROVE  LET r == Append(s, f)
         IN  InOrder(t, r, D, w, objs) /\ Invokes(r) = Invokes(s)
<1> DEFINE r == Append(s, f)
<1>1. /\ Len(s) \in Nat /\ DOMAIN s = 1 .. Len(s) /\ DOMAIN r = 1 .. Len(s) + 1
      /\ \A i \in 1 .. Len(s) : r[i] = s[i]
      /\ r[Len(s) + 1] = f
  BY DEF Stacks
<1> HIDE DEF r
<1>2. \A i \in DOMAIN r : i = Len(s) + 1 \/ (i \in DOMAIN s /\ r[i] = s[i])
  BY <1>1
<1>3. \A i \in DOMAIN s : i \in DOMAIN r /\ r[i] = s[i]
  BY <1>1
<1>4. TaskOK(f, w)
  BY DEF TaskOK, NoTask
<1>5. TasksOK(r, w)
  BY <1>1, <1>2, <1>4 DEF TasksOK, InOrder
<1>6. \A i \in DOMAIN r : r[i].kind = "disposeAll" => i = Len(s) + 1 /\ r[i] = f
  BY <1>1, <1>2
<1>7. LoopsOK(t, r, D, objs)
  <2>1. \A j \in 1 .. f.size : ~(f.next = 0 \/ j < f.next)
    OBVIOUS
  <2>2. f.size <= Len(objs) /\ f.next <= f.size + 1
    OBVIOUS
  <2> QED
    BY <1>6, <2>1, <2>2 DEF LoopsOK
<1>8. Invokes(r) = Invokes(s)
  <2>1. {j \in DOMAIN r : r[j].kind = "invoke"} = {j \in DOMAIN s : s[j].kind = "invoke"}
    BY <1>1, <1>2, <1>3
  <2> QED
    BY <1>3, <2>1 DEF Invokes
<1> QED
  BY <1>5, <1>7, <1>8 DEF InOrder, r

\* Task.execute() on a stack in order, but for the wrappers in C and not in D
\* that its task is going to dispose of.
LEMMA OrderExecute ==
  ASSUME NEW t \in Threads, NEW s \in Stacks, NEW C, NEW D, NEW w, NEW objs,
         InOrder(t, s, C, w, objs), frames \in [Threads -> Stacks],
         NEW ct \in ComThreads, NEW task \in Tasks,
         task.op = "dispose" => task.obj \in DOMAIN w,
         \A o \in C : \/ o \in D
                      \/ /\ task = [op |-> "dispose", obj |-> o]
                         /\ s # <<>> /\ s[Len(s)].kind = "disposeAll",
         Execute(t, s, ct, task)
  PROVE  \E r : /\ frames' = [frames EXCEPT ![t] = r]
                /\ InOrder(t, r, D, w, objs) /\ Invokes(r) \subseteq Invokes(s)
<1> DEFINE n == [i \in DOMAIN s |-> [s[i] EXCEPT !.nested = TRUE]]
           f == Frame("execute", ct, task, None)
           g == [f EXCEPT !.status = "waiting"]
<1>1. \/ frames' = [frames EXCEPT ![t] = Append(n, f)]
      \/ frames' = [frames EXCEPT ![t] = Append(n, g)]
      \/ frames' = [frames EXCEPT ![t] = Unwind(n)]
  BY DEF Execute
<1>2. /\ n \in Stacks /\ Len(n) = Len(s) /\ (n = <<>> <=> s = <<>>)
      /\ \A i \in DOMAIN s : n[i].kind = s[i].kind
      /\ InOrder(t, n, C, w, objs) /\ Invokes(n) = Invokes(s)
  BY OrderNote, Zenon
<1>3. /\ f \in Frames /\ f.kind = "execute" /\ f.task = task /\ f.status = "running"
  BY FrameFacts
<1>4. /\ g \in Frames /\ g.kind = "execute" /\ g.task = task /\ g.status = "waiting"
  <2> HIDE DEF f
  <2> QED
    BY <1>3 DEF Frames
<1> HIDE DEF n, f, g
<1>5. TaskOK(f, w) /\ TaskOK(g, w)
  BY <1>3, <1>4 DEF TaskOK
<1>6. \A o \in C : o \in D \/ (Disposes(f, o) /\ Disposes(g, o))
  BY <1>3, <1>4 DEF Disposes
<1>7. \A o \in C : o \in D \/ (n # <<>> /\ n[Len(n)].kind = "disposeAll")
  BY <1>2 DEF Stacks
<1>8. InOrder(t, Append(n, f), D, w, objs) /\ Invokes(Append(n, f)) = Invokes(s)
  <2>1. f.kind # "disposeAll" /\ f.kind # "invoke"
    BY <1>3
  <2>2. \A o \in C : o \in D \/ (Disposes(f, o) /\ n # <<>> /\ n[Len(n)].kind = "disposeAll")
    BY <1>6, <1>7
  <2>3. n \in Stacks /\ f \in Frames /\ InOrder(t, n, C, w, objs) /\ TaskOK(f, w)
    BY <1>2, <1>3, <1>5
  <2>4. InOrder(t, Append(n, f), D, w, objs) /\ Invokes(Append(n, f)) = Invokes(n)
    BY <2>1, <2>2, <2>3, OrderPush
  <2> QED
    BY <1>2, <2>4
<1>9. InOrder(t, Append(n, g), D, w, objs) /\ Invokes(Append(n, g)) = Invokes(s)
  <2>1. g.kind # "disposeAll" /\ g.kind # "invoke"
    BY <1>4
  <2>2. \A o \in C : o \in D \/ (Disposes(g, o) /\ n # <<>> /\ n[Len(n)].kind = "disposeAll")
    BY <1>6, <1>7
  <2>3. n \in Stacks /\ g \in Frames /\ InOrder(t, n, C, w, objs) /\ TaskOK(g, w)
    BY <1>2, <1>4, <1>5
  <2>4. InOrder(t, Append(n, g), D, w, objs) /\ Invokes(Append(n, g)) = Invokes(n)
    BY <2>1, <2>2, <2>3, OrderPush
  <2> QED
    BY <1>2, <2>4
<1>10. InOrder(t, Unwind(n), D, w, objs) /\ Invokes(Unwind(n)) \subseteq Invokes(s)
  <2>1. InOrder(t, Unwind(n), D, w, objs) /\ Invokes(Unwind(n)) \subseteq Invokes(n)
    BY <1>2, <1>7, OrderUnwind, Zenon
  <2> QED
    BY <1>2, <2>1
<1> QED
  BY <1>1, <1>8, <1>9, <1>10

-----------------------------------------------------------------------------
(* The collector's list and the stacks agree after each action.            *)

\* Whom a worker serves waits for it; its queue and its task agree.
LEMMA InvokesFacts ==
  ASSUME Inv, NEW w \in Workers, NEW p \in Invokes(frames[w])
  PROVE  /\ p[1] \in Threads /\ p[1] # w /\ p[1] \in Served(frames[w])
         /\ w \in WaitsFor(frames[p[1]])
<1>1. w \in Threads /\ StackOK(w, frames[w], comThread[w])
  BY ComThreadFacts DEF Inv, StackInv
<1>2. PICK i \in DOMAIN frames[w] : /\ frames[w][i].kind = "invoke"
                                    /\ p = <<frames[w][i].by, frames[w][i].task>>
  BY DEF Invokes
<1>3. i = 1 /\ p[1] = frames[w][1].by
  BY <1>1, <1>2 DEF StackOK
<1>4. p[1] \in Served(frames[w])
  BY <1>2, <1>3 DEF Served
<1> QED
  BY <1>4, QueueFacts DEF Inv, QueueInv

\* One stack changes, that of a thread that does not wait.
LEMMA OneStack ==
  ASSUME Inv, CollectInv, NEW t \in Threads, NEW r, WaitsFor(frames[t]) = {},
         frames' = [frames EXCEPT ![t] = r],
         \A p \in Invokes(r) : \/ p \in Invokes(frames[t])
                               \/ p[1] \in Threads \ {t} /\ Top(p[1]).task = p[2],
         InOrder(t, r, Gone(wrapper'), wrapper', objects'),
         Later(wrapper, wrapper', objects, objects'), CollectorRemembers'
  PROVE  CollectInv'
<1>1. /\ frames'[t] = r
      /\ \A u \in Threads : u # t => frames'[u] = frames[u]
  BY DEF Inv, StackInv
<1>2. \A u \in Threads : InOrder(u, frames'[u], Gone(wrapper'), wrapper', objects')
  <2>1. SUFFICES ASSUME NEW u \in Threads, u # t
                 PROVE  InOrder(u, frames[u], Gone(wrapper'), wrapper', objects')
    BY <1>1
  <2>2. frames[u] \in Stacks /\ InOrder(u, frames[u], Gone(wrapper), wrapper, objects)
    BY DEF Inv, StackInv, CollectInv, InOrder
  <2> QED
    BY <2>2, OrderLater, Zenon
<1>3. ASSUME NEW w \in Workers, NEW p \in Invokes(frames'[w])
      PROVE  Top(p[1])'.task = p[2]
  <2>1. w \in Threads
    BY ComThreadFacts
  <2>2. p[1] \in Threads \ {t} /\ Top(p[1]).task = p[2]
    <3>1. CASE p \in Invokes(frames[w])
      BY <3>1, InvokesFacts DEF CollectInv
    <3>2. CASE p \notin Invokes(frames[w])
      BY <1>1, <2>1, <3>2
    <3> QED
      BY <3>1, <3>2
  <2>3. frames'[p[1]] = frames[p[1]]
    BY <1>1, <2>2
  <2> QED
    BY <2>2, <2>3 DEF Top
<1> QED
  BY <1>2, <1>3 DEF CollectInv, InOrder

\* Nothing is made, disposed of or forgotten.
LEMMA ListStays ==
  ASSUME Inv, CollectInv, UNCHANGED <<wrapper, objects, missed>>
  PROVE  Later(wrapper, wrapper', objects, objects') /\ CollectorRemembers'
<1>1. Len(objects) \in Nat
  BY DEF Inv, WrapperInv
<1> QED
  BY <1>1 DEF Later, CollectInv, CollectorRemembers

LEMMA QuietStack ==
  ASSUME Inv, CollectInv, NEW t \in Threads, NEW r, WaitsFor(frames[t]) = {},
         frames' = [frames EXCEPT ![t] = r],
         Invokes(r) \subseteq Invokes(frames[t]),
         InOrder(t, r, Gone(wrapper), wrapper, objects),
         UNCHANGED <<wrapper, objects, missed>>
  PROVE  CollectInv'
<1>1. Later(wrapper, wrapper', objects, objects') /\ CollectorRemembers'
  BY ListStays
<1>2. InOrder(t, r, Gone(wrapper'), wrapper', objects')
  BY DEF Gone
<1> QED
  BY <1>1, <1>2, OneStack

\* A stack in order.
LEMMA CollectFacts ==
  ASSUME Inv, CollectInv, NEW t \in Threads
  PROVE  frames[t] \in Stacks /\ InOrder(t, frames[t], Gone(wrapper), wrapper, objects)
  BY DEF Inv, StackInv, CollectInv, InOrder

LEMMA CreateCollect ==
  ASSUME Inv, CollectInv, NEW t \in Threads, NEW ct \in ComThreads, Create(t, ct)
  PROVE  CollectInv'
<1> DEFINE task == [op |-> "create", obj |-> 0]
           D == Gone(wrapper)
<1>1. task \in Tasks /\ task.op # "dispose"
  BY DEF Tasks
<1>2. /\ frames[t] \in Stacks /\ InOrder(t, frames[t], D, wrapper, objects)
      /\ WaitsFor(frames[t]) = {} /\ frames \in [Threads -> Stacks]
      /\ Execute(t, frames[t], ct, task) /\ UNCHANGED <<wrapper, objects, missed>>
  BY CollectFacts, InJavaFacts DEF Create, Inv, StackInv
<1> HIDE DEF task, D
<1>3. \E r : /\ frames' = [frames EXCEPT ![t] = r]
             /\ InOrder(t, r, D, wrapper, objects) /\ Invokes(r) \subseteq Invokes(frames[t])
  <2>1. task.op = "dispose" => task.obj \in DOMAIN wrapper
    BY <1>1
  <2> QED
    BY <1>1, <1>2, <2>1, OrderExecute
<1> QED
  BY <1>2, <1>3, QuietStack DEF D

LEMMA CallCollect ==
  ASSUME Inv, CollectInv, NEW t \in Threads, NEW o \in DOMAIN wrapper,
         NEW op \in {"call", "dispose"}, Call(t, o, op)
  PROVE  CollectInv'
<1> DEFINE task == [op |-> op, obj |-> o]
           D == Gone(wrapper)
<1>1. task \in Tasks /\ task.obj = o /\ wrapper[o].ct \in ComThreads
  BY WrapperFacts DEF Inv
<1>2. /\ frames[t] \in Stacks /\ InOrder(t, frames[t], D, wrapper, objects)
      /\ WaitsFor(frames[t]) = {} /\ frames \in [Threads -> Stacks]
      /\ Execute(t, frames[t], wrapper[o].ct, task) /\ UNCHANGED <<wrapper, objects, missed>>
  BY CollectFacts, InJavaFacts DEF Call, Inv, StackInv
<1> HIDE DEF task, D
<1>3. \E r : /\ frames' = [frames EXCEPT ![t] = r]
             /\ InOrder(t, r, D, wrapper, objects) /\ Invokes(r) \subseteq Invokes(frames[t])
  BY <1>1, <1>2, OrderExecute
<1> QED
  BY <1>2, <1>3, QuietStack DEF D

\* An event comes, or disposeAll() begins.
LEMMA DeliverCollect ==
  ASSUME Inv, CollectInv, NEW t \in Threads, DeliverEvent(t)
  PROVE  CollectInv'
<1> DEFINE f == Frame("event", None, NoTask, None)
           D == Gone(wrapper)
           s == frames[t]
<1>1. s \in Stacks /\ InOrder(t, s, D, wrapper, objects)
  BY CollectFacts
<1>2. WaitsFor(s) = {}
  BY TopFacts, EmptyStack DEF DeliverEvent, InNative, Inv
<1>3. f \in Frames /\ f.kind = "event" /\ f.task = NoTask
  <2>1. NoTask \in Tasks
    BY DEF NoTask, Tasks
  <2> QED
    BY <2>1, FrameFacts
<1>4. /\ frames' = [frames EXCEPT ![t] = Append(s, f)]
      /\ UNCHANGED <<wrapper, objects, missed>>
  BY DEF DeliverEvent
<1> HIDE DEF f, D, s
<1>5. InOrder(t, Append(s, f), D, wrapper, objects) /\ Invokes(Append(s, f)) = Invokes(s)
  <2>1. f.kind # "disposeAll" /\ f.kind # "invoke" /\ TaskOK(f, wrapper)
    BY <1>3 DEF TaskOK, NoTask
  <2> QED
    BY <1>1, <1>3, <2>1, OrderPush
<1> QED
  BY <1>2, <1>4, <1>5, QuietStack DEF s, D

LEMMA DisposeAllCollect ==
  ASSUME Inv, CollectInv, DisposeAll
  PROVE  CollectInv'
<1> DEFINE t == App(Owner)
           e == Frame("disposeAll", None, NoTask, None)
           f == [e EXCEPT !.next = 1, !.size = Len(objects)]
           D == Gone(wrapper)
           s == frames[t]
<1>1. t \in Threads /\ NoTask \in Tasks
  BY DEF App, Threads, NoTask, Tasks
<1>2. s \in Stacks /\ InOrder(t, s, D, wrapper, objects) /\ WaitsFor(s) = {}
  BY <1>1, CollectFacts, InJavaFacts DEF DisposeAll, Inv
<1>3. e \in Frames /\ e.kind = "disposeAll" /\ e.task = NoTask
  BY <1>1, FrameFacts
<1>4. Len(objects) \in Nat
  BY DEF Inv, WrapperInv
<1>5. f.kind = "disposeAll" /\ f.task = NoTask /\ f.next = 1 /\ f.size = Len(objects)
  <2> HIDE DEF e
  <2> QED
    BY <1>3, <1>4 DEF Frames
<1>6. /\ frames' = [frames EXCEPT ![t] = Append(s, f)]
      /\ UNCHANGED <<wrapper, objects, missed>>
      /\ \A i \in DOMAIN s : s[i].kind # "disposeAll"
  <2>1. \A i \in DOMAIN s : s[i] \in Range(s)
    BY DEF Range
  <2> QED
    BY <2>1 DEF DisposeAll
<1> HIDE DEF f, D, s
<1>7. InOrder(t, Append(s, f), D, wrapper, objects) /\ Invokes(Append(s, f)) = Invokes(s)
  BY <1>2, <1>4, <1>5, <1>6, OrderLoop
<1> HIDE DEF t
<1> QED
  BY <1>1, <1>2, <1>6, <1>7, QuietStack DEF s, D

\* A handler ends, or disposeAll() with an exception.
LEMMA PopCollect ==
  ASSUME Inv, CollectInv, NEW t \in Threads, EndEvent(t) \/ LoopFails(t)
  PROVE  CollectInv'
<1> DEFINE s == frames[t]
           D == Gone(wrapper)
<1>1. s \in Stacks /\ InOrder(t, s, D, wrapper, objects)
  BY CollectFacts
<1>2. /\ s # <<>> /\ Top(t) = s[Len(s)] /\ s[Len(s)].kind # "execute"
      /\ frames' = [frames EXCEPT ![t] = Front(s)] /\ UNCHANGED <<wrapper, objects, missed>>
  BY DEF EndEvent, LoopFails, InLoop, TopIs, Pop, Below, Top
<1>3. WaitsFor(s) = {}
  BY <1>2, TopFacts DEF Inv
<1>4. \A o : Disposes(s[Len(s)], o) => o \in D
  BY <1>2 DEF Disposes
<1> HIDE DEF s, D
<1>5. InOrder(t, Front(s), D, wrapper, objects) /\ Invokes(Front(s)) \subseteq Invokes(s)
  BY <1>1, <1>2, <1>4, OrderPop
<1> QED
  BY <1>2, <1>3, <1>5, QuietStack DEF s, D

\* The loop of disposeAll() is the only one, and what it has looked at is
\* disposed of.
LEMMA LoopSoFar ==
  ASSUME Inv, CollectInv, NEW t \in Threads, InLoop(t)
  PROVE  /\ t = App(Owner) /\ frames[t] # <<>> /\ frames[t] \in Stacks
         /\ Top(t) = frames[t][Len(frames[t])] /\ Top(t).kind = "disposeAll"
         /\ Top(t) \in Frames /\ Top(t).next \in Nat /\ Top(t).size \in Nat
         /\ WaitsFor(frames[t]) = {}
         /\ InOrder(t, frames[t], Gone(wrapper), wrapper, objects)
         /\ Top(t).size <= Len(objects) /\ Top(t).next <= Top(t).size + 1
         /\ \A j \in 1 .. Top(t).size : Top(t).next = 0 \/ j < Top(t).next =>
              objects[j] \in Gone(wrapper)
         /\ \A i \in DOMAIN frames[t] : frames[t][i].kind = "disposeAll" => i = Len(frames[t])
         /\ Len(objects) \in Nat
<1>1. /\ t = App(Owner) /\ frames[t] # <<>> /\ frames[t] \in Stacks
      /\ Top(t) = frames[t][Len(frames[t])] /\ Top(t).kind = "disposeAll"
      /\ Top(t) \in Frames /\ WaitsFor(frames[t]) = {}
  BY TopFacts DEF InLoop, TopIs, Inv
<1>2. Top(t).next \in Nat /\ Top(t).size \in Nat
  BY <1>1 DEF Frames
<1>3. InOrder(t, frames[t], Gone(wrapper), wrapper, objects) /\ Len(objects) \in Nat
  BY CollectFacts DEF Inv, WrapperInv
<1>4. Len(frames[t]) \in DOMAIN frames[t] /\ Len(frames[t]) + 1 \notin DOMAIN frames[t]
  BY <1>1, FrontFacts
<1>5. /\ Top(t).size <= Len(objects) /\ Top(t).next <= Top(t).size + 1
      /\ \A j \in 1 .. Top(t).size : Top(t).next = 0 \/ j < Top(t).next =>
           objects[j] \in Gone(wrapper)
      /\ \A i \in DOMAIN frames[t] : frames[t][i].kind = "disposeAll" => i = Len(frames[t])
  BY <1>1, <1>3, <1>4 DEF InOrder, LoopsOK
<1> QED
  BY <1>1, <1>2, <1>3, <1>5

LEMMA LoopEndsCollect ==
  ASSUME Inv, CollectInv, NEW t \in Threads, LoopEnds(t)
  PROVE  CollectInv'
<1> DEFINE s == frames[t]
           D == Gone(wrapper)
           f == [Top(t) EXCEPT !.next = 0]
<1>1. /\ InLoop(t) /\ Top(t).next > Len(objects)
      /\ frames' = [frames EXCEPT ![t] = SetTop(s, f)] /\ UNCHANGED <<wrapper, objects, missed>>
  BY DEF LoopEnds, AtEnd, Inv, StackInv
<1>2. /\ s # <<>> /\ s \in Stacks /\ Top(t) = s[Len(s)] /\ Top(t).kind = "disposeAll"
      /\ Top(t) \in Frames /\ Top(t).next \in Nat /\ Top(t).size \in Nat /\ Len(objects) \in Nat
      /\ WaitsFor(s) = {} /\ InOrder(t, s, D, wrapper, objects)
      /\ Top(t).size <= Len(objects) /\ Top(t).next <= Top(t).size + 1
      /\ \A j \in 1 .. Top(t).size : Top(t).next = 0 \/ j < Top(t).next => objects[j] \in D
  BY <1>1, LoopSoFar
<1>3. /\ f.kind = Top(t).kind /\ f.task = Top(t).task /\ f.by = Top(t).by
      /\ f.size = Top(t).size /\ f.next = 0 /\ f.status = Top(t).status
  BY <1>2 DEF Frames
<1>4. TaskOK(Top(t), wrapper)
  BY <1>2, FrontFacts DEF InOrder, TasksOK
<1> HIDE DEF f, s, D
<1>5. TaskOK(f, wrapper)
  BY <1>3, <1>4 DEF TaskOK
<1>6. \A j \in 1 .. f.size : objects[j] \in D
  BY <1>1, <1>2, <1>3
<1>7. InOrder(t, SetTop(s, f), D, wrapper, objects) /\ Invokes(SetTop(s, f)) = Invokes(s)
  <2>1. /\ f.kind = s[Len(s)].kind /\ f.task = s[Len(s)].task /\ f.by = s[Len(s)].by
        /\ f.kind = "disposeAll" =>
             /\ f.size = s[Len(s)].size /\ f.next <= f.size + 1
             /\ \A j \in 1 .. f.size : f.next = 0 \/ j < f.next => objects[j] \in D
    BY <1>2, <1>3, <1>6
  <2>2. s \in Stacks /\ s # <<>> /\ D \subseteq D /\ InOrder(t, s, D, wrapper, objects)
    BY <1>2
  <2> QED
    BY <1>5, <2>1, <2>2, OrderTop
<1> QED
  BY <1>1, <1>2, <1>7, QuietStack DEF s, D

\* The next object is disposed of already, or its dispose task begins.
LEMMA NextObjectCollect ==
  ASSUME Inv, CollectInv, NEW t \in Threads, NextObject(t)
  PROVE  CollectInv'
<1> DEFINE D == Gone(wrapper)
           o == objects[Top(t).next]
           C == D \cup {o}
           f == [Top(t) EXCEPT !.next = @ + 1]
           s == SetTop(frames[t], f)
           task == [op |-> "dispose", obj |-> o]
<1>1. /\ InLoop(t) /\ Top(t).next > 0 /\ ~(Top(t).next > Len(objects)) /\ Top(t).size = Len(objects)
      /\ UNCHANGED <<wrapper, objects, missed>>
      /\ \/ wrapper[o].disposed /\ frames' = [frames EXCEPT ![t] = s]
         \/ Execute(t, s, wrapper[o].ct, task)
  BY DEF NextObject, AtEnd, Modified
<1>2. /\ frames[t] # <<>> /\ frames[t] \in Stacks /\ Top(t) = frames[t][Len(frames[t])]
      /\ Top(t).kind = "disposeAll"
      /\ Top(t) \in Frames /\ Top(t).next \in Nat /\ Top(t).size \in Nat /\ Len(objects) \in Nat
      /\ WaitsFor(frames[t]) = {} /\ InOrder(t, frames[t], D, wrapper, objects)
      /\ Top(t).next <= Top(t).size + 1
      /\ \A j \in 1 .. Top(t).size : Top(t).next = 0 \/ j < Top(t).next => objects[j] \in D
  BY <1>1, LoopSoFar
<1>3. /\ f.kind = Top(t).kind /\ f.task = Top(t).task /\ f.by = Top(t).by
      /\ f.size = Top(t).size /\ f.next = Top(t).next + 1 /\ f.status = Top(t).status
  BY <1>2 DEF Frames
<1>4. TaskOK(Top(t), wrapper)
  BY <1>2, FrontFacts DEF InOrder, TasksOK
<1>5. /\ o \in DOMAIN wrapper /\ wrapper[o].ct \in ComThreads
      /\ task \in Tasks /\ task.obj = o
  <2>1. objects \in Seq(DOMAIN wrapper) /\ Top(t).next \in 1 .. Len(objects)
    BY <1>1, <1>2 DEF Inv, WrapperInv
  <2>2. o \in DOMAIN wrapper
    BY <2>1, ElementOfSeq
  <2> QED
    BY <2>2, WrapperFacts DEF Inv
<1>6. s \in Stacks
  <2>1. Top(t).next + 1 \in Nat /\ f = [Top(t) EXCEPT !.next = Top(t).next + 1]
    BY <1>2
  <2> QED
    BY <1>1, <2>1, LoopFacts DEF Inv
<1> HIDE DEF f
<1>7. \A j \in 1 .. f.size : f.next = 0 \/ j < f.next => objects[j] \in C
  <2>1. \A j \in 1 .. f.size : j < f.next => j < Top(t).next \/ j = Top(t).next
    BY <1>2, <1>3
  <2> QED
    BY <1>2, <1>3, <2>1
<1>8. TaskOK(f, wrapper)
  BY <1>3, <1>4 DEF TaskOK
<1> HIDE DEF D
<1>9. D \subseteq C
  OBVIOUS
<1> HIDE DEF C
<1>10. InOrder(t, s, C, wrapper, objects) /\ Invokes(s) = Invokes(frames[t])
  <2> DEFINE q == frames[t]
  <2>1. q \in Stacks /\ q # <<>> /\ Top(t) = q[Len(q)] /\ InOrder(t, q, D, wrapper, objects)
    BY <1>2
  <2> HIDE DEF o, task, q
  <2>2. /\ f.kind = q[Len(q)].kind /\ f.task = q[Len(q)].task /\ f.by = q[Len(q)].by
        /\ f.kind = "disposeAll" =>
             /\ f.size = q[Len(q)].size /\ f.next <= f.size + 1
             /\ \A j \in 1 .. f.size : f.next = 0 \/ j < f.next => objects[j] \in C
    BY <1>1, <1>2, <1>3, <1>7, <2>1
  <2>3. InOrder(t, SetTop(q, f), C, wrapper, objects) /\ Invokes(SetTop(q, f)) = Invokes(q)
    BY <1>8, <1>9, <2>1, <2>2, OrderTop
  <2> QED
    BY <2>3 DEF q
<1>11. s # <<>> /\ s[Len(s)].kind = "disposeAll"
  <2>1. Len(s) = Len(frames[t]) /\ Len(frames[t]) \in DOMAIN frames[t] /\ s[Len(frames[t])] = f
    BY <1>2 DEF SetTop, Stacks
  <2> QED
    BY <1>2, <1>3, <2>1 DEF Stacks
<1> HIDE DEF s
<1>12. CASE wrapper[o].disposed /\ frames' = [frames EXCEPT ![t] = s]
  <2>1. C = D
    BY <1>5, <1>12 DEF C, D, Gone
  <2> QED
    BY <1>1, <1>2, <1>10, <1>12, <2>1, QuietStack DEF D
<1>13. CASE Execute(t, s, wrapper[o].ct, task)
  <2>1. \A x \in C : \/ x \in D
                     \/ /\ task = [op |-> "dispose", obj |-> x]
                        /\ s # <<>> /\ s[Len(s)].kind = "disposeAll"
    BY <1>11 DEF C
  <2>2. frames \in [Threads -> Stacks]
    BY DEF Inv, StackInv
  <2>3. task.op = "dispose" => task.obj \in DOMAIN wrapper
    BY <1>5
  <2> DEFINE ct == wrapper[o].ct
  <2>4. /\ task \in Tasks /\ ct \in ComThreads /\ InOrder(t, s, C, wrapper, objects)
        /\ Execute(t, s, ct, task)
    BY <1>5, <1>10, <1>13
  <2> HIDE DEF o, task, ct
  <2>6. \E r : /\ frames' = [frames EXCEPT ![t] = r]
               /\ InOrder(t, r, D, wrapper, objects) /\ Invokes(r) \subseteq Invokes(s)
    BY <1>6, <2>1, <2>2, <2>3, <2>4, OrderExecute
  <2> QED
    BY <1>1, <1>2, <1>10, <2>6, QuietStack DEF D
<1> QED
  BY <1>1, <1>12, <1>13

\* The list is emptied: it held nothing that lives but what came in since
\* disposeAll() began.
LEMMA ClearCollect ==
  ASSUME Inv, CollectInv, NEW t \in Threads, Clear(t)
  PROVE  CollectInv'
<1> DEFINE s == frames[t]
           D == Gone(wrapper)
<1>1. /\ InLoop(t) /\ Top(t).next = 0 /\ wrapper' = wrapper /\ objects' = <<>>
      /\ missed' = missed \cup {objects[i] : i \in Top(t).size + 1 .. Len(objects)}
      /\ frames' = [frames EXCEPT ![t] = Front(s)]
  BY DEF Clear, Pop, Below
<1>2. /\ t = App(Owner) /\ s # <<>> /\ s \in Stacks /\ Top(t) = s[Len(s)]
      /\ Top(t).size \in Nat /\ Len(objects) \in Nat
      /\ WaitsFor(s) = {} /\ InOrder(t, s, D, wrapper, objects)
      /\ \A j \in 1 .. Top(t).size : objects[j] \in D
      /\ \A i \in DOMAIN s : s[i].kind = "disposeAll" => i = Len(s)
  BY <1>1, LoopSoFar
<1> HIDE DEF s, D
<1>3. \A i \in DOMAIN Front(s) : i \in DOMAIN s /\ Front(s)[i] = s[i] /\ i # Len(s)
  <2>1. s \in Stacks /\ s # <<>>
    BY <1>2
  <2>2. /\ DOMAIN Front(s) = 1 .. Len(s) - 1
        /\ \A i \in 1 .. Len(s) - 1 : Front(s)[i] = s[i]
        /\ DOMAIN s = 1 .. Len(s) /\ Len(s) \in Nat \ {0}
    BY <2>1, FrontFacts
  <2> QED
    BY <2>2
<1>4. \A u \in Threads : TasksOK(frames'[u], wrapper')
  <2>1. \A u \in Threads : TasksOK(frames[u], wrapper)
    BY DEF CollectInv
  <2>2. TasksOK(Front(s), wrapper)
    BY <1>3, <2>1 DEF TasksOK, s
  <2> QED
    BY <1>1, <2>1, <2>2 DEF Inv, StackInv
<1>5. \A u \in Threads : \A i \in DOMAIN frames'[u] : frames'[u][i].kind # "disposeAll"
  <2>1. \A u \in Threads : u # t => \A i \in DOMAIN frames[u] : frames[u][i].kind # "disposeAll"
    BY <1>2 DEF CollectInv, LoopsOK
  <2>2. \A i \in DOMAIN Front(s) : Front(s)[i].kind # "disposeAll"
    BY <1>2, <1>3
  <2> QED
    BY <1>1, <2>1, <2>2 DEF Inv, StackInv
<1>6. \A u \in Threads : LoopsOK(u, frames'[u], Gone(wrapper'), objects')
  BY <1>5 DEF LoopsOK
<1>7. ASSUME NEW w \in Workers, NEW p \in Invokes(frames'[w])
      PROVE  Top(p[1])'.task = p[2]
  <2>1. w \in Threads
    BY ComThreadFacts
  <2>2. Invokes(Front(s)) \subseteq Invokes(s)
    BY <1>3 DEF Invokes
  <2>3. p \in Invokes(frames[w])
    BY <1>1, <2>1, <2>2 DEF Inv, StackInv, s
  <2>4. p[1] \in Threads /\ p[1] # t /\ Top(p[1]).task = p[2]
    BY <1>2, <2>3, InvokesFacts DEF CollectInv, s
  <2>5. frames'[p[1]] = frames[p[1]]
    BY <1>1, <2>4 DEF Inv, StackInv
  <2> QED
    BY <2>4, <2>5 DEF Top
<1>8. CollectorRemembers'
  <2> SUFFICES ASSUME NEW o \in DOMAIN wrapper', wrapper'[o].ct \in Listened
               PROVE  o \in Range(objects') \/ wrapper'[o].disposed \/ o \in missed'
    BY DEF CollectorRemembers, Listened
  <2>1. o \in Range(objects) \/ wrapper[o].disposed \/ o \in missed
    BY <1>1 DEF CollectInv, CollectorRemembers
  <2>2. CASE o \in Range(objects)
    <3>1. PICK j \in DOMAIN objects : objects[j] = o
      BY <2>2 DEF Range
    <3>2. j \in 1 .. Len(objects)
      BY <3>1 DEF Inv, WrapperInv
    <3>3. CASE j \in 1 .. Top(t).size
      BY <1>1, <1>2, <3>1, <3>3 DEF D, Gone
    <3>4. CASE j \in Top(t).size + 1 .. Len(objects)
      BY <1>1, <3>1, <3>4
    <3> QED
      BY <1>2, <3>2, <3>3, <3>4
  <2> QED
    BY <1>1, <2>1, <2>2
<1> QED
  BY <1>4, <1>6, <1>7, <1>8 DEF CollectInv

\* call() has done its work, or failed, which a dispose task does not.
LEMMA WorkCollect ==
  ASSUME Inv, CollectInv, NEW t \in Threads, InNative(t), NEW failed \in BOOLEAN,
         IF failed THEN Failed(t) ELSE Done(t)
  PROVE  /\ Later(wrapper, wrapper', objects, objects') /\ CollectorRemembers'
         /\ Top(t).task.op = "dispose" => ~failed /\ Top(t).task.obj \in Gone(wrapper')
<1>1. /\ wrapper \in Seq(Wrappers) /\ Len(wrapper) \in Nat /\ DOMAIN wrapper = 1 .. Len(wrapper)
      /\ objects \in Seq(DOMAIN wrapper) /\ Len(objects) \in Nat /\ CollectorRemembers
  BY DEF Inv, WrapperInv, CollectInv
<1>2. /\ Len(frames[t]) \in DOMAIN frames[t] /\ Top(t) = frames[t][Len(frames[t])]
      /\ TaskOK(Top(t), wrapper)
  BY CollectFacts, FrontFacts DEF InNative, Top, InOrder, TasksOK
<1>3. CASE NewWrapper(t) /\ Top(t).task.op # "dispose"
  <2> DEFINE w == [ct |-> ContextOf(t), home |-> t, nested |-> Top(t).nested, disposed |-> FALSE]
             k == Len(wrapper) + 1
  <2>1. /\ wrapper' = Append(wrapper, w) /\ missed' = missed /\ w.ct = ContextOf(t)
        /\ objects' = IF ContextOf(t) \in Listened THEN Append(objects, Len(wrapper')) ELSE objects
    BY <1>3 DEF NewWrapper
  <2> HIDE DEF w
  <2>2. /\ Len(wrapper') = k /\ DOMAIN wrapper' = 1 .. k /\ wrapper'[k] = w
        /\ \A i \in DOMAIN wrapper : i \in DOMAIN wrapper' /\ wrapper'[i] = wrapper[i]
    BY <1>1, <2>1
  <2>3. /\ Len(objects') \in Nat /\ Len(objects) <= Len(objects')
        /\ \A j \in 1 .. Len(objects) : objects'[j] = objects[j] /\ j \in DOMAIN objects'
        /\ w.ct \in Listened => k \in Range(objects')
    <3>1. CASE ContextOf(t) \in Listened
      <4>1. objects' = Append(objects, k)
        BY <2>1, <2>2, <3>1
      <4>2. /\ Len(objects') = Len(objects) + 1 /\ objects'[Len(objects) + 1] = k
            /\ DOMAIN objects' = 1 .. Len(objects) + 1
            /\ \A j \in 1 .. Len(objects) : objects'[j] = objects[j]
        BY <1>1, <4>1
      <4>3. k \in Range(objects')
        BY <1>1, <4>2 DEF Range
      <4> QED
        BY <1>1, <4>2, <4>3
    <3>2. CASE ContextOf(t) \notin Listened
      BY <1>1, <2>1, <3>2
    <3> QED
      BY <3>1, <3>2
  <2>4. Later(wrapper, wrapper', objects, objects')
    BY <1>1, <2>2, <2>3 DEF Later
  <2>5. Range(objects) \subseteq Range(objects')
    <3>1. DOMAIN objects = 1 .. Len(objects)
      BY <1>1
    <3> QED
      BY <2>3, <3>1 DEF Range
  <2>6. CollectorRemembers'
    <3> SUFFICES ASSUME NEW o \in DOMAIN wrapper', wrapper'[o].ct \in Listened
                 PROVE  o \in Range(objects') \/ wrapper'[o].disposed \/ o \in missed'
      BY DEF CollectorRemembers, Listened
    <3>1. CASE o = k
      BY <2>2, <2>3, <3>1
    <3>2. CASE o \in DOMAIN wrapper
      BY <1>1, <2>1, <2>2, <2>5, <3>2 DEF CollectorRemembers
    <3> QED
      BY <1>1, <2>2, <3>1, <3>2
  <2> QED
    BY <1>3, <2>4, <2>6
<1>4. CASE /\ Top(t).task.op = "dispose" /\ ~failed
           /\ wrapper' = [wrapper EXCEPT ![Top(t).task.obj].disposed = TRUE]
           /\ UNCHANGED <<objects, missed>>
  <2> DEFINE k == Top(t).task.obj
             x == [wrapper[k] EXCEPT !.disposed = TRUE]
  <2>1. k \in DOMAIN wrapper /\ wrapper' = [wrapper EXCEPT ![k] = x]
    BY <1>2, <1>4 DEF TaskOK
  <2>2. x.ct = wrapper[k].ct /\ x.disposed
    <3>1. wrapper[k] \in Wrappers
      BY <1>1, <2>1
    <3> QED
      BY <3>1 DEF Wrappers
  <2> HIDE DEF k, x
  <2>3. /\ DOMAIN wrapper' = DOMAIN wrapper
        /\ \A o \in DOMAIN wrapper : /\ wrapper'[o].ct = wrapper[o].ct
                                     /\ wrapper[o].disposed => wrapper'[o].disposed
        /\ wrapper'[k].disposed
    BY <2>1, <2>2
  <2>4. Later(wrapper, wrapper', objects, objects')
    BY <1>1, <1>4, <2>3 DEF Later
  <2>5. CollectorRemembers'
    BY <1>1, <1>4, <2>3 DEF CollectorRemembers
  <2>6. Top(t).task.obj \in Gone(wrapper')
    BY <2>1, <2>3 DEF Gone, k
  <2> QED
    BY <1>4, <2>4, <2>5, <2>6
<1>5. CASE UNCHANGED <<wrapper, objects, missed>> /\ Top(t).task.op # "dispose"
  BY <1>5, ListStays
<1>6. CASE failed
  BY <1>5, <1>6 DEF Failed
<1>7. CASE ~failed
  BY <1>3, <1>4, <1>5, <1>7 DEF Done
<1> QED
  BY <1>6, <1>7

\* Task.execute() ends: what its task disposes of is disposed of.
LEMMA LeaveCollect ==
  ASSUME Inv, CollectInv, NEW t \in Threads, frames[t] # <<>>, WaitsFor(frames[t]) = {},
         NEW failed \in BOOLEAN, LeaveExecute(t, failed),
         Later(wrapper, wrapper', objects, objects'), CollectorRemembers',
         Top(t).task.op = "dispose" => Top(t).task.obj \in Gone(wrapper')
  PROVE  CollectInv'
<1> DEFINE s == frames[t]
           b == Front(s)
           r == IF failed THEN Unwind(b) ELSE b
           D == Gone(wrapper')
<1>1. /\ s \in Stacks /\ s # <<>> /\ Top(t) = s[Len(s)]
      /\ frames' = [frames EXCEPT ![t] = r]
  BY CollectFacts DEF LeaveExecute, Below, Top
<1>2. InOrder(t, s, D, wrapper', objects')
  BY CollectFacts, OrderLater, Zenon
<1>3. \A o : Disposes(s[Len(s)], o) => o \in D
  BY <1>1 DEF Disposes
<1> HIDE DEF s
<1>4. InOrder(t, b, D, wrapper', objects') /\ Invokes(b) \subseteq Invokes(s) /\ b \in Stacks
  <2> HIDE DEF D
  <2>1. InOrder(t, Front(s), D, wrapper', objects') /\ Invokes(Front(s)) \subseteq Invokes(s)
    BY <1>1, <1>2, <1>3, OrderPop
  <2> QED
    BY <1>1, <2>1, FrontFacts
<1> HIDE DEF b, D
<1>5. InOrder(t, Unwind(b), D, wrapper', objects') /\ Invokes(Unwind(b)) \subseteq Invokes(b)
  BY <1>4, OrderUnwind, Zenon
<1>6. InOrder(t, r, D, wrapper', objects') /\ Invokes(r) \subseteq Invokes(s)
  BY <1>4, <1>5
<1> HIDE DEF r
<1> QED
  BY <1>1, <1>6, OneStack DEF s, D

LEMMA ReturnCollect ==
  ASSUME Inv, CollectInv, NEW t \in Threads, Return(t)
  PROVE  CollectInv'
<1>1. /\ frames[t] # <<>> /\ Top(t).kind = "execute" /\ Top(t).status \in {"done", "failed"}
      /\ LeaveExecute(t, Top(t).status = "failed") /\ UNCHANGED <<wrapper, objects, missed>>
  BY DEF Return, TopIs
<1>2. WaitsFor(frames[t]) = {}
  BY <1>1, TopFacts DEF WaitsFor, Inv
<1>3. TaskOK(Top(t), wrapper)
  BY <1>1, CollectFacts, FrontFacts DEF Top, InOrder, TasksOK
<1>4. Top(t).task.op = "dispose" => Top(t).task.obj \in Gone(wrapper')
  BY <1>1, <1>3 DEF TaskOK, Gone
<1>5. (Top(t).status = "failed") \in BOOLEAN
  OBVIOUS
<1>6. Later(wrapper, wrapper', objects, objects') /\ CollectorRemembers'
  BY <1>1, ListStays
<1> QED
  BY <1>1, <1>2, <1>4, <1>5, <1>6, LeaveCollect

\* The worker answers: the task is the one the thread it served waits for.
LEMMA AnswerCollect ==
  ASSUME Inv, CollectInv, NEW w \in Threads, frames[w] # <<>>, Top(w).kind = "invoke",
         NEW failed \in BOOLEAN, Answer(w, failed),
         Later(wrapper, wrapper', objects, objects'), CollectorRemembers',
         Top(w).task.op = "dispose" => ~failed /\ Top(w).task.obj \in Gone(wrapper')
  PROVE  CollectInv'
<1> DEFINE t == Top(w).by
           q == frames[t]
           f == [Top(t) EXCEPT !.status = IF failed THEN "failed" ELSE "done"]
           r == SetTop(q, f)
           D == Gone(wrapper')
<1>1. /\ frames[w] \in Stacks /\ Len(frames[w]) = 1 /\ w \in Workers
      /\ DOMAIN frames[w] = {1} /\ Top(w) = frames[w][1]
  <2>1. /\ frames[w] \in Stacks /\ StackOK(w, frames[w], comThread[w])
        /\ Len(frames[w]) \in DOMAIN frames[w] /\ DOMAIN frames[w] = 1 .. Len(frames[w])
    BY FrontFacts DEF Inv, StackInv
  <2>2. Len(frames[w]) = 1 /\ w \in Workers
    BY <2>1 DEF StackOK, Top
  <2>3. 1 .. Len(frames[w]) = {1}
    BY <2>2
  <2> QED
    BY <2>1, <2>2, <2>3 DEF Top
<1>2. <<t, Top(w).task>> \in Invokes(frames[w])
  BY <1>1 DEF Invokes
<1>3. /\ t \in Threads \ {w} /\ w \in WaitsFor(q) /\ t \in Served(frames[w])
      /\ Top(t).task = Top(w).task
  BY <1>1, <1>2, InvokesFacts DEF CollectInv
<1>4. Below(w) = <<>>
  <2>1. Below(w) \in Seq(Frames) /\ Len(Below(w)) = 0
    BY <1>1, FrontFacts DEF Below, Stacks
  <2> QED
    BY <2>1
<1>5. frames' = [frames EXCEPT ![w] = <<>>, ![t] = r]
  BY <1>3, <1>4 DEF Answer, Inv, StackInv
<1>6. q \in Stacks /\ q # <<>> /\ Top(t) = q[Len(q)] /\ Top(t).kind = "execute"
  <2>1. q \in Stacks
    BY <1>3 DEF Inv, StackInv
  <2> QED
    BY <1>3, <2>1, FrontFacts DEF WaitsFor, Top
<1>7. /\ f.kind = Top(t).kind /\ f.task = Top(t).task /\ f.by = Top(t).by
      /\ f.status = IF failed THEN "failed" ELSE "done"
  <2>1. Top(t) \in Frames
    BY <1>6, FrontFacts DEF Stacks
  <2> QED
    BY <2>1 DEF Frames
<1>8. InOrder(t, q, D, wrapper', objects')
  BY <1>3, CollectFacts, OrderLater, Zenon
<1>9. TaskOK(Top(t), wrapper')
  <2>1. Len(q) \in DOMAIN q
    BY <1>6, FrontFacts
  <2> QED
    BY <1>6, <1>8, <2>1 DEF InOrder, TasksOK
<1> HIDE DEF f, D, q, t
<1>10. TaskOK(f, wrapper')
  BY <1>3, <1>7, <1>9 DEF TaskOK, D
<1>11. InOrder(t, r, D, wrapper', objects') /\ Invokes(r) = Invokes(q)
  <2>1. /\ f.kind = q[Len(q)].kind /\ f.task = q[Len(q)].task /\ f.by = q[Len(q)].by
        /\ f.kind # "disposeAll" /\ D \subseteq D
    BY <1>6, <1>7
  <2> QED
    BY <1>6, <1>8, <1>10, <2>1, OrderTop
<1>12. Len(r) = Len(q) /\ r[Len(r)] = f
  <2>1. Len(q) \in DOMAIN q /\ q \in Seq(Frames)
    BY <1>6, FrontFacts DEF Stacks
  <2> QED
    BY <2>1 DEF SetTop
<1> HIDE DEF r
<1>13. /\ frames'[t] = r /\ frames'[w] = <<>>
       /\ \A u \in Threads : u # t /\ u # w => frames'[u] = frames[u]
  BY <1>3, <1>5 DEF Inv, StackInv
<1>14. \A u \in Threads : LoopsOK(u, frames'[u], D, objects') /\ TasksOK(frames'[u], wrapper')
  <2>1. SUFFICES ASSUME NEW u \in Threads PROVE InOrder(u, frames'[u], D, wrapper', objects')
    BY DEF InOrder
  <2>2. CASE u = t
    BY <1>11, <1>13, <2>2
  <2>3. CASE u = w
    BY <1>13, <2>3 DEF InOrder, LoopsOK, TasksOK
  <2>4. CASE u # t /\ u # w
    <3>1. InOrder(u, frames[u], D, wrapper', objects')
      BY CollectFacts, OrderLater, Zenon DEF D
    <3> QED
      BY <1>13, <2>4, <3>1
  <2> QED
    BY <2>2, <2>3, <2>4
<1>15. ASSUME NEW v \in Workers, NEW p \in Invokes(frames'[v])
       PROVE  Top(p[1])'.task = p[2]
  <2>1. v \in Threads /\ Invokes(<<>>) = {}
    BY ComThreadFacts DEF Invokes
  <2>2. v # w /\ p \in Invokes(frames[v])
    BY <1>11, <1>13, <2>1 DEF q
  <2>3. /\ p[1] \in Threads /\ v \in WaitsFor(frames[p[1]]) /\ Top(p[1]).task = p[2]
    BY <2>2, InvokesFacts DEF CollectInv
  <2>4. p[1] # t
    BY <1>3, <2>2, <2>3, QueueFacts DEF Inv, q
  <2>5. WaitsFor(frames[w]) = {}
    BY <1>1 DEF WaitsFor
  <2>6. frames'[p[1]] = frames[p[1]]
    BY <1>13, <2>3, <2>4, <2>5
  <2> QED
    BY <2>3, <2>6 DEF Top
<1> QED
  BY <1>14, <1>15 DEF CollectInv, D

LEMMA EndCallCollect ==
  ASSUME Inv, CollectInv, NEW t \in Threads, EndCall(t)
  PROVE  CollectInv'
<1>1. InNative(t) /\ frames[t] # <<>> /\ WaitsFor(frames[t]) = {}
  BY TopFacts DEF EndCall, InNative, Inv
<1>2. PICK failed \in BOOLEAN :
        /\ IF failed THEN Failed(t) ELSE Done(t)
        /\ \/ Top(t).kind = "execute" /\ LeaveExecute(t, failed)
           \/ Top(t).kind = "invoke" /\ Answer(t, failed)
  BY DEF EndCall
<1>3. /\ Later(wrapper, wrapper', objects, objects') /\ CollectorRemembers'
      /\ Top(t).task.op = "dispose" => ~failed /\ Top(t).task.obj \in Gone(wrapper')
  BY <1>1, <1>2, WorkCollect
<1>4. CASE LeaveExecute(t, failed)
  BY <1>1, <1>3, <1>4, LeaveCollect
<1>5. CASE Top(t).kind = "invoke" /\ Answer(t, failed)
  BY <1>1, <1>3, <1>5, AnswerCollect
<1> QED
  BY <1>2, <1>4, <1>5

\* The worker begins with the task of the thread it serves now.
LEMMA TakeCollect ==
  ASSUME Inv, CollectInv, NEW w \in Workers, Take(w)
  PROVE  CollectInv'
<1> DEFINE t == Head(taskList[w])
           task == Top(t).task
           f == Frame("invoke", MultiOf(w), task, t)
           r == <<f>>
<1>1. /\ w \in Threads /\ frames[w] = <<>> /\ taskList[w] # <<>>
      /\ frames' = [frames EXCEPT ![w] = r] /\ UNCHANGED <<wrapper, objects, missed>>
  BY ComThreadFacts DEF Take
<1>2. t \in Threads \ {w} /\ w \in WaitsFor(frames[t])
  <2>1. 1 \in DOMAIN taskList[w] /\ t = taskList[w][1] /\ t \in Threads
    BY <1>1, QueueFacts DEF Inv
  <2> HIDE DEF t
  <2>2. w \in WaitsFor(frames[t])
    BY <2>1 DEF Inv, QueueInv
  <2> QED
    BY <2>1, <2>2, QueueFacts DEF Inv
<1>3. f.kind = "invoke" /\ f.by = t /\ f.task = task
  BY DEF Frame
<1>4. TaskOK(Top(t), wrapper)
  <2>1. frames[t] \in Stacks /\ frames[t] # <<>>
    BY <1>2 DEF Inv, StackInv, WaitsFor
  <2> QED
    BY <1>2, <2>1, CollectFacts, FrontFacts DEF InOrder, TasksOK, Top
<1>5. TaskOK(f, wrapper)
  <2> HIDE DEF f, t
  <2> QED
    BY <1>3, <1>4 DEF TaskOK
<1> HIDE DEF f, task
<1>6. DOMAIN r = {1} /\ r[1] = f
  OBVIOUS
<1> HIDE DEF r, t
<1>7. InOrder(w, r, Gone(wrapper'), wrapper', objects')
  <2>1. LoopsOK(w, r, Gone(wrapper'), objects')
    BY <1>3, <1>6 DEF LoopsOK
  <2>2. TasksOK(r, wrapper')
    BY <1>1, <1>5, <1>6 DEF TasksOK
  <2> QED
    BY <2>1, <2>2 DEF InOrder
<1>8. \A p \in Invokes(r) : p[1] \in Threads \ {w} /\ Top(p[1]).task = p[2]
  <2>1. Invokes(r) \subseteq {<<t, task>>}
    BY <1>3, <1>6 DEF Invokes
  <2> QED
    BY <1>2, <2>1 DEF task
<1>9. WaitsFor(frames[w]) = {}
  BY <1>1, EmptyStack
<1>10. Later(wrapper, wrapper', objects, objects') /\ CollectorRemembers'
  BY <1>1, ListStays
<1> QED
  BY <1>1, <1>7, <1>8, <1>9, <1>10, OneStack

LEMMA InitCollect == Init => CollectInv
<1> SUFFICES ASSUME Init PROVE CollectInv
  OBVIOUS
<1>1. \A t \in Threads : frames[t] = <<>>
  BY DEF Init
<1>2. wrapper = <<>>
  BY DEF Init
<1>3. Workers \subseteq Threads
  BY ComThreadFacts
<1>4. \A t \in Threads : LoopsOK(t, frames[t], Gone(wrapper), objects) /\ TasksOK(frames[t], wrapper)
  BY <1>1 DEF LoopsOK, TasksOK
<1>5. \A w \in Workers : Invokes(frames[w]) = {}
  BY <1>1, <1>3 DEF Invokes
<1>6. CollectorRemembers
  BY <1>2 DEF CollectorRemembers
<1> QED
  BY <1>4, <1>5, <1>6 DEF CollectInv

LEMMA NextCollect == Inv /\ CollectInv /\ [Next]_vars => CollectInv'
<1> SUFFICES ASSUME Inv, CollectInv, [Next]_vars PROVE CollectInv'
  OBVIOUS
<1>1. CASE \E t \in Threads, ct \in ComThreads : Create(t, ct)
  BY <1>1, CreateCollect
<1>2. CASE \E t \in Threads : \E o \in DOMAIN wrapper, op \in {"call", "dispose"} : Call(t, o, op)
  BY <1>2, CallCollect
<1>3. CASE \E t \in Threads : DeliverEvent(t)
  BY <1>3, DeliverCollect
<1>4. CASE \E t \in Threads : EndEvent(t) \/ LoopFails(t)
  BY <1>4, PopCollect
<1>5. CASE \E t \in Threads : EndCall(t)
  BY <1>5, EndCallCollect
<1>6. CASE \E t \in Threads : Return(t)
  BY <1>6, ReturnCollect
<1>7. CASE \E t \in Threads : NextObject(t)
  BY <1>7, NextObjectCollect
<1>8. CASE \E t \in Threads : LoopEnds(t)
  BY <1>8, LoopEndsCollect
<1>9. CASE \E t \in Threads : Clear(t)
  BY <1>9, ClearCollect
<1>10. CASE \E w \in Workers : Take(w)
  BY <1>10, TakeCollect
<1>11. CASE DisposeAll
  BY <1>11, DisposeAllCollect
<1>12. CASE UNCHANGED vars
  BY <1>12 DEF vars, CollectInv, CollectorRemembers, Top
<1> QED
  BY <1>1, <1>2, <1>3, <1>4, <1>5, <1>6, <1>7, <1>8, <1>9, <1>10, <1>11, <1>12 DEF Next

\* The collector forgets what it has disposed of and nothing else, whatever
\* exception ends disposeAll() and whatever wrappers come in meanwhile, except
\* those that come between the end of its loop and clear().
THEOREM NothingIsForgotten == Spec => []CollectorRemembers
<1>1. CollectInv => CollectorRemembers
  BY DEF CollectInv
<1>2. Init => Inv /\ CollectInv
  BY InitInv, InitCollect
<1>3. (Inv /\ CollectInv) /\ [Next]_vars => (Inv /\ CollectInv)'
  BY NextInv, NextCollect
<1> QED
  BY <1>1, <1>2, <1>3, PTL DEF Spec

=============================================================================
