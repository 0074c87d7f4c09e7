---------------------------- MODULE TaskContext ----------------------------
(***************************************************************************)
(* The COM thread a task belongs to.  Task.execute() notes it in a variable*)
(* of the thread that calls, so that a wrapper made meanwhile knows where  *)
(* its object lives; the task runs at once if that is this thread, and is  *)
(* queued for the worker of another one otherwise.  Tasks nest: while      *)
(* native code runs it may deliver an event, whose handler executes tasks. *)
(* ComThreadSingle runs tasks on the application's own thread.  A          *)
(* ComObjectCollector listens to the wrappers made for one application     *)
(* thread and disposes of them all.                                        *)
(*                                                                         *)
(* Sleeping, killing, interrupts and garbage are the business of module    *)
(* ComThreadMulti, the thunk of a call that of module WrapperCalls; here   *)
(* wrappers stay reachable, and calls fail or not.                         *)
(***************************************************************************)
EXTENDS Integers, Sequences, SequencesExt

CONSTANTS
  Apps,       \* application threads; each has a worker, its ComThreadMulti
  Owner,      \* the one that has registered a ComObjectCollector
  Callers,    \* application threads that still run, and call
  StaUsers,   \* threads that call wrapSta()
  None,
  MaxWrappers,\* bound on the wrappers made
  MaxFrames   \* bound on the calls and handlers under way, all threads together

ASSUME BoundsAssumption == MaxFrames \in Nat /\ MaxWrappers \in Nat

VARIABLES
  comThread,  \* Task.comThread, thread by thread
  frames,     \* what each thread is in the middle of, the innermost last
  taskList,   \* threads whose task waits for a worker
  wrapper,    \* the wrappers made, with the ComThread each is bound to
  objects,    \* the list of the collector, ComObjectCollector.objects
  missed      \* wrappers disposeAll() forgot without having looked at them

vars == <<comThread, frames, taskList, wrapper, objects, missed>>

App(a)    == [of |-> a, role |-> "app"]
Worker(a) == [of |-> a, role |-> "worker"]
Threads   == [of : Apps, role : {"app", "worker"}]
Workers   == {t \in Threads : t.role = "worker"}

ASSUME UsersAssumption == Owner \in Apps /\ StaUsers \subseteq Threads /\ Callers \subseteq Threads \ Workers

(* `on' is the thread that a ComThread runs its tasks on.                  *)
Multi(a)   == [type |-> "multi", on |-> Worker(a)]
Single(t)  == [type |-> "single", on |-> t]
ComThreads == {Multi(a) : a \in Apps} \cup {Single(t) : t \in StaUsers}

ASSUME NoneAssumption == None \notin ComThreads \cup Threads

(* ComThreadMulti.get() on thread t; a worker is its own.                  *)
MultiOf(t) == Multi(t.of)

(* A frame of the stack.  "execute" is Task.execute(), running the task or *)
(* waiting for a worker; "invoke" is a worker running the task of `by';    *)
(* "event" a handler; "disposeAll" the loop of the collector, about to     *)
(* look at `next' of the `size' elements it started with.  `nested' is     *)
(* history: a task was executed further in.                                *)
Tasks == [op : {"none", "create", "call", "dispose"}, obj : 0..MaxWrappers]
NoTask == [op |-> "none", obj |-> 0]
Frame(kind, ct, task, by) ==
  [kind |-> kind, ct |-> ct, task |-> task, by |-> by, status |-> "running",
   nested |-> FALSE, next |-> 0, size |-> 0]

Top(t)      == frames[t][Len(frames[t])]
TopIs(t, k) == frames[t] # <<>> /\ Top(t).kind = k
Below(t)    == Front(frames[t])
Pop(t)      == [frames EXCEPT ![t] = Below(t)]
SetTop(s, f) == [s EXCEPT ![Len(s)] = f]

(* An exception ends the loop of disposeAll() too; handlers may catch it.  *)
Unwind(s) ==
  IF s # <<>> /\ s[Len(s)].kind = "disposeAll" THEN Front(s) ELSE s

(* The bound.                                                              *)
Room == FoldFunction(LAMBDA s, n : Len(s) + n, 0, frames) < MaxFrames

Init ==
  /\ comThread = [t \in Threads |-> None]
  /\ frames = [t \in Threads |-> <<>>]
  /\ taskList = [w \in Workers |-> <<>>]
  /\ wrapper = <<>>
  /\ objects = <<>>
  /\ missed = {}

-----------------------------------------------------------------------------
(* Task.execute(ComThread).                                                *)

(* Thread t, in the midst of s, calls execute(ct) of a task.  On its own   *)
(* COM thread the task is run at once, and a ComThreadSingle refuses       *)
(* other threads.                                                          *)
Execute(t, s, ct, task) ==
  LET noted == [i \in DOMAIN s |-> [s[i] EXCEPT !.nested = TRUE]]
  IN  /\ Room
      /\ \/ /\ ct.on = t
            /\ comThread' = [comThread EXCEPT ![t] = ct]
            /\ frames' = [frames EXCEPT ![t] = Append(noted, Frame("execute", ct, task, None))]
            /\ UNCHANGED taskList
         \/ /\ ct.on # t /\ ct.type = "multi"
            /\ comThread' = [comThread EXCEPT ![t] = ct]
            /\ frames' = [frames EXCEPT ![t] =
                            Append(noted, [Frame("execute", ct, task, None) EXCEPT !.status = "waiting"])]
            /\ taskList' = [taskList EXCEPT ![ct.on] = Append(@, t)]
         \/ /\ ct.on # t /\ ct.type = "single"
            /\ comThread' = [comThread EXCEPT ![t] = None]
            /\ frames' = [frames EXCEPT ![t] = Unwind(noted)]
            /\ UNCHANGED taskList

(* Java code runs: the application's own, or a handler's.                  *)
InJava(t) == TopIs(t, "event") \/ (t \in Callers /\ frames[t] = <<>>)

(* createInstance(), wrapSta().                                            *)
Create(t, ct) ==
  /\ InJava(t)
  /\ ct \in {MultiOf(t), Single(t)} \cap ComThreads
  /\ Execute(t, frames[t], ct, [op |-> "create", obj |-> 0])
  /\ UNCHANGED <<wrapper, objects, missed>>

(* A method of the wrapper; dispose().                                     *)
Call(t, o, op) ==
  /\ InJava(t)
  /\ ~wrapper[o].disposed
  /\ Execute(t, frames[t], wrapper[o].ct, [op |-> op, obj |-> o])
  /\ UNCHANGED <<wrapper, objects, missed>>

(* The worker begins Task.invoke().                                        *)
Take(w) ==
  /\ frames[w] = <<>> /\ taskList[w] # <<>>
  /\ LET t == Head(taskList[w])
     IN  frames' = [frames EXCEPT ![w] = <<Frame("invoke", MultiOf(w), Top(t).task, t)>>]
  /\ taskList' = [taskList EXCEPT ![w] = Tail(@)]
  /\ UNCHANGED <<comThread, wrapper, objects, missed>>

(* Native code is called: call() of the task at the top.                   *)
InNative(t) ==
  frames[t] # <<>> /\ Top(t).kind \in {"execute", "invoke"} /\ Top(t).status = "running"

(* Events come while native code runs, and while a worker sleeps.          *)
DeliverEvent(t) ==
  /\ InNative(t) \/ (t \in Workers /\ frames[t] = <<>>)
  /\ Room
  /\ frames' = [frames EXCEPT ![t] = Append(@, Frame("event", None, NoTask, None))]
  /\ UNCHANGED <<comThread, taskList, wrapper, objects, missed>>

EndEvent(t) ==
  /\ TopIs(t, "event")
  /\ frames' = Pop(t)
  /\ UNCHANGED <<comThread, taskList, wrapper, objects, missed>>

\* Mutant: a wrapper asks only for the worker of its thread.
BindToWorker(t) == MultiOf(t)

(* The ComThread of a wrapper made on thread t: what Task.comThread says.  *)
ContextOf(t) == IF comThread[t] = None THEN MultiOf(t) ELSE comThread[t]

(* COM4J.addListener() has registered the collector with both COM threads  *)
(* of its application thread.                                              *)
Listened == {Multi(Owner), Single(App(Owner))}

(* The constructor of Wrapper: it binds the object and tells the listener. *)
NewWrapper(t) ==
  /\ Len(wrapper) < MaxWrappers
  /\ wrapper' = Append(wrapper,
       [ct |-> ContextOf(t), home |-> t, nested |-> Top(t).nested, disposed |-> FALSE])
  /\ objects' = IF ContextOf(t) \in Listened THEN Append(objects, Len(wrapper')) ELSE objects
  /\ UNCHANGED missed

(* call() has done its work: a wrapper is made or not, or was disposed of. *)
Done(t) ==
  \/ Top(t).task.op \in {"create", "call"} /\ NewWrapper(t)
  \/ Top(t).task.op = "call" /\ UNCHANGED <<wrapper, objects, missed>>
  \/ /\ Top(t).task.op = "dispose"
     /\ wrapper' = [wrapper EXCEPT ![Top(t).task.obj].disposed = TRUE]
     /\ UNCHANGED <<objects, missed>>
Failed(t) == Top(t).task.op # "dispose" /\ UNCHANGED <<wrapper, objects, missed>>

(* The end of Task.execute(): the variable is cleared, not restored.       *)
LeaveExecute(t, failed) ==
  /\ comThread' = [comThread EXCEPT ![t] = None]
  /\ frames' = [frames EXCEPT ![t] = IF failed THEN Unwind(Below(t)) ELSE Below(t)]

\* Mutant: the worker does not tell who waits for an exception.
AnswerSuccess(w, failed) ==
  LET t == Top(w).by
  IN  frames' = [frames EXCEPT ![w] = Below(w),
        ![t] = IF failed THEN @ ELSE SetTop(@, [Top(t) EXCEPT !.status = "done"])]

(* The end of Task.invoke(): who waits for it is notified.                 *)
Answer(w, failed) ==
  LET t == Top(w).by
  IN  frames' = [frames EXCEPT ![w] = Below(w),
        ![t] = SetTop(@, [Top(t) EXCEPT !.status = IF failed THEN "failed" ELSE "done"])]

EndCall(t) ==
  /\ InNative(t)
  /\ \E failed \in BOOLEAN :
       /\ IF failed THEN Failed(t) ELSE Done(t)
       /\ \/ Top(t).kind = "execute" /\ LeaveExecute(t, failed)
          \/ Top(t).kind = "invoke" /\ Answer(t, failed) /\ UNCHANGED comThread
  /\ UNCHANGED taskList

(* The thread that waited goes on.                                         *)
Return(t) ==
  /\ TopIs(t, "execute") /\ Top(t).status \in {"done", "failed"}
  /\ LeaveExecute(t, Top(t).status = "failed")
  /\ UNCHANGED <<taskList, wrapper, objects, missed>>

-----------------------------------------------------------------------------
(* ComObjectCollector.disposeAll(), called by the thread that registered,  *)
(* not by a handler inside of it.                                          *)

DisposeAll ==
  LET t == App(Owner)
  IN  /\ InJava(t) /\ Room
      /\ \A f \in Range(frames[t]) : f.kind # "disposeAll"
      /\ frames' = [frames EXCEPT ![t] = Append(@,
           [Frame("disposeAll", None, NoTask, None) EXCEPT !.next = 1, !.size = Len(objects)])]
      /\ UNCHANGED <<comThread, taskList, wrapper, objects, missed>>

InLoop(t) == t = App(Owner) /\ TopIs(t, "disposeAll")

\* Mutant: the last element is not looked at.
AtEndEarly(f) == f.next >= Len(objects)

(* Iterator.hasNext() compares with the size the list has now, next() with *)
(* the count of modifications.                                             *)
AtEnd(f) == f.next > Len(objects)
Modified(f) == f.size # Len(objects)

NextObject(t) ==
  /\ InLoop(t) /\ Top(t).next > 0 /\ ~AtEnd(Top(t)) /\ ~Modified(Top(t))
  /\ LET o == objects[Top(t).next]
         s == SetTop(frames[t], [Top(t) EXCEPT !.next = @ + 1])
     IN  \/ /\ wrapper[o].disposed
            /\ frames' = [frames EXCEPT ![t] = s]
            /\ UNCHANGED <<comThread, taskList>>
         \/ ~wrapper[o].disposed /\ Execute(t, s, wrapper[o].ct, [op |-> "dispose", obj |-> o])
  /\ UNCHANGED <<wrapper, objects, missed>>

(* A ConcurrentModificationException: the list stays as it is.             *)
LoopFails(t) ==
  /\ InLoop(t) /\ Top(t).next > 0 /\ ~AtEnd(Top(t)) /\ Modified(Top(t))
  /\ frames' = Pop(t)
  /\ UNCHANGED <<comThread, taskList, wrapper, objects, missed>>

(* The loop has seen its end; 0 stands for the place before clear().       *)
LoopEnds(t) ==
  /\ InLoop(t) /\ Top(t).next > 0 /\ AtEnd(Top(t))
  /\ frames' = [frames EXCEPT ![t] = SetTop(@, [Top(t) EXCEPT !.next = 0])]
  /\ UNCHANGED <<comThread, taskList, wrapper, objects, missed>>

Clear(t) ==
  /\ InLoop(t) /\ Top(t).next = 0
  /\ missed' = missed \cup {objects[i] : i \in Top(t).size + 1 .. Len(objects)}
  /\ objects' = <<>>
  /\ frames' = Pop(t)
  /\ UNCHANGED <<comThread, taskList, wrapper>>

-----------------------------------------------------------------------------

Next ==
  \/ \E t \in Threads :
       \/ \E ct \in ComThreads : Create(t, ct)
       \/ \E o \in DOMAIN wrapper, op \in {"call", "dispose"} : Call(t, o, op)
       \/ DeliverEvent(t) \/ EndEvent(t) \/ EndCall(t) \/ Return(t)
       \/ NextObject(t) \/ LoopFails(t) \/ LoopEnds(t) \/ Clear(t)
  \/ \E w \in Workers : Take(w)
  \/ DisposeAll

Spec == Init /\ [][Next]_vars

-----------------------------------------------------------------------------

Frames ==
  [kind : {"execute", "invoke", "event", "disposeAll"}, ct : ComThreads \cup {None}, task : Tasks,
   by : Threads \cup {None}, status : {"running", "waiting", "done", "failed"},
   nested : BOOLEAN, next : Nat, size : Nat]
Wrappers == [ct : ComThreads, home : Threads, nested : BOOLEAN, disposed : BOOLEAN]

(* Frames, queues and lists hold what they should.                         *)
TypeOK ==
  /\ comThread \in [Threads -> ComThreads \cup {None}]
  /\ frames \in [Threads -> Seq(Frames)]
  /\ taskList \in [Workers -> Seq(Threads)]
  /\ wrapper \in Seq(Wrappers) /\ Len(wrapper) <= MaxWrappers
  /\ objects \in Seq(DOMAIN wrapper)
  /\ missed \subseteq DOMAIN wrapper

(* A wrapper is bound to the thread its object lives on (the assertion of  *)
(* Wrapper's constructor), whatever nests in what, except where a task was *)
(* executed in the middle of the one that makes it.  Then the variable is  *)
(* clear: the wrapper gets the worker of its own application thread, which *)
(* is right unless the object lives on that thread itself.                 *)
BoundToItsThread ==
  \A o \in DOMAIN wrapper :
    \/ wrapper[o].ct.on = wrapper[o].home
    \/ /\ wrapper[o].nested
       /\ wrapper[o].ct = MultiOf(wrapper[o].home) /\ wrapper[o].home \notin Workers

(* The collector forgets what it has disposed of and nothing else, when    *)
(* disposeAll() runs into an exception, or wrappers come in meanwhile from *)
(* the worker, except those that come between the end of the loop and      *)
(* clear().                                                                *)
CollectorRemembers ==
  \A o \in DOMAIN wrapper : wrapper[o].ct \in Listened =>
    o \in Range(objects) \/ wrapper[o].disposed \/ o \in missed

Waiting(t) == TopIs(t, "execute") /\ Top(t).status = "waiting"
Serves(w, t) == frames[w] # <<>> /\ frames[w][1].kind = "invoke" /\ frames[w][1].by = t
Places(w, t) == {i \in DOMAIN taskList[w] : taskList[w][i] = t}

(* A thread waits for a worker that knows of it: its task is queued there, *)
(* once, or the worker is in the midst of it, below whatever handlers have *)
(* come since; answers find their frame.  No worker waits for itself, so   *)
(* that only workers that wait for each other in a circle are stuck.       *)
NobodyWaitsInVain ==
  \A t \in Threads : Waiting(t) =>
    LET w == Top(t).ct.on
    IN  /\ w # t
        /\ IF Serves(w, t) THEN Places(w, t) = {} ELSE \E i \in DOMAIN taskList[w] : Places(w, t) = {i}

=============================================================================
