------------------------- MODULE EventSubscription -------------------------
(* Subscriptions to the events of COM objects.  Wrapper.advise() makes an  *)
(* EventProxy and, natively, a CEventReceiver that it hands to the event   *)
(* source; EventProxy.close() takes it back and deletes it.  Both are      *)
(* tasks for the COM thread, which also delivers the events: while it      *)
(* sleeps, and while it is in a COM call.  An event handler may close a    *)
(* subscription itself.                                                    *)
(*                                                                         *)
(* Native code that uses a null pointer or a deleted receiver has no       *)
(* defined behaviour: the model stops there ("crashed").                   *)
(***************************************************************************)
EXTENDS Integers, Sequences, SequencesExt

CONSTANTS
  Threads,        \* Java threads that subscribe and close
  Worker,         \* the COM thread
  Proxies,        \* subscriptions that may be made
  CloseOnce,      \* is a close() begun only when nothing else is under way?
  UnadviseFails,  \* may the source refuse to let go?
  Interrupts,     \* may a waiting thread be interrupted?
  MaxQueue,       \* how many tasks may be queued at a time
  MaxFrames       \* how deep events and calls nest on the COM thread

ASSUME ThreadsAssumption == Worker \notin Threads
ASSUME ModeAssumption ==
  /\ {CloseOnce, UnadviseFails, Interrupts} \subseteq BOOLEAN
  /\ {MaxQueue, MaxFrames} \subseteq Nat

VARIABLES
  nativeProxy,  \* EventProxy.nativeProxy # 0
  receiver,     \* the CEventReceiver: "none", "new", "connected",
                \* "disconnected" or "deleted"
  registered,   \* does the source have it as a sink?
  cookie,       \* has advise() returned the EventCookie?
  pc,           \* where a thread is
  queue,        \* tasks for the COM thread: see Frame
  frames,       \* what the COM thread is at, innermost first
  crashed,
  spoilt        \* history: a close() overlapped or was interrupted

vars == <<nativeProxy, receiver, registered, cookie, pc, queue, frames, crashed,
          spoilt>>

\* A task or an event: what, for which subscription, for whom, and where in it.
Frame(op, e, by) == [op |-> op, proxy |-> e, by |-> by, at |-> "start"]

Frames ==
  [op : {"advise", "unadvise", "event"}, proxy : Proxies,
   by : Threads \cup {Worker}, at : {"start", "calling"}]

\* A thread is idle, waits for a task, or has the answer to it.
Idle == [at |-> "idle"]
Waits(e) == [at |-> "waits", proxy |-> e]
Answered(e, ok) == [at |-> "answered", proxy |-> e, ok |-> ok]
Places == {Idle} \cup {Waits(e) : e \in Proxies}
                 \cup {Answered(e, ok) : e \in Proxies, ok \in BOOLEAN}

Init ==
  /\ nativeProxy = [e \in Proxies |-> FALSE]
  /\ receiver = [e \in Proxies |-> "none"]
  /\ registered = [e \in Proxies |-> FALSE]
  /\ cookie = [e \in Proxies |-> FALSE]
  /\ pc = [c \in Threads |-> Idle]
  /\ queue = <<>>
  /\ frames = <<>>
  /\ crashed = FALSE
  /\ spoilt = [e \in Proxies |-> FALSE]

Top == Head(frames)

\* The task on top ends; whoever waits for it (nobody, after an interrupt)
\* has the answer.
Answer(ok) ==
  IF Top.by \in Threads /\ pc[Top.by] = Waits(Top.proxy)
    THEN pc' = [pc EXCEPT ![Top.by] = Answered(Top.proxy, ok)]
    ELSE UNCHANGED pc

-----------------------------------------------------------------------------
(* Java threads.                                                           *)

Submit(c, op, e) ==
  /\ ~crashed
  /\ pc[c] = Idle
  /\ Len(queue) < MaxQueue
  /\ queue' = Append(queue, Frame(op, e, c))
  /\ pc' = [pc EXCEPT ![c] = Waits(e)]
  /\ UNCHANGED <<nativeProxy, receiver, registered, cookie, frames, crashed>>

\* Is the subscription in use by a task that has not ended?
InHand(e) ==
  \/ \E c \in Threads : pc[c] # Idle /\ pc[c].proxy = e
  \/ \E i \in DOMAIN frames : frames[i].op # "event" /\ frames[i].proxy = e
  \/ \E i \in DOMAIN queue : queue[i].proxy = e

\* Wrapper.advise()
Advise(c, e) ==
  /\ receiver[e] = "none"
  /\ ~InHand(e)
  /\ Submit(c, "advise", e)
  /\ UNCHANGED spoilt

\* Mutant: nativeProxy is not looked at.
MayCloseAgain(e) == cookie[e] /\ (CloseOnce => ~InHand(e))

\* EventProxy.close(): if (nativeProxy != 0).
MayClose(e) == cookie[e] /\ nativeProxy[e] /\ (CloseOnce => ~InHand(e))

Close(c, e) ==
  /\ MayClose(e)
  /\ Submit(c, "unadvise", e)
  /\ spoilt' = [spoilt EXCEPT ![e] = @ \/ InHand(e)]

\* Mutant: nativeProxy is not set to 0.
ReturnKeepingPointer(c) ==
  /\ pc[c].at = "answered"
  /\ cookie' = [cookie EXCEPT ![pc[c].proxy] = @ \/ pc[c].ok]
  /\ pc' = [pc EXCEPT ![c] = Idle]
  /\ UNCHANGED <<nativeProxy, receiver, registered, queue, frames, crashed, spoilt>>

\* The thread goes on: advise() returns the cookie, close() sets nativeProxy
\* to 0; an exception skips either.
Return(c) ==
  /\ ~crashed
  /\ pc[c].at = "answered"
  /\ LET e == pc[c].proxy
         closing == cookie[e]
     IN  /\ cookie' = [cookie EXCEPT ![e] = @ \/ pc[c].ok]
         /\ nativeProxy' = [nativeProxy EXCEPT ![e] = @ /\ ~(closing /\ pc[c].ok)]
  /\ pc' = [pc EXCEPT ![c] = Idle]
  /\ UNCHANGED <<receiver, registered, queue, frames, crashed, spoilt>>

\* The wait is given up; the task stays queued.
Interrupt(c) ==
  /\ Interrupts
  /\ ~crashed
  /\ pc[c].at = "waits"
  /\ pc' = [pc EXCEPT ![c] = Idle]
  /\ spoilt' = [spoilt EXCEPT ![pc[c].proxy] = @ \/ cookie[pc[c].proxy]]
  /\ UNCHANGED <<nativeProxy, receiver, registered, cookie, queue, frames, crashed>>

-----------------------------------------------------------------------------
(* The COM thread.                                                         *)

\* Mutant: tasks are also taken inside a COM call.
TakeInCall ==
  /\ Len(frames) < MaxFrames
  /\ frames # <<>> => Top.at = "calling"
  /\ queue # <<>>
  /\ frames' = <<Head(queue)>> \o frames
  /\ queue' = Tail(queue)
  /\ UNCHANGED <<nativeProxy, receiver, registered, cookie, pc, crashed, spoilt>>

Take ==
  /\ ~crashed
  /\ frames = <<>>
  /\ queue # <<>>
  /\ frames' = <<Head(queue)>>
  /\ queue' = Tail(queue)
  /\ UNCHANGED <<nativeProxy, receiver, registered, cookie, pc, crashed, spoilt>>

At(op, at) == ~crashed /\ frames # <<>> /\ Top.op = op /\ Top.at = at

SetTop(at) == frames' = [frames EXCEPT ![1].at = at]

\* CEventReceiver::create() and Advise(): the source has the receiver before
\* it answers.
Register ==
  /\ At("advise", "start")
  /\ receiver' = [receiver EXCEPT ![Top.proxy] = "new"]
  /\ registered' = [registered EXCEPT ![Top.proxy] = TRUE]
  /\ SetTop("calling")
  /\ UNCHANGED <<nativeProxy, cookie, pc, queue, crashed, spoilt>>

\* Advise() returns: connected = true, and proxy.nativeProxy is assigned.
Registered ==
  /\ At("advise", "calling")
  /\ receiver' = [receiver EXCEPT ![Top.proxy] = "connected"]
  /\ nativeProxy' = [nativeProxy EXCEPT ![Top.proxy] = TRUE]
  /\ Answer(TRUE)
  /\ frames' = Tail(frames)
  /\ UNCHANGED <<registered, cookie, queue, crashed, spoilt>>

\* Advise() fails: the exception leaves the task, the receiver stays behind.
NotRegistered ==
  /\ At("advise", "start")
  /\ receiver' = [receiver EXCEPT ![Top.proxy] = "disconnected"]
  /\ Answer(FALSE)
  /\ frames' = Tail(frames)
  /\ UNCHANGED <<nativeProxy, registered, cookie, queue, crashed, spoilt>>

\* Native.unadvise(nativeProxy) reads the field, and Disconnect() reads
\* connected of what it points to.
Crash ==
  /\ \/ At("unadvise", "start") /\ (~nativeProxy[Top.proxy] \/ receiver[Top.proxy] = "deleted")
     \/ At("unadvise", "calling") /\ receiver[Top.proxy] = "deleted"
  /\ crashed' = TRUE
  /\ UNCHANGED <<nativeProxy, receiver, registered, cookie, pc, queue, frames, spoilt>>

\* Disconnect(): pSource->Unadvise(eventCookie).
Disconnect ==
  /\ At("unadvise", "start")
  /\ nativeProxy[Top.proxy]
  /\ receiver[Top.proxy] = "connected"
  /\ SetTop("calling")
  /\ UNCHANGED <<nativeProxy, receiver, registered, cookie, pc, queue, crashed, spoilt>>

\* Mutant: the receiver is deleted without a word to the source.
DeleteOnly(ok) ==
  /\ At("unadvise", "calling")
  /\ receiver[Top.proxy] # "deleted"
  /\ ok \/ UnadviseFails
  /\ receiver' = [receiver EXCEPT ![Top.proxy] = "deleted"]
  /\ nativeProxy' = [nativeProxy EXCEPT ![Top.proxy] = @ /\ ~(ok /\ Top.by = Worker)]
  /\ Answer(ok)
  /\ frames' = Tail(frames)
  /\ UNCHANGED <<registered, cookie, queue, crashed, spoilt>>

\* Unadvise() has returned; delete er, whatever it returned.  In an event
\* handler close() goes on at once.
Delete(ok) ==
  /\ At("unadvise", "calling")
  /\ receiver[Top.proxy] # "deleted"
  /\ ok \/ UnadviseFails
  /\ registered' = [registered EXCEPT ![Top.proxy] = ~ok]
  /\ receiver' = [receiver EXCEPT ![Top.proxy] = "deleted"]
  /\ nativeProxy' = [nativeProxy EXCEPT ![Top.proxy] = @ /\ ~(ok /\ Top.by = Worker)]
  /\ Answer(ok)
  /\ frames' = Tail(frames)
  /\ UNCHANGED <<cookie, queue, crashed, spoilt>>

\* The source delivers an event: the COM thread sleeps or is in a COM call.
Deliver(e) ==
  /\ ~crashed
  /\ registered[e]
  /\ frames # <<>> => Top.at = "calling" \/ Top.op = "event"
  /\ Len(frames) < MaxFrames
  /\ IF receiver[e] = "deleted"
       THEN crashed' = TRUE /\ UNCHANGED frames
       ELSE frames' = <<Frame("event", e, Worker)>> \o frames /\ UNCHANGED crashed
  /\ UNCHANGED <<nativeProxy, receiver, registered, cookie, pc, queue, spoilt>>

\* The event handler closes a subscription; Task.execute() is a direct call.
CloseInHandler(e) ==
  /\ At("event", "start")
  /\ Len(frames) < MaxFrames
  /\ MayClose(e)
  /\ frames' = <<Frame("unadvise", e, Worker)>> \o frames
  /\ spoilt' = [spoilt EXCEPT ![e] = @ \/ InHand(e)]
  /\ UNCHANGED <<nativeProxy, receiver, registered, cookie, pc, queue, crashed>>

\* CEventReceiver::Invoke() touches the receiver no more.
EventHandled ==
  /\ At("event", "start")
  /\ frames' = Tail(frames)
  /\ UNCHANGED <<nativeProxy, receiver, registered, cookie, pc, queue, crashed, spoilt>>

-----------------------------------------------------------------------------
Work ==
  \/ Take \/ Register \/ Registered \/ NotRegistered \/ Crash \/ Disconnect
  \/ (\E ok \in BOOLEAN : Delete(ok)) \/ EventHandled

Next ==
  \/ Work
  \/ \E e \in Proxies : Deliver(e) \/ CloseInHandler(e)
  \/ \E c \in Threads :
       Return(c) \/ Interrupt(c) \/ (\E e \in Proxies : Advise(c, e) \/ Close(c, e))

Spec == Init /\ [][Next]_vars

\* Calls of the source return and handlers end, however many events nest in
\* them, and events leave the COM thread time for its tasks.
FairSpec ==
  /\ Spec
  /\ SF_vars(Take)
  /\ \A n \in 1..MaxFrames : SF_vars(Len(frames) = n /\ EventHandled)
  /\ SF_vars(Registered \/ Delete(TRUE) \/ Crash)
  /\ WF_vars(Register \/ NotRegistered \/ Disconnect)
  /\ \A c \in Threads : WF_vars(Return(c))

-----------------------------------------------------------------------------
\* Type correctness; tasks of threads are run one after the other and events
\* nest in them.
TypeOK ==
  /\ nativeProxy \in [Proxies -> BOOLEAN]
  /\ receiver \in [Proxies -> {"none", "new", "connected", "disconnected", "deleted"}]
  /\ registered \in [Proxies -> BOOLEAN]
  /\ cookie \in [Proxies -> BOOLEAN]
  /\ pc \in [Threads -> Places]
  /\ queue \in Seq(Frames)
  /\ frames \in Seq(Frames)
  /\ \A i \in DOMAIN frames : frames[i].by \in Threads => i = Len(frames)
  /\ crashed \in BOOLEAN
  /\ spoilt \in [Proxies -> BOOLEAN]

\* close() never works on a receiver that has been deleted, nor on none, and no
\* event meets one, unless two closes of a cookie overlap or one is interrupted.
SafeToClose == crashed => \E e \in Proxies : spoilt[e]

\* "This method can be safely invoked multiple times": one close() after the
\* other, none interrupted, the next one never starts on a deleted receiver.
CloseIsRepeatable ==
  At("unadvise", "start") =>
    spoilt[Top.proxy] \/ receiver[Top.proxy] # "deleted"

\* The source is never left with a receiver that has been deleted.
NoDanglingSink == \A e \in Proxies : registered[e] => receiver[e] # "deleted"

\* A cookie can be closed as long as there is something to close: the receiver
\* and nativeProxy are there together, but for a close() under way.
CookieOwnsReceiver ==
  \A e \in Proxies : cookie[e] /\ ~InHand(e) /\ ~spoilt[e] =>
    (nativeProxy[e] <=> receiver[e] = "connected")

\* close() ends, however events nest, and the source has let go by then.
CloseCompletes ==
  \A c \in Threads, e \in Proxies :
    pc[c] = Waits(e) /\ cookie[e] ~> crashed \/ (pc[c].at # "waits" /\ ~registered[e])
=============================================================================
