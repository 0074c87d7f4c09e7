---------------------------- MODULE TaskService ----------------------------
(***************************************************************************)
(* What ComThread.execute() promises, without monitors, events, sleeping   *)
(* or COM objects: requests are served one at a time in the order they     *)
(* came, each at most once; a thread gets the reply to its own request,    *)
(* after that has been served, or gives up waiting (InterruptedException), *)
(* which takes nothing back.                                               *)
(***************************************************************************)
EXTENDS Sequences

CONSTANTS Threads, Tasks, None

VARIABLES
  backlog,  \* requests not yet begun, oldest first
  busy,     \* the request being served
  asked,    \* the request a thread waits for
  reply,    \* what serving a request has produced
  leaving   \* threads that have been interrupted and give up

vars == <<backlog, busy, asked, reply, leaving>>

Pending ==
  {backlog[i] : i \in DOMAIN backlog} \cup {busy}
    \cup {asked[c] : c \in Threads}

Init ==
  /\ backlog = <<>>
  /\ busy = None
  /\ asked = [c \in Threads |-> None]
  /\ reply = [t \in Tasks |-> "none"]
  /\ leaving = {}

Request(c, t) ==
  /\ asked[c] = None
  /\ t \notin Pending
  /\ asked' = [asked EXCEPT ![c] = t]
  /\ backlog' = Append(backlog, t)
  /\ reply' = [reply EXCEPT ![t] = "none"]
  /\ UNCHANGED <<busy, leaving>>

Begin ==
  /\ busy = None
  /\ backlog # <<>>
  /\ busy' = Head(backlog)
  /\ backlog' = Tail(backlog)
  /\ UNCHANGED <<asked, reply, leaving>>

Finish(r) ==
  /\ busy # None
  /\ reply' = [reply EXCEPT ![busy] = r]
  /\ busy' = None
  /\ UNCHANGED <<backlog, asked, leaving>>

Answer(c) ==
  /\ asked[c] # None
  /\ c \notin leaving
  /\ reply[asked[c]] # "none"
  /\ reply' = [reply EXCEPT ![asked[c]] = "none"]
  /\ asked' = [asked EXCEPT ![c] = None]
  /\ UNCHANGED <<backlog, busy, leaving>>

Interrupt(c) ==
  /\ asked[c] # None
  /\ leaving' = leaving \cup {c}
  /\ UNCHANGED <<backlog, busy, asked, reply>>

Abandon(c) ==
  /\ c \in leaving
  /\ leaving' = leaving \ {c}
  /\ asked' = [asked EXCEPT ![c] = None]
  /\ UNCHANGED <<backlog, busy, reply>>

Next ==
  \/ \E c \in Threads, t \in Tasks : Request(c, t)
  \/ Begin
  \/ \E r \in {"result", "exception"} : Finish(r)
  \/ \E c \in Threads : Answer(c) \/ Interrupt(c) \/ Abandon(c)

Spec == Init /\ [][Next]_vars

\* A request somebody waits for is in time begun, finished and answered; one
\* that everybody has given up may stay where it is.
Wanted == \E c \in Threads, i \in DOMAIN backlog : backlog[i] = asked[c]

FairSpec ==
  /\ Spec
  /\ WF_vars(Wanted /\ Begin)
  /\ WF_vars(\E r \in {"result", "exception"} : Finish(r))
  /\ \A c \in Threads : WF_vars(Answer(c))
=============================================================================
