---------------------------- MODULE TypeIdentity ----------------------------
(***************************************************************************)
(* What the type library objects promise to their user: a type is          *)
(* represented by one object at a time, whichever way it was reached, and  *)
(* the object stays as long as the user has it.  The import tool compares  *)
(* declarations by identity, and keeps them in maps.                       *)
(***************************************************************************)
EXTENDS Naturals

CONSTANT Info

VARIABLES
  rep,     \* the object that represents each type, 0 if there is none
  users    \* how many references the user has to it

Init == rep = [i \in Info |-> 0] /\ users = [i \in Info |-> 0]

(* The object of i comes into being.                                       *)
Fresh(i) == rep'[i] # 0 /\ \A j \in Info \ {i} : rep'[j] = rep[j] /\ rep'[i] # rep[j]

Appear(i) == rep[i] = 0 /\ Fresh(i) /\ UNCHANGED users

Obtain(i) ==
  /\ users' = [users EXCEPT ![i] = @ + 1]
  /\ \/ rep[i] # 0 /\ UNCHANGED rep
     \/ rep[i] = 0 /\ Fresh(i)

Drop(i) == users[i] > 0 /\ users' = [users EXCEPT ![i] = @ - 1] /\ UNCHANGED rep

Vanish(i) == users[i] = 0 /\ rep' = [rep EXCEPT ![i] = 0] /\ UNCHANGED users

Next == \E i \in Info : Appear(i) \/ Obtain(i) \/ Drop(i) \/ Vanish(i)

Spec == Init /\ [][Next]_<<rep, users>>

=============================================================================
