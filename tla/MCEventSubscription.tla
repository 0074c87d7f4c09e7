------------------------ MODULE MCEventSubscription ------------------------
(* Instances of EventSubscription for TLC.                                 *)
EXTENDS EventSubscription, TLC

\* Threads and subscriptions are interchangeable (used in safety runs only).
Symmetry == Permutations(Threads) \cup Permutations(Proxies)
=============================================================================
