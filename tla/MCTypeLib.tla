----------------------------- MODULE MCTypeLib -----------------------------
(* Two libraries of one type each, which may refer to each other.         *)
EXTENDS TypeLib, TLC

CONSTANTS L1, L2, T1, T2

MCLibOf == T1 :> L1 @@ T2 :> L2

=============================================================================
