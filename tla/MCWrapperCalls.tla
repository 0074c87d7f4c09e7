--------------------------- MODULE MCWrapperCalls ---------------------------
(* Instances of WrapperCalls for TLC.                                      *)
EXTENDS WrapperCalls, TLC

\* Calls and thunks are interchangeable (used in safety runs only).
Symmetry == Permutations(Calls) \cup Permutations(Thunks)
=============================================================================
