------------------------- MODULE MCComThreadMulti -------------------------
(* Instances of ComThreadMulti for TLC.                                    *)
EXTENDS ComThreadMulti, TLC

\* Tasks and wrappers are interchangeable (used in safety runs only).
Symmetry == Permutations(Tasks) \cup Permutations(Objects)
=============================================================================
