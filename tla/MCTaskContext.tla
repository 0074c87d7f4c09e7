--------------------------- MODULE MCTaskContext ---------------------------
(* Two application threads; the first has a collector and an STA.          *)
EXTENDS TaskContext

CONSTANTS a, b

MCCallers == {App(a)}
MCStaUsers == {App(a)}

=============================================================================
