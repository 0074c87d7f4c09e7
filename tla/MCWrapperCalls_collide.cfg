\* Two Java threads collide on the wrapper, and a waiting thread may be
\* interrupted.
CONSTANTS
  Threads = {p, q}
  Worker = w
  Callers = {p, q}
  Disposers = {p}
  Direct = {}
  Thunks = {t1, t2, t3}
  Calls = {k1, k2, k3}
  TakeTurns = FALSE
  Interrupts = TRUE
  MaxBacklog = 2
  None = None
SPECIFICATION Spec
SYMMETRY Symmetry
INVARIANTS
  TypeOK
  WaiterIsServed
CHECK_DEADLOCK FALSE
