\* Callers take turns, but a waiting one may be interrupted.
CONSTANTS
  Threads = {p, q}
  Worker = w
  Callers = {p, q}
  Disposers = {p}
  Direct = {}
  Thunks = {t1, t2, t3, t4}
  Calls = {k1, k2, k3, k4}
  TakeTurns = TRUE
  Interrupts = TRUE
  MaxBacklog = 2
  None = None
SPECIFICATION Spec
INVARIANTS
  RunAtMostOnce
CHECK_DEADLOCK FALSE
