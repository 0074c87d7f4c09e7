\* Callers take turns, event handlers included; nobody is interrupted.
\* One of them also has the Wrapper itself.
CONSTANTS
  Threads = {p, q}
  Worker = w
  Callers = {p, q, w}
  Disposers = {q}
  Direct = {p}
  Thunks = {t1, t2, t3}
  Calls = {k1, k2, k3, k4}
  TakeTurns = TRUE
  Interrupts = FALSE
  MaxBacklog = 2
  None = None
SPECIFICATION FairSpec
INVARIANTS
  RunAtMostOnce
  
  CacheHoldsFreeThunk
PROPERTIES
  OwnOutcome
  CallReturns
CHECK_DEADLOCK FALSE
