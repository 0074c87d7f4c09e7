\* Two Java threads, of which the peer may kill; two outstanding tasks, two
\* wrappers.
CONSTANTS
  Threads = {p, q}
  Peer = p
  Killers = {p}
  CookieHolders = {}
  Tasks = {t1, t2}
  Objects = {o1, o2}
  None = None
SPECIFICATION Spec
SYMMETRY Symmetry
INVARIANTS
  TypeOK
  NaturalDeathStrandsNobody
  NoLostWakeup
  
  HeldIsTracked
  NotPulledAway
PROPERTY ImplementsService
CHECK_DEADLOCK FALSE
