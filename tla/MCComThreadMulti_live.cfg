\* Nobody kills the thread and nobody holds a cookie.
CONSTANTS
  Threads = {p, q}
  Peer = p
  Killers = {}
  CookieHolders = {}
  Tasks = {t1, t2}
  Objects = {o1}
  None = None
SPECIFICATION FairSpec
PROPERTIES
  ExecuteReturns
  ImplementsFairService
  WorkerRetires
CHECK_DEADLOCK FALSE
