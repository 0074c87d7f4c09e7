\* Liveness and the implementation of TaskService when the peer may kill the
\* thread and an event cookie outlives the wrappers; one wrapper.
CONSTANTS
  Threads = {p, q}
  Peer = p
  Killers = {p}
  CookieHolders = {q}
  Tasks = {t1}
  Objects = {o1, o2}
  None = None
SPECIFICATION FairSpec
PROPERTIES
  GarbageReleased
  KillEndsWorker
CHECK_DEADLOCK FALSE
