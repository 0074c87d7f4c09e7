\* The peer calls kill() (through COM4J.cleanUp()) while another thread uses
\* one of its wrappers.
CONSTANTS
  Threads = {p, q}
  Peer = p
  Killers = {p}
  CookieHolders = {}
  Tasks = {t1}
  Objects = {o1}
  None = None
SPECIFICATION FairSpec
PROPERTY ExecuteReturns
CHECK_DEADLOCK FALSE
