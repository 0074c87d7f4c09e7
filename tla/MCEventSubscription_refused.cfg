\* One close() at a time, but the source may refuse to let go.
CONSTANTS
  Threads = {p, q}
  Worker = w
  Proxies = {e}
  CloseOnce = TRUE
  UnadviseFails = TRUE
  Interrupts = FALSE
  MaxQueue = 2
  MaxFrames = 3
SPECIFICATION Spec
INVARIANT CloseIsRepeatable
CHECK_DEADLOCK FALSE
