\* Two threads and event handlers close two subscriptions, and may overlap
\* or be interrupted.
CONSTANTS
  Threads = {p, q}
  Worker = w
  Proxies = {e, f}
  CloseOnce = FALSE
  UnadviseFails = FALSE
  Interrupts = TRUE
  MaxQueue = 2
  MaxFrames = 3
SPECIFICATION FairSpec
INVARIANTS
  TypeOK
  SafeToClose
  
  CookieOwnsReceiver
PROPERTY CloseCompletes
CHECK_DEADLOCK FALSE
