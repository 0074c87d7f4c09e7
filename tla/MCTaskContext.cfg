SPECIFICATION Spec
CONSTANTS
  a = a
  b = b
  Apps = {a, b}
  Owner = a
  Callers <- MCCallers
  StaUsers <- MCStaUsers
  None = None
  MaxWrappers = 2
  MaxFrames = 5
INVARIANTS
  BoundToItsThread
  CollectorRemembers
  NobodyWaitsInVain
CHECK_DEADLOCK FALSE
