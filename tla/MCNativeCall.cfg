SPECIFICATION Spec
CONSTANTS
  Calls <- MCCalls
  Pairs <- MCPairs
INVARIANTS
  TypeOK
  ArgumentsWithinFrame
  CalleeFindsArguments
  FreedOnce
  NothingLeaks
  NoUseAfterFree
  

  
CHECK_DEADLOCK FALSE
