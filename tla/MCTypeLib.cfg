SPECIFICATION Spec
CONSTANTS
  L1 = L1
  L2 = L2
  T1 = T1
  T2 = T2
  NoInfo = NoInfo
  ITypeLib = {L1, L2}
  ITypeInfo = {T1, T2}
  LibOf <- MCLibOf
  MaxObjects = 4
  MaxHeld = 2
  MaxRefs = 3
INVARIANTS
  TypeOK
  CountedReferences
  
  CachesAreLive
PROPERTY
  OneObjectPerType
CHECK_DEADLOCK FALSE
