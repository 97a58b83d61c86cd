SPECIFICATION FairSpec
CONSTANTS
  U32Max = 3
  I64Half = 7
  IndSize = 2
  Requests = {}
  Modules <- MCModules
  MaxPrefixes = 2
  MaxFunctions = 6
INVARIANTS
  WalkTypeOK
  NeverReturnsChanged
  EachHasHarness
PROPERTIES
  DebugWalkEnds
CHECK_DEADLOCK FALSE
