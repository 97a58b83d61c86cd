SPECIFICATION BuildSpec
CONSTANTS
  U32Max = 7
  I64Half = 16
  IndSize = 2
  Requests <- MCRequests
  Builds = {TRUE, FALSE}
INVARIANTS
  TypeOK
  BuildsSoundHarness
CHECK_DEADLOCK FALSE
