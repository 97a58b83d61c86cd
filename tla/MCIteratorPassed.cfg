SPECIFICATION BuildSpec
CONSTANTS
  U32Max = 7
  I64Half = 16
  IndSize = 2
  Builds = {TRUE}
  Requests <- MCRequests
INVARIANT
  IteratorPassed
CHECK_DEADLOCK FALSE
