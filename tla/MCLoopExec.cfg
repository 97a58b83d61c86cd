SPECIFICATION FairSpec
CONSTANTS
  U32Max = 15
  I64Half = 32
  MaxStep = 15
  Steps <- MCSteps
INVARIANTS
  TypeOK
  IndexInRange
  NeverTwice
  CompleteAtExit
PROPERTIES
  ImplementsIterationSpace
  Terminates
CHECK_DEADLOCK FALSE
