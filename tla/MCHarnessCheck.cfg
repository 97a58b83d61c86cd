SPECIFICATION TrueFairSpec
CONSTANTS
  U32Max = 3
  I64Half = 7
  IndSize = 2
  Bytes <- MCBytes
  Undef = Undef
  Kernels <- CheckKernels
  Apply <- MCApply
  Writes <- MCWrites
  Requests <- CheckRequests
  MaxIterations = 3
INVARIANTS
  HarnessTypeOK
  MirroredVisits
  Isolation
PROPERTIES
  ImplementsCommutativityCheck
  Terminates
CHECK_DEADLOCK FALSE
