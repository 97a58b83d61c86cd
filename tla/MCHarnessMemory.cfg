SPECIFICATION Spec
CONSTANTS
  U32Max = 3
  I64Half = 7
  IndSize = 2
  Bytes <- MCBytes
  Undef = Undef
  Kernels <- AllKernels
  Apply <- MCApply
  Writes <- MCWrites
  Requests <- MemoryRequests
  MaxIterations = 2
INVARIANTS
  NoFault
  LeakFree
CHECK_DEADLOCK FALSE
