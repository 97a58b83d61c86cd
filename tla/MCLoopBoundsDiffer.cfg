SPECIFICATION Spec
CONSTANTS
  U32Max = 3
  I64Half = 7
  IndSize = 2
  NoName = NoName
  Invalid = Invalid
  Requests = {}
  Runs <- MCRuns
  Builds = {FALSE}
  Reports <- MCReports
  Settings <- DefaultSettings
  Iterations <- DefaultIterations
INVARIANT
  LoopBoundsDiffer
CHECK_DEADLOCK FALSE
