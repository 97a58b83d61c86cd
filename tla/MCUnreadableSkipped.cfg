SPECIFICATION Spec
CONSTANTS
  U32Max = 3
  I64Half = 7
  IndSize = 2
  NoName = NoName
  Invalid = Invalid
  Requests = {}
  Runs <- MCRuns
  Builds = {FALSE}
  Reports <- BrokenReports
  Settings <- DefaultSettings
  Iterations <- MCIterations
INVARIANT
  UnreadableSkipped
CHECK_DEADLOCK FALSE
