SPECIFICATION FairSpec
CONSTANTS
  U32Max = 3
  I64Half = 7
  IndSize = 2
  NoName = NoName
  Invalid = Invalid
  Requests = {}
  Runs <- MCRuns
  Builds = {TRUE}
  Reports <- MCReports
  Settings <- MCSettings
  Iterations <- MCIterations
INVARIANTS
  PassTypeOK
  SelectedOnly
  OneReport
  UnforcedCompares
  ChangeReported
  EnvironmentDecides
  EveryReportServed
  StillSupported
PROPERTIES
  Terminates
CHECK_DEADLOCK FALSE
