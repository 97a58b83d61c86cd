SPECIFICATION FairSpec
CONSTANTS
  Length <- MCLength
  MaxReads = 2
INVARIANTS
  ExchangeTypeOK
  KeptIsComplete
  KeptIsRead
PROPERTIES
  ReaderEnds
CHECK_DEADLOCK FALSE
