CONSTANTS
  Requests <- Plain
  MaxRequests = 2
  Pipelined = FALSE
  Split = TRUE
  PartialWrites = FALSE
SPECIFICATION FairSpec
PROPERTY MessageReturns
CHECK_DEADLOCK FALSE
