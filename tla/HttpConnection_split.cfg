CONSTANTS
  Requests <- Unusual
  MaxRequests = 3
  Pipelined = TRUE
  Split = TRUE
  PartialWrites = FALSE
SPECIFICATION Spec
INVARIANTS AnswersMatch StreamKept CrashesExplained
CHECK_DEADLOCK FALSE
