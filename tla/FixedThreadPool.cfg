CONSTANTS
  Client = {c1, c2}
  Worker = {w1, w2}
  Task = {t1, t2, t3}
  Object = {pool, other}
  First = pool
  None = None
SPECIFICATION FairSpec
INVARIANTS
  WorkConserving
  DrainedAtExit
PROPERTIES
  ImplementsExecutor
  WorkersEnd
CHECK_DEADLOCK FALSE
