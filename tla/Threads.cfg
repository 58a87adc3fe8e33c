CONSTANTS
  N = 7
  Producers = {p, q}
  Consumers = {c, d}
  Rounds = 2
SPECIFICATION ThreadsSpec
CHECK_DEADLOCK FALSE
INVARIANTS StartedLoopsExist QueueKept
PROPERTIES PoolComesUp GetsReturn
