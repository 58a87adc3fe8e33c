CONSTANTS
  Clients = {t1, t2, t3}
  Connections = {p1, p2, p3, p4, p5}
  InitSize = 3
  MaxSize = 5
  None = None
SPECIFICATION FairSpec
INVARIANTS Exclusive CountExact ProducerThereForWaiters
PROPERTY GetConnectionReturns
