CONSTANTS
  Clients = {t1, t2}
  Connections = {p1, p2}
  InitSize = 1
  MaxSize = 1
  None = None
SPECIFICATION FairSpec
PROPERTY GetConnectionReturns
