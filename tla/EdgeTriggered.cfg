CONSTANTS
  Threads = {t1, t2}
  Clients = {a, b}
  Listen = listenfd
  Backlog = 2
  MaxEvent = 2
  ReadLen = 1
  MaxUnread = 2
  MaxFds = 2
SPECIFICATION Spec
CHECK_DEADLOCK FALSE
INVARIANTS NothingForgotten BacklogRemembered
PROPERTY EverythingRead
