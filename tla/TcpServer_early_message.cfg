CONSTANTS
  main = main
  w1 = w1
  w2 = w2
  c1 = c1
  c2 = c2
  c3 = c3
  c4 = c4
  None = None
  MainLoop = main
  Loops = {main, w1}
  Workers = {w1}
  LoopOrder <- OneThread
  Channels = {c1, c2, c3}
  Fds <- TwoFds
  FdOf <- OneFailedAccept
  WakeFd = 3
  ListenFd = 4
  Dispatcher = "poll"
  PollSize = 3
  WakeCap = 1
SPECIFICATION SrvSpec
PROPERTY DataWhenMessage
