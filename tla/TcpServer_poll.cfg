CONSTANTS
  main = main
  w1 = w1
  w2 = w2
  c1 = c1
  c2 = c2
  c3 = c3
  c4 = c4
  None = None
  MainLoop = main
  Loops = {main, w1, w2}
  Workers = {w1, w2}
  LoopOrder <- TwoThreads
  Channels = {c1, c2, c3, c4}
  Fds <- TwoFds
  FdOf <- FourAccepts
  WakeFd = 3
  ListenFd = 4
  Dispatcher = "poll"
  PollSize = 2
  WakeCap = 2
SPECIFICATION SrvSpec
INVARIANTS NoAbort NoLostWakeup RemoveIsSynchronous OneUser Balanced
PROPERTIES AddTakesEffect RequestWhenMessage
