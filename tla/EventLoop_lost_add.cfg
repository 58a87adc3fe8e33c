CONSTANTS
  main = main
  w1 = w1
  w2 = w2
  c1 = c1
  c2 = c2
  c3 = c3
  None = None
  MainLoop = main
  Loops = {main, w1}
  Workers = {w1}
  Channels = {c1, c2, c3}
  Fds <- TwoFds
  FdOf <- FdReused
  WakeFd = 3
  ListenFd = 4
  Dispatcher = "epoll"
  PollSize = 2
  WakeCap = 2
SPECIFICATION Spec
CHECK_DEADLOCK FALSE
PROPERTY AddTakesEffect
