CONSTANTS
  w1 = w1
  w2 = w2
  c = c
  f = f
  Workers <- OneWorker
  Caller = c
  UseCaller = FALSE
  Tasks = {k1}
  PinTargets = {}
  MaxHops = 0
  NoTask = NoTask
  AnyThread = AnyThread
  Arming = {}
  FdOf <- OwnFd
SPECIFICATION IOSpec
INVARIANT StoppedAssertion
