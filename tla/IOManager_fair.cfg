CONSTANTS
  w1 = w1
  w2 = w2
  c = c
  f = f
  Workers <- OneWorker
  Caller = c
  UseCaller = TRUE
  Tasks = {k1, k2}
  PinTargets = {}
  MaxHops = 0
  NoTask = NoTask
  AnyThread = AnyThread
  Arming = {k1, k2}
  FdOf <- OwnFd
SPECIFICATION IOFairSpec
PROPERTIES QueuedRuns TimersRun IOStopReturns
