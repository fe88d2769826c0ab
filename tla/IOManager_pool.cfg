CONSTANTS
  w1 = w1
  w2 = w2
  c = c
  f = f
  Workers <- TwoWorkers
  Caller = c
  UseCaller = TRUE
  Tasks = {k1, k2}
  PinTargets = {}
  MaxHops = 0
  NoTask = NoTask
  AnyThread = AnyThread
  Arming = {}
  FdOf <- SharedFd
SPECIFICATION IOSpec
SYMMETRY TaskSymmetry
INVARIANTS PendingCountCovers
PROPERTIES IOImplementsTaskPool
