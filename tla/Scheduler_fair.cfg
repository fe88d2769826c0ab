CONSTANTS
  w1 = w1
  w2 = w2
  c = c
  Workers <- TwoWorkers
  Caller = c
  UseCaller = TRUE
  Tasks = {k1, k2}
  PinTargets <- PinToCaller
  MaxHops = 1
  NoTask = NoTask
  AnyThread = AnyThread
SPECIFICATION FairSpec
INVARIANTS TypeOK ActiveCountExact StopDrains LeaveOnlyWhenQuiescent
PROPERTIES QuiescenceStable ImplementsTaskPool TaskEventuallyRuns StopReturns ImplementsFairTaskPool
