CONSTANTS
  w1 = w1
  w2 = w2
  c = c
  Workers <- TwoWorkers
  Caller = c
  UseCaller = FALSE
  Tasks = {k1}
  PinTargets <- PinToWorker
  MaxHops = 1
  NoTask = NoTask
  AnyThread = AnyThread
SPECIFICATION Spec
INVARIANT SwapInAssertion
