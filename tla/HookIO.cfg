CONSTANTS
  Workers = {w1, w2}
  MaxTurns = 3
  HasTimeout = TRUE
  Closes = TRUE
  IO = IO
  Close = Close
  NoTask = NoTask
SPECIFICATION FairSpec
INVARIANTS ResumedOnce HeldIsAwaited
PROPERTIES CallReturns
CHECK_DEADLOCK FALSE
