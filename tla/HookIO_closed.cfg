CONSTANTS
  Workers = {w1, w2}
  MaxTurns = 2
  HasTimeout = FALSE
  Closes = TRUE
  IO = IO
  Close = Close
  NoTask = NoTask
SPECIFICATION Spec
INVARIANT ClosedNotAwaited
CHECK_DEADLOCK FALSE
