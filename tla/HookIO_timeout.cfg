CONSTANTS
  Workers = {w1}
  MaxTurns = 2
  HasTimeout = TRUE
  Closes = FALSE
  IO = IO
  Close = Close
  NoTask = NoTask
SPECIFICATION Spec
INVARIANT CancelAssertion
CHECK_DEADLOCK FALSE
