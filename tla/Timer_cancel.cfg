CONSTANTS
  t1 = t1
  t2 = t2
  c1 = c1
  c2 = c2
  s1 = s1
  s2 = s2
  Timers <- OneTimer
  Recurring = {}
  Clients <- OneClient
  Sleepers <- OneSleeper
  Delays = {0, 1}
  MaxTime = 1
  Never = 9
  NoTimer = NoTimer
SPECIFICATION Spec
PROPERTY CancelErasesListed
CHECK_DEADLOCK FALSE
