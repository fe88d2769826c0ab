CONSTANTS
  t1 = t1
  t2 = t2
  c1 = c1
  c2 = c2
  s1 = s1
  s2 = s2
  Timers <- TwoTimers
  Recurring <- Recurs
  Clients <- TwoClients
  Sleepers <- OneSleeper
  Delays = {1, 2}
  MaxTime = 1
  Never = 9
  NoTimer = NoTimer
SPECIFICATION FairSpec

INVARIANTS CoveredSleep OneShotOnce
PROPERTIES FiresWhenDue DueTimersFire
CHECK_DEADLOCK FALSE
