CONSTANTS
  Setters = {s1, s2}
  Listeners = {log, other}
  LogIniter = log
  Writers = {w1}
  n1 = n1
  n2 = n2
  Names = {n1, n2}
  Root = root
  Levels = {1, 2}
  Texts <- LogTexts
  Daemon = FALSE
  MainWaits = TRUE
  MaxLoads = 3
  Nothing = Nothing
SPECIFICATION Spec
INVARIANT ListenersInSync
