CONSTANTS
  Addresses = {a1, a2}
  Conns = {c1, c2}
  MaxFds = 4
  Usages <- StopUsages
  Nobody = Nobody
SPECIFICATION FairSpec
PROPERTIES StopEnds
CHECK_DEADLOCK FALSE
