CONSTANTS
  Addresses = {a1, a2}
  Conns = {c1, c2}
  MaxFds = 4
  Usages <- RestartUsages
  Nobody = Nobody
SPECIFICATION FairSpec
PROPERTIES ClientsEnd
CHECK_DEADLOCK FALSE
