CONSTANTS
  Addresses = {a1, a2}
  Conns = {c1, c2}
  MaxFds = 4
  Usages <- ReopenUsages
  Nobody = Nobody
SPECIFICATION FairSpec
INVARIANTS OwnDescriptor
CHECK_DEADLOCK FALSE
