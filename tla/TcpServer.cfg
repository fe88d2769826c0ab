CONSTANTS
  Addresses = {a1, a2}
  Conns = {c1, c2}
  MaxFds = 4
  Usages <- SafeUsages
  Nobody = Nobody
SPECIFICATION FairSpec
INVARIANTS OwnDescriptor
PROPERTIES StopEnds NobodyWaits BindSucceeds
CHECK_DEADLOCK FALSE
