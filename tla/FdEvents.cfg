CONSTANTS
  Fds = {1, 2, 3}
  Events = {READ, WRITE}
  READ = READ
  WRITE = WRITE
  Threads = {t1, t2}
  t1 = t1
  t2 = t2
  Usages <- SafeUsages
  InitialSize = 2
  MaxContexts = 2
  ERR = ERR
  NoContext = NoContext
  NoEvent = NoEvent
SPECIFICATION Spec
INVARIANTS NoFailure Consistent
