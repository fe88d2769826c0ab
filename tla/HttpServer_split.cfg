SPECIFICATION Spec
CONSTANTS
  Methods <- MCMethods
  FormType <- MCFormType
  Requests <- MCRequests
  Paths <- MCPaths
  Globs <- MCGlobs
  ServerName <- MCServerName
  Keepalive = TRUE
  Pipelining = FALSE
  BufSize = 100
  Broken = {1}
  MaxReads = 2
  MaxRequests = 1
  MaxChanges = 0
INVARIANT HandledAsSent
CHECK_DEADLOCK FALSE
