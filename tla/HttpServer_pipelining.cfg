SPECIFICATION Spec
CONSTANTS
  Methods <- MCMethods
  FormType <- MCFormType
  Requests <- MCRequests
  Paths <- MCPaths
  Globs <- MCGlobs
  ServerName <- MCServerName
  Keepalive = TRUE
  Pipelining = TRUE
  BufSize = 100
  Broken = {1}
  MaxReads = 1
  MaxRequests = 2
  MaxChanges = 0
INVARIANT IntactAtTokenCuts
PROPERTY Answered
CHECK_DEADLOCK FALSE
