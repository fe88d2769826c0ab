SPECIFICATION Spec
CONSTANTS
  Methods <- MCMethods
  FormType <- MCFormType
  Requests <- MCRequests
  Paths <- MCPaths
  Globs <- MCGlobs
  ServerName <- MCServerName
  Keepalive = TRUE
  Pipelining = FALSE
  BufSize = 100
  Broken = {1}
  MaxReads = 2
  MaxRequests = 2
  MaxChanges = 2
INVARIANTS IntactAtTokenCuts StableServletFound ResponseRoundTrip
PROPERTY Answered
CHECK_DEADLOCK FALSE
