SPECIFICATION Spec
CONSTANTS
  None = None
  Npmrcs <- MCNpmrcs
  Hosts = {"h", "o"}
  Paths <- MCPaths
  MaxBytes = 2
  Idle = 1
  Deadline = 3
INVARIANTS AnsweredByLast CredentialInScope SettledInTime
PROPERTY SocketsReleased
CHECK_DEADLOCK FALSE
