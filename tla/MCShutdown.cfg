\* Two connections, a table of one client, and a second server in the same process.
SPECIFICATION FairSpec
CONSTANTS
  Conns = {c1, c2}
  None = None
  MAX_CLIENTS = 1
  MaxServers = 2
INVARIANTS
  UndefinedCause
  DeletedOnce
PROPERTY
  ShutdownCompletes
\* The application ends; or what follows is undefined.
CHECK_DEADLOCK FALSE
