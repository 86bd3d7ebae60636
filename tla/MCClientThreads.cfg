\* Four connections pass through three ids.
CONSTANTS
  Conns = {1, 2, 3, 4}
  None = None
  MAX_CLIENTS = 4
  IO = io
  Apps = {app}
SPECIFICATION MCThreadSpec
INVARIANT LoopInv
PROPERTIES TableSpec UndefinedCause MutexReturned
\* The process may have ended, or met undefined behaviour.
CHECK_DEADLOCK FALSE
