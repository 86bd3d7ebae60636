\* An application that changes error modes and broadcasts.  An id that is free
\* again is reissued to the second connection.
CONSTANTS
  Conns = {c1, c2}
  None = None
  MAX_CLIENTS = 2
  AppModes = {0, 2, 3}
  AppKeys = TRUE
  MaxWrites = 2
SPECIFICATION FairSpec
INVARIANTS SingleRead NoSilentClient PendingRegistered
PROPERTIES TableSpec MisremovalCause FrameAfterUpgrade RefusedOnlyWhenFull SlotReclaimed
\* All connections used and closed, or the process ended: nothing is left to run.
CHECK_DEADLOCK FALSE
