\* The packets alone: two clients, and a packet that is relayed or kept.
CONSTANTS
  Conns = {c1, c2}
  None = None
  MAX_CLIENTS = 3
  Arrivals <- MCArrivals
  Modes = {1}
  MaxWrites = 2
  MaxQueue = 0
  MaxList = 1
  Strings = {}
  Numbers = {}
  Streams = {}
  MaxRepeated = 0
SPECIFICATION MCSpec
PROPERTY TellsOriginalSender
\* The process may end.
CHECK_DEADLOCK FALSE
