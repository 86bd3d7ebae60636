\* Two clients, and two ids: both are in use at times, and both are reissued.
CONSTANTS
  Conns = {c1, c2}
  None = None
  MAX_CLIENTS = 3
  Arrivals <- MCArrivals
  Modes = {1, 2, 3}
  MaxWrites = 2
  MaxQueue = 1
  MaxList = 1
  Strings <- MCStrings
  Numbers = {0, 130}
  Streams <- MCStreams
  MaxRepeated = 1
SPECIFICATION MCSpec
SYMMETRY ConnSymmetry
VIEW WithoutHistory
INVARIANTS PoliteNotOverlapped RoundTrip MergeIsConcat ClearForgets
PROPERTIES AnswersAsker ToldOwnId NamedSender ExceptSender
\* The process may end.
CHECK_DEADLOCK FALSE
