CONSTANTS
  Keys = {1, 2, 3, 4, 5, 6, 7}
  MaxKeys = 5
SPECIFICATION FairSearch
INVARIANT FindsPosition
PROPERTY ReturnsAboveFirst
\* The search returns.
CHECK_DEADLOCK FALSE
