CONSTANTS
  Keys = {1, 2, 3}
  MaxKeys = 2
SPECIFICATION FairSearch
PROPERTY AbsentReported
CHECK_DEADLOCK FALSE
