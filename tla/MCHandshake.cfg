CONSTANT Keys <- MCKeys
SPECIFICATION MCSpec
INVARIANTS UndefinedOnlyAfterSplit RetryRecognised AcceptsKey
PROPERTY NoRecovery
\* The reply ends the model.
CHECK_DEADLOCK FALSE
