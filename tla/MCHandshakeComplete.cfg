CONSTANT Keys <- MCKeys
SPECIFICATION MCSpec
INVARIANT CompleteRequestParsed
CHECK_DEADLOCK FALSE
