CONSTANTS
  Sizes <- SizesAroundLimits
  ShiftOutcomes = {0, 1, 255}
SPECIFICATION Spec
INVARIANT WritesBigEndian
CHECK_DEADLOCK FALSE
