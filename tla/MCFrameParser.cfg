\* Frames of all three length forms, cut and packed into reads in every way.
CONSTANTS
  Bytes = {0, 2, 127, 129, 254}
  MAX_DATA_SIZE = 12
  MaxReads = 1
  MaxFrame = 2
SPECIFICATION Spec
INVARIANTS DeliversFirst MissesOnlyEmpty PacketIntact
CHECK_DEADLOCK FALSE
