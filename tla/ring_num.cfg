SPECIFICATION Spec
CONSTANTS
  Num = 3
  MaxBlk = 4
  MapMax = 5
  WordMod = 8
  Chunks <- MCChunks
  MaxAttempts = 1
  Drained = TRUE
  Faults = {}
  NULL = NULL
INVARIANT SetAfterData
CHECK_DEADLOCK FALSE
