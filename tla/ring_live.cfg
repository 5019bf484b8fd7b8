SPECIFICATION FairSpec
CONSTANTS
  Num = 3
  MaxBlk = 4
  MapMax = 6
  WordMod = 9
  Chunks <- MCChunks
  MaxAttempts = 1
  Drained = TRUE
  Faults = {}
  NULL = NULL
INVARIANT InBounds
PROPERTY Completes
CHECK_DEADLOCK FALSE
