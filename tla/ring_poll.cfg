SPECIFICATION Spec
CONSTANTS
  Num = 2
  MaxBlk = 3
  MapMax = 4
  WordMod = 6
  Chunks <- MCChunks
  MaxAttempts = 1
  Drained = TRUE
  Faults = {"vanish"}
  NULL = NULL
INVARIANT SuccessIsDelivery
CHECK_DEADLOCK FALSE
