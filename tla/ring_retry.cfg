SPECIFICATION Spec
CONSTANTS
  Num = 2
  MaxBlk = 3
  MapMax = 4
  WordMod = 6
  Chunks <- MCChunks
  MaxAttempts = 2
  Drained = FALSE
  Faults = {"efault"}
  NULL = NULL
INVARIANT DeliveredOnSuccess
CHECK_DEADLOCK FALSE
