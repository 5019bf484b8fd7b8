SPECIFICATION HostFairSpec
CONSTANTS
  Num = 3
  MaxBlk = 4
  MapMax = 6
  WordMod = 9
  Chunks <- MCChunks
  MaxAttempts = 2
  Drained = TRUE
  Faults = {"timeout", "efault", "vanish"}
  NULL = NULL
INVARIANTS TypeOK MemIntact SetAfterData DeliveredOnSuccess NoOverrun
PROPERTIES Returns DeliversInOrder
CHECK_DEADLOCK FALSE
