SPECIFICATION FairSpec
CONSTANTS
  NULL = NULL
  s0 = s0
  s1 = s1
  t1 = t1
  t2 = t2
  Slot = {s0}
  Thread = {t1}
  Ops = {"file", "buffer"}
  AddrMod = 8
  ChunkMax = 2
  MaxLen = 5
  MaxCards = 2
  Env = {}
INVARIANTS TypeOK NothingLeaks CallsLoaded Delivered LowMemSafe
PROPERTY Returns
CHECK_DEADLOCK FALSE
