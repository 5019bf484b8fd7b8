SPECIFICATION Spec
CONSTANTS
  NULL = NULL
  s0 = s0
  s1 = s1
  t1 = t1
  t2 = t2
  Slot = {s0}
  Thread = {t1}
  Ops = {"file"}
  AddrMod = 6
  ChunkMax = 2
  MaxLen = 3
  MaxCards = 1
  Env = {"wrap"}
INVARIANT LowMemSafe
CHECK_DEADLOCK FALSE
