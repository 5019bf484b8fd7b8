SPECIFICATION Spec
CONSTANTS
  NULL = NULL
  s0 = s0
  s1 = s1
  t1 = t1
  t2 = t2
  Slot = {s0}
  Thread = {t1}
  Ops = {"file", "buffer"}
  AddrMod = 6
  ChunkMax = 2
  MaxLen = 3
  MaxCards = 2
  Env = {}
INVARIANT OneCard
CHECK_DEADLOCK FALSE
