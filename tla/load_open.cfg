SPECIFICATION Spec
CONSTANTS
  u1 = u1
  u2 = u2
  s0 = s0
  s1 = s1
  User = {u1, u2}
  Slot = {s0, s1}
  Env = {"early_open"}
INVARIANT EntryReady
CHECK_DEADLOCK FALSE
