SPECIFICATION Spec
CONSTANTS
  WordMod = 8
  ShiftBits = 4
  Block = 4
  Pad = 2
  LoadAddr <- MCLoadAddr
  SizeMod = 6
  FwSizes = {3}
  Env = {"bigtype"}
INVARIANT ImageFound
CHECK_DEADLOCK FALSE
