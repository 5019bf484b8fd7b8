SPECIFICATION Spec
CONSTANTS
  WordMod = 8
  ShiftBits = 4
  Block = 4
  Pad = 2
  LoadAddr <- MCLoadAddr
  SizeMod = 6
  FwSizes = {3, 7}
  Env = {}
INVARIANTS ReadsInBlob ImageFound ImagesWhole
CHECK_DEADLOCK FALSE
