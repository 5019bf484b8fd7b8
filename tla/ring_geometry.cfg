SPECIFICATION Spec
CONSTANTS
  WordMod = 24
  HeaderSize = 80
  DescSize = 20
  BlockSize = 512
  Nums <- MCNums
  MaxBlks <- MCMaxBlks
  MapSizes <- MCMapSizes
  Csz <- MCCsz
INVARIANTS KindsApart WritesInMapping
CHECK_DEADLOCK FALSE
