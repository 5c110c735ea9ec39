CONSTANTS
  b1 = b1
  b2 = b2
  b3 = b3
  w1 = w1
  w2 = w2
  NoBlock = NoBlock
  Blocks = {b1, b2, b3}
  Writers = {w1, w2}
  Pages0 <- MCPages
  Current = 2
  Cap = 2
  Tolerant = TRUE
  MaxCalls = 4
SPECIFICATION Spec
CHECK_DEADLOCK FALSE
SYMMETRY Alike
INVARIANT StoreInv
PROPERTY KeepsTheNewest
PROPERTY NoBlindOverwrite
PROPERTY RestoreIsWhole
