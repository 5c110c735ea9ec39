CONSTANTS
  w1 = w1
  w2 = w2
  NoOne = NoOne
  Writers = {w1, w2}
  Locales <- MCLocales
  Settings <- MCSettings
  Cap = 1
  MaxCalls = 2
SPECIFICATION Spec
CHECK_DEADLOCK FALSE
SYMMETRY Alike
INVARIANT EntryInv
PROPERTY CopiesKept
 
PROPERTY LocksShield
