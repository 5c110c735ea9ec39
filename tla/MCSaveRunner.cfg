CONSTANTS
  w1 = w1
  w2 = w2
  u2 = u2
  d1 = d1
  i2 = i2
  b1 = b1
  b2 = b2
  Acts = {w1, w2, d1}
  Blocks = {b1}
  InitialBlocks = {b1}
  KindOf <- MCKindOf
  BlockOf <- MCBlockOf
  Refused = {}
  MaxTries = 2
  MaxSessions = 1
  Overlap = FALSE
  MaxOthers = 1
SPECIFICATION Spec
CHECK_DEADLOCK FALSE
SYMMETRY Alike
INVARIANT RunnerInv
INVARIANT SavedMeansSaved
INVARIANT AcceptedIsSeen
INVARIANT SentOnceInOrder
