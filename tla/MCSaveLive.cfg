CONSTANTS
  w1 = w1
  w2 = w2
  u2 = u2
  d1 = d1
  i2 = i2
  b1 = b1
  b2 = b2
  Acts = {w1, u2}
  Blocks = {b1, b2}
  InitialBlocks = {b1, b2}
  KindOf <- MCKindOf
  BlockOf <- MCBlockOf
  Refused = {u2}
  MaxTries = 1
  MaxSessions = 2
  Overlap = FALSE
  MaxOthers = 0
SPECIFICATION FairSpec
CHECK_DEADLOCK FALSE
PROPERTY EditsSettle
PROPERTY FlushAnswers
