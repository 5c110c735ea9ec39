CONSTANTS
  p1 = p1
  p2 = p2
  p3 = p3
  s1 = s1
  s2 = s2
  u1 = u1
  u2 = u2
  w1 = w1
  w2 = w2
  NoPage = NoPage
  Pages = {p1, p2, p3}
  Slugs = {s1, s2}
  Patterns = {u1, u2}
  Writers = {w1, w2}
  MaxDepth = 3
  MaxCalls = 3
SPECIFICATION Spec
CHECK_DEADLOCK FALSE
SYMMETRY Alike
INVARIANT AddressesFollowTree
PROPERTY RestoreUndoesOneTrash
PROPERTY NoLostUpdate
PROPERTY LeftIsRecorded
CONSTRAINT Small
