CONSTANTS
  People = {p, q}
  NoOne = NoOne
  Workers = {w1, w2}
  MaxCalls = 6
SPECIFICATION Spec
SYMMETRY Symmetry
INVARIANT AccountInv
PROPERTY LinksNotLost
CHECK_DEADLOCK FALSE
