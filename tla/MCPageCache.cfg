CONSTANTS
  p1 = p1
  p2 = p2
  k1 = k1
  k2 = k2
  v1 = v1
  v2 = v2
  NoEntry = NoEntry
  NoPage = NoPage
  NoKey = NoKey
  GlobalTag = GlobalTag
  Keys = {k1, k2}
  Pages = {p1, p2}
  Visitors = {v1, v2}
  Tags <- MCTags
  Contents <- MCContents
  Subtree <- MCSubtree
  Links <- MCLinks
  Bytes <- MCBytes
  MaxEntries = 2
  MaxBytes = 2
  MaxStamps = 1
  MaxWrites = 1
SPECIFICATION Spec
SYMMETRY Alike
INVARIANT CacheInv
INVARIANT StaleOnlyBeforePurge
INVARIANT AnswersAreFresh
