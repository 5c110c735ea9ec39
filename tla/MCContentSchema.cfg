CONSTANTS
  A = A  B = B
  e1 = e1  e2 = e2
  w1 = w1  w2 = w2
  kA = kA  kB = kB  kC = kC
  f1 = f1  f2 = f2
  k1 = k1  k2 = k2
  s1 = s1
  p1 = p1  p2 = p2
  None = None
  Types = {A, B}
  Owner = A
  TypeKeys = {kA, kB, kC}
  Fields = {f1, f2}
  Keys = {k1, k2}
  Entries = {e1, e2}
  TypeOf <- MCTypeOf
  Patterns = {p1, p2}
  Slugs = {s1}
  Workers = {w1, w2}
  MaxCalls = 3
  Field0 = f1
  Key0 = k1
  TypeKey0 <- MCTypeKey0
SPECIFICATION Spec
CHECK_DEADLOCK FALSE
SYMMETRY Alike
INVARIANT SchemaInv
PROPERTY WritesFit
PROPERTY TypeKeysFollow
