CONSTANTS
  u1 = u1
  u2 = u2
  t1 = t1
  t2 = t2
  NoUser = NoUser
  Users = {u1, u2}
  Tabs = {t1, t2}
  UserOf <- MCUserOf
  TTL = 2
  MaxVersion = 2
  Punctual = TRUE
  MaxMisses = 1
SPECIFICATION FairSpec
INVARIANT ClientInv
PROPERTY FreePageReopens
