SPECIFICATION EditSpec
CONSTANTS
  ada = ada  ben = ben
  t1 = t1  t2 = t2  t3 = t3
  Users <- MCUsers
  NoUser = NoUser
  Tabs <- MCTabs
  UserOf <- MCUserOf
  TTL = 1
  MaxVersion = 3
INVARIANT EditIndInv
PROPERTIES
  DisplacedTabFenced
  EditBuiltOnWholeTree
  LiveLockShieldsPage
