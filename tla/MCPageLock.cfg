SPECIFICATION Spec
CONSTANTS
  ada = ada  ben = ben
  t1 = t1  t2 = t2
  editor = editor  publisher = publisher
  edit = edit  publish = publish
  Users <- MCUsers
  NoUser = NoUser
  Tabs <- MCTabs
  UserOf <- MCUserOf
  Roles <- MCRoles
  NoRole = NoRole
  Grants <- MCGrants
  EditPerm = edit
  SettingsPerm = publish
  TTL = 1
  MaxVersion = 3
INVARIANT IndInv
PROPERTY LiveHolderOutranked
PROPERTY RowSpec
