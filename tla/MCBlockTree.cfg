CONSTANTS
  Types <- MCTypes
  Kind <- MCKind
  Takes <- MCTakes
  Starters <- MCStarters
  Rank <- MCRank
  Pages0 <- MCPages
  Step = 4
  MaxSections = 2
  MaxLevel = 4
  Cap = 2
  Circles = FALSE
  MaxBlocks = 14
  Calls = {"insert", "move", "delete", "restore"}
  MaxEdits = 2
  MaxHistory = 2
SPECIFICATION Spec
CHECK_DEADLOCK FALSE
 
PROPERTY OnlyKnownRefusals
PROPERTY LandsWhereShown
PROPERTY UndoRestores
PROPERTY KeepsOutline
