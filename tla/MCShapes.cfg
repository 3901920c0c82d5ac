CONSTANTS
  GROUP = 4
  MaxTree = 256
  WIDTH = 12
  Levels = 4
SPECIFICATION Spec
INVARIANTS
  GroupsFormATree
  LevelsFit
CHECK_DEADLOCK FALSE
