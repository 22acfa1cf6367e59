SPECIFICATION Spec
CONSTANTS
  NumBlocks = 13
  MaxBlocks = 2
  AnyFirst = FALSE
  KeepGoing = FALSE
PROPERTIES
  SpaceReclaimed
CHECK_DEADLOCK FALSE
