SPECIFICATION FsSpec
CONSTANTS
  NumBlocks = 10
  MaxBlocks = 2
  AnyFirst = TRUE
  KeepGoing = FALSE
  Slots = 4
  BLOCK_SIZE = 2
  MaxOpen = 3
  Sizes = {1, 3}
  MaxCommands = 6
  Names <- AllNames
  Arguments <- AllArguments
  Longer <- BeginWith
  Tails <- ShortTails
INVARIANTS
  FsTypeOK
  FsInv
  OpenLive
  SizesAgree
  TreeSound
  SavedTree
CHECK_DEADLOCK FALSE
