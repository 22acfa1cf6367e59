SPECIFICATION FsSpec
CONSTANTS
  NumBlocks = 10
  MaxBlocks = 2
  AnyFirst = TRUE
  KeepGoing = FALSE
  Slots = 4
  BLOCK_SIZE = 2
  MaxOpen = 3
  Sizes = {1, 3}
  MaxCommands = 8
  Names <- AllNames
  Arguments <- FileArguments
  Longer <- BeginWith
  Tails <- ShortTails
INVARIANT ExitCloses
CHECK_DEADLOCK FALSE
