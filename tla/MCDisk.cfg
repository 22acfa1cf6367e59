SPECIFICATION FairSpec
CONSTANTS
  NumBlocks = 11
  MaxBlocks = 3
  AnyFirst = TRUE
  KeepGoing = FALSE
INVARIANTS
  TypeOK
  Mirrored
  NoLeakNoShare
  DiskInv
  SavedIsSound
PROPERTIES
  NoCollateral
  WrittenExactly
  CommandsReturn
CHECK_DEADLOCK FALSE
