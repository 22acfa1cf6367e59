SPECIFICATION ContentsSpec
CONSTANTS
  NumBlocks = 12
  MaxBlocks = 3
  AnyFirst = FALSE
  KeepGoing = FALSE
  Character <- Characters
  BLOCK_SIZE = 2
  Files = {f, g}
  Inputs <- Lines
  Positions = {0, 1, 3, 4}
  Lengths = {2, 5}
  MaxCommands = 5
INVARIANTS
  ContentsInv
  StoredText
  ReadsRight
PROPERTY
  WritesMeant
CHECK_DEADLOCK FALSE
