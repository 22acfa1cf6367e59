SPECIFICATION FairSpec
CONSTANT
  Lines = {"a", "b", "c", "d", "e"}
  MaxRestarts = 3
INVARIANTS
  TypeOK
  MemInv
  RemovedLast
PROPERTIES
  HandsOver
  ExitAnswered
CHECK_DEADLOCK FALSE
