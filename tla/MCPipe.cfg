SPECIFICATION FairSpec
CONSTANTS
  Capacity = 5
  BUF = 2
  MaxRuns = 3
  MaxWrites = 4
INVARIANTS
  TypeOK
  BothMessages
  SpaceMeasured
PROPERTIES
  PipeEnds
CHECK_DEADLOCK FALSE
