SPECIFICATION FairSpec
CONSTANTS
  Senders = {s1, s2}
  MaxRuns = 3
INVARIANTS
  TypeOK
  OnlyLastAnswerLost
  LateByLeftover
PROPERTIES
  FreshTakesTurns
  FreshEnds
CHECK_DEADLOCK FALSE
