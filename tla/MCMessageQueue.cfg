SPECIFICATION FairSpec
CONSTANTS
  Senders = {s1, s2}
  EmptySlots = 10
INVARIANTS
  TypeOK
  QueueInv
  OneLineAtATime
  RemovedLast
  AnswersReachSenders
PROPERTIES
  TakesTurns
  LinesAttended
  EveryoneEnds
CHECK_DEADLOCK FALSE
