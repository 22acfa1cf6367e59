SPECIFICATION FairSpec
CONSTANT
  Lines = {"a", "b", "c", "d", "e"}
  MaxRestarts = 3
PROPERTY
  ExitStopsSender
CHECK_DEADLOCK FALSE
