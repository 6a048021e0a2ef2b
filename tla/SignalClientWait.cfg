SPECIFICATION FairSpec
CONSTANTS
  Waiters = {"start"}
  MaxMsgs = 1
CHECK_DEADLOCK FALSE
PROPERTY WaitEnds
