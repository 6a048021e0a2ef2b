SPECIFICATION FairSpec
CONSTANTS
  Waiters = {"start"}
  MaxMsgs = 4
CHECK_DEADLOCK FALSE
INVARIANTS NoMessageLost HandledInOrder NoWorkerLeft
PROPERTIES CancelEndsReceive CloseEnds
