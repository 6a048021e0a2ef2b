SPECIFICATION FairSpec
CONSTANTS
  MaxEngines = 1
  Monitors = {"network", "wgIface"}
CHECK_DEADLOCK FALSE
PROPERTIES CancelLeadsToExit ResetRetries
