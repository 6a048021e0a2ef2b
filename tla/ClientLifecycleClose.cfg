SPECIFICATION Spec
CONSTANTS
  MaxEngines = 2
  Monitors = {"wgIface"}
CHECK_DEADLOCK FALSE
INVARIANT NoUseAfterClose
