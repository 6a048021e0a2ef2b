SPECIFICATION Spec
CONSTANTS
  MaxEngines = 2
  Monitors = {"wgIface"}
CHECK_DEADLOCK FALSE
INVARIANTS OneInterface RoutingOwned ExitSettles
