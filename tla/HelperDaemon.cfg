SPECIFICATION FairSpec
CONSTANTS
  Torn = Torn
  Demo = Demo
  NoDoc = NoDoc
  Closed = Closed
  Linked = Linked
  MaxMaps = 2
  MaxFaults = 1
  MaxStarts = 2
CHECK_DEADLOCK FALSE
INVARIANTS TypeOK DemoMeansFailure FilesFollowMap
PROPERTIES ImplementsDocuments MapArrives FallBackWrites
