SPECIFICATION FairSpec
CONSTANTS
  k1 = k1
  k2 = k2
  Keys <- MCKeys
  Versions = {"v1"}
  AllowedIps = {"a", "b", "bad"}
  Prefixes <- MCPrefixes
  Parse <- MCParse
  Invalid = "invalid"
  Checks = {"c1", "c2"}
  NoPeer = NoPeer
  NoSerial = NoSerial
  MaxSerial = 2
INVARIANTS OneMap StoppedHasNoPeers DisabledStoresNothing OnlyErrorsMiss
PROPERTIES SerialNeverRegresses ImplementsPeerView Recovers
