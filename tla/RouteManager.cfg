SPECIFICATION FairSpec
CONSTANTS
  a = a
  b = b
  exit = exit
  lo = lo
  lan = lan
  all = all
  loopback = loopback
  Networks = {a, b, exit, lo}
  Prefixes = {lan, all, loopback}
  PrefixOf <- MCPrefixOf
  Default = all
  NotAllowed = {loopback}
  Blackhole = blackhole
  NoItem = NoItem
  RuleCount = 2
  MaxFaults = 2
INVARIANTS RoutesConsistent NoStaleRoutes V6Blocked CleanStop
PROPERTIES Retried
