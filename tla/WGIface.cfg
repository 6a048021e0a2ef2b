SPECIFICATION Spec
CONSTANTS
  Keys = {k1, k2}
  Ips = {i1, i2}
  Addrs = {a1, a2}
  Callers = {c1, c2}
  NoCaller = NoCaller
  Deps <- MCDeps
  NoMods = NoMods
INVARIANTS TypeOK RecorderFollows ClosedMeansGone
PROPERTY ImplementsTunnel
CHECK_DEADLOCK FALSE
