SPECIFICATION Spec
CONSTANTS
  Procs = {p1, p2}
  NoLink = NoLink
  Nobody = Nobody
  MaxFaults = 1
INVARIANTS LinkAccounted KeyFileGone Working
