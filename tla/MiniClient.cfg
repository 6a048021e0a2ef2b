SPECIFICATION MiniSpec
CONSTANTS
  Procs = {p1, p2}
  MaxKeys = 2
INVARIANTS KeyKept UpWorks
SYMMETRY Symmetry
