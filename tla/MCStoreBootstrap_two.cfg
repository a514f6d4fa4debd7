\* Two bootstraps at once on a fresh machine.
SPECIFICATION PairSpec
CONSTANTS
  Procs = {p1, p2}
  Inodes = {i1, i2, i3}
  Sizes = {2}
  MaxFaults = 0
  MaxSizes = 0
SYMMETRY SymmetryOfTwo
INVARIANTS
  DataKept
