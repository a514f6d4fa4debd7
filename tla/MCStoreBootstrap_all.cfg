\* One bootstrap at a time, killed, failing and restarted, the size raised.
SPECIFICATION FairSpec
CONSTANTS
  Procs = {p1}
  Inodes = {i1, i2, i3}
  Sizes = {2, 3, 4}
  MaxFaults = 4
  MaxSizes = 2
INVARIANTS
  ImageComplete
  DataKept
  BootOrder
  GrownOutsideIn
PROPERTIES
  NextServes
