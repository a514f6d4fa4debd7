\* The machines come back with each other's lease; staging stop.
CONSTANTS
  Addrs = {i1, i2}
  Clis = {p1}
  Cmds = {"stop"}
  MaxFaults = 0
  MaxMisses = 0
  MaxReboots = 1
SPECIFICATION Spec
SYMMETRY AddrSymmetry
PROPERTY StagingOnly
