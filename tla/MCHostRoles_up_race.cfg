\* A promote between an up's look at the pointer and its write.
CONSTANTS
  Addrs = {i1, i2}
  Clis = {p1, p2}
  Cmds = {"up", "promote"}
  MaxFaults = 0
  MaxMisses = 0
  MaxReboots = 0
SPECIFICATION Spec
SYMMETRY AddrSymmetry
PROPERTY UpKeepsRoles
