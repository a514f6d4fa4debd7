\* The machines come back with other leases; refresh.
CONSTANTS
  Addrs = {i1, i2, i3}
  Clis = {p1}
  Cmds = {"refresh"}
  MaxFaults = 0
  MaxMisses = 0
  MaxReboots = 1
SPECIFICATION Spec
SYMMETRY AddrSymmetry
PROPERTY RefreshedIsLive
