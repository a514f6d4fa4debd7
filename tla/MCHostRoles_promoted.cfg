\* A promote while a rebuild waits for its confirmation.
CONSTANTS
  Addrs = {i1, i2, i3}
  Clis = {p1, p2}
  Cmds = {"promote", "rebuild"}
  MaxFaults = 0
  MaxMisses = 0
  MaxReboots = 0
SPECIFICATION Spec
SYMMETRY AddrSymmetry
PROPERTY ActiveNeverTouched
