\* One command at a time, every kind, with a failure, two restarts of the Mac and
\* an address that is not read anywhere.
CONSTANTS
  Addrs = {i1, i2, i3}
  Clis = {p1}
  Cmds = {"up", "down", "refresh", "ip", "deploy", "start", "stop", "promote", "rebuild"}
  MaxFaults = 1
  MaxMisses = 1
  MaxReboots = 2
SPECIFICATION Spec
SYMMETRY AddrSymmetry
PROPERTIES ActiveNeverTouched ReportedIsDone PromotedIsRunning
