\* A user rebuilds the staging machine until it serves.
CONSTANTS
  Addrs = {i1, i2, i3}
  Clis = {p1}
  Cmds = {"stop", "rebuild"}
  MaxFaults = 2
  MaxMisses = 1
  MaxReboots = 1
SPECIFICATION FairSpec
PROPERTY AlwaysStagingAgain
