\* Deploying when the live address could not be read.
CONSTANTS
  Addrs = {i1, i2}
  Clis = {p1}
  Cmds = {"deploy"}
  MaxFaults = 0
  MaxMisses = 1
  MaxReboots = 1
SPECIFICATION Spec
SYMMETRY AddrSymmetry
PROPERTY DeployedMeansLive
