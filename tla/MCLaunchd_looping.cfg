\* Somebody has the ports.
CONSTANTS
  Clis = {p1}
  MaxOthers = 0
  MaxBootouts = 3
  MaxBootstraps = 2
  MaxFaults = 1
  MaxMisses = 0
SPECIFICATION Spec
PROPERTY HealthyServes
