\* A bootstrap that was killed while growing.
SPECIFICATION Spec
CONSTANTS
  Procs = {p1}
  Inodes = {i1}
  Sizes = {2, 3}
  MaxFaults = 1
  MaxSizes = 1
PROPERTIES
  ServedGrown
