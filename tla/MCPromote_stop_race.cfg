\* A backend is stopped while a promote checks.
SPECIFICATION PromoteSpec
CONSTANTS
  Conns = {}
  AddrsOf <- Steady
  Faults = {}
  MaxWrites = 1
  MaxFaults = 0
  MayGiveUp = FALSE
  MayStop = TRUE
PROPERTIES
  FlipsOntoRunning
CHECK_DEADLOCK FALSE
