\* Promotes that are interrupted while they wait.
SPECIFICATION PromoteSpec
CONSTANTS
  Conns = {}
  AddrsOf <- Steady
  Faults = {}
  MaxWrites = 2
  MaxFaults = 0
  MayGiveUp = TRUE
  MayStop = FALSE
INVARIANTS
  Promoted
CHECK_DEADLOCK FALSE
