\* A forwarder that cannot listen.
SPECIFICATION PromoteSpec
CONSTANTS
  Conns = {}
  AddrsOf <- Steady
  Faults = {"bind"}
  MaxWrites = 1
  MaxFaults = 1
  MayGiveUp = FALSE
  MayStop = FALSE
INVARIANTS
  ConfirmedAlive
CHECK_DEADLOCK FALSE
