\* Promotes that are refused, abandoned or waited for, one after the other, and
\* a forwarder that dies, stops, cannot listen or cannot read.
SPECIFICATION PromoteSpec
CONSTANTS
  Conns = {}
  AddrsOf <- Drifting
  Faults = {"crash", "stop", "bind", "read"}
  MaxWrites = 3
  MaxFaults = 1
  MayGiveUp = TRUE
  MayStop = TRUE
INVARIANTS
  ConfirmedRouted
CHECK_DEADLOCK FALSE
