\* A client, promotes and address files that are rewritten and drift, and a
\* forwarder that dies, stops, cannot listen or cannot read.
SPECIFICATION FairSpec
CONSTANTS
  Conns = {c1}
  AddrsOf <- Drifting
  Faults = {"crash", "stop", "bind", "read"}
  MaxWrites = 2
  MaxFaults = 1
INVARIANTS
  StaleOnlyIfLate
  RolesApart
PROPERTIES
  Routes
  Settles
