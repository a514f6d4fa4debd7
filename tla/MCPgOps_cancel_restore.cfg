\* A client that goes away during a restore.
SPECIFICATION Spec
CONSTANTS
  Names = {"s1", "s2"}
  Timelines <- Fresh
  MayReplace = TRUE
  EngineFaults = {}
  WorldFaults = {"cancel"}
  MaxTasks = 2
  MaxWrites = 2
  MaxCrashes = 0
INVARIANTS
  NeverBetween
CHECK_DEADLOCK FALSE
