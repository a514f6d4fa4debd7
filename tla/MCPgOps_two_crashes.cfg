\* Two kills during a snapshot that replaces another.
SPECIFICATION Spec
CONSTANTS
  Names = {"s1", "s2"}
  Timelines <- Fresh
  MayReplace = TRUE
  EngineFaults = {"crash"}
  WorldFaults = {}
  MaxTasks = 2
  MaxWrites = 2
  MaxCrashes = 2
INVARIANTS
  NeverBetween
CHECK_DEADLOCK FALSE
