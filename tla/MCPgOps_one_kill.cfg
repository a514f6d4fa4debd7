\* One kill during a restore, and the restart it takes.
SPECIFICATION Spec
CONSTANTS
  Names = {"s1", "s2"}
  Timelines <- Fresh
  MayReplace = TRUE
  EngineFaults = {"crash"}
  WorldFaults = {}
  MaxTasks = 1
  MaxWrites = 1
  MaxCrashes = 1
INVARIANTS
  NeverBetween
CHECK_DEADLOCK FALSE
