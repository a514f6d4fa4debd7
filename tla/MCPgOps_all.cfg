\* Every fault at once, two of the kills, on a slot as Up leaves it and on one with
\* two snapshots a restore of the first discards.
SPECIFICATION Spec
CONSTANTS
  Names = {"s1", "s2", "s3"}
  Timelines <- FreshOrFull
  MayReplace = TRUE
  EngineFaults = {"crash", "pending", "begin", "advance", "clear"}
  WorldFaults = {"cancel", "backend", "clone", "reboot"}
  MaxTasks = 2
  MaxWrites = 3
  MaxCrashes = 2
INVARIANTS
  Converged
  NothingLost
  NilMeansApplied
PROPERTIES
  Atomic
  RunningWhenCleared
  CopiedQuiesced
CHECK_DEADLOCK FALSE
