\* Three shapes of task; kills, failing steps and a failing journal.
SPECIFICATION Spec
CONSTANTS
  Tasks = {"tail", "flush", "free"}
  StepCount <- MCStepCount
  CommitAt <- MCCommitAt
  HasUndo <- MCHasUndo
  Faults = {"crash", "pending", "begin", "do", "clear"}
INVARIANTS
  IInv
  NeverBetween
  NilMeansApplied
  EnsuredBeforeCleared
PROPERTIES
  DurableEndsApplied
  Atomic
