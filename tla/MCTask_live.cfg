\* Three shapes of task and every fault, until there are no more.
SPECIFICATION FairSpec
CONSTANTS
  Tasks = {"tail", "flush", "free"}
  StepCount <- MCStepCount
  CommitAt <- MCCommitAt
  HasUndo <- MCHasUndo
  Faults = {"crash", "pending", "begin", "do", "advance", "undo", "ensure", "clear"}
PROPERTIES
  RestartResolves
