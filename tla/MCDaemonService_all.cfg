\* Two requests of any kind, a failure, kill or restart between any two steps,
\* a client that goes away and a task that cannot be resolved.
CONSTANTS
  Reqs = {r1, r2}
  OneShots = {}
  OneShotOps = {"snapshot"}
  Ops = {"up", "down", "start", "stop", "reconcile", "snapshot", "restore"}
  MaxFaults = 1
  MaxUnresolved = 1
  MaxCancels = 1
SPECIFICATION FairSpec
CHECK_DEADLOCK FALSE
INVARIANTS KeptUnderContainer GoldenComplete
PROPERTIES UpLeavesReady ReplaysOnlyInterrupted AlwaysReadyAgain DaemonComesBack
