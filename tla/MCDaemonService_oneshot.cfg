\* pgdevd snapshot beside a snapshot of the daemon.
CONSTANTS
  Reqs = {r1}
  OneShots = {o1}
  OneShotOps = {"snapshot"}
  Ops = {"up", "snapshot"}
  MaxFaults = 0
  MaxUnresolved = 0
  MaxCancels = 0
SPECIFICATION Spec
CHECK_DEADLOCK FALSE
PROPERTY ReplaysOnlyInterrupted
