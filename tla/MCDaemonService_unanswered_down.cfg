\* A Down asks for the container, `incus info` fails, and the data goes.
CONSTANTS
  Reqs = {r1}
  OneShots = {}
  OneShotOps = {"snapshot"}
  Ops = {"up", "down"}
  MaxFaults = 1
  MaxUnresolved = 0
  MaxCancels = 0
SPECIFICATION Spec
CHECK_DEADLOCK FALSE
INVARIANT DataUnderContainer
