SPECIFICATION MCSpec
CONSTANTS
  None = None
  Devices = {d1}
  Procs = {p1, p2}
  Operations = {"disable", "stop", "reset", "crash", "timeout"}
  MaxStarts = 3
  MaxResets = 1
INVARIANT OneProcessPerDevice
INVARIANT DisabledMeansStopped
INVARIANT ConnectsAsOneEnrollment
PROPERTY CalmStartRuns
CHECK_DEADLOCK FALSE
