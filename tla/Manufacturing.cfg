SPECIFICATION StationSpec
CONSTANTS
  None = None
  Jobs = {j1, j2}
  Mine = {j1}
  Polls = {p1}
  Resets = {r1}
  Said = {"complete"}
  MaxRestarts = 1
INVARIANT WorkerOwnsTheRecord
INVARIANT ShownSuccessIsVerified
PROPERTY StationIsFreed
PROPERTY EndIsShown
CHECK_DEADLOCK FALSE
