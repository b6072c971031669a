\* The reaper stops and preserves while a caller places and the control plane restarts.
CONSTANTS
  Callers = {c1}
  Reaper = reaper
  None = None
  MaxInc = 1
  MaxGen = 2
  MaxRestarts = 1
  Reaping = TRUE
  Deleting = FALSE
  Faults = {"db", "stop", "preserve"}
SPECIFICATION Spec
INVARIANTS RowSnapshotExists
