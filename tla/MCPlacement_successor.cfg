\* The workspace is deleted and created again under a sweep, and its token repeats.
CONSTANTS
  Callers = {c1}
  Reaper = reaper
  None = None
  MaxInc = 2
  MaxGen = 1
  MaxRestarts = 0
  Reaping = TRUE
  Deleting = TRUE
  Faults = {"stop", "start", "exit", "lookup", "token"}
SPECIFICATION Spec
CHECK_DEADLOCK FALSE
INVARIANTS OneTaskPerGeneration
PROPERTIES SweepSparesSuccessor AnsweredByRunningTask
