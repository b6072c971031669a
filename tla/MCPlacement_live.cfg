\* Two callers, two generations, an unreliable runner link; liveness included.
CONSTANTS
  Callers = {c1, c2}
  Reaper = reaper
  None = None
  MaxInc = 1
  MaxGen = 2
  MaxRestarts = 0
  Reaping = FALSE
  Deleting = FALSE
  Faults = {"link", "answer", "drop", "exit"}
SPECIFICATION FairSpec
INVARIANTS TypeOK FreshKey
PROPERTIES PlacementNotUndercut EnsureReturns ReplacedTaskExits
