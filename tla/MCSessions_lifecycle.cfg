\* One session, one handler, a task that loses its tunnel or goes at any time.
CONSTANTS
  Sessions = {s1}
  Requests = {r1}
  WsTimeout = 1
  PatchValues = {8, 12}
  Width = 8
  Longest = 1
  FreshFor = 0
  MaxSlack = 1
  MaxFlight = 1
  Policies <- MCPolicies
  Memory <- MCMemory
  MinFreeFloorMB = 768
  ProcsOK = TRUE
  Inherit = Inherit
  Unborn = Unborn
  Gone = Gone
  None = None
SPECIFICATION FairSpec
CHECK_DEADLOCK FALSE
PROPERTIES SweepSpares DeleteSpares IdleIsStopped
