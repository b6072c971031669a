\* Two terminals, two placements, a relay that restarts.
CONSTANTS
  Clients = {c1, c2}
  Askers = {c1}
  Users = {u1, u2}
  SessionUser = u1
  Owner = u2
  Nobody = Nobody
  Boundary = "set"
  TTL = 0
  MaxTime = 1
  MaxGen = 2
  MaxTokens = 1
  MaxRestarts = 1
SPECIFICATION FairSpec
CHECK_DEADLOCK FALSE
INVARIANTS ReplayOnlyAtExpiry DrivenByOwner EndedMeansExited RunsAsItsUser
PROPERTIES StaleRouteEnds
