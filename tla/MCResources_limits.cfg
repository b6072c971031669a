\* Five machines, a ring of two samples, memory under, at and over the limit.
CONSTANTS
  Hosts <- MCHosts
  Mega = 2
  Uses = {1, 5, 9}
  MaxCpu = 2
  Traffic = {0, 2}
  RingSize = 2
  Policies <- MCPolicies
  FreshFor = 1
  MinFreeFloorMB = 1
  Absent = Absent
  Unlimited = Unlimited
  None = None
SPECIFICATION ResourcesSpec
INVARIANTS RoomIsReal LimitIsKnown HistoryIsHonest
