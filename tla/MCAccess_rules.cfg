\* Two handlers at a time, one session, an owner, a member and a stranger.
CONSTANTS
  boss = boss
  ann = ann
  eve = eve
  Users = {boss, ann, eve}
  OrgRole <- MCOrgRole
  Requests = {r1, r2}
  Sessions = {s1}
  Scopes = {"owner", "org"}
  uidBase = 2
  MaxUid = 4
  None = None
SPECIFICATION Spec
SYMMETRY MCSymmetry
CHECK_DEADLOCK FALSE
INVARIANTS UidIsOwn RulesAgree OwnerReaches
