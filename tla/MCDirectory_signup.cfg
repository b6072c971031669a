\* Three requests of two people, slugs that collide, invites of one use.
CONSTANTS
  Requests = {r1, r2, r3}
  ada = ada
  bob = bob
  Principals = {ada, bob}
  Far = far
  Slugs = {s1, s2}
  Tokens <- MCTokens
  Uses = {1}
  SlugAttempts = 2
  None = None
SPECIFICATION Spec
SYMMETRY Symmetry
CHECK_DEADLOCK FALSE
INVARIANTS  OneHome InviteNotOverspent NoRaceFails
PROPERTIES NamedOnce
