\* Two workspaces of one name, two callers, a task that redials and one that replaces it.
CONSTANTS
  acme = acme
  zeta = zeta
  rb = rb
  Keys <- MCKeys
  Tasks = {a1, a2}
  KeyOf <- MCKeyOf
  Blocking = {a1}
  Conns = {x1, x2}
  Runners = {ra, rb}
  TenantOf <- MCTenantOf
  Protocol <- MCProtocol
  MinProtocolVersion = 1
  ProtocolVersion = 2
  Callers = {c1, c2}
  None = None
SPECIFICATION Spec
SYMMETRY MCSymmetry
CHECK_DEADLOCK FALSE
INVARIANTS OwnOrganization HandlerNotHeldUp
PROPERTIES RegistryIsRendezvous VerdictsAreRendezvous
