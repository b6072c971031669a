\* A verdict forgotten by the teardown of the tunnel before.
CONSTANTS
  acme = acme
  zeta = zeta
  rb = rb
  Keys <- MCKeys
  Tasks = {a1}
  KeyOf <- MCKeyOf
  Blocking = {a1}
  Conns = {x1, x2}
  Runners = {ra, rb}
  TenantOf <- MCTenantOf
  Protocol <- MCProtocol
  MinProtocolVersion = 1
  ProtocolVersion = 2
  Callers = {c1}
  None = None
SPECIFICATION Spec
SYMMETRY MCSymmetry
CHECK_DEADLOCK FALSE
PROPERTIES FailsClosed
