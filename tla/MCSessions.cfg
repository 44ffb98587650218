CONSTANTS
  u1 = u1
  u2 = u2
  u3 = u3
  t1 = t1
  t2 = t2
  t3 = t3
  c1 = c1
  c2 = c2
  Null = Null
  Users = {u1, u2}
  Provisioned = {u1}
  Tokens = {t1, t2, t3}
  Clients = {c1, c2}
  Updates <- OneField
SYMMETRY Interchangeable
SPECIFICATION Spec
INVARIANTS TypeOK AdminRemains OneSuccessor RotatedSessionsAreCurrent
PROPERTIES PrivilegesChangeOnRequest
CHECK_DEADLOCK FALSE
