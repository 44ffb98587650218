CONSTANTS
  u1 = u1
  u2 = u2
  root = root
  a1 = a1
  x1 = x1
  x2 = x2
  x3 = x3
  Customer <- TwoCustomers
  Account <- OneAccount
  Kinds <- EveryKind
  Txns = {x1, x2, x3}
  PoolSize = 3
SPECIFICATION FairSpec
INVARIANT EachOrderIsDeadlockFree
CHECK_DEADLOCK FALSE
PROPERTY EveryRequestEnds
