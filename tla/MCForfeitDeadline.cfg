CONSTANTS
  u1 = u1
  u2 = u2
  a1 = a1
  a2 = a2
  x1 = x1
  k1 = k1
  k2 = k2
  Null = Null
  NoRental = 0
  Users = {u1}
  Accounts = {a1}
  Rentals = {1}
  ExtTxs = {x1}
  AdjustKeys = {k1}
  Adjustments = {3}
  Pricings <- OnlySecured
  Durations = {1}
  Hour = 3
  PaymentWindow = 1
  ReviewWindow = 1
  Delay = 1
  MaxTime = 7
  MaxInt64 = 3
SPECIFICATION Spec
PROPERTY ForfeitedBeforeDeadline
CHECK_DEADLOCK FALSE
