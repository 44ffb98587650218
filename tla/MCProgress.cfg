CONSTANTS
  u1 = u1
  u2 = u2
  a1 = a1
  a2 = a2
  x1 = x1
  k1 = k1
  k2 = k2
  Null = Null
  NoRental = 0
  Users = {u1}
  Accounts = {a1, a2}
  Rentals = {1, 2}
  ExtTxs = {}
  AdjustKeys = {k1, k2}
  Adjustments = {4}
  Pricings <- OnlySecured
  Durations = {1}
  Hour = 2
  PaymentWindow = 1
  ReviewWindow = 1
  Delay = 0
  MaxTime = 3
  MaxInt64 = 6
SPECIFICATION FairSpec
PROPERTIES UnpaidReservationsEnd UsedUpRentalsExpire OnlyOverflowBlocksFinalizer
CHECK_DEADLOCK FALSE
