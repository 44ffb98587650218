CONSTANTS
  u1 = u1
  a1 = a1
  x1 = x1
  k1 = k1
  Null = Null
  NoRental = 0
  Users = {u1}
  Accounts = {a1}
  Rentals = {1}
  ExtTxs = {x1}
  AdjustKeys = {k1}
  Adjustments = {2}
  Pricings <- OnlySecured
  Durations = {1}
  Hour = 2
  PaymentWindow = 1
  ReviewWindow = 1
  Delay = 0
  MaxTime = 3
  MaxInt64 = 5
  Filters <- AllColumns
  PageSize = 1
  Overtaken = 2
SPECIFICATION ViewSpec
INVARIANTS EligibilityAgrees FlagsHold DetailAddsUp CountedIsListed PagesSkipNothing TotalCoversPage
CHECK_DEADLOCK FALSE
