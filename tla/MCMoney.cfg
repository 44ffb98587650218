CONSTANTS
  u1 = u1
  u2 = u2
  a1 = a1
  a2 = a2
  x1 = x1
  k1 = k1
  k2 = k2
  Null = Null
  NoRental = 0
  Users = {u1, u2}
  Accounts = {a1}
  Rentals = {1, 2}
  ExtTxs = {x1}
  AdjustKeys = {k1, k2}
  Adjustments <- UpAndDown
  Pricings <- BothPricings
  Durations = {1}
  Hour = 2
  PaymentWindow = 1
  ReviewWindow = 1
  Delay = 0
  MaxTime = 4
  MaxInt64 = 4
SYMMETRY Interchangeable
SPECIFICATION Spec
INVARIANTS WalletMatchesLedger ChargedExactlyOnce DepositSettledOnce PaidBackWithinPaid RedeliveryIsRecognised
PROPERTIES DecisionsAreFinal HoldsMoney
CHECK_DEADLOCK FALSE
