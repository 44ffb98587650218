CONSTANTS
  Accounts = {a1}
  Apps = {g1, g2}
  Admins = {w1}
  Job = Job
  MaxRetries = 2
SPECIFICATION FairSpec
INVARIANTS OneRowPerGame LibraryIsWhole
PROPERTIES DisabledForBan BannedAccountsLeave
