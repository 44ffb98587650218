--------------------------- MODULE RentalLifecycle ---------------------------
(***************************************************************************)
(* The rental aggregate of GameRent: game accounts, their rentals, the     *)
(* payment of each rental, its deposit hold and refund, the customers'     *)
(* wallets and the financial ledger, as the rows that PostgreSQL keeps.    *)
(*                                                                         *)
(* One action is one committed database transaction of one handler or of   *)
(* one background-job iteration.  Each of them locks the rows it decides   *)
(* on (SELECT ... FOR UPDATE) before it decides, so committed transactions *)
(* are atomic (for the one exception see RentAccount); a handler that      *)
(* returns an error rolls back and changes nothing.  What is not atomic is *)
(* kept: a handler captures the wall clock before it waits for its locks,  *)
(* and the two clean-up jobs read a list of rentals first and process its  *)
(* items, one transaction each, later.                                     *)
(***************************************************************************)
EXTENDS FinancialLedger

CONSTANTS
  Users,           \* customers
  Accounts,        \* game accounts
  Rentals,         \* rental ids: positive, ordered, drawn at random by the code
  ExtTxs,          \* external transaction ids of the payment provider
  AdjustKeys,      \* idempotency keys admins choose for balance adjustments
  Adjustments,     \* signed amounts of admin balance adjustments
  Pricings,        \* [hourly, deposit]: the prices an admin may set
  Durations,       \* rental durations, in hours
  Hour,            \* clock units in an hour
  PaymentWindow,   \* payment_expires_at - creation (15 minutes)
  ReviewWindow,    \* deposit_review_deadline_at - end_at (24 hours)
  Delay,           \* bound: how old a handler's captured time is at commit
  MaxTime,         \* bound of the clock
  MaxInt64,        \* largest balance a BIGINT column holds
  Null             \* SQL NULL

ASSUME RentalsAssumption == Rentals \subseteq Nat \ {0} /\ NoRental = 0
ASSUME PricingsAssumption ==
  Pricings \subseteq [hourly : Nat \ {0}, deposit : Nat] /\ Adjustments \subseteq Int \ {0}
ASSUME TimeAssumption ==
  /\ Durations \subseteq Nat \ {0}
  /\ Hour \in Nat /\ PaymentWindow \in Nat \ {0} /\ ReviewWindow \in Nat
  /\ Delay \in Nat /\ MaxTime \in Nat /\ MaxInt64 \in Nat
\* Fifteen minutes to pay, and the lock waits of two transactions, fit into an hour.
ASSUME WindowAssumption == PaymentWindow + 2 * Delay <= Hour
ASSUME NullAssumption == Null \notin Users \cup Accounts \cup ExtTxs \cup Pricings \cup Nat

VARIABLES
  now,          \* the clock of the API processes and of the database
  acctStatus,   \* accounts.status
  acctPricing,  \* accounts.hourly_price and deposit_amount
  rStatus,      \* rentals.status
  rUser,        \* rentals.user_id
  rAcct,        \* rentals.account_id
  rPrice,       \* rentals.rental_price
  rDeposit,     \* rentals.deposit_amount
  endAt,        \* rentals.end_at
  payExp,       \* rentals.payment_expires_at
  deadline,     \* rentals.deposit_review_deadline_at
  pStatus,      \* payments.status
  pProvider,    \* payments.provider
  extTx,        \* payments.external_transaction_id
  hold,         \* deposit_holds.status
  holdSource,   \* deposit_holds.settlement_source
  refund,       \* refunds.status
  issued,       \* rentals with a rental_credentials_issued security event
  balance,      \* users.balance
  ledger,       \* financial_ledger_entries
  waitPass,     \* waiting_payment_cleanup: captured now and unprocessed list
  usePass       \* expired_cleanup: captured now and unprocessed list

acctVars    == <<acctStatus, acctPricing>>
orderVars   == <<rUser, rAcct, rPrice, rDeposit, endAt, payExp>>  \* written once, by RentAccount
paymentVars == <<pStatus, pProvider, extTx>>
holdVars    == <<hold, holdSource, refund>>
moneyVars   == <<balance, ledger>>
passVars    == <<waitPass, usePass>>
vars == <<now, acctVars, rStatus, orderVars, deadline, paymentVars, holdVars,
          issued, moneyVars, passVars>>

AcctStatuses   == {"Absent", "Available", "Reserved", "Rented", "Disabled"}
RentalStatuses == {"Absent", "Waiting", "Active", "Expired", "Completed", "Cancelled"}
PayStatuses    == {"Absent", "Pending", "Success", "Failed"}
HoldStatuses   == {"Absent", "Held", "Released", "Forfeited", "Refunded"}
HoldSources    == {"AdminRelease", "AdminForfeit", "AutoRelease", "WalletRefund"}

IdlePass == [now |-> 0, todo |-> {}]
Passes == [now : Nat, todo : SUBSET Rentals]

Init ==
  /\ now = 0
  /\ acctStatus = [a \in Accounts |-> "Absent"]
  /\ acctPricing = [a \in Accounts |-> Null]
  /\ rStatus = [r \in Rentals |-> "Absent"]
  /\ rUser = [r \in Rentals |-> Null]
  /\ rAcct = [r \in Rentals |-> Null]
  /\ rPrice = [r \in Rentals |-> 0]
  /\ rDeposit = [r \in Rentals |-> 0]
  /\ endAt = [r \in Rentals |-> 0]
  /\ payExp = [r \in Rentals |-> 0]
  /\ deadline = [r \in Rentals |-> Null]
  /\ pStatus = [r \in Rentals |-> "Absent"]
  /\ pProvider = [r \in Rentals |-> Null]
  /\ extTx = [r \in Rentals |-> Null]
  /\ hold = [r \in Rentals |-> "Absent"]
  /\ holdSource = [r \in Rentals |-> Null]
  /\ refund = [r \in Rentals |-> "Absent"]
  /\ issued = {}
  /\ balance = [u \in Users |-> 0]
  /\ ledger = {}
  /\ waitPass = IdlePass
  /\ usePass = IdlePass

-----------------------------------------------------------------------------
(* Accounts *)

LiveRentals(a) == {r \in Rentals : rAcct[r] = a /\ rStatus[r] \in {"Waiting", "Active"}}
ActiveRentals(a) == {r \in Rentals : rAcct[r] = a /\ rStatus[r] = "Active"}

\* A handler's captured time.Now(), or the NOW() of its transaction: both are
\* read before the transaction waits for its row locks.
Recent == {t \in 0..MaxTime : t <= now /\ now <= t + Delay}

\* AdminService.CreateAccount: a new account is listed at once.
CreateAccount(a, p) ==
  /\ acctStatus[a] = "Absent"
  /\ acctStatus' = [acctStatus EXCEPT ![a] = "Available"]
  /\ acctPricing' = [acctPricing EXCEPT ![a] = p]
  /\ UNCHANGED <<now, rStatus, orderVars, deadline, paymentVars, holdVars, issued, moneyVars, passVars>>

\* AdminService.UpdateAccount: prices may change in any status until deletion.
UpdateAccount(a, p) ==
  /\ acctStatus[a] \notin {"Absent", "Disabled"}
  /\ acctPricing' = [acctPricing EXCEPT ![a] = p]
  /\ UNCHANGED <<now, acctStatus, rStatus, orderVars, deadline, paymentVars, holdVars, issued, moneyVars, passVars>>

\* Mutation: an account with an unpaid reservation counts as idle.
IdleDespiteReservation(a) == ActiveRentals(a) = {}

Idle(a) == acctStatus[a] \notin {"Reserved", "Rented"} /\ LiveRentals(a) = {}

\* DisableAccountIfIdle: soft deletion (status 6 and deleted_at).
DisableAccountIfIdle(a) ==
  /\ acctStatus[a] \notin {"Absent", "Disabled"}
  /\ Idle(a)
  /\ acctStatus' = [acctStatus EXCEPT ![a] = "Disabled"]
  /\ UNCHANGED <<now, acctPricing, rStatus, orderVars, deadline, paymentVars, holdVars, issued, moneyVars, passVars>>

-----------------------------------------------------------------------------
(* Ordering and cancelling *)

\* CalculateRentalTotal: the price of the period, and what the customer pays.
RentalPrice(p, hours) == p.hourly * hours
PaymentAmount(p, hours) == RentalPrice(p, hours) + p.deposit

\* Mutation: the INSERT of a rental overwrites a finished rental of the same id.
FreshIdOrFinished(r) == rStatus[r] \in {"Absent", "Cancelled", "Completed"}

\* CreateRental inserts: a randomly drawn id that is taken violates the primary key.
FreshId(r) == rStatus[r] = "Absent"

\* RentAccount.  t is the handler's time, s the NOW() of the transaction.  The
\* wallet must cover the amount but is not debited; a live rental of the account
\* would violate uq_rental_account_waiting_or_active.  The customer's row is read
\* without a lock, after the account is locked: this step is where the balance is
\* read, and what commits until the order does touches none of the order's rows.
RentAccount(u, a, r, hours, t, s) ==
  /\ t <= s
  /\ acctStatus[a] = "Available"
  /\ LiveRentals(a) = {}
  /\ PaymentAmount(acctPricing[a], hours) <= MaxInt64
  /\ balance[u] >= PaymentAmount(acctPricing[a], hours)
  /\ FreshId(r)
  /\ acctStatus' = [acctStatus EXCEPT ![a] = "Reserved"]
  /\ rStatus' = [rStatus EXCEPT ![r] = "Waiting"]
  /\ rUser' = [rUser EXCEPT ![r] = u]
  /\ rAcct' = [rAcct EXCEPT ![r] = a]
  /\ rPrice' = [rPrice EXCEPT ![r] = RentalPrice(acctPricing[a], hours)]
  /\ rDeposit' = [rDeposit EXCEPT ![r] = acctPricing[a].deposit]
  /\ endAt' = [endAt EXCEPT ![r] = t + hours * Hour]
  /\ payExp' = [payExp EXCEPT ![r] = s + PaymentWindow]
  /\ pStatus' = [pStatus EXCEPT ![r] = "Pending"]
  /\ pProvider' = [pProvider EXCEPT ![r] = "internal"]
  /\ UNCHANGED <<now, acctPricing, deadline, extTx, holdVars, issued, moneyVars, passVars>>

\* The rental, its payment and its account are all still waiting for payment.
AwaitsPayment(r) ==
  rStatus[r] = "Waiting" /\ pStatus[r] = "Pending" /\ acctStatus[rAcct[r]] = "Reserved"

\* The payment fails, the rental ends in the given status, the account is free.
FreeUnpaid(r, status) ==
  /\ pStatus' = [pStatus EXCEPT ![r] = "Failed"]
  /\ rStatus' = [rStatus EXCEPT ![r] = status]
  /\ acctStatus' = [acctStatus EXCEPT ![rAcct[r]] = "Available"]
  /\ UNCHANGED <<now, acctPricing, orderVars, deadline, pProvider, extTx, holdVars, issued, moneyVars>>

\* CancelWaitingPaymentRental, by the rental's owner.
CancelRental(r) ==
  /\ AwaitsPayment(r)
  /\ ActiveRentals(rAcct[r]) = {}
  /\ FreeUnpaid(r, "Cancelled")
  /\ UNCHANGED passVars

-----------------------------------------------------------------------------
(* Paying *)

\* Mutation: the deposit is not charged.
AmountDueWithoutDeposit(r) == rPrice[r]

AmountDue(r) == rPrice[r] + rDeposit[r]

\* Mutation: the payment window is not checked when the rental is activated.
AnyPaymentTime(r, s) == TRUE

\* ActivateRentalForWebhook's test; s is the transaction's NOW().
InPaymentWindow(r, s) == payExp[r] > s

HoldEntry(r) ==
  IF rDeposit[r] > 0
  THEN {Entry("DepositHeld", <<"deposit:hold", r>>, rUser[r], r, rDeposit[r])}
  ELSE {}

\* What a webhook and a wallet payment have in common: the payment succeeds, the
\* rental starts, the account is handed over and a positive deposit is held.
Activate(r, entries) ==
  /\ hold[r] = "Absent"
  /\ KeysUnused(ledger, entries \cup HoldEntry(r))
  /\ pStatus' = [pStatus EXCEPT ![r] = "Success"]
  /\ rStatus' = [rStatus EXCEPT ![r] = "Active"]
  /\ acctStatus' = [acctStatus EXCEPT ![rAcct[r]] = "Rented"]
  /\ hold' = [hold EXCEPT ![r] = IF rDeposit[r] > 0 THEN "Held" ELSE @]
  /\ ledger' = ledger \cup entries \cup HoldEntry(r)
  /\ UNCHANGED <<now, acctPricing, orderVars, deadline, holdSource, refund, issued, passVars>>

\* Mutation: a payment found by its external transaction is taken for another one.
ExtTxSeen(r, x) == \E q \in Rentals : pProvider[q] = "internal" /\ extTx[q] = x

\* loadWebhookState: the payment found by external transaction is another one.
ExtTxTaken(r, x) == \E q \in Rentals \ {r} : pProvider[q] = "internal" /\ extTx[q] = x

\* What ProcessWebhook decides about a delivery of (payment of r, transaction x).
WebhookReply(r, x) ==
  IF ExtTxTaken(r, x) THEN "IdentifierMismatch"
  ELSE IF pStatus[r] = "Absent" THEN "NotFound"
  ELSE IF pProvider[r] # "internal" THEN "ProviderUnsupported"
  ELSE IF pStatus[r] = "Success" THEN
         IF extTx[r] # x THEN "ExternalTxMismatch"
         ELSE IF rStatus[r] = "Active" /\ acctStatus[rAcct[r]] = "Rented" THEN "Idempotent"
         ELSE "InvalidTransition"
  ELSE IF pStatus[r] = "Failed" THEN "NotSuccessful"
  ELSE IF AwaitsPayment(r) THEN "Process"
  ELSE "InvalidTransition"

\* ProcessWebhook: the provider may deliver at any time, repeatedly or never.
ProcessWebhook(r, x, s) ==
  /\ WebhookReply(r, x) = "Process"
  /\ InPaymentWindow(r, s)
  /\ extTx' = [extTx EXCEPT ![r] = x]
  /\ Activate(r, {Entry("ProviderPaymentReceived", <<"payment:webhook", x>>, rUser[r], r, AmountDue(r))})
  /\ UNCHANGED <<pProvider, balance>>

\* PayRentalWithBalance.
PayRentalWithBalance(r, s) ==
  /\ AwaitsPayment(r)
  /\ InPaymentWindow(r, s)
  /\ balance[rUser[r]] >= AmountDue(r)
  /\ balance' = [balance EXCEPT ![rUser[r]] = @ - AmountDue(r)]
  /\ pProvider' = [pProvider EXCEPT ![r] = "balance"]
  /\ Activate(r, {Entry("BalanceDebit", <<"balance:debit", r>>, rUser[r], r, AmountDue(r))})
  /\ UNCHANGED extTx

\* Mutation: credentials are given out until the clean-up job has run.
UntilCleanup(r, t) == TRUE

\* The rental's period has not ended at the handler's time.
WithinPeriod(r, t) == t < endAt[r]

\* GetRentalCredentials: hands out the password and records a security event.
GetRentalCredentials(r, t) ==
  /\ rStatus[r] = "Active" /\ acctStatus[rAcct[r]] = "Rented" /\ pStatus[r] = "Success"
  /\ WithinPeriod(r, t)
  /\ refund[r] = "Absent"
  /\ issued' = issued \cup {r}
  /\ UNCHANGED <<now, acctVars, rStatus, orderVars, deadline, paymentVars, holdVars, moneyVars, passVars>>

-----------------------------------------------------------------------------
(* Settling: the deposit, the refund and the completion of a paid rental *)

\* isConsistentPositiveDepositState: amount, user, payment and currency of a hold
\* are copied from the rental when it is created and never updated.
PositiveDeposit(r) == rDeposit[r] > 0 /\ hold[r] # "Absent"

\* validateDepositReleaseState, for a hold that is not settled yet.
Reviewable(r) ==
  /\ hold[r] = "Held" /\ PositiveDeposit(r)
  /\ pStatus[r] = "Success" /\ rStatus[r] = "Expired"
  /\ deadline[r] # Null

\* Mutation: the addition is not checked against the column's range.
CanCreditUnchecked(u, amount) == TRUE

\* CreditUserBalance: the addition fails when the BIGINT column overflows.
CanCredit(u, amount) == balance[u] + amount <= MaxInt64

\* One settlement: hold, wallet and ledger move together and the rental is
\* completed (completeRentalAfterSettlement) in the same transaction.
Settle(r, status, source, credit, entries) ==
  /\ KeysUnused(ledger, entries)
  /\ CanCredit(rUser[r], credit)
  /\ hold' = [hold EXCEPT ![r] = status]
  /\ holdSource' = [holdSource EXCEPT ![r] = source]
  /\ balance' = [balance EXCEPT ![rUser[r]] = @ + credit]
  /\ ledger' = ledger \cup entries
  /\ rStatus' = [rStatus EXCEPT ![r] = "Completed"]
  /\ UNCHANGED <<now, acctVars, orderVars, deadline, paymentVars, issued, passVars>>

\* ReleaseDeposit by an admin: no time limit, before or after the deadline.
ReleaseDeposit(r) ==
  /\ Reviewable(r)
  /\ Settle(r, "Released", "AdminRelease", rDeposit[r],
            {Entry("DepositReleasedBalance", <<"deposit:release", r>>, rUser[r], r, rDeposit[r])})
  /\ UNCHANGED refund

\* validateDepositForfeitState compares the handler's time with the deadline.
BeforeDeadline(r, t) == t < deadline[r]

\* ForfeitDeposit by an admin, with a reason and a verified security event.
ForfeitDeposit(r, t) ==
  /\ Reviewable(r)
  /\ BeforeDeadline(r, t)
  /\ Settle(r, "Forfeited", "AdminForfeit", 0,
            {Entry("DepositForfeited", <<"deposit:forfeit", r>>, rUser[r], r, rDeposit[r])})
  /\ UNCHANGED refund

\* validateWalletRefundEligibility and the refund's idempotency key.
Refundable(r) ==
  /\ pProvider[r] = "balance" /\ pStatus[r] = "Success"
  /\ rStatus[r] \in {"Expired", "Completed"}
  /\ rPrice[r] > 0
  /\ rDeposit[r] > 0 => hold[r] # "Absent"
  /\ refund[r] = "Absent"

\* Mutation: the refund ignores that the deposit was settled already.
RefundableDepositAlways(r) == rDeposit[r]

\* maxRefundableDeposit: a deposit that was settled is not paid back again.
RefundableDeposit(r) == IF rDeposit[r] > 0 /\ hold[r] = "Held" THEN rDeposit[r] ELSE 0

RefundEntries(r) ==
  {Entry("BalanceRefundCredit", <<"refund:wallet:principal", r>>, rUser[r], r, rPrice[r])}
    \cup IF RefundableDeposit(r) > 0
         THEN {Entry("DepositRefundCredit", <<"refund:wallet:deposit", r>>, rUser[r], r, RefundableDeposit(r))}
         ELSE {}

\* RefundWalletPayment by an admin: full principal and the deposit if still held.
RefundWalletPayment(r) ==
  /\ Refundable(r)
  /\ Settle(r, IF RefundableDeposit(r) > 0 THEN "Refunded" ELSE hold[r],
               IF RefundableDeposit(r) > 0 THEN "WalletRefund" ELSE holdSource[r],
            rPrice[r] + RefundableDeposit(r), RefundEntries(r))
  /\ refund' = [refund EXCEPT ![r] = "Completed"]

\* LockNextRentalFinalizationState: paid, ended, and nothing left to review at t.
Finalizable(r, t) ==
  /\ rStatus[r] = "Expired" /\ pStatus[r] = "Success"
  /\ \/ rDeposit[r] = 0 /\ hold[r] = "Absent"
     \/ PositiveDeposit(r) /\ hold[r] # "Held"
     \/ PositiveDeposit(r) /\ hold[r] = "Held" /\ deadline[r] # Null /\ deadline[r] <= t

\* ORDER BY COALESCE(deposit_review_deadline_at, end_at), id
QueueTime(r) == IF deadline[r] # Null THEN deadline[r] ELSE endAt[r]
QueuedBefore(r, q) == QueueTime(r) < QueueTime(q) \/ (QueueTime(r) = QueueTime(q) /\ r <= q)
IsHead(r, t) == Finalizable(r, t) /\ \A q \in Rentals : Finalizable(q, t) => QueuedBefore(r, q)

\* Mutation: the auto-release credits the wallet without a ledger entry.
AutoReleaseWithoutEntry(r) == {}

\* autoReleaseDeposit, when the head of the queue still holds a deposit.
AutoReleaseEntries(r) ==
  {Entry("DepositReleasedBalance", <<"deposit:auto-release", r>>, rUser[r], r, rDeposit[r])}

\* One iteration of FinalizeExpiredRentals with the pass's time t.  It looks at
\* the head of the queue only: if the head cannot be settled the pass ends.
FinalizeNext(r, t) ==
  /\ IsHead(r, t)
  /\ IF hold[r] = "Held"
     THEN Settle(r, "Released", "AutoRelease", rDeposit[r], AutoReleaseEntries(r))
     ELSE Settle(r, hold[r], holdSource[r], 0, {})
  /\ UNCHANGED refund

-----------------------------------------------------------------------------
(* Admin balance adjustments *)

\* AdjustAdminBalance: a key that was used replays the old answer or conflicts.
AdjustAdminBalance(k, u, amount) ==
  LET kind == IF amount > 0 THEN "AdminCredit" ELSE "AdminDebit"
      size == IF amount > 0 THEN amount ELSE -amount
      entry == Entry(kind, <<"admin:balance", k>>, u, NoRental, size)
  IN /\ KeysUnused(ledger, {entry})
     /\ balance[u] + amount \in 0..MaxInt64
     /\ balance' = [balance EXCEPT ![u] = @ + amount]
     /\ ledger' = ledger \cup {entry}
     /\ UNCHANGED <<now, acctVars, rStatus, orderVars, deadline, paymentVars, holdVars, issued, passVars>>

-----------------------------------------------------------------------------
(* Background clean-up: each pass captures now, reads a list, then works it off *)

\* Mutation: an item stays on the list, so that the pass never ends.
DropNothing(pass, r) == pass

\* The pass without item r; a pass whose list is worked off is over.
Drop(pass, r) ==
  IF pass.todo \subseteq {r} THEN IdlePass ELSE [now |-> pass.now, todo |-> pass.todo \ {r}]

\* Mutation: the locked rows are not rechecked, the list of the pass is trusted.
PaymentOverdueUnchecked(r, t) ==
  pProvider[r] = "internal" /\ rStatus[r] \in {"Waiting", "Active"} /\ payExp[r] <= t

\* Mutation: the comparison with the clock is the wrong way round.
PaymentNotYetOverdue(r, t) == pProvider[r] = "internal" /\ AwaitsPayment(r) /\ payExp[r] > t

\* The selection of GetExpiredWaitingPaymentReservations, which
\* ExpireWaitingPaymentReservation repeats on the locked rows with the same t.
PaymentOverdue(r, t) == pProvider[r] = "internal" /\ AwaitsPayment(r) /\ payExp[r] <= t

ScanWaiting ==
  /\ waitPass.todo = {}
  /\ \E r \in Rentals : PaymentOverdue(r, now)
  /\ waitPass' = [now |-> now, todo |-> {r \in Rentals : PaymentOverdue(r, now)}]
  /\ UNCHANGED <<now, acctVars, rStatus, orderVars, deadline, paymentVars, holdVars, issued, moneyVars, usePass>>

ExpireWaitingPaymentReservation(r) ==
  /\ r \in waitPass.todo
  /\ PaymentOverdue(r, waitPass.now)
  /\ FreeUnpaid(r, "Expired")
  /\ waitPass' = Drop(waitPass, r)
  /\ UNCHANGED usePass

\* The recheck finds no row, or the statement fails: logged, and the loop goes on.
SkipWaiting(r) ==
  /\ r \in waitPass.todo
  /\ waitPass' = Drop(waitPass, r)
  /\ UNCHANGED <<now, acctVars, rStatus, orderVars, deadline, paymentVars, holdVars, issued, moneyVars, usePass>>

\* Mutation: off by one clock unit.
UsageNearlyOver(r, t) == rStatus[r] = "Active" /\ endAt[r] <= t + 1

\* GetExpiredRentals.
UsageOver(r, t) == rStatus[r] = "Active" /\ endAt[r] <= t

ScanExpired ==
  /\ usePass.todo = {}
  /\ \E r \in Rentals : UsageOver(r, now)
  /\ usePass' = [now |-> now, todo |-> {r \in Rentals : UsageOver(r, now)}]
  /\ UNCHANGED <<now, acctVars, rStatus, orderVars, deadline, paymentVars, holdVars, issued, moneyVars, waitPass>>

\* Mutation: the deadline is set only while the payment is pending.
ReviewDeadlineOfPending(r) ==
  IF rDeposit[r] > 0 /\ pStatus[r] = "Pending" /\ hold[r] = "Held"
  THEN endAt[r] + ReviewWindow
  ELSE Null

\* The deadline is set only for a paid rental whose deposit is held.
ReviewDeadline(r) ==
  IF rDeposit[r] > 0 /\ pStatus[r] = "Success" /\ hold[r] = "Held"
  THEN endAt[r] + ReviewWindow
  ELSE Null

ExpireRental(r) ==
  /\ r \in usePass.todo
  /\ UsageOver(r, usePass.now) /\ acctStatus[rAcct[r]] = "Rented"
  /\ ActiveRentals(rAcct[r]) \subseteq {r}
  /\ rStatus' = [rStatus EXCEPT ![r] = "Expired"]
  /\ deadline' = [deadline EXCEPT ![r] = ReviewDeadline(r)]
  /\ acctStatus' = [acctStatus EXCEPT ![rAcct[r]] = "Available"]
  /\ usePass' = Drop(usePass, r)
  /\ UNCHANGED <<now, acctPricing, orderVars, paymentVars, holdVars, issued, moneyVars, waitPass>>

SkipExpired(r) ==
  /\ r \in usePass.todo
  /\ usePass' = Drop(usePass, r)
  /\ UNCHANGED <<now, acctVars, rStatus, orderVars, deadline, paymentVars, holdVars, issued, moneyVars, waitPass>>

\* The API process stops and starts again: the passes are lost, the rows are not.
Restart ==
  /\ passVars # <<IdlePass, IdlePass>>
  /\ waitPass' = IdlePass /\ usePass' = IdlePass
  /\ UNCHANGED <<now, acctVars, rStatus, orderVars, deadline, paymentVars, holdVars, issued, moneyVars>>

Tick ==
  /\ now < MaxTime
  /\ now' = now + 1
  /\ UNCHANGED <<acctVars, rStatus, orderVars, deadline, paymentVars, holdVars, issued, moneyVars, passVars>>

-----------------------------------------------------------------------------
AdminStep ==
  \/ \E a \in Accounts, p \in Pricings : CreateAccount(a, p) \/ UpdateAccount(a, p)
  \/ \E a \in Accounts : DisableAccountIfIdle(a)
  \/ \E r \in Rentals : ReleaseDeposit(r) \/ RefundWalletPayment(r)
  \/ \E r \in Rentals, t \in Recent : ForfeitDeposit(r, t)
  \/ \E k \in AdjustKeys, u \in Users, n \in Adjustments : AdjustAdminBalance(k, u, n)

CustomerStep ==
  \/ \E u \in Users, a \in Accounts, r \in Rentals, h \in Durations, t, s \in Recent :
       RentAccount(u, a, r, h, t, s)
  \/ \E r \in Rentals : CancelRental(r)
  \/ \E r \in Rentals, t \in Recent : PayRentalWithBalance(r, t) \/ GetRentalCredentials(r, t)

ProviderStep == \E r \in Rentals, x \in ExtTxs, s \in Recent : ProcessWebhook(r, x, s)

SweepWaiting(r) == ExpireWaitingPaymentReservation(r) \/ SkipWaiting(r)
SweepExpired(r) == ExpireRental(r) \/ SkipExpired(r)
Finalize == \E r \in Rentals, t \in Recent : FinalizeNext(r, t)

WorkerStep ==
  \/ ScanWaiting \/ ScanExpired
  \/ \E r \in Rentals : SweepWaiting(r) \/ SweepExpired(r)
  \/ Finalize

Next == AdminStep \/ CustomerStep \/ ProviderStep \/ WorkerStep \/ Restart \/ Tick

\* Time passes; the scheduler starts each job again and again, a pass works off
\* its list, and a statement that can succeed again and again does not always
\* fail; FinalizeExpiredRentals runs every ten seconds.  Nothing is assumed of
\* customers, admins or the provider, nor that the process keeps running.
Fairness ==
  /\ WF_vars(Tick)
  /\ WF_vars(ScanWaiting) /\ WF_vars(ScanExpired)
  /\ WF_vars(\E r \in Rentals : SweepWaiting(r))
  /\ WF_vars(\E r \in Rentals : SweepExpired(r))
  /\ \A r \in Rentals : SF_vars(ExpireWaitingPaymentReservation(r)) /\ SF_vars(ExpireRental(r))
  /\ WF_vars(Finalize)

Spec == Init /\ [][Next]_vars
FairSpec == Spec /\ Fairness

-----------------------------------------------------------------------------
(* Properties *)

AccountTypes ==
  /\ acctStatus \in [Accounts -> AcctStatuses]
  /\ acctPricing \in [Accounts -> Pricings \cup {Null}]
  /\ \A a \in Accounts : acctStatus[a] # "Absent" => acctPricing[a] \in Pricings

RentalTypes ==
  /\ rStatus \in [Rentals -> RentalStatuses]
  /\ rUser \in [Rentals -> Users \cup {Null}] /\ rAcct \in [Rentals -> Accounts \cup {Null}]
  /\ rPrice \in [Rentals -> Nat] /\ rDeposit \in [Rentals -> Nat]
  /\ endAt \in [Rentals -> Nat] /\ payExp \in [Rentals -> Nat]
  /\ deadline \in [Rentals -> Nat \cup {Null}]
  /\ \A r \in Rentals : rStatus[r] # "Absent" => rUser[r] \in Users /\ rAcct[r] \in Accounts

PaymentTypes ==
  /\ pStatus \in [Rentals -> PayStatuses]
  /\ pProvider \in [Rentals -> {"internal", "balance", Null}]
  /\ extTx \in [Rentals -> ExtTxs \cup {Null}]
  /\ hold \in [Rentals -> HoldStatuses]
  /\ holdSource \in [Rentals -> HoldSources \cup {Null}]
  /\ refund \in [Rentals -> {"Absent", "Completed"}]
  /\ issued \subseteq Rentals

MoneyTypes ==
  /\ balance \in [Users -> 0..MaxInt64]
  /\ \A e \in ledger : /\ e.kind \in EntryKinds /\ e.user \in Users
                       /\ e.rental \in Rentals \cup {NoRental} /\ e.amount \in Nat

\* Every column has its type, and a row that exists refers to rows that exist.
TypeOK ==
  /\ now \in 0..MaxTime
  /\ AccountTypes /\ RentalTypes /\ PaymentTypes /\ MoneyTypes
  /\ waitPass \in Passes /\ usePass \in Passes

\* An account is lent to at most one rental at a time and its status says which
\* kind: Reserved while that rental waits for payment, Rented while it is active.
\* Renting, cancelling, paying, both clean-up jobs and the soft deletion of
\* accounts all write accounts.status and must agree on it.
AccountMatchesRental ==
  \A a \in Accounts :
    /\ \A r, q \in LiveRentals(a) : r = q
    /\ acctStatus[a] = "Reserved" <=> \E r \in LiveRentals(a) : rStatus[r] = "Waiting"
    /\ acctStatus[a] = "Rented" <=> ActiveRentals(a) # {}

\* Rental, payment and deposit hold of one rental never disagree, whatever order
\* webhook, wallet payment, cancellation, clean-up and settlement arrive in: a
\* rental is paid exactly when it was activated, a positive deposit is held
\* exactly when it was paid, and no rental completes over a held deposit.
PaymentMatchesRental ==
  \A r \in Rentals :
    /\ pStatus[r] = "Absent" <=> rStatus[r] = "Absent"
    /\ pStatus[r] = "Pending" <=> rStatus[r] = "Waiting"
    /\ rStatus[r] \in {"Active", "Completed"} => pStatus[r] = "Success"
    /\ rStatus[r] = "Cancelled" => pStatus[r] = "Failed"
    /\ pStatus[r] = "Success" => (rDeposit[r] > 0 <=> hold[r] # "Absent")
    /\ hold[r] # "Absent" => pStatus[r] = "Success"
    /\ hold[r] = "Held" => rStatus[r] \in {"Active", "Expired"}
    /\ hold[r] \in {"Released", "Forfeited", "Refunded"} => rStatus[r] = "Completed"

\* Every wallet balance is what the append-only ledger adds up to: no handler and
\* no job moves money without recording it, or records it without moving it.
WalletMatchesLedger == \A u \in Users : balance[u] = LedgerBalance(ledger, u)

\* A rental is charged once and in full if it was paid, and never otherwise,
\* through the provider or the wallet but not both.
ChargedExactlyOnce ==
  \A r \in Rentals :
    LET charges == EntriesOf(ledger, r, {"ProviderPaymentReceived", "BalanceDebit"})
    IN IF pStatus[r] = "Success"
       THEN Cardinality(charges) = 1 /\ Total(charges) = rPrice[r] + rDeposit[r]
       ELSE charges = {}

SettlementKind ==
  [Released |-> "DepositReleasedBalance", Forfeited |-> "DepositForfeited",
   Refunded |-> "DepositRefundCredit"]

\* A deposit is settled once: admin release, admin forfeiture, automatic release
\* and wallet refund use different idempotency keys, yet together they leave one
\* settlement entry, of the kind the hold's status says and over the full deposit.
DepositSettledOnce ==
  \A r \in Rentals :
    LET settled == EntriesOf(ledger, r, {SettlementKind[k] : k \in DOMAIN SettlementKind})
    IN IF hold[r] \in DOMAIN SettlementKind
       THEN \E e \in settled : settled = {e} /\ e.kind = SettlementKind[hold[r]] /\ e.amount = rDeposit[r]
       ELSE settled = {}

\* A customer never gets back more for a rental than was paid for it.
PaidBackWithinPaid ==
  \A r \in Rentals :
    Total(EntriesOf(ledger, r, CreditKinds))
      <= Total(EntriesOf(ledger, r, {"ProviderPaymentReceived", "BalanceDebit"}))

\* Terminal decisions stay: a settled deposit is not settled differently, a
\* completed or cancelled rental stays so, a payment that succeeded or failed does
\* not change its outcome.
DecisionsAreFinal ==
  [][\A r \in Rentals :
       /\ hold[r] \in DOMAIN SettlementKind =>
            hold'[r] = hold[r] /\ holdSource'[r] = holdSource[r]
       /\ rStatus[r] \in {"Completed", "Cancelled"} => rStatus'[r] = rStatus[r]
       /\ pStatus[r] \in {"Success", "Failed"} => pStatus'[r] = pStatus[r]]_vars

\* A paid customer keeps the account until the end of the period and not a settlement
\* touches the deposit before it: an active rental stops being active, and a
\* held deposit leaves the hold, only once end_at has passed.
NothingEndsEarly ==
  [][\A r \in Rentals :
       /\ rStatus[r] = "Active" /\ rStatus'[r] # "Active" => endAt[r] <= now
       /\ hold[r] = "Held" /\ hold'[r] # "Held" => endAt[r] <= now]_vars

\* A rental is never activated after its period has ended: the payment window,
\* checked against a clock read before the locks were taken, closes in time.
ActivatedWithinPeriod ==
  [][\A r \in Rentals :
       rStatus[r] # "Active" /\ rStatus'[r] = "Active" => now < endAt[r]]_vars

\* Credentials go to the account's only tenant, never to one whose account has been
\* passed on, and stop when the period is over by the lock wait of one request, even if
\* the clean-up job has not run.  (That they may be issued during that wait is what
\* CredentialsDeniedAtEnd is about.)
CredentialsOnlyToTenant ==
  [][\A r \in issued' \ issued :
       LiveRentals(rAcct[r]) = {r} /\ now < endAt[r] + Delay]_vars

\* A repeated delivery of the webhook that paid for a rental is recognised as such:
\* it is acknowledged while the rental is active, refused as late afterwards, and never
\* taken for another payment, whatever the other payments' transactions are.
RedeliveryIsRecognised ==
  \A r \in Rentals :
    pStatus[r] = "Success" /\ pProvider[r] = "internal" =>
      WebhookReply(r, extTx[r]) = IF rStatus[r] = "Active" THEN "Idempotent" ELSE "InvalidTransition"

\* An unpaid reservation whose payment window has passed is given up, so that its
\* account comes back, although the job may crash, fail or work with a stale list.
UnpaidReservationsEnd ==
  \A r \in Rentals : (rStatus[r] = "Waiting" /\ payExp[r] <= now) ~> (rStatus[r] # "Waiting")

\* An active rental whose period is over expires, under the same failures.
UsedUpRentalsExpire ==
  \A r \in Rentals : (rStatus[r] = "Active" /\ endAt[r] <= now) ~> (rStatus[r] = "Expired")

\* The rental that FinalizeExpiredRentals would take next cannot be settled, because
\* its deposit does not fit into the customer's wallet.
HeadOverflows(t) ==
  \E r \in Rentals : IsHead(r, t) /\ hold[r] = "Held" /\ ~CanCredit(rUser[r], rDeposit[r])

\* An error at the head of the queue ends the pass, and the next pass starts with the
\* same head: a paid rental past its deadline completes unless an overflowing head
\* stands in its way.  Nothing else blocks the queue.
OnlyOverflowBlocksFinalizer ==
  \A r \in Rentals :
    (rStatus[r] = "Expired" /\ pStatus[r] = "Success" /\ QueueTime(r) <= now)
      ~> (rStatus[r] = "Completed" \/ HeadOverflows(now))

-----------------------------------------------------------------------------
(* What the documents say and the code does not do *)

\* docs/07-domain-model.md: an admin may forfeit a deposit only strictly before the
\* review deadline; at the deadline, auto-release wins.  ForfeitDeposit compares
\* the deadline with a time read before it waits for its locks.
ForfeitedBeforeDeadline ==
  [][\A r \in Rentals :
       hold[r] = "Held" /\ hold'[r] = "Forfeited" => now < deadline[r]]_vars

\* docs/07-domain-model.md: at now >= end_at credentials are denied, independently of
\* the clean-up's timing.  GetRentalCredentials compares end_at with a time that the
\* handler read before it waited for the rows of rental, account and payment.
CredentialsDeniedAtEnd == [][\A r \in issued' \ issued : now < endAt[r]]_vars

-----------------------------------------------------------------------------
(* Lending an account, without payments, deposits and jobs *)

Tenant(a) == IF LiveRentals(a) = {} THEN Null ELSE CHOOSE r \in LiveRentals(a) : TRUE

Lease == INSTANCE AccountLease
  WITH tenant <- [a \in Accounts |-> Tenant(a)],
       served <- {r \in Rentals : rStatus[r] # "Absent"}

\* The rental aggregate implements the lending of accounts: an account passes from
\* one rental to the next only by being given back in between, and a rental gets
\* an account once.
LendsAccounts == Lease!Spec

-----------------------------------------------------------------------------
(* Keeping money, without statuses, deadlines and jobs *)

\* What the ledger says was paid for a rental and not paid back or forfeited.
Fund(r) ==
  Total(EntriesOf(ledger, r, {"ProviderPaymentReceived", "BalanceDebit"}))
    - Total(EntriesOf(ledger, r, CreditKinds \cup {"DepositForfeited"}))

Payer(r) == IF pStatus[r] = "Success" THEN rUser[r] ELSE Null

Custody == INSTANCE Escrow
  WITH Requests <- AdjustKeys, wallet <- balance,
       payer <- [r \in Rentals |-> Payer(r)], fund <- [r \in Rentals |-> Fund(r)],
       used <- {k \in AdjustKeys : \E e \in ledger : e.key = <<"admin:balance", k>>}

\* The rental aggregate implements the escrow: in every order of payments, refunds,
\* settlements and adjustments, what the ledger says leaves a rental arrives, in the same
\* step and amount, in the wallet of the customer who paid for it, or is forfeited;
\* nothing leaves that was not paid, and an adjustment that is sent again moves nothing.
HoldsMoney == Custody!Spec
=============================================================================
