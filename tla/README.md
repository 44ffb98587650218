# GameRent: a TLA+ model of the rental service

GameRent rents game accounts by the hour. A customer reserves an account, has
fifteen minutes to pay (through a payment provider's webhook or from a wallet),
uses the account until the end of the period, and gets a deposit back unless an
administrator forfeits it during the 24-hour review. Everything is kept in
PostgreSQL; a Go API serves requests, and three background jobs in the same
process end what customers do not end.

This directory models the rental aggregate, where money and accounts can be
lost, and around it the sessions and administrators, the locks and connections
that transactions wait for, the synchronisation with Steam, what administrators
read while all this goes on, the rate limiter, and the life of the process.
`PROJECT.json` lists the runs, the mutations they were tested with, the source
lines behind every definition, the hazards and the theorems.

## 1. Inventory

| Component | State | Operations | What makes it correct |
|---|---|---|---|
| Rental ordering (`internal/rental`) | `rentals` | `RentAccount`, `CancelRental`, `GetRentalCredentials` | one live rental per account; access only for who paid, only during the period |
| Game accounts (`internal/account`, `repository/postgres/workers.go`) | `accounts.status`, prices | create, reprice, `DisableAccountIfIdle` | status says who has the account |
| Payments (`internal/payment`) | `payments`, `deposit_holds` | `ProcessWebhook`, `PayRentalWithBalance` | charged once, in full, or not at all |
| Settlement (`internal/payment`) | `deposit_holds`, `refunds`, `users.balance`, `financial_ledger_entries` | `ReleaseDeposit`, `ForfeitDeposit`, `RefundWalletPayment`, `FinalizeExpiredRentals` | one settlement per deposit; wallet = ledger; nothing held for ever |
| Balance adjustments (`payment/balance_adjustment.go`) | wallet, ledger | `AdjustAdminBalance` | applied once per idempotency key; balance stays in range |
| Clean-up jobs (`shared/scheduler`, `workers.go`) | the list and the time of the running pass | waiting-payment clean-up, expiry clean-up | end what is due, never what is not, whatever happened since the list was read |
| Sessions (`internal/auth`, `shared/middleware/auth.go`) | `refresh_tokens`, access tokens | register, login, refresh, logout | a token has one successor; a session does not outlive a change of its user's role or block |
| Administrators (`internal/user`, `shared/authorization`) | `users.role`, `is_blocked` | `UpdateUser`, `UpdateProfile` | only current admins act; one always remains |
| Transactions and pool (`shared/database`, `SELECT ... FOR UPDATE` everywhere) | row locks, advisory locks, connections | begin, lock, commit, roll back | nobody waits for ever |
| Admin listings and detail (`payment/admin_rentals.go`, the user pages of `payment/repository.go`) | none; answers put together from several queries | lists, totals, detail | the parts of an answer fit together and agree with the handlers |
| Steam synchronisation (`shared/scheduler/steam_sync.go`, `SyncAccountGames`) | `games`, `account_games`, `accounts.status` | pass over all accounts, sync on demand | one row per game, whole libraries, banned accounts leave |
| Process (`modules/app.go`, HTTP server, `shared/scheduler/scheduler.go`) | goroutines, contexts, the pool | start jobs, serve, shut down | a signal ends the process, in an order that breaks nothing |
| Rate limiter (`shared/middleware/rate_limiter.go`) | token buckets in memory | `Allow`, clean-up loop | no more than the burst plus the rate |
| Games, reviews, notifications, HTTP decoding, web | catalogue tables, none | reads, single-row writes | nothing relates two rows |

**How they interact.** Handlers and jobs share nothing but the database. Every
handler is one transaction (`database.TxManager.WithinTransaction`), every item
of a clean-up pass is one statement or transaction. The rows a decision depends
on are locked with `SELECT ... FOR UPDATE` before the decision is taken (except the
customer's row by an order, see below); admin
settlements also take an advisory lock per rental.

**What is hard.** Requests read the clock before they wait for locks. Clean-up
passes read a list and process it later, with the time of the list. The
provider repeats and delays webhooks. Four operations settle the same deposit
under four different idempotency keys. Five handlers and two jobs write
`accounts.status`. Passes are interrupted by errors and restarts. Balances are
64-bit columns. Login and profile updates read a user outside a transaction and
write later. Lists and details are read by several queries without a transaction.
Payment handlers and settlement handlers lock the same rows in opposite orders. A
search holds one connection while it asks for a second. Steam's answers are old
when they are written.

## 2. Modules

| Module | Contents |
|---|---|
| `FinancialLedger` | the append-only ledger: entries, unique idempotency keys, sums |
| `RentalLifecycle` | the rental aggregate: state, one action per handler or job step, properties |
| `AccountLease` | abstract specification: accounts are lent and given back |
| `Escrow` | abstract specification: money is kept for rentals, given back or forfeited |
| `RentalViews` | extends `RentalLifecycle` by the readers: lists, totals, the detail of a rental |
| `Sessions` | users, refresh and access tokens, administrators; requests split at their locks |
| `LockOrder` | every handler as a sequence of lock requests; deadlock detector, rollback, pool |
| `SteamSync` | the synchronisation job and administrators, Steam, the game tables |
| `ProcessLifecycle` | requests, jobs, signal, draining, joining, closing the pool |
| `RateLimiter` | the token buckets |
| `MC*`, `*.cfg` | small instances for TLC |
| `RentalLifecycleProofs` | types, agreement of rows, finality, `AccountLease` implemented, time limits |
| `RentalMoneyProofs` | sums of entries; wallets, charges, settlements and refunds against the ledger; `Escrow` implemented |
| `RentalViewsProofs` | what the readers of `RentalViews` show agrees with the rentals |
| `LockOrderProofs` | each lock order by itself is free of deadlocks |
| `SessionsProofs` | administrators, rotation and privileges of `Sessions` |
| `RateLimiterProofs` | the limiter is exact |
| `SteamSyncProofs` | games, libraries and bans of `SteamSync` |
| `ProcessLifecycleProofs` | the order of shutdown |

How the modules fit: `RentalLifecycle` takes a handler as one atomic step.
`LockOrder` looks inside that step at nothing but its locks, in the order of the
SQL, and `Sessions` splits its handlers in the same way. `RentalViews` composes
the aggregate with its readers. `SteamSync` sees of a rental only that the
account is busy, and `ProcessLifecycle` of a request or job only that it runs
and holds a connection.

### RentalLifecycle: state

`RentalLifecycle` has one variable per column that a decision reads, as a
function from ids (comments beside the `VARIABLES` name the columns), the clock,
and for each clean-up job the pass it is in: the captured time and the items not
yet processed. A row that does not exist has status `"Absent"`. A rental owns at
most one payment, one hold and one refund (unique constraints on `rental_id`), so
those rows are indexed by the rental. Status numbers are replaced by their names.

### RentalLifecycle: actions

| Action | Code |
|---|---|
| `CreateAccount`, `UpdateAccount`, `DisableAccountIfIdle` | `account/admin_service.go`, `workers.go` |
| `RentAccount` | `rental/service.go` `RentAccount` with `ReserveAccount`, `CreateRental`, `CreatePendingPayment` |
| `CancelRental` | `CancelWaitingPaymentRental` |
| `ProcessWebhook` (decision in `WebhookReply`) | `payment/service.go` `ProcessWebhook`, `recordFinancialFacts` |
| `PayRentalWithBalance` | `payment/service.go` |
| `GetRentalCredentials` | `rental/service.go`; `issued` stands for the security event it inserts |
| `ReleaseDeposit`, `ForfeitDeposit`, `RefundWalletPayment` | `payment/service.go`, each including `completeRentalAfterSettlement` (`Settle`) |
| `FinalizeNext` | one iteration of `FinalizeExpiredRentals`, head of its queue only |
| `AdjustAdminBalance` | `payment/balance_adjustment.go` |
| `ScanWaiting`, `ExpireWaitingPaymentReservation`, `SkipWaiting` | `waiting_payment_cleanup.go` and its repository calls |
| `ScanExpired`, `ExpireRental`, `SkipExpired` | `expired_cleanup.go` and its repository calls |
| `Restart` | the process stops; passes are lost |
| `Tick` | time |

An action is enabled exactly when the handler commits a change. A handler that
returns an error rolls back, and one that finds its work done answers without
changing a row; both are stuttering steps. `WebhookReply` still spells out all
answers of `ProcessWebhook`, because a property is about them.

### Time

`Recent` is the set of times a transaction that commits now may have captured:
up to `Delay` old. `RentAccount` has two of them: the handler's `time.Now()`,
from which `end_at` is computed, and the later `NOW()` of its transaction, from
which the database computes `payment_expires_at`. `PayRentalWithBalance` compares
the window with both; since the handler's time is the earlier one, the model
keeps the comparison with `NOW()`. One clock serves the processes and the
database. `FinalizeNext` takes its time from `Recent` too: an older time only
makes the finalizer more reluctant.

### The other modules

**`Sessions`.** `role`, `blocked`, `status`, `owner`, `expired` are columns, `access`
the access tokens handed out, `call` what each request in progress has read and
locked: locks are not state of their own but follow from `call`. `source` and
`fresh` are history: what a token was issued for, and whether the copy of the user
it was issued from is still right. `Register` and `Logout` are one step. `Login`
is `LoginRead`, `LoginInsert`; `Refresh` is `RefreshLock`, `RefreshRead`,
`RefreshRotate`, whose insert waits for the user's row because a foreign key's
`KEY SHARE` conflicts with `FOR UPDATE`; `UpdateProfile` is `ProfileRead`,
`ProfileWrite`; `UpdateUser` is `AdmitUpdate` (the middleware), `UpdateLock` (advisory
lock, actor re-checked, target locked), then `UpdateNothing` or `RevokeSnapshot` and
`UpdateCommit`. `Abort` rolls any of them back. Passwords, hashes and signatures
are right or the request is rejected.

**`LockOrder`.** One operator per handler gives its lock requests in the order of
its statements: `X` for `FOR UPDATE` and for advisory locks, `KS` for the share lock
that a foreign key takes, `Skip` for `SKIP LOCKED` and for a try-lock. One statement
that locks several tables takes them in the order of `FOR UPDATE OF`: PostgreSQL
locks the rows of a joined tuple in the order of that list.
`WaitsFor` is the wait-for graph, `DetectDeadlock` aborts a member of a cycle,
`Fail` rolls back at any point, `Begin` takes a connection. A search
(`SearchAccounts`) takes no lock, but needs a second connection before it gives
back its first.

**`RentalViews`.** A query is one step, and any transaction of `RentalLifecycle` may
commit between two (`Commit`). `rows` is the ledger in the order of `created_at`,
which is the start of a transaction: a commit may insert its entries, in any order of
their ids, before up to `Overtaken` entries that are there already (`RecordRows`). A list
is a set of rows (`ListedRows`) with the order that its query sorts by (`Before`); the
`Place` of a row is one more than the number of rows before it, and `LIMIT` and `OFFSET`
are bounds on the place (`OnPage`). `ReadRental`,
`ReadRefunds`, `ReadSums`, `ReadLatest` are the queries of `GetAdminRentalDetail`;
`StartWalk`, `ReadPage`, `ReadTotal`, `NextPage` are a reader who goes through a
list. Readers change nothing and so do not see each other: one at a time is enough.
Columns that are only displayed are left out.

**`SteamSync`.** `call` says where the job and each administrator are: asking for
bans or for games (`Retry` counts the attempts of `executeWithRetry`), disabling the
account, or in the transaction that writes games, which looks for each game
(`FindGame`) and inserts it when it found none (`InsertGame`, which waits for other
inserts of the same game and fails once one of them commits). A conflict on
`account_games` or a deadlock of two inserts appears as `Fail`. Names, playtimes and
back-off delays are left out; `FakeSteamClient` is a development stand-in.

**`ProcessLifecycle`.** `main` is the position of `modules.Run`, `coolOff` the goroutine
that waits three seconds after the signal, `job` and `req` the scheduler's goroutines
and the requests, `inTx` who holds a connection. Jobs run under `signalCtx` and
requests under the server's context, as in the code. The model starts when
everything is running; configuration, migrations and connecting come before.

**`RateLimiter`.** Time and tokens are whole numbers of small units, so the code's
`float64` arithmetic is exact here; its rounding is not modelled. The key of a bucket
(`X-Forwarded-For` or the address) is an element of a set.

### Abstractions of RentalLifecycle

- **Transactions are atomic.** This is what the row locks give under READ
  COMMITTED: a statement that waited for a row re-evaluates its condition on the
  new version. Lock waits appear as `Delay`, aborts as steps that do not happen;
  `LockOrder` is about both. One row is read without a lock: `RentAccount` locks
  the account and then only reads the customer's balance and block. The balance is
  compared with the price and not debited, and a block is not modelled; the action
  stands at that read, because nothing that commits between it and the order's commit
  touches a row that the order writes.
- **Who asks.** Ownership (`user_id`) is part of the row, so a customer's action
  on someone else's rental is a rejected request. Blocked customers, admin
  roles, reason codes and forfeit evidence only restrict when an action is
  requested; leaving them out allows more behaviours.
- **Amounts.** `MaxInt64` is a parameter, and every addition to a balance is
  guarded by it as `CreditUserBalance` and `checkedBalanceAdjustment` are. A
  webhook whose amount or currency differs from the payment is rejected and so
  not an action. Currency, audit rows, security events other than the credentials
  one, `start_at`, `updated_at` and metadata are left out. A refund row is inserted
  and completed by one transaction, so the status `Requested` is never seen.
- **Ids.** Rentals are positive numbers because the finalizer orders by id; the
  code draws them at random, so any unused id may be drawn.

## 3. What is checked

All safety runs use `Spec`; deadlock is not checked because the service is
driven by requests and the bounded instances use up their ids and their clock.

**`tenancy`** (`MCTenancy.cfg`): two customers, one account, two rentals with a
deposit, an hour of three ticks, a payment window and a review of one, captured
times up to one tick old, a clock of seven. Two rentals of one account are
enough for every hand-over (the second is ordered, waiting or active while the
first is being settled), and seven ticks cover the whole life of the first.
Checks `TypeOK`; `AccountMatchesRental` and `PaymentMatchesRental` (all rows tell
the same story); `ActivatedWithinPeriod`, `NothingEndsEarly`,
`CredentialsOnlyToTenant` (time limits with late commits and stale lists); and
`LendsAccounts`, the refinement of `AccountLease`. `CredentialsOnlyToTenant` lets a request
that waited for its locks answer up to `Delay` after the end of the period, because the
code does; what it excludes is a customer whose account has passed to somebody else and
access that lasts until the clean-up runs. The strict reading of the documents is
the run `credentials_deadline` below.

**`money`** (`MCMoney.cfg`): two customers, one account with and without a deposit
(prices may change between orders), two rentals, one external transaction, two
adjustment keys, credits and debits, and balances of at most 4, so that credits do
overflow. Checks `WalletMatchesLedger`, `ChargedExactlyOnce`, `DepositSettledOnce`,
`PaidBackWithinPaid`, `DecisionsAreFinal`, `HoldsMoney`, `RedeliveryIsRecognised`. `Delay` is 0 here: these properties
do not mention time, and the `tenancy` run varies it. A clock of four lets a rental be
ordered, paid, used, reviewed and finalized while a second one of the same account is
paid, used and settled by an administrator.

`HoldsMoney` is the refinement of `Escrow`: the *fund* of a rental is what its ledger entries
say was paid and has not left, its payer is the customer of a successful payment, and
every commit is one of `Pay`, `GiveBack`, `Forfeit` and `Adjust` or changes no money. The
invariants look at sums in one state; this property ties each movement to its step: what
leaves a rental and what arrives in a wallet agree in amount, owner and moment. With
idempotency keys that may repeat, a repeated adjustment moves a wallet again and the run
finds it.

`RedeliveryIsRecognised` is about the answer to a webhook that is delivered again after
other orders, payments and clean-ups: the checks of `ProcessWebhook` come in an order in
which a repetition never looks like a transaction that another payment has used.

Both use the symmetry of customers and of idempotency keys, which occur only in
equality tests.

**`progress`** (`MCProgress.cfg`): two accounts and two rentals under `FairSpec`, so
that one rental can be stuck while the other is processed, with adjustments that
can fill a wallet. Checks `UnpaidReservationsEnd`, `UsedUpRentalsExpire` and
`OnlyOverflowBlocksFinalizer`: a paid rental past its deadline completes, unless the
deposit of the rental at the head of the queue does not fit into its customer's
wallet. That exception is needed: an error at the head ends the pass, and the next
pass starts with the same rental, so every later deposit waits until the customer
has spent something.

*Fairness of `RentalLifecycle`.* The clock advances. `scheduler.runJob` executes each job at once and
at every tick of its ticker, so a scan that finds something and a list that is not
empty are not ignored for ever (weak fairness). An item may fail or be locked by
somebody else in any number of passes, but not in all of them (strong fairness of
the two expiry statements). The finalizer runs every ten seconds
(`modules/app.go`). Nothing is assumed of customers, administrators or the
provider; restarts may happen any number of times, but not so that the expiry
statement is never reached.

**`sessions`** (`MCSessions.cfg`): an administrator, a second user who registers and
may be promoted, three tokens, two requests at a time, requests for one field each.
Two administrators acting on each other, a refresh against a refresh, and a refresh
or a login against a demotion all happen with two requests; three tokens are a
rotated chain and a login beside it. Tokens and requests are interchangeable. Checks
`TypeOK`, `AdminRemains`, `OneSuccessor`, `RotatedSessionsAreCurrent` and
`PrivilegesChangeOnRequest`.

**`locks`** (`MCLockOrder.cfg`): thirteen requests, one of each kind, on two rentals of
one account, one of whose customers is an administrator; any three run at the same
time over a pool of three connections. Checks `EachOrderIsDeadlockFree` (payment
handlers lock payment before rental, the others rental before payment: every cycle
has one of each, or an administrator who is a customer) and `EveryRequestEnds`, with
the exception of searches that hold the whole pool and wait for each other. Three
transactions make cycles of two and three. *Fairness:* as long as a statement or the
detector can go on, one of them does; no request is expected to fail.

**`views`** (`MCRentalViews.cfg`): one rental with a deposit, a webhook, an adjustment,
a clock of three, pages of one row, commits that may sort before two others. Checks
`EligibilityAgrees`, `FlagsHold`, `DetailAddsUp` (no payment, settlement or refund is shown
without its ledger entries), `CountedIsListed` (five latest entries are enough to list
every entry counted), `PagesSkipNothing`, `TotalCoversPage`. A ledger has up to five rows
here, so a reader turns several pages while rows are added; the list of rentals has one,
which is enough for filters and not for the order of rentals. With two rentals the
readers multiply the states beyond reach; the theorems `PagesShowAll` and
`TotalsCoverPages` cover lists of any length.
Lists that rows leave again (filters on a status that passes) may skip rows: that is
what `OFFSET` does, and the two properties exclude them (`OnlyGrows`).

**`steam_sync`** (`MCSteamSync.cfg`): the job and one administrator, one account, two
games that Steam begins and stops reporting, two attempts per request. Two workers are
enough for a conflict of inserts and for a stale answer; the theorems cover any number.
Checks `OneRowPerGame`; `LibraryIsWhole`, every stored game came in an answer all of which
is stored, so that no synchronisation left a part; `DisabledForBan`; `BannedAccountsLeave`.
A stored library as a whole need not be any answer of Steam: games that Steam no longer
reports stay in `account_games`. *Fairness:* passes start and take every
account; calls of Steam and of the database end; for each account a ban check or a
disabling statement that could succeed again and again does so at some time.

**`shutdown`** (`MCShutdown.cfg`): two requests and two jobs. Checks `JobsHaveDatabase`;
`RequestsHaveDatabase`, a request accepted during the cool-off or while the jobs stop is
drained or cut off before the pool closes (only a failed listener skips the draining);
`SignalEndsProcess`, which also finds a connection that a panicking job would keep,
because closing the pool waits for it; `JobsKeepRunning`. *Fairness:* handlers of
jobs end, because their context is cancelled at the signal; a request is known to
end only once its context is cancelled; `select` chooses at random among ready cases,
so a stopped context is noticed in the end (strong fairness of `StopJob`).

**`rate_limiter`** (`MCRateLimiter.cfg`): rate 2, capacity 6, cost 3, sweeps after three
ticks, a clock of ten: buckets run empty, refill to a fraction of a request, overflow
and are swept. Checks `ExactLimit`, which takes in the cap of a bucket, and `WithinLimit`;
the types are a theorem.

Deadlock is checked in none of the runs but `steam_sync`: in the others ids, tokens,
the clock or the requests run out.

### Where the code does not do what a document says

Three runs expect a violation:

- **`forfeit_deadline`**: `docs/10-sequence-diagrams.md` says that at exactly the
  deadline a manual forfeit is rejected. `AdminForfeitDeposit` reads the time before it
  waits for the settlement lock, so a forfeiture may commit at or after the deadline.
- **`credentials_deadline`** (`MCCredentials.cfg`): `docs/07-domain-model.md` (11) says that at
  `now >= end_at` credentials are denied independently of the clean-up's timing, and docs
  02, 03, 05 and 10 say much the same. `GetMyRentalCredentials` reads the time before its
  transaction waits for the row locks (`handler_rental.go:225`), and the query compares
  that time with `end_at` (`rental/repository_postgres.go:197`), so credentials may be
  issued at or after the end by a request that waited.
- **`login_race`** (`MCLoginRace.cfg`): `docs/05-api-design.md` says that a role or block
  change revokes every active refresh token. A login that has read the user before the
  change inserts its token after it. Its access token carries the old role, which the
  middleware checks against the present one, and a blocked user cannot refresh; the
  token works again after an unblock.

Others were seen and have no run of their own:

- `docs/05-api-design.md` (368) says that an exact redelivery of a webhook returns
  idempotent success. `ProcessWebhook` does so only while the rental is active;
  afterwards the provider gets a conflict. (The Russian section of the same document
  restricts the promise to the active state.) `RedeliveryIsRecognised` states what the
  code does in either case.
- `docs/10-sequence-diagrams.md` (605) lets the wallet refund lock user, payment, rental,
  account and hold in this order. `RefundWalletPayment` locks rental, account, payment and
  hold, and the user last. `LockOrder` has the order of the code, on which
  `EachOrderIsDeadlockFree` rests.
- `docs/05-api-design.md` (693-698) names payment among the rate-limited endpoints;
  `auth/routes.go` puts the limiter only on register, login and refresh.
- `docs/02-srs.md` (FR-018) lets the synchronisation update the owned games;
  `syncAccountGames` inserts and updates, and never removes a game that Steam
  has stopped reporting.
- `docs/08-project-structure.md` (1724-1726) stops background jobs after the current
  requests. The jobs get `signalCtx` (`modules/app.go:171`) and stop at the signal,
  before the server stops accepting. `JobsHaveDatabase` holds in either order.
- The same list ends with the end of the process. If `ListenAndServe` fails, `Run` waits
  in `bgScheduler.Stop` (`modules/app.go:279`) for jobs that nobody tells to stop: the
  process serves nothing and stays until a signal comes. `SignalEndsProcess` covers what
  happens then.
- `docs/07-domain-model.md` (876) says an account is not published without a synchronised
  library. `CreateAdminAccount` (`account/repository_postgres.go:45`) inserts it as
  available, and the synchronisation that follows may fail.
- `docs/09-deployment.md`, `docs/10` and `docs/11` say the finalizer is not enabled as a
  scheduler loop, while `modules/app.go:158` registers `deposit_finalization` every ten
  seconds. The `progress` run relies on the code.

Each property was also checked against a mutation of the code's logic (operators
marked *Mutation*), which violates it.

## 4. What is proved

TLAPS proves the following for every value of the constants (any number of
customers, accounts, rentals, administrators, tokens, requests, games, jobs; every
price, rate, clock bound and delay) that satisfies the named assumptions.

| Module | Theorem | Statement |
|---|---|---|
| `RentalLifecycleProofs` | `TypeCorrect` | `Spec => []TypeOK` |
| | `AccountsAgree` | `Spec => []AccountMatchesRental` |
| | `PaymentsAgree` | `Spec => []PaymentMatchesRental` |
| | `FinalDecisions` | `Spec => DecisionsAreFinal` |
| | `Lends` | `Spec => LendsAccounts` |
| | `EndsInTime` | `Spec => NothingEndsEarly` |
| | `ActivatesInTime` | `Spec => ActivatedWithinPeriod` |
| | `CredentialsInTime` | `Spec => CredentialsOnlyToTenant` |
| | `RedeliveriesRecognised` | `Spec => []RedeliveryIsRecognised` |
| `RentalMoneyProofs` | `WalletsMatchLedger` | `Spec => []WalletMatchesLedger` |
| | `ChargesOnce` | `Spec => []ChargedExactlyOnce` |
| | `DepositsSettleOnce` | `Spec => []DepositSettledOnce` |
| | `PaysBackWithinPaid` | `Spec => []PaidBackWithinPaid` |
| | `KeepsInTrust` | `Spec => HoldsMoney` |
| `RentalViewsProofs` | `ListOffersRefunds` | `ViewSpec => []EligibilityAgrees` |
| | `DetailFlagsHold` | `ViewSpec => []FlagsHold` |
| | `DetailSumsUp` | `ViewSpec => []DetailAddsUp` |
| | `DetailListsCounted` | `ViewSpec => []CountedIsListed` |
| | `PagesShowAll` | `ViewSpec => []PagesSkipNothing` |
| | `TotalsCoverPages` | `ViewSpec => []TotalCoversPage` |
| `LockOrderProofs` | `OrdersAreDeadlockFree` | `Spec => []EachOrderIsDeadlockFree` |
| `SessionsProofs` | `SessionTypes` | `Spec => []TypeOK` |
| | `SomeAdmin` | `Spec => []AdminRemains` |
| | `NoFork` | `Spec => []OneSuccessor` |
| | `RotationIsCurrent` | `Spec => []RotatedSessionsAreCurrent` |
| | `PrivilegesAreSafe` | `Spec => PrivilegesChangeOnRequest` |
| `RateLimiterProofs` | `LimiterTypes` | `Spec => []TypeOK` |
| | `LimitIsExact` | `Spec => []ExactLimit` |
| | `LimitIsKept` | `Spec => []WithinLimit` |
| `SteamSyncProofs` | `GamesAreUnique` | `Spec => []OneRowPerGame` |
| | `LibrariesAreWhole` | `Spec => []LibraryIsWhole` |
| | `OnlyBansDisable` | `Spec => DisabledForBan` |
| `ProcessLifecycleProofs` | `JobsAreServed` | `Spec => []JobsHaveDatabase` |
| | `RequestsAreServed` | `Spec => []RequestsHaveDatabase` |

### The rental aggregate

*Assumptions.* `RentalsAssumption` (ids are positive), `PricingsAssumption` (hourly
prices positive, deposits not negative: `validateAdminPricing`), `TimeAssumption`
(durations are positive hours, windows are naturals) and `NullAssumption` (NULL is
not a value). The theorems about time, and through them those about views, also use
`WindowAssumption`: the payment window and the lock waits of two transactions fit
into an hour, the shortest period.

*Argument.* `TypeOK` is inductive; `MoneyTypes` in it needs the range guards of every
credit and debit. `AccountMatchesRental` is not inductive on its own: that a
settlement does not touch a live rental follows only from the hold's status, and
that a payment finds no earlier hold from the payment's status. The inductive
invariant is `Agreement == TypeOK /\ Tenancy /\ PaymentMatchesRental`, where `Tenancy`
is `AccountMatchesRental` written without set comprehensions. Steps come in a few
shapes (a reservation begins, is paid, fails; a rental expires; a deposit is
settled), and each shape has a lemma per conjunct; `AgreementNext` assigns every
action to its shape. `FinalDecisions` and `Lends` use `Agreement` in the same way: the
refinement maps `tenant` to the live rental of an account, which `Tenancy` makes
unique, and `served` to the rentals that exist.

*Time.* `TimeInv` adds to `Agreement` that the time of a clean-up pass is behind the clock
(`PassesBehind`), that a paid rental which is over has reached its end (`Ended`: a
settlement looks at the status and not at the clock), and that a payment window closes
at least `Delay` before the period (`Windows`). From it every step is `InTime`, and the three
action properties are parts of that.

*Webhooks.* `RedeliveryIsRecognised` needs to know where transaction ids come from.
`Transactions` adds to `Agreement` that exactly the successful payments of the provider
have one and that no two share one, which `ExtTxTaken` checks at each payment. From
that the answer to a repetition follows by the order of `WebhookReply`'s cases.

*Money.* `Total` sums the amounts of a set of entries by a recursive function. The library
has no usable induction rule for it, so `RentalMoneyProofs` argues with a smallest
counterexample: subsets of a finite set are well-founded by inclusion, and a smallest set
on which the equation of the sum failed would have a smaller one (`AllComputed`). The rest
rests on `TotalEmpty` and `TotalAdd`. `MoneyInv` is `Agreement`, a finite ledger with natural
amounts, `WalletMatchesLedger`, and for each rental its `Books`: exactly one charge of price
plus deposit if it is paid, at most one entry for the hold of the deposit, exactly one settlement, of the kind that the hold's status
says, if the deposit is decided, exactly one refund of the price if it is refunded, and
none of these otherwise. None of these is inductive by itself: that a
settlement is the first follows from the hold's status, which `PaymentMatchesRental` ties to
the payment, and not from the idempotency keys, which differ between the four ways to
settle. The statements count with `Cardinality` and `Total`; the proofs use singletons.

*Escrow.* `PaidInv` adds to `Agreement` that prices are positive and that a refunded rental is
completed; `Stays` is what no step changes once a rental is paid. The abstract fund is a
difference of two sums over the ledger. `FundIs` shows with `Books` that it equals
`Outstanding`, which the statuses of payment, hold and refund give and which is never
negative. With that a step of the aggregate can be compared with `Escrow` without
sums: a payment raises one fund from 0 to price plus deposit (positive by `Priced`), a
release, a refund or a finalized rental lowers one and credits its payer by the same
amount, a forfeiture lowers one, an adjustment uses a new key, and the steps without
money (`EscrowNext` takes each action in turn) leave every fund as it is.

*Views.* Readers do not change the rentals (`ViewStep`), so every invariant above holds under
`ViewSpec`. `EligibilityAgrees` follows from `PaidInv`. For the detail, `ShownInv` and `SumsInv` say what each query has read so far and
that it can only have become less than what is so now: what is shown as paid, settled or
refunded still is, so that the ledger, which is read later, has its entries. The list of
latest entries is complete because `Books` leaves a rental at most four (`FewEntries`): a
charge, a hold, a settlement and a refund.

*Pages.* `RowsOK` adds that `rows` is the ledger with every entry in one place (`RowsInv`) and that
finitely many rentals exist, although the set of possible ids need not be finite: each step creates at most one,
which `Lends` has shown (`ServedNext`). The order of a list is then strict (`BeforeOrder`). A commit
inserts entries and reorders none (`OrderKept`), so in a list that only grows the rows before
a row stay before it, its place never falls and the total never shrinks (`PlacesGrow`).
`PagesSkipNothing` says nothing before the end of a walk; the inductive `WalkInv` says at
each step that the rows still to be shown lie beyond what the offset has passed
(`Covered`). A page that shows rows ends within the list (`PageFits`): the first of the rows
shown has none of the others before it, so it and they are counted apart. That the
reader goes on while rows are left is the rounding of `total_pages` (`AnotherPage`).
`PageAssumption` (pages have at least one row) is the only assumption added.

### Sessions

*Assumptions.* `ProvisionedAssumption` (operators made at least one administrator),
`NamesAssumption` (NULL, users and tokens are distinct), `UpdatesAssumption` (the fields
of a request).

*Argument.* None of the properties is inductive: `AdminRemains` says nothing about
requests in progress. `SessionInv` adds what the locks protect. The advisory lock is
exclusive, and whoever holds it is in office and acts on somebody else (`InOffice`), so
a demotion leaves its actor. A token under rotation is active and locked by one request
(`TokenLocks`), and one with a successor is revoked (`Successors`), so rotation cannot
fork. The revoking statement has in its list every active session of its target
(`Covered`): inserts wait for the user's row, and a rotation holds the lock of its token,
for which the statement waits. What a rotation has read of its user is therefore still
so when it commits (`FreshRotations`). A login reads the user without a lock, which is
why the theorem excludes its sessions and the run `login_race` finds them.

### Rate limiter

*Assumptions.* `LimitsAssumption` (numbers are naturals, rate, capacity and cost positive)
and `StaleIsFullAssumption` (a bucket is full again before a sweep may delete it), which
holds for the code's ten minutes, ten tokens and five per second.

*Argument.* `LimiterInv` says that the level of a bucket equals the smallest headroom
over all windows that end now; both properties follow. A request lowers every
headroom by its cost, a tick raises every one by the rate and opens a window with
headroom `Capacity`, which is the cap; a sweep deletes only full buckets.

### Locks

*Assumption.* `KindsAssumption`: a request is of one of the twelve kinds and its rental has a
customer. Nothing is assumed about which rentals share accounts or customers, how many
transactions run, or how large the pool is.

*Argument.* `Locking` says that a transaction holds the locks of its requests so far and
that conflicting locks are never held by two (`Exclusive`). Locks get a `Rank`: the
settlement lock of a rental, the lock of administrative changes, an administrator's user
row, payment, rental, account, and last a customer's user row. `Ordered(q, P)` says that
requests come in ascending rank, except for locks of the kinds `P`, which a transaction
only takes below the rental they belong to. Members of a cycle that are all `Ordered`
with the same `P` cannot exist (`OrderPreventsCycles`): one that waits for a guarded row
would have to hold the rental that its holder holds, and of the others each waits for a
holder whose next lock ranks higher. The payment handlers are ordered with `P` empty,
the rental handlers with payment and hold guarded, and orders, adjustments and price
changes with either; so a cycle has a member of each order.

### Steam synchronisation and shutdown

No assumption about the constants is used. Steam's behaviour is part of `SteamSync`: it may begin and
stop reporting any game at any time, and it does not lift a ban. `SyncInv`: the answer a
worker is writing is one that Steam gave (`Answers`), and a commit adds all of it to the
library and takes nothing away, so that the answers already stored stay whole; an
uncommitted row of a game is the only one (`Uncommitted`), because a second insert of
the same unique key waits; a worker about to disable an account has seen
a ban (`BanSeen`). `ShutdownInv`: the pool closes only after every job has stopped; once
the server is draining nobody is accepted, and once it has returned no request runs with
a valid context, unless the listener had failed.

### Only model-checked

- Liveness under fairness (out of the prover's reach): `UnpaidReservationsEnd`,
  `UsedUpRentalsExpire`, `OnlyOverflowBlocksFinalizer`, `SignalEndsProcess`, `JobsKeepRunning`,
  `EveryRequestEnds`, `BannedAccountsLeave`.

## 5. Plan

1. *Proofs*: every invariant, action property and refinement of a run is a theorem. What is left is
   to shorten the proofs that repeat each other.
2. *Views*: an abstraction of the aggregate small enough for lists of several rentals.

Not modelled, and why: games, reviews and notifications (single rows guarded by one
SQL condition each), the trust score and audit rows (nothing reads them to decide),
Redis (connected and not used for decisions), request decoding, error codes and
signatures (they reject without changing state), encryption (pure), configuration,
migrations and connecting (they come before anything else runs), rounding of
`float64` in the rate limiter, the web client (all rules are the server's).
