----------------------------- MODULE LockOrder -----------------------------
(***************************************************************************)
(* The transactions of the service as sequences of lock requests, and the  *)
(* connections they hold.  RentalLifecycle takes each of them as one       *)
(* atomic step; this module looks at how they wait for each other: row     *)
(* locks (X for FOR UPDATE, KS for the KEY SHARE a foreign key takes when  *)
(* a referring row is inserted), advisory locks, SKIP LOCKED, the deadlock *)
(* detector of PostgreSQL, rollback, and the bounded pool.                 *)
(***************************************************************************)
EXTENDS Naturals, Sequences, FiniteSets

CONSTANTS
  Customer,     \* Customer[r] is the user of rental r
  Account,      \* Account[r] is the account of rental r
  Kinds,        \* requests and job iterations: [kind, rental, actor]
  Txns,         \* bound: how many of them run at the same time
  PoolSize      \* pgxpool's MaxConns

\* The kinds are the handlers and jobs below, each on a rental that has a customer.
ASSUME KindsAssumption ==
  \A k \in Kinds :
    /\ k.kind \in {"RentAccount", "CancelRental", "Credentials", "Webhook", "Pay", "ExpireWaiting",
                   "ExpireRental", "Settle", "Finalize", "AdjustBalance", "UpdateAccount",
                   "SearchAccounts"}
    /\ k.rental \in DOMAIN Customer

Customers == {Customer[r] : r \in DOMAIN Customer}

VARIABLES
  txn,    \* what each transaction is
  state,  \* each transaction: New, Running, Ended
  pos,    \* how many of its lock requests have been granted
  held    \* the locks it holds

vars == <<txn, state, pos, held>>

-----------------------------------------------------------------------------
(* Lock requests of the handlers *)

X(kind, id)    == [lock |-> <<kind, id>>, mode |-> "X",  wait |-> TRUE]
KS(kind, id)   == [lock |-> <<kind, id>>, mode |-> "KS", wait |-> TRUE]
Skip(kind, id) == [lock |-> <<kind, id>>, mode |-> "X",  wait |-> FALSE]

User(r) == Customer[r]
Acct(r) == Account[r]

\* GetAccountForUpdate; the rental and the payment refer to the customer.
RentAccountLocks(r) == <<X("account", Acct(r)), KS("user", User(r))>>

\* CancelWaitingPaymentRental: FOR UPDATE OF r, p, a, then a security event.
CancelLocks(r) ==
  <<X("rental", r), X("payment", r), X("account", Acct(r)), KS("user", User(r))>>

\* GetRentalCredentials: FOR UPDATE OF r, a, p, then a security event.
CredentialsLocks(r) ==
  <<X("rental", r), X("account", Acct(r)), X("payment", r), KS("user", User(r))>>

\* LockPaymentForWebhookByExternalTransaction or ...ByID: FOR UPDATE OF p, r, a,
\* then ledger entries of the customer.
WebhookLocks(r) ==
  <<X("payment", r), X("rental", r), X("account", Acct(r)), KS("user", User(r))>>

\* LockWalletPaymentState: FOR UPDATE OF p, r, a, u.
WalletLocks(r) ==
  <<X("payment", r), X("rental", r), X("account", Acct(r)), X("user", User(r))>>

\* ExpireWaitingPaymentReservation: FOR UPDATE OF p, r, a, then a security event.
ExpireWaitingLocks(r) ==
  <<X("payment", r), X("rental", r), X("account", Acct(r)), KS("user", User(r))>>

\* ExpireRental: FOR UPDATE OF r, a SKIP LOCKED, then a security event.
ExpireRentalLocks(r) ==
  <<Skip("rental", r), Skip("account", Acct(r)), KS("user", User(r))>>

\* Mutation: the settlement locks the payment before the rental.
PaymentFirst(r) ==
  <<X("payment", r), X("rental", r), X("account", Acct(r)), X("hold", r), X("user", User(r))>>

\* LockDepositSettlementState: rental, account, payment, hold and user, in turn.
SettlementLocks(r) ==
  <<X("rental", r), X("account", Acct(r)), X("payment", r), X("hold", r), X("user", User(r))>>

\* RequireCurrentAdminForMutation: the global advisory lock and the admin's row.
AdminLocks(actor) == <<X("admin", "mutation"), X("user", actor)>>

\* LockRentalSettlementKey, RequireCurrentAdmin, the settlement's rows.
SettleLocks(r, actor) == <<X("key", r)>> \o AdminLocks(actor) \o SettlementLocks(r)

\* LockNextRentalFinalizationState: try-lock of the key, SKIP LOCKED on the rental.
FinalizeLocks(r) == <<Skip("key", r), Skip("rental", r)>> \o SettlementLocks(r)

\* AdjustAdminBalance: the admin, then the target's row.
AdjustLocks(r, actor) == AdminLocks(actor) \o <<X("user", User(r))>>

\* UpdateAccount and DisableAccountIfIdleAsCurrentAdmin.
AccountAdminLocks(r, actor) == AdminLocks(actor) \o <<X("account", Acct(r))>>

Requests(t) ==
  LET r == txn[t].rental
      actor == txn[t].actor
  IN CASE txn[t].kind = "RentAccount"    -> RentAccountLocks(r)
       [] txn[t].kind = "CancelRental"   -> CancelLocks(r)
       [] txn[t].kind = "Credentials"    -> CredentialsLocks(r)
       [] txn[t].kind = "Webhook"        -> WebhookLocks(r)
       [] txn[t].kind = "Pay"            -> WalletLocks(r)
       [] txn[t].kind = "ExpireWaiting"  -> ExpireWaitingLocks(r)
       [] txn[t].kind = "ExpireRental"   -> ExpireRentalLocks(r)
       [] txn[t].kind = "Settle"         -> SettleLocks(r, actor)
       [] txn[t].kind = "Finalize"       -> FinalizeLocks(r)
       [] txn[t].kind = "AdjustBalance"  -> AdjustLocks(r, actor)
       [] txn[t].kind = "UpdateAccount"  -> AccountAdminLocks(r, actor)
       [] txn[t].kind = "SearchAccounts" -> <<>>

-----------------------------------------------------------------------------
(* Waiting *)

Running  == {t \in Txns : state[t] = "Running"}
NextReq(t) == Requests(t)[pos[t] + 1]
HasNext(t) == pos[t] < Len(Requests(t))

Conflict(m, n) == m = "X" \/ n = "X"

\* The transactions whose locks keep t's next request waiting.
WaitsFor(t) ==
  IF t \notin Running \/ ~HasNext(t) THEN {}
  ELSE {s \in Txns \ {t} :
          \E h \in held[s] : h.lock = NextReq(t).lock /\ Conflict(h.mode, NextReq(t).mode)}

\* The smallest sets in which everyone waits for someone of the set: the cycles.
Cycles ==
  LET waits == [t \in Running |-> WaitsFor(t)]
      Deadlocked(S) == S # {} /\ \A t \in S : waits[t] \cap S # {}
  IN {S \in SUBSET {t \in Running : waits[t] # {}} :
        Deadlocked(S) /\ \A t \in S : ~Deadlocked(S \ {t})}

\* A search reads accounts from one connection and, before the rows are closed,
\* the games of each account through another.
IsSearch(t) == txn[t].kind = "SearchAccounts"
Used == Cardinality(Running)

Init ==
  /\ txn \in [Txns -> Kinds]
  /\ state = [t \in Txns |-> "New"]
  /\ pos = [t \in Txns |-> 0]
  /\ held = [t \in Txns |-> {}]

Release(t) ==
  /\ state' = [state EXCEPT ![t] = "Ended"]
  /\ held' = [held EXCEPT ![t] = {}]
  /\ pos' = [pos EXCEPT ![t] = 0]
  /\ UNCHANGED txn

\* WithinTransaction (or a search): a connection of the pool.
Begin(t) ==
  /\ state[t] = "New" /\ Used < PoolSize
  /\ state' = [state EXCEPT ![t] = "Running"]
  /\ UNCHANGED <<txn, pos, held>>

\* The next lock is granted.
Acquire(t) ==
  /\ t \in Running /\ HasNext(t) /\ WaitsFor(t) = {}
  /\ held' = [held EXCEPT ![t] = @ \cup {[lock |-> NextReq(t).lock, mode |-> NextReq(t).mode]}]
  /\ pos' = [pos EXCEPT ![t] = @ + 1]
  /\ UNCHANGED <<txn, state>>

\* SKIP LOCKED and pg_try_advisory_xact_lock find no row; the iteration ends.
SkipLocked(t) ==
  /\ t \in Running /\ WaitsFor(t) # {} /\ ~NextReq(t).wait
  /\ Release(t)

Commit(t) ==
  /\ t \in Running /\ ~IsSearch(t) /\ ~HasNext(t)
  /\ Release(t)

\* getAccountGames gets its connection, and the search can finish.
FinishSearch(t) ==
  /\ t \in Running /\ IsSearch(t) /\ Used < PoolSize
  /\ Release(t)

\* Mutation: an error is returned without Rollback.
FailWithoutRollback(t) ==
  /\ t \in Running
  /\ state' = [state EXCEPT ![t] = "Ended"]
  /\ UNCHANGED <<txn, pos, held>>

\* An error, a panic or a cancelled request: WithinTransaction rolls back.
Fail(t) ==
  /\ t \in Running
  /\ Release(t)

\* PostgreSQL aborts one transaction of a cycle.
DetectDeadlock ==
  \E S \in Cycles : \E t \in S :
    /\ \A s \in S : NextReq(s).wait
    /\ Release(t)

Step(t) == Begin(t) \/ Acquire(t) \/ SkipLocked(t) \/ Commit(t) \/ FinishSearch(t)

Next == (\E t \in Txns : Step(t) \/ Fail(t)) \/ DetectDeadlock

Spec == Init /\ [][Next]_vars

\* As long as a statement or the deadlock detector can go on, one of them does;
\* nobody has to fail.
FairSpec == Spec /\ WF_vars((\E t \in Txns : Step(t)) \/ DetectDeadlock)

-----------------------------------------------------------------------------
(* Properties *)

\* The handlers that decide about a payment lock it before its rental, all
\* others the rental before the payment; an order touches neither.
PaymentOrder == {"Webhook", "Pay", "ExpireWaiting"}
RentalOrder  == {"CancelRental", "Credentials", "ExpireRental", "Settle", "Finalize"}

\* A deadlock always involves a handler of each order, or an administrator who
\* is a customer of the same account: neither the payment handlers nor the
\* cancellation, expiry and settlement handlers can block each other, with two
\* rentals of one account, with orders, adjustments and price changes among them.
EachOrderIsDeadlockFree ==
  \A S \in Cycles :
    (\A t \in S : txn[t].actor \notin Customers) =>
      /\ \E t \in S : txn[t].kind \in PaymentOrder
      /\ \E t \in S : txn[t].kind \in RentalOrder

\* Every request ends, by itself or aborted by the detector: none is left
\* waiting for a lock or a connection that nobody will give back, unless
\* searches hold the whole pool.
PoolFullOfSearches == Cardinality({t \in Running : IsSearch(t)}) >= PoolSize
EveryRequestEnds ==
  <>((\A t \in Txns : state[t] = "Ended") \/ PoolFullOfSearches)
=============================================================================
