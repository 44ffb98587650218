--------------------------- MODULE FinancialLedger ---------------------------
(***************************************************************************)
(* The append-only table financial_ledger_entries, as a set of entries.    *)
(*                                                                         *)
(* Every movement of money is an entry with a deterministic idempotency    *)
(* key; the table's UNIQUE(idempotency_key) turns a second insert of the   *)
(* same key into ErrLedgerIdempotencyConflict, which rolls the enclosing   *)
(* transaction back.  A key is the tuple of the parts that the code prints *)
(* into one string, for instance "deposit:release:rental:<id>".            *)
(***************************************************************************)
EXTENDS Integers, FiniteSets, FiniteSetsExt

CONSTANT NoRental  \* the NULL rental_id of an entry that is not about a rental

\* Ledger entry types 1..9 of internal/payment/repository.go.
CreditKinds == {"DepositReleasedBalance", "BalanceRefundCredit",
                "DepositRefundCredit", "AdminCredit"}
DebitKinds == {"BalanceDebit", "AdminDebit"}
RecordKinds == {"ProviderPaymentReceived", "DepositHeld", "DepositForfeited"}
EntryKinds == CreditKinds \cup DebitKinds \cup RecordKinds

\* One row of financial_ledger_entries, with the columns the properties tell apart.
Entry(kind, key, user, rental, amount) ==
  [kind |-> kind, key |-> key, user |-> user, rental |-> rental, amount |-> amount]

\* Mutation: the table has no unique index on the key.
KeysRepeat(ledger, new) == TRUE

\* insertLedgerEntry succeeds: none of the new keys is in the table yet.
KeysUnused(ledger, new) == \A e \in ledger, n \in new : e.key # n.key

EntriesOf(ledger, r, kinds) == {e \in ledger : e.rental = r /\ e.kind \in kinds}

Total(entries) == MapThenSumSet(LAMBDA e : e.amount, entries)

\* What the ledger says user u's wallet holds: credits minus debits.
LedgerBalance(ledger, u) ==
  Total({e \in ledger : e.user = u /\ e.kind \in CreditKinds})
    - Total({e \in ledger : e.user = u /\ e.kind \in DebitKinds})
=============================================================================
