----------------------------- MODULE RentalViews -----------------------------
(***************************************************************************)
(* What administrators and customers read while rentals go on: the pages of *)
(* rentals, ledger entries and refunds, and the detail of one rental.       *)
(*                                                                          *)
(* None of these reads runs in a transaction.  A page is one query and its  *)
(* total a second one; the detail is put together from four queries.  Each  *)
(* query is one step here, and every transaction of RentalLifecycle may     *)
(* commit between two of them, or between two pages.                        *)
(***************************************************************************)
EXTENDS RentalLifecycle, Sequences

CONSTANTS
  Filters,     \* the filters that rentals are listed with
  PageSize,    \* rows on a page
  Overtaken    \* bound: committed ledger entries that a late commit sorts before

ASSUME PageAssumption == PageSize \in Nat \ {0} /\ Overtaken \in Nat

VARIABLES
  rows,        \* financial_ledger_entries by created_at and id, oldest first
  detail,      \* GetAdminRentalDetail: what its queries have returned so far
  walk         \* a reader who goes through the pages of one list

viewVars == <<rows, detail, walk>>

NoDetail ==
  [step |-> "Idle", rental |-> NoRental, active |-> FALSE,
   row |-> [rental |-> "Absent", payment |-> "Absent", provider |-> Null, deposit |-> "NONE"],
   refund |-> "Absent", sums |-> [k \in EntryKinds |-> [count |-> 0, total |-> 0]], latest |-> {}]

NoWalk == [step |-> "Idle", list |-> <<>>, page |-> 0, had |-> {}, shown |-> {}, seen |-> {}, total |-> 0]

ViewInit == Init /\ rows = <<>> /\ detail = NoDetail /\ walk = NoWalk

\* The new entries of a commit get the start of their transaction as created_at:
\* they may sort before entries that other transactions have committed already, and
\* among each other by their ids, in any order.
RecordRows ==
  LET new == ledger' \ ledger
  IN \E p \in {q \in 0..Len(rows) : Len(rows) - q <= Overtaken},
        s \in Bijection(1..Cardinality(new), new) :
       rows' = SubSeq(rows, 1, p) \o s \o SubSeq(rows, p + 1, Len(rows))

-----------------------------------------------------------------------------
(* The columns of the administrators' list *)

\* adminPublicDepositStatus; the schema admits no other status of a hold.
adminPublicDepositStatus(r) ==
  IF rDeposit[r] <= 0 \/ hold[r] = "Absent" THEN "NONE"
  ELSE [Held |-> "HELD", Released |-> "RELEASED", Forfeited |-> "FORFEITED", Refunded |-> "REFUNDED"][hold[r]]

\* The same in SQL: the condition of the filter deposit_status = d.
DepositMatches(r, d) ==
  \/ d = "NONE" /\ (rDeposit[r] <= 0 \/ hold[r] = "Absent")
  \/ /\ rDeposit[r] > 0
     /\ \/ d = "HELD" /\ hold[r] = "Held"
        \/ d = "RELEASED" /\ hold[r] = "Released"
        \/ d = "FORFEITED" /\ hold[r] = "Forfeited"
        \/ d = "REFUNDED" /\ hold[r] = "Refunded"

\* Mutation: the list offers a refund as soon as the rental is paid.
EligibleOncePaid(r) == pProvider[r] = "balance" /\ pStatus[r] = "Success" /\ refund[r] # "Completed"

\* The column and filter eligible_wallet_refund.
EligibleWalletRefund(r) ==
  /\ pProvider[r] = "balance" /\ pStatus[r] = "Success"
  /\ rStatus[r] \in {"Expired", "Completed"}
  /\ refund[r] # "Completed"

Column(r) ==
  [rental |-> rStatus[r], payment |-> pStatus[r], provider |-> pProvider[r], user |-> rUser[r],
   refund |-> refund[r], eligible |-> EligibleWalletRefund(r), id |-> r]

\* adminRentalsBaseQuery: a filter gives values to some columns.
Matching(filter) ==
  {r \in Rentals :
     /\ rStatus[r] # "Absent"
     /\ \A c \in DOMAIN filter :
          IF c = "deposit" THEN DepositMatches(r, filter[c]) ELSE Column(r)[c] = filter[c]}

-----------------------------------------------------------------------------
(* Pages *)

\* ORDER BY created_at DESC, id DESC: payment_expires_at is created_at plus the window.
Newer(r, q) == payExp[r] > payExp[q] \/ (payExp[r] = payExp[q] /\ r > q)

\* The same order of ledger entries, and of refunds, which are written with an entry.
NewerEntry(e, f) == \E i, j \in DOMAIN rows : j < i /\ rows[i] = e /\ rows[j] = f

\* A customer's ledger.
LedgerRows(user) == {e \in ledger : e.user = user}

\* A customer's refunds; each is written together with its BALANCE_REFUND_CREDIT entry.
RefundRows(user) == {e \in ledger : e.user = user /\ e.kind = "BalanceRefundCredit"}

Lists ==
  [kind : {"ledger", "refunds"}, user : Users] \cup [kind : {"rentals"}, filter : Filters]

ListedRows(list) ==
  CASE list.kind = "ledger"  -> LedgerRows(list.user)
    [] list.kind = "refunds" -> RefundRows(list.user)
    [] list.kind = "rentals" -> Matching(list.filter)

Before(list, x, y) == IF list.kind = "rentals" THEN Newer(x, y) ELSE NewerEntry(x, y)

\* The number of a row in its list, from one.
Place(list, x) == 1 + Cardinality({y \in ListedRows(list) : Before(list, y, x)})

\* Mutation: pages are counted from zero in one place and from one in another.
OnNextPage(list, page) ==
  {x \in ListedRows(list) : page * PageSize < Place(list, x) /\ Place(list, x) <= (page + 1) * PageSize}

\* LIMIT PageSize OFFSET (page - 1) * PageSize
OnPage(list, page) ==
  {x \in ListedRows(list) : (page - 1) * PageSize < Place(list, x) /\ Place(list, x) <= page * PageSize}

StartWalk(list) ==
  /\ walk.step = "Idle"
  /\ walk' = [NoWalk EXCEPT !.step = "List", !.list = list, !.page = 1, !.had = ListedRows(list)]

\* ListAdminRentalEntries, ListUserLedgerEntries, ListUserRefundEntries.
ReadPage ==
  /\ walk.step = "List"
  /\ LET shown == OnPage(walk.list, walk.page)
     IN walk' = [walk EXCEPT !.step = "Count", !.shown = shown, !.seen = @ \cup shown]

\* Mutation: the total is the one of the time when the list was opened.
CachedTotal ==
  /\ walk.step = "Count"
  /\ walk' = [walk EXCEPT !.step = "Answered", !.total = Cardinality(walk.had)]

\* SummarizeAdminRentals, CountUserLedgerEntries, CountUserRefundEntries.
ReadTotal ==
  /\ walk.step = "Count"
  /\ walk' = [walk EXCEPT !.step = "Answered", !.total = Cardinality(ListedRows(walk.list))]

\* total_pages of the answer: the total divided by the page size, rounded up.
TotalPages == (walk.total + PageSize - 1) \div PageSize

\* The reader asks for the next page until there is none.
NextPage ==
  /\ walk.step = "Answered"
  /\ walk' = IF walk.page < TotalPages
             THEN [walk EXCEPT !.step = "List", !.page = @ + 1]
             ELSE [walk EXCEPT !.step = "End"]

-----------------------------------------------------------------------------
(* The detail of one rental *)

\* detail.SupportFlags.HasActiveCredentials
HasActiveCredentials(r, t) == rStatus[r] = "Active" /\ t < endAt[r] /\ pStatus[r] = "Success"

\* GetAdminRentalDetail captures t, then reads the rental with its payment and hold.
ReadRental(r, t) ==
  /\ detail.step = "Idle"
  /\ rStatus[r] # "Absent"
  /\ detail' = [NoDetail EXCEPT
       !.step = "Refunds", !.rental = r, !.active = HasActiveCredentials(r, t),
       !.row = [rental |-> rStatus[r], payment |-> pStatus[r], provider |-> pProvider[r],
                deposit |-> adminPublicDepositStatus(r)]]

ReadRefunds ==
  /\ detail.step = "Refunds"
  /\ detail' = [detail EXCEPT !.step = "Sums", !.refund = refund[detail.rental]]

\* Count and sum of the rental's entries by entry type.
ReadSums ==
  /\ detail.step = "Sums"
  /\ detail' = [detail EXCEPT !.step = "Latest",
       !.sums = [k \in EntryKinds |->
                   LET entries == EntriesOf(ledger, detail.rental, {k})
                   IN [count |-> Cardinality(entries), total |-> Total(entries)]]]

\* Mutation: the list shows fewer entries than a rental can have.
ThreeLatest == 3

LatestLimit == 5

\* ORDER BY created_at DESC, id DESC LIMIT LatestLimit
LatestEntries(r) ==
  LET of == {e \in ledger : e.rental = r}
  IN {e \in of : Cardinality({f \in of : NewerEntry(f, e)}) < LatestLimit}

\* Mutation: the rental is read once more at the end.
ReadRentalLast ==
  /\ detail.step = "Latest"
  /\ detail' = [detail EXCEPT !.step = "Done", !.latest = LatestEntries(detail.rental),
                              !.row.payment = pStatus[detail.rental],
                              !.row.deposit = adminPublicDepositStatus(detail.rental)]

ReadLatest ==
  /\ detail.step = "Latest"
  /\ detail' = [detail EXCEPT !.step = "Done", !.latest = LatestEntries(detail.rental)]

CloseDetail == detail.step = "Done" /\ detail' = NoDetail

\* Mutation: the provider of the payment is not looked at.
ReasonForAnyProvider(row, latestRefund) ==
  IF latestRefund = "Completed" THEN "REFUND_ALREADY_COMPLETED"
  ELSE IF row.payment # "Success" THEN "PAYMENT_NOT_SUCCESS"
  ELSE IF row.rental \notin {"Expired", "Completed"} THEN "RENTAL_NOT_EXPIRED_OR_COMPLETED"
  ELSE "ELIGIBLE"

\* adminWalletRefundEligibility, from what two different queries returned.
RefundReason(row, latestRefund) ==
  IF latestRefund = "Completed" THEN "REFUND_ALREADY_COMPLETED"
  ELSE IF row.provider # "balance" THEN "PAYMENT_PROVIDER_NOT_BALANCE"
  ELSE IF row.payment # "Success" THEN "PAYMENT_NOT_SUCCESS"
  ELSE IF row.rental \notin {"Expired", "Completed"} THEN "RENTAL_NOT_EXPIRED_OR_COMPLETED"
  ELSE "ELIGIBLE"

-----------------------------------------------------------------------------
Commit == Next /\ RecordRows /\ UNCHANGED <<detail, walk>>

\* Readers do not see each other: one of them at a time is enough.
ReadDetail ==
  /\ walk.step = "Idle"
  /\ \/ \E r \in Rentals, t \in Recent : ReadRental(r, t)
     \/ ReadRefunds \/ ReadSums \/ ReadLatest \/ CloseDetail
  /\ UNCHANGED <<vars, rows, walk>>

ReadList ==
  /\ detail.step = "Idle"
  /\ (\E list \in Lists : StartWalk(list)) \/ ReadPage \/ ReadTotal \/ NextPage
  /\ UNCHANGED <<vars, rows, detail>>

ViewNext == Commit \/ ReadDetail \/ ReadList

ViewSpec == ViewInit /\ [][ViewNext]_<<vars, viewVars>>

-----------------------------------------------------------------------------
(* Properties *)

\* The administrators' list offers a refund exactly for the rentals that
\* RefundWalletPayment accepts: the SQL looks at payment, rental and refund only,
\* the handler also at the price and at the deposit hold.
EligibilityAgrees == \A r \in Rentals : EligibleWalletRefund(r) <=> Refundable(r)

\* What the detail says about refunds and credentials, from queries at different
\* times, is still so when the administrator sees it: an eligible rental is
\* refundable unless it was refunded since, and a rental with credentials access
\* can get its credentials until its period ends.
FlagsHold ==
  detail.step = "Done" =>
    LET r == detail.rental
    IN /\ RefundReason(detail.row, detail.refund) = "ELIGIBLE" /\ refund[r] = "Absent" => Refundable(r)
       /\ detail.active /\ now < endAt[r] =>
            /\ rStatus[r] = "Active" /\ acctStatus[rAcct[r]] = "Rented"
            /\ pStatus[r] = "Success" /\ refund[r] = "Absent"

\* The parts of the detail fit together although anything may commit in between:
\* the ledger is read after the rental and its refund, so that it holds the charge
\* of a payment shown as successful, the settlement of a deposit shown as settled
\* and the credit of a refund shown as completed.
DetailAddsUp ==
  detail.step = "Done" =>
    LET count(k) == detail.sums[k].count
        shown == [RELEASED |-> "DepositReleasedBalance", FORFEITED |-> "DepositForfeited",
                  REFUNDED |-> "DepositRefundCredit"]
    IN /\ detail.row.payment = "Success" =>
            /\ count("ProviderPaymentReceived") + count("BalanceDebit") = 1
            /\ detail.sums["ProviderPaymentReceived"].total + detail.sums["BalanceDebit"].total
                 = rPrice[detail.rental] + rDeposit[detail.rental]
       /\ detail.row.deposit \in DOMAIN shown => count(shown[detail.row.deposit]) = 1
       /\ detail.refund = "Completed" => count("BalanceRefundCredit") = 1

\* Every entry that the detail counts is among the latest entries it lists: they are
\* read last, and no rental ever has more entries than the list shows.
CountedIsListed ==
  detail.step = "Done" =>
    \A k \in EntryKinds :
      detail.sums[k].count <= Cardinality({e \in detail.latest : e.kind = k})

\* Lists that no row ever leaves.
OnlyGrows(list) ==
  \/ list.kind # "rentals"
  \/ \A c \in DOMAIN list.filter :
       \/ c \in {"user", "id"}
       \/ c \in {"rental", "payment", "deposit", "refund"}
          /\ list.filter[c] \in {"Completed", "Cancelled", "Success", "Failed",
                                "RELEASED", "FORFEITED", "REFUNDED"}

\* Going through a list page by page while rows are added shows every row that was
\* there at the start: rows move to later pages and never to earlier ones.
PagesSkipNothing ==
  walk.step = "End" /\ OnlyGrows(walk.list) => walk.had \subseteq walk.seen

\* The total of an answer is never smaller than the rows shown with it.
TotalCoversPage ==
  walk.step = "Answered" /\ OnlyGrows(walk.list) =>
    walk.shown = {} \/ (walk.page - 1) * PageSize + Cardinality(walk.shown) <= walk.total
=============================================================================
