------------------------- MODULE RentalViewsProofs --------------------------
(***************************************************************************)
(* What the unlocked reads of the admin listings and of the rental detail  *)
(* show agrees with the rentals they were read from, for every number of   *)
(* customers, accounts and rentals.                                        *)
(***************************************************************************)
EXTENDS RentalViews, RentalMoneyProofs, SequenceTheorems

-----------------------------------------------------------------------------
(* Readers do not disturb the rentals *)

LEMMA ViewInitial == ViewInit => Init
BY DEF ViewInit

LEMMA ViewStep == [ViewNext]_<<vars, viewVars>> => [Next]_vars
BY DEF ViewNext, Commit, ReadDetail, ReadList

-----------------------------------------------------------------------------
(* The list *)

LEMMA ViewPaid == ViewSpec => []PaidInv
BY ViewInitial, ViewStep, PaidInit, PaidNext, PTL DEF ViewSpec

\* The administrators' list offers a refund exactly for the rentals that the refund
\* handler accepts, in every state of any number of rentals: the price and the deposit
\* hold, which only the handler looks at, follow from what the list looks at.
THEOREM ListOffersRefunds == ViewSpec => []EligibilityAgrees
<1>1. PaidInv => EligibilityAgrees
  <2> SUFFICES ASSUME PaidInv, NEW r \in Rentals PROVE EligibleWalletRefund(r) <=> Refundable(r)
    BY DEF EligibilityAgrees
  <2>1. refund[r] \in {"Absent", "Completed"}
    BY DEF PaidInv, Agreement, TypeOK, PaymentTypes
  <2>2. rStatus[r] \in {"Expired", "Completed"} => rPrice[r] > 0
    BY DEF PaidInv, Priced
  <2>3. pStatus[r] = "Success" /\ rDeposit[r] > 0 => hold[r] # "Absent"
    BY DEF PaidInv, Agreement, PaymentMatchesRental
  <2> QED BY <2>1, <2>2, <2>3 DEF EligibleWalletRefund, Refundable
<1> QED BY <1>1, ViewPaid, PTL

-----------------------------------------------------------------------------
(* The detail *)

\* What the first query returned still holds, as far as paid rentals cannot go back.
Shown ==
  detail.step # "Idle" =>
    LET r == detail.rental
    IN /\ r \in Rentals
       /\ detail.row.payment = "Success" =>
            /\ pStatus[r] = "Success"
            /\ detail.row.provider = "balance" => pProvider[r] = "balance"
            /\ detail.row.rental \in {"Expired", "Completed"} => rStatus[r] \in {"Expired", "Completed"}
       /\ detail.active => detail.row.payment = "Success"

DetailFields == DOMAIN detail = {"step", "rental", "active", "row", "refund", "sums", "latest"}

ShownInv == PaidInv /\ TimeInv /\ DetailFields /\ Shown

LEMMA ShownNext == ShownInv /\ [ViewNext]_<<vars, viewVars>> => ShownInv'
<1> SUFFICES ASSUME ShownInv, [ViewNext]_<<vars, viewVars>> PROVE ShownInv'
  OBVIOUS
<1>1. [Next]_vars
  BY ViewStep
<1>2. PaidInv' /\ TimeInv' /\ Stays
  BY <1>1, PaidNext, TimeNext, SteadyNext DEF ShownInv, Steady
<1>3. CASE detail' = detail
  BY <1>2, <1>3 DEF ShownInv, Shown, Stays, DetailFields
<1>4. CASE ReadDetail
  <2>1. UNCHANGED <<rStatus, pStatus, pProvider>>
    BY <1>4 DEF ReadDetail, vars, paymentVars
  <2>2. ASSUME NEW r \in Rentals, NEW t \in Recent, ReadRental(r, t) PROVE Shown'
    <3>1. /\ detail'.step = "Refunds" /\ detail'.rental = r /\ detail'.active = HasActiveCredentials(r, t)
          /\ detail'.row.rental = rStatus[r] /\ detail'.row.payment = pStatus[r]
          /\ detail'.row.provider = pProvider[r]
      BY <2>2 DEF ReadRental, NoDetail
    <3> QED BY <2>1, <3>1 DEF Shown, HasActiveCredentials
  <2>3. ASSUME ReadRefunds \/ ReadSums \/ ReadLatest PROVE Shown'
    <3>1. /\ detail.step # "Idle" /\ detail'.rental = detail.rental /\ detail'.active = detail.active
          /\ detail'.row = detail.row
      BY <2>3 DEF ReadRefunds, ReadSums, ReadLatest, ShownInv, DetailFields
    <3> QED BY <2>1, <3>1 DEF Shown, ShownInv
  <2>4. ASSUME CloseDetail PROVE Shown'
    BY <2>4 DEF CloseDetail, NoDetail, Shown
  <2>5. DetailFields'
    BY <1>4 DEF ReadDetail, ReadRental, ReadRefunds, ReadSums, ReadLatest, CloseDetail, NoDetail, ShownInv, DetailFields
  <2> QED BY <1>2, <1>4, <2>2, <2>3, <2>4, <2>5 DEF ReadDetail, ShownInv
<1> QED BY <1>3, <1>4 DEF ViewNext, Commit, ReadList, viewVars

\* What the detail says of refunds and credentials is still so when the administrator
\* sees it, whatever committed between its queries.
THEOREM DetailFlagsHold == ViewSpec => []FlagsHold
<1>1. ViewInit => ShownInv
  BY ViewInitial, PaidInit, TimeInit DEF ViewInit, ShownInv, Shown, DetailFields, NoDetail
<1>2. ShownInv => FlagsHold
  <2> SUFFICES ASSUME ShownInv, detail.step = "Done" PROVE FlagsHold
    BY DEF FlagsHold
  <2> DEFINE r == detail.rental
  <2>1. r \in Rentals
    BY DEF ShownInv, Shown
  <2>2. /\ rStatus[r] \in {"Expired", "Completed"} => rPrice[r] > 0
        /\ pStatus[r] = "Success" /\ rDeposit[r] > 0 => hold[r] # "Absent"
    BY <2>1 DEF ShownInv, PaidInv, Priced, Agreement, PaymentMatchesRental
  <2>3. RefundReason(detail.row, detail.refund) = "ELIGIBLE" /\ refund[r] = "Absent" => Refundable(r)
    BY <2>2 DEF RefundReason, Refundable, ShownInv, Shown
  <2>4. ASSUME detail.active, now < endAt[r]
        PROVE  /\ rStatus[r] = "Active" /\ acctStatus[rAcct[r]] = "Rented"
               /\ pStatus[r] = "Success" /\ refund[r] = "Absent"
    <3>1. pStatus[r] = "Success"
      BY <2>4 DEF ShownInv, Shown
    <3>2. rStatus[r] \in {"Active", "Expired", "Completed"}
      BY <2>1, <3>1 DEF ShownInv, PaidInv, Agreement, PaymentMatchesRental, TypeOK, RentalTypes, RentalStatuses
    <3>3. endAt[r] \in Nat /\ now \in Nat
      BY <2>1, TimeAssumption DEF ShownInv, PaidInv, Agreement, TypeOK, RentalTypes
    <3>4. rStatus[r] = "Active"
      BY <2>1, <2>4, <3>1, <3>2, <3>3 DEF ShownInv, TimeInv, Ended
    <3>5. acctStatus[rAcct[r]] = "Rented" /\ refund[r] = "Absent"
      BY <2>1, <3>4 DEF ShownInv, PaidInv, Agreement, Tenancy, RefundedIsOver
    <3> QED BY <3>1, <3>4, <3>5
  <2> QED BY <2>3, <2>4 DEF FlagsHold
<1> QED BY <1>1, <1>2, ShownNext, PTL DEF ViewSpec

-----------------------------------------------------------------------------
(* The sums of the detail *)

\* The entry type that settles a deposit shown with this status.
SettledBy ==
  [RELEASED |-> "DepositReleasedBalance", FORFEITED |-> "DepositForfeited", REFUNDED |-> "DepositRefundCredit"]

\* A deposit shown as settled is settled so.
DepositShown(r) ==
  detail.row.deposit \in DOMAIN SettledBy =>
    hold[r] \in Decided /\ SettlementKind[hold[r]] = SettledBy[detail.row.deposit]

Summed(r) ==
  LET count(k) == detail.sums[k].count
  IN /\ detail.row.payment = "Success" =>
          /\ count("ProviderPaymentReceived") + count("BalanceDebit") = 1
          /\ detail.sums["ProviderPaymentReceived"].total + detail.sums["BalanceDebit"].total
               = rPrice[r] + rDeposit[r]
     /\ detail.row.deposit \in DOMAIN SettledBy => count(SettledBy[detail.row.deposit]) = 1
     /\ detail.refund = "Completed" => count("BalanceRefundCredit") = 1

\* What the detail has read of a rental's money still holds.
SumsShown ==
  /\ detail.step # "Idle" => DepositShown(detail.rental)
  /\ detail.step \in {"Sums", "Latest", "Done"} /\ detail.refund = "Completed" =>
       refund[detail.rental] = "Completed"
  /\ detail.step \in {"Latest", "Done"} => Summed(detail.rental)

LEMMA ChargeCounts ==
  ASSUME MoneyInv, NEW r \in Rentals, pStatus[r] = "Success"
  PROVE  LET provider == EntriesOf(ledger, r, {"ProviderPaymentReceived"})
             wallet == EntriesOf(ledger, r, {"BalanceDebit"})
         IN /\ Cardinality(provider) + Cardinality(wallet) = 1
            /\ Total(provider) + Total(wallet) = rPrice[r] + rDeposit[r]
<1> DEFINE provider == EntriesOf(ledger, r, {"ProviderPaymentReceived"})
           wallet == EntriesOf(ledger, r, {"BalanceDebit"})
<1>1. PICK e : EntriesOf(ledger, r, ChargeKinds) = {e} /\ e.amount = rPrice[r] + rDeposit[r]
  BY DEF MoneyInv, Books, Charged
<1>2. e.amount \in Nat
  BY <1>1 DEF MoneyInv, Agreement, TypeOK, RentalTypes
<1>3. \/ provider = {e} /\ wallet = {}
      \/ provider = {} /\ wallet = {e}
  BY <1>1 DEF EntriesOf, ChargeKinds
<1>4. Cardinality({e}) = 1 /\ Cardinality({}) = 0 /\ Total({e}) = e.amount /\ Total({}) = 0
  BY <1>2, FS_Singleton, FS_EmptySet, TotalSingle, TotalEmpty
<1> HIDE DEF provider, wallet
<1>5. Cardinality(provider) + Cardinality(wallet) = 1 /\ Total(provider) + Total(wallet) = e.amount
  BY <1>2, <1>3, <1>4
<1> QED BY <1>1, <1>5 DEF provider, wallet

LEMMA SettlementCount ==
  ASSUME MoneyInv, NEW r \in Rentals, hold[r] \in Decided
  PROVE  Cardinality(EntriesOf(ledger, r, {SettlementKind[hold[r]]})) = 1
<1>1. PICK e : EntriesOf(ledger, r, SettlementKinds) = {e} /\ e.kind = SettlementKind[hold[r]]
  BY DEF MoneyInv, Books, Settled
<1>2. SettlementKind[hold[r]] \in SettlementKinds
  BY DEF Decided, SettlementKind, SettlementKinds
<1>3. EntriesOf(ledger, r, {SettlementKind[hold[r]]}) = {e}
  BY <1>1, <1>2 DEF EntriesOf
<1> QED BY <1>3, FS_Singleton

LEMMA RefundCount ==
  ASSUME MoneyInv, NEW r \in Rentals, refund[r] = "Completed"
  PROVE  Cardinality(EntriesOf(ledger, r, {"BalanceRefundCredit"})) = 1
<1>1. PICK e : EntriesOf(ledger, r, RefundKinds) = {e}
  BY DEF MoneyInv, Books, Returned
<1> QED BY <1>1, FS_Singleton DEF RefundKinds

SumsInv == MoneyInv /\ ShownInv /\ SumsShown

\* A commit between two queries of the detail.
LEMMA SumsKept ==
  ASSUME SumsInv, [Next]_vars, detail' = detail PROVE SumsShown'
<1>1. Stays /\ FinalStep
  BY SteadyNext, FinalNext DEF SumsInv, ShownInv, PaidInv, Steady
<1>2. CASE detail.step = "Idle"
  BY <1>2 DEF SumsShown
<1>3. CASE detail.step # "Idle"
  <2> DEFINE r == detail.rental
  <2>1. r \in Rentals /\ DepositShown(r) /\ (detail.row.payment = "Success" => pStatus[r] = "Success")
    BY <1>3 DEF SumsInv, SumsShown, ShownInv, Shown
  <2>2. DepositShown(r)'
    BY <1>1, <2>1, SettledStatuses DEF DepositShown, FinalStep, Decided
  <2>3. refund[r] = "Completed" => pStatus[r] = "Success" /\ refund'[r] = "Completed"
    <3>1. refund[r] = "Completed" => pStatus[r] = "Success"
      BY <2>1 DEF SumsInv, MoneyInv, Books, Returned
    <3> QED BY <1>1, <2>1, <3>1 DEF Stays
  <2>4. ASSUME Summed(r) PROVE Summed(r)'
    BY <1>1, <2>1, <2>4 DEF Summed, Stays
  <2> QED BY <2>2, <2>3, <2>4 DEF SumsInv, SumsShown
<1> QED BY <1>2, <1>3

LEMMA SumsNext == SumsInv /\ [ViewNext]_<<vars, viewVars>> => SumsInv'
<1> SUFFICES ASSUME SumsInv, [ViewNext]_<<vars, viewVars>> PROVE SumsInv'
  OBVIOUS
<1>1. [Next]_vars /\ MoneyInv' /\ ShownInv'
  BY ViewStep, MoneyNext, ShownNext DEF SumsInv
<1>2. ASSUME detail' = detail PROVE SumsShown'
  BY <1>1, <1>2, SumsKept
<1>3. ASSUME ReadDetail PROVE SumsShown'
  <2>1. UNCHANGED <<hold, refund, rPrice, rDeposit>>
    BY <1>3 DEF ReadDetail, vars, holdVars, orderVars
  <2>0. DetailFields
    BY DEF SumsInv, ShownInv
  <2>2. ASSUME NEW r \in Rentals, NEW t \in Recent, ReadRental(r, t) PROVE SumsShown'
    <3>1. detail'.step = "Refunds" /\ detail'.rental = r /\ detail'.row.deposit = adminPublicDepositStatus(r)
      BY <2>2 DEF ReadRental, NoDetail
    <3>2. hold[r] \in HoldStatuses
      BY DEF SumsInv, MoneyInv, Agreement, TypeOK, PaymentTypes
    <3>3. adminPublicDepositStatus(r) \in DOMAIN SettledBy =>
            hold[r] \in Decided /\ SettlementKind[hold[r]] = SettledBy[adminPublicDepositStatus(r)]
      BY <3>2 DEF adminPublicDepositStatus, SettledBy, Decided, SettlementKind, HoldStatuses
    <3>4. DepositShown(r)'
      BY <2>1, <3>1, <3>3 DEF DepositShown
    <3> QED BY <3>1, <3>4 DEF SumsShown
  <2>3. ASSUME ReadRefunds PROVE SumsShown'
    <3>1. /\ detail.step # "Idle" /\ detail'.step = "Sums" /\ detail'.rental = detail.rental
          /\ detail'.row = detail.row /\ detail'.refund = refund[detail.rental]
      BY <2>0, <2>3 DEF ReadRefunds, DetailFields
    <3> QED BY <2>1, <3>1 DEF SumsShown, SumsInv, DepositShown
  <2>4. ASSUME ReadSums PROVE SumsShown'
    <3> DEFINE r == detail.rental
               sum(k) == [count |-> Cardinality(EntriesOf(ledger, r, {k})), total |-> Total(EntriesOf(ledger, r, {k}))]
    <3>1. /\ detail.step = "Sums" /\ detail'.step = "Latest" /\ detail'.rental = r
          /\ detail'.row = detail.row /\ detail'.refund = detail.refund
          /\ detail'.sums = [k \in EntryKinds |-> sum(k)]
      BY <2>0, <2>4 DEF ReadSums, DetailFields
    <3>2. /\ r \in Rentals /\ DepositShown(r) /\ (detail.row.payment = "Success" => pStatus[r] = "Success")
          /\ detail.refund = "Completed" => refund[r] = "Completed"
      BY <3>1 DEF SumsInv, SumsShown, ShownInv, Shown
    <3>3. \A k \in EntryKinds : /\ detail'.sums[k].count = Cardinality(EntriesOf(ledger, r, {k}))
                                /\ detail'.sums[k].total = Total(EntriesOf(ledger, r, {k}))
      BY <3>1
    <3>4. {"ProviderPaymentReceived", "BalanceDebit", "BalanceRefundCredit"} \subseteq EntryKinds
      BY DEF EntryKinds, CreditKinds, DebitKinds, RecordKinds
    <3>5. \A d \in DOMAIN SettledBy : SettledBy[d] \in EntryKinds
      BY DEF SettledBy, EntryKinds, CreditKinds, DebitKinds, RecordKinds
    <3> HIDE DEF r, sum
    <3>6. detail.row.payment = "Success" =>
            /\ detail'.sums["ProviderPaymentReceived"].count + detail'.sums["BalanceDebit"].count = 1
            /\ detail'.sums["ProviderPaymentReceived"].total + detail'.sums["BalanceDebit"].total
                 = rPrice[r] + rDeposit[r]
      BY <3>2, <3>3, <3>4, ChargeCounts DEF SumsInv
    <3>7. detail.row.deposit \in DOMAIN SettledBy => detail'.sums[SettledBy[detail.row.deposit]].count = 1
      <4> SUFFICES ASSUME detail.row.deposit \in DOMAIN SettledBy
                   PROVE  detail'.sums[SettledBy[detail.row.deposit]].count = 1
        OBVIOUS
      <4>1. hold[r] \in Decided /\ SettlementKind[hold[r]] = SettledBy[detail.row.deposit]
        BY <3>2 DEF DepositShown
      <4>2. Cardinality(EntriesOf(ledger, r, {SettledBy[detail.row.deposit]})) = 1
        BY <3>2, <4>1, SettlementCount DEF SumsInv
      <4> QED BY <3>3, <3>5, <4>2
    <3>8. detail.refund = "Completed" => detail'.sums["BalanceRefundCredit"].count = 1
      BY <3>2, <3>3, <3>4, RefundCount DEF SumsInv
    <3>9. Summed(r)'
      BY <2>1, <3>1, <3>6, <3>7, <3>8 DEF Summed, r
    <3>10. DepositShown(r)'
      BY <2>1, <3>1, <3>2 DEF DepositShown, r
    <3> QED BY <2>1, <3>1, <3>2, <3>9, <3>10 DEF SumsShown, r
  <2>5. ASSUME ReadLatest PROVE SumsShown'
    <3>1. /\ detail.step = "Latest" /\ detail'.step = "Done" /\ detail'.rental = detail.rental
          /\ detail'.row = detail.row /\ detail'.refund = detail.refund /\ detail'.sums = detail.sums
      BY <2>0, <2>5 DEF ReadLatest, DetailFields
    <3>2. DepositShown(detail.rental) /\ Summed(detail.rental)
          /\ (detail.refund = "Completed" => refund[detail.rental] = "Completed")
      BY <3>1 DEF SumsInv, SumsShown
    <3> QED BY <2>1, <3>1, <3>2 DEF SumsShown, DepositShown, Summed
  <2>6. ASSUME CloseDetail PROVE SumsShown'
    BY <2>6 DEF CloseDetail, NoDetail, SumsShown
  <2> QED BY <1>3, <2>2, <2>3, <2>4, <2>5, <2>6 DEF ReadDetail
<1>4. SumsShown'
  BY <1>2, <1>3 DEF ViewNext, Commit, ReadList, viewVars
<1> QED BY <1>1, <1>4 DEF SumsInv

LEMMA SumsInit == ViewInit => SumsInv
<1>1. ViewInit => ShownInv
  BY ViewInitial, PaidInit, TimeInit DEF ViewInit, ShownInv, Shown, DetailFields, NoDetail
<1>2. ViewInit => SumsShown
  BY DEF ViewInit, SumsShown, NoDetail
<1> QED BY <1>1, <1>2, ViewInitial, MoneyInit DEF SumsInv

\* The detail of a rental, put together from queries at different times, never shows a
\* successful payment without its one full charge, a settled deposit without its one
\* settlement, or a completed refund without its credit.
THEOREM DetailSumsUp == ViewSpec => []DetailAddsUp
<1>1. SumsInv => DetailAddsUp
  BY DEF SumsInv, SumsShown, Summed, SettledBy, DetailAddsUp
<1> QED BY <1>1, SumsInit, SumsNext, PTL DEF ViewSpec
-----------------------------------------------------------------------------
(* What grows: entries and rentals are added and never removed *)

\* What a rental was ordered with stays, and no entry leaves the ledger.
Keeps ==
  /\ ledger \subseteq ledger'
  /\ \A r \in Rentals :
       rStatus[r] # "Absent" => rUser'[r] = rUser[r] /\ rDeposit'[r] = rDeposit[r] /\ payExp'[r] = payExp[r]

LEMMA KeepsSame ==
  ASSUME ledger \subseteq ledger', rUser' = rUser, rDeposit' = rDeposit, payExp' = payExp PROVE Keeps
BY DEF Keeps

LEMMA KeepsOrder ==
  ASSUME TypeOK, NEW u, NEW a, NEW r \in Rentals, NEW h, NEW t, NEW s, RentAccount(u, a, r, h, t, s)
  PROVE  Keeps
BY DEF RentAccount, FreshId, Keeps, moneyVars, TypeOK, RentalTypes

LEMMA KeepsNext == TypeOK /\ [Next]_vars => Keeps
<1> SUFFICES ASSUME TypeOK, [Next]_vars PROVE Keeps
  OBVIOUS
<1> USE DEF orderVars, moneyVars
<1>1. CASE AdminStep
  <2>1. ASSUME NEW a \in Accounts, NEW p \in Pricings, CreateAccount(a, p) \/ UpdateAccount(a, p) PROVE Keeps
    BY <2>1, KeepsSame DEF CreateAccount, UpdateAccount
  <2>2. ASSUME NEW a \in Accounts, DisableAccountIfIdle(a) PROVE Keeps
    BY <2>2, KeepsSame DEF DisableAccountIfIdle
  <2>3. ASSUME NEW r \in Rentals, NEW t, ReleaseDeposit(r) \/ RefundWalletPayment(r) \/ ForfeitDeposit(r, t)
        PROVE  Keeps
    BY <2>3, KeepsSame DEF ReleaseDeposit, RefundWalletPayment, ForfeitDeposit, Settle
  <2>4. ASSUME NEW k \in AdjustKeys, NEW u \in Users, NEW n \in Adjustments, AdjustAdminBalance(k, u, n)
        PROVE  Keeps
    BY <2>4, KeepsSame DEF AdjustAdminBalance
  <2> QED BY <1>1, <2>1, <2>2, <2>3, <2>4 DEF AdminStep
<1>2. CASE CustomerStep
  <2>1. ASSUME NEW r \in Rentals, CancelRental(r) PROVE Keeps
    BY <2>1, KeepsSame DEF CancelRental, FreeUnpaid
  <2>2. ASSUME NEW r \in Rentals, NEW s \in Recent, PayRentalWithBalance(r, s) \/ GetRentalCredentials(r, s)
        PROVE  Keeps
    BY <2>2, KeepsSame DEF PayRentalWithBalance, Activate, GetRentalCredentials
  <2> QED BY <1>2, <2>1, <2>2, KeepsOrder DEF CustomerStep
<1>3. CASE ProviderStep
  BY <1>3, KeepsSame DEF ProviderStep, ProcessWebhook, Activate
<1>4. CASE WorkerStep
  <2>1. ASSUME ScanWaiting \/ ScanExpired PROVE Keeps
    BY <2>1, KeepsSame DEF ScanWaiting, ScanExpired
  <2>2. ASSUME NEW r \in Rentals, SweepWaiting(r) \/ SweepExpired(r) PROVE Keeps
    BY <2>2, KeepsSame DEF SweepWaiting, SweepExpired, ExpireWaitingPaymentReservation, SkipWaiting,
                           FreeUnpaid, ExpireRental, SkipExpired
  <2>3. ASSUME NEW r \in Rentals, NEW t \in Recent, FinalizeNext(r, t) PROVE Keeps
    BY <2>3, KeepsSame DEF FinalizeNext, Settle
  <2> QED BY <1>4, <2>1, <2>2, <2>3 DEF WorkerStep, Finalize
<1>5. CASE Restart \/ Tick
  BY <1>5, KeepsSame DEF Restart, Tick
<1>6. CASE UNCHANGED vars
  BY <1>6, KeepsSame DEF vars
<1> QED BY <1>1, <1>2, <1>3, <1>4, <1>5, <1>6 DEF Next

LEMMA Grows == ASSUME NEW S, NEW T, IsFiniteSet(T), S \subseteq T
               PROVE  /\ IsFiniteSet(S) /\ Cardinality(S) \in Nat /\ Cardinality(T) \in Nat
                      /\ Cardinality(S) <= Cardinality(T)
BY FS_Subset, FS_CardinalityType

-----------------------------------------------------------------------------
(* The latest entries of the detail *)

AtMost(n, S) == IsFiniteSet(S) /\ Cardinality(S) \in Nat /\ Cardinality(S) <= n

LEMMA AtMostFour ==
  ASSUME NEW a, NEW b, NEW c, NEW d, NEW S, S \subseteq {a, b, c, d} PROVE AtMost(4, S)
<1> DEFINE A == {a}
           B == A \cup {b}
           C == B \cup {c}
           D == C \cup {d}
<1>0. S \subseteq D
  OBVIOUS
<1>1. IsFiniteSet(A) /\ Cardinality(A) = 1
  BY FS_Singleton
<1> HIDE DEF A
<1>2. IsFiniteSet(B) /\ Cardinality(B) = IF b \in A THEN Cardinality(A) ELSE Cardinality(A) + 1
  BY <1>1, FS_AddElement
<1> HIDE DEF B
<1>3. IsFiniteSet(C) /\ Cardinality(C) = IF c \in B THEN Cardinality(B) ELSE Cardinality(B) + 1
  BY <1>2, FS_AddElement
<1> HIDE DEF C
<1>4. IsFiniteSet(D) /\ Cardinality(D) = IF d \in C THEN Cardinality(C) ELSE Cardinality(C) + 1
  BY <1>3, FS_AddElement
<1> HIDE DEF D
<1>5. Cardinality(D) <= 4
  BY <1>1, <1>2, <1>3, <1>4
<1>6. IsFiniteSet(S) /\ Cardinality(S) \in Nat /\ Cardinality(D) \in Nat /\ Cardinality(S) <= Cardinality(D)
  BY <1>0, <1>4, Grows
<1> QED BY <1>5, <1>6 DEF AtMost

\* A rental has at most four entries: its charge, its hold, its settlement, its refund.
LEMMA FewEntries ==
  ASSUME MoneyInv, NEW r \in Rentals
  PROVE  AtMost(4, {e \in ledger : e.rental = r})
<1> DEFINE of == {e \in ledger : e.rental = r}
<1>1. Books(r)
  BY DEF MoneyInv
<1>2. PICK a : EntriesOf(ledger, r, ChargeKinds) \subseteq {a}
  BY <1>1 DEF Books, Charged
<1>3. PICK b : EntriesOf(ledger, r, HoldKinds) \subseteq {b}
  BY <1>1 DEF Books, HeldOnce
<1>4. PICK c : EntriesOf(ledger, r, SettlementKinds) \subseteq {c}
  BY <1>1 DEF Books, Settled
<1>5. PICK d : EntriesOf(ledger, r, RefundKinds) \subseteq {d}
  BY <1>1 DEF Books, Returned
<1>6. ASSUME NEW e \in of PROVE e \in {a, b, c, d}
  <2>1. e.kind \in EntryKinds /\ e.kind \notin {"AdminCredit", "AdminDebit"}
    BY RentalsAssumption DEF MoneyInv, Agreement, TypeOK, MoneyTypes, AdminEntries
  <2>2. e.kind \in ChargeKinds \cup HoldKinds \cup SettlementKinds \cup RefundKinds
    BY <2>1 DEF EntryKinds, CreditKinds, DebitKinds, RecordKinds, ChargeKinds, HoldKinds, SettlementKinds, RefundKinds
  <2> QED BY <1>2, <1>3, <1>4, <1>5, <2>2 DEF EntriesOf
<1> QED BY <1>6, AtMostFour

\* The latest entries are all of them.
LEMMA LatestIsAll ==
  ASSUME MoneyInv, NEW r \in Rentals PROVE LatestEntries(r) = {e \in ledger : e.rental = r}
<1> DEFINE of == {e \in ledger : e.rental = r}
<1>1. IsFiniteSet(of) /\ Cardinality(of) \in Nat /\ Cardinality(of) <= 4
  BY FewEntries DEF AtMost
<1>2. ASSUME NEW e \in of PROVE Cardinality({f \in of : NewerEntry(f, e)}) < LatestLimit
  <2> DEFINE S == {f \in of : NewerEntry(f, e)}
  <2>1. S \subseteq of
    OBVIOUS
  <2> HIDE DEF S, of
  <2>2. Cardinality(S) \in Nat /\ Cardinality(S) <= Cardinality(of)
    BY <1>1, <2>1, Grows
  <2> QED BY <1>1, <2>2 DEF LatestLimit, S
<1> QED BY <1>2 DEF LatestEntries

\* What the detail has counted of a kind is in the ledger.
CountedEntries(r) ==
  \A k \in EntryKinds :
    detail.sums[k].count \in Nat /\ detail.sums[k].count <= Cardinality(EntriesOf(ledger, r, {k}))

ListedInv == SumsInv /\ (detail.step = "Latest" => CountedEntries(detail.rental)) /\ CountedIsListed

LEMMA EntriesFinite ==
  ASSUME MoneyInv, NEW r, NEW K
  PROVE  IsFiniteSet(EntriesOf(ledger, r, K)) /\ Cardinality(EntriesOf(ledger, r, K)) \in Nat
<1>1. EntriesOf(ledger, r, K) \subseteq ledger /\ IsFiniteSet(ledger)
  BY DEF EntriesOf, MoneyInv, WellFormed
<1> QED BY <1>1, Grows

LEMMA CountsKept ==
  ASSUME MoneyInv, MoneyInv', ledger \subseteq ledger', detail' = detail, NEW r, CountedEntries(r)
  PROVE  CountedEntries(r)'
<1> SUFFICES ASSUME NEW k \in EntryKinds
             PROVE  /\ detail.sums[k].count \in Nat
                    /\ detail.sums[k].count <= Cardinality(EntriesOf(ledger', r, {k}))
  BY DEF CountedEntries
<1>1. detail.sums[k].count \in Nat /\ detail.sums[k].count <= Cardinality(EntriesOf(ledger, r, {k}))
  BY DEF CountedEntries
<1>2. IsFiniteSet(EntriesOf(ledger', r, {k}))
  <2>1. EntriesOf(ledger', r, {k}) \subseteq ledger' /\ IsFiniteSet(ledger')
    BY DEF EntriesOf, MoneyInv, WellFormed
  <2> QED BY <2>1, Grows
<1>3. EntriesOf(ledger, r, {k}) \subseteq EntriesOf(ledger', r, {k})
  BY DEF EntriesOf
<1> DEFINE S == EntriesOf(ledger, r, {k})
           T == EntriesOf(ledger', r, {k})
<1> HIDE DEF S, T
<1>4. Cardinality(S) \in Nat /\ Cardinality(T) \in Nat /\ Cardinality(S) <= Cardinality(T)
  BY <1>2, <1>3, Grows DEF S, T
<1>5. detail.sums[k].count <= Cardinality(S)
  BY <1>1 DEF S
<1>6. detail.sums[k].count <= Cardinality(T)
  BY <1>1, <1>4, <1>5
<1> QED BY <1>1, <1>6 DEF T

LEMMA ListedNext == ListedInv /\ [ViewNext]_<<vars, viewVars>> => ListedInv'
<1> SUFFICES ASSUME ListedInv, [ViewNext]_<<vars, viewVars>> PROVE ListedInv'
  OBVIOUS
<1>1. SumsInv' /\ [Next]_vars
  BY SumsNext, ViewStep DEF ListedInv
<1>2. MoneyInv /\ MoneyInv' /\ DetailFields
  BY <1>1 DEF ListedInv, SumsInv, ShownInv
<1>3. Keeps
  BY <1>1, <1>2, KeepsNext DEF MoneyInv, Agreement
<1>4. CASE detail' = detail
  <2>1. CountedIsListed'
    BY <1>4 DEF ListedInv, CountedIsListed
  <2>2. ASSUME detail.step = "Latest" PROVE CountedEntries(detail.rental)'
    <3>1. PICK r : r = detail.rental
      OBVIOUS
    <3>2. CountedEntries(r)
      BY <2>2, <3>1 DEF ListedInv, CountedEntries
    <3>3. CountedEntries(r)'
      BY <1>2, <1>3, <1>4, <3>2, CountsKept DEF Keeps
    <3> QED BY <1>4, <3>1, <3>3 DEF CountedEntries
  <2> QED BY <1>1, <1>4, <2>1, <2>2 DEF ListedInv
<1>5. CASE ReadDetail
  <2>1. ledger' = ledger
    BY <1>5 DEF ReadDetail, vars, moneyVars
  <2>2. CASE (\E r \in Rentals, t \in Recent : ReadRental(r, t)) \/ ReadRefunds \/ CloseDetail
    <3>1. ASSUME NEW r \in Rentals, NEW t \in Recent, ReadRental(r, t) PROVE detail'.step = "Refunds"
      BY <3>1 DEF ReadRental, NoDetail
    <3>2. ReadRefunds => detail'.step = "Sums"
      BY <1>2 DEF ReadRefunds, DetailFields
    <3>3. CloseDetail => detail'.step = "Idle"
      BY DEF CloseDetail, NoDetail
    <3>4. detail'.step \notin {"Latest", "Done"}
      BY <2>2, <3>1, <3>2, <3>3
    <3> QED BY <1>1, <3>4 DEF ListedInv, CountedIsListed
  <2>3. CASE ReadSums
    <3>1. PICK r : r = detail.rental
      OBVIOUS
    <3>2. /\ detail'.step = "Latest" /\ detail'.rental = r
          /\ \A k \in EntryKinds : detail'.sums[k].count = Cardinality(EntriesOf(ledger, r, {k}))
      BY <1>2, <2>3, <3>1 DEF ReadSums, DetailFields
    <3>3. \A k \in EntryKinds : Cardinality(EntriesOf(ledger, r, {k})) \in Nat
      BY <1>2, EntriesFinite
    <3>4. CountedEntries(r)'
      <4> SUFFICES ASSUME NEW k \in EntryKinds
                   PROVE  /\ detail'.sums[k].count \in Nat
                          /\ detail'.sums[k].count <= Cardinality(EntriesOf(ledger', r, {k}))
        BY DEF CountedEntries
      <4>1. Cardinality(EntriesOf(ledger', r, {k})) = Cardinality(EntriesOf(ledger, r, {k}))
        BY <2>1
      <4> QED BY <3>2, <3>3, <4>1
    <3>5. CountedEntries(detail.rental)'
      BY <3>2, <3>4 DEF CountedEntries
    <3> QED BY <1>1, <3>2, <3>5 DEF ListedInv, CountedIsListed
  <2>4. CASE ReadLatest
    <3>1. PICK r : r = detail.rental
      OBVIOUS
    <3>2. /\ detail.step = "Latest" /\ detail'.step = "Done" /\ detail'.sums = detail.sums
          /\ detail'.latest = LatestEntries(r)
      BY <1>2, <2>4, <3>1 DEF ReadLatest, DetailFields
    <3>3. r \in Rentals /\ CountedEntries(r)
      BY <3>1, <3>2 DEF ListedInv, SumsInv, ShownInv, Shown, CountedEntries
    <3>4. LatestEntries(r) = {e \in ledger : e.rental = r}
      BY <1>2, <3>3, LatestIsAll
    <3>5. \A k : {e \in LatestEntries(r) : e.kind = k} = EntriesOf(ledger, r, {k})
      BY <3>4 DEF EntriesOf
    <3>6. CountedIsListed'
      BY <3>2, <3>3, <3>5 DEF CountedIsListed, CountedEntries
    <3> QED BY <1>1, <3>2, <3>6 DEF ListedInv
  <2> QED BY <1>5, <2>2, <2>3, <2>4 DEF ReadDetail
<1> QED BY <1>4, <1>5 DEF ViewNext, Commit, ReadList, viewVars

\* The list of the latest entries leaves out none that the detail has counted: a
\* rental never has more than four entries, whatever the handlers and jobs do.
THEOREM DetailListsCounted == ViewSpec => []CountedIsListed
<1>1. ViewInit => ListedInv
  BY SumsInit DEF ViewInit, NoDetail, ListedInv, CountedIsListed
<1>2. ListedInv => CountedIsListed
  BY DEF ListedInv
<1> QED BY <1>1, <1>2, ListedNext, PTL DEF ViewSpec

-----------------------------------------------------------------------------
(* The order of the entries *)

Distinct(s) == \A i, j \in 1..Len(s) : s[i] = s[j] => i = j

\* u is s, of length m, with t, of length n, inserted after p elements; no two are equal.
Woven(u, s, m, t, n, p) ==
  /\ \A i, j \in 1..m : s[i] = s[j] => i = j
  /\ \A i, j \in 1..n : t[i] = t[j] => i = j
  /\ \A i \in 1..m : \A j \in 1..n : s[i] # t[j]
  /\ \A i \in 1..p : u[i] = s[i]
  /\ \A i \in (p + 1)..(p + n) : u[i] = t[i - p]
  /\ \A i \in (p + n + 1)..(m + n) : u[i] = s[i - n]

\* u, of length k, has no two equal elements, and those of s, of length m, in their order.
InOrder(u, k, s, m) ==
  /\ \A i, j \in 1..k : u[i] = u[j] => i = j
  /\ \A i, j \in 1..m : j < i => \E h, l \in 1..k : l < h /\ u[h] = s[i] /\ u[l] = s[j]

\* New elements inserted at one place leave the order of the others as it is.
LEMMA InsertedAt ==
  ASSUME NEW m \in Nat, NEW n \in Nat, NEW p \in 0..m, NEW s, NEW t, NEW u, Woven(u, s, m, t, n, p)
  PROVE  InOrder(u, m + n, s, m)
<1> SUFFICES ASSUME \A i, j \in 1..m : s[i] = s[j] => i = j,
                    \A i, j \in 1..n : t[i] = t[j] => i = j,
                    \A i \in 1..m : \A j \in 1..n : s[i] # t[j],
                    \A i \in 1..p : u[i] = s[i],
                    \A i \in (p + 1)..(p + n) : u[i] = t[i - p],
                    \A i \in (p + n + 1)..(m + n) : u[i] = s[i - n]
             PROVE  InOrder(u, m + n, s, m)
  BY Zenon DEF Woven
<1>1. ASSUME NEW i \in 1..(m + n), NEW j \in 1..(m + n), u[i] = u[j], i < j PROVE FALSE
  <2>1. CASE i <= p /\ j <= p
    BY <1>1, <2>1
  <2>2. CASE i <= p /\ p < j /\ j <= p + n
    <3>1. u[i] = s[i] /\ i \in 1..m
      BY <2>2
    <3>2. PICK l \in 1..n : u[j] = t[l]
      BY <2>2
    <3>3. s[i] = t[l]
      BY <1>1, <3>1, <3>2
    <3> QED BY <3>1, <3>3, Zenon
  <2>3. CASE i <= p /\ p + n < j
    <3>1. u[i] = s[i] /\ i \in 1..m
      BY <2>3
    <3>2. PICK l \in 1..m : u[j] = s[l] /\ l = j - n
      BY <2>3
    <3>3. i = l
      BY <1>1, <3>1, <3>2, Zenon
    <3> QED BY <2>3, <3>2, <3>3
  <2>4. CASE p < i /\ i <= p + n /\ j <= p + n
    <3>1. PICK k \in 1..n : u[i] = t[k] /\ k = i - p
      BY <2>4
    <3>2. PICK l \in 1..n : u[j] = t[l] /\ l = j - p
      BY <1>1, <2>4
    <3>3. k = l
      BY <1>1, <3>1, <3>2, Zenon
    <3> QED BY <1>1, <3>1, <3>2, <3>3
  <2>5. CASE p < i /\ i <= p + n /\ p + n < j
    <3>1. PICK k \in 1..n : u[i] = t[k]
      BY <2>5
    <3>2. PICK l \in 1..m : u[j] = s[l]
      BY <2>5
    <3>3. s[l] = t[k]
      BY <1>1, <3>1, <3>2
    <3> QED BY <3>3, Zenon
  <2>6. CASE p + n < i
    <3>1. PICK k \in 1..m : u[i] = s[k] /\ k = i - n
      BY <2>6
    <3>2. PICK l \in 1..m : u[j] = s[l] /\ l = j - n
      BY <1>1, <2>6
    <3>3. k = l
      BY <1>1, <3>1, <3>2, Zenon
    <3> QED BY <1>1, <3>1, <3>2, <3>3
  <2> QED BY <1>1, <2>1, <2>2, <2>3, <2>4, <2>5, <2>6
<1>2. \A i, j \in 1..(m + n) : u[i] = u[j] => i = j
  BY <1>1
<1>3. ASSUME NEW i \in 1..m, NEW j \in 1..m, j < i
      PROVE  \E k, l \in 1..(m + n) : l < k /\ u[k] = s[i] /\ u[l] = s[j]
  <2> DEFINE Now(k) == IF k <= p THEN k ELSE k + n
  <2>1. ASSUME NEW k \in 1..m PROVE Now(k) \in 1..(m + n) /\ u[Now(k)] = s[k]
    <3>1. CASE k <= p
      BY <3>1
    <3>2. CASE p < k
      <4>1. k + n \in (p + n + 1)..(m + n) /\ (k + n) - n = k
        BY <3>2
      <4>2. u[k + n] = s[k]
        BY <4>1
      <4> QED BY <3>2, <4>1, <4>2
    <3> QED BY <3>1, <3>2
  <2>2. Now(j) < Now(i)
    BY <1>3
  <2> HIDE DEF Now
  <2> QED BY <2>1, <2>2
<1> QED BY <1>2, <1>3, Zenon DEF InOrder

Insert(s, t, p) == SubSeq(s, 1, p) \o t \o SubSeq(s, p + 1, Len(s))

LEMMA Inserted ==
  ASSUME NEW S, NEW s \in Seq(S), Distinct(s), NEW T, NEW t \in Seq(T), Distinct(t), S \cap T = {},
         NEW p \in 0..Len(s), NEW u, u = Insert(s, t, p)
  PROVE  u \in Seq(S \cup T) /\ InOrder(u, Len(u), s, Len(s))
<1>0. PICK m \in Nat, n \in Nat : m = Len(s) /\ n = Len(t)
  BY LenProperties
<1> DEFINE U == S \cup T
           a == SubSeq(s, 1, p)
           b == SubSeq(s, p + 1, m)
           c == a \o t
<1>1. p \in 0..m /\ (\A i \in 1..m : s[i] \in S) /\ (\A i \in 1..n : t[i] \in T) /\ u = c \o b
  BY <1>0, ElementOfSeq DEF Insert
<1>2. a \in Seq(U) /\ Len(a) = p /\ \A i \in 1..p : a[i] = s[i]
  <2>1. \A i \in 1..p : s[i] \in U
    BY <1>1
  <2>2. /\ a \in Seq(U) /\ Len(a) = IF 1 <= p THEN p - 1 + 1 ELSE 0
        /\ \A i \in 1..(p - 1 + 1) : a[i] = s[1 + i - 1]
    BY <2>1, SubSeqProperties
  <2> QED BY <1>1, <2>2
<1>3. b \in Seq(U) /\ Len(b) = m - p /\ \A i \in 1..(m - p) : b[i] = s[p + i]
  <2>1. \A i \in (p + 1)..m : s[i] \in U
    BY <1>1
  <2>2. /\ b \in Seq(U) /\ Len(b) = IF p + 1 <= m THEN m - (p + 1) + 1 ELSE 0
        /\ \A i \in 1..(m - (p + 1) + 1) : b[i] = s[p + 1 + i - 1]
    BY <1>1, <2>1, SubSeqProperties
  <2> QED BY <1>1, <2>2
<1>4. t \in Seq(U)
  BY SeqMonotonic
<1> HIDE DEF a, b, U
<1>5. /\ c \in Seq(U) /\ Len(c) = p + n
      /\ \A i \in 1..(p + n) : c[i] = IF i <= p THEN a[i] ELSE t[i - p]
  <2>1. /\ a \o t \in Seq(U) /\ Len(a \o t) = Len(a) + Len(t)
        /\ \A i \in 1..(Len(a) + Len(t)) : (a \o t)[i] = IF i <= Len(a) THEN a[i] ELSE t[i - Len(a)]
    BY <1>2, <1>4, ConcatProperties
  <2>2. Len(a) = p /\ Len(t) = n
    BY <1>0, <1>2
  <2> QED BY <2>1, <2>2
<1> HIDE DEF c
<1>6. /\ u \in Seq(U) /\ Len(u) = p + n + (m - p)
      /\ \A i \in 1..(p + n + (m - p)) : u[i] = IF i <= p + n THEN c[i] ELSE b[i - (p + n)]
  <2>1. /\ c \o b \in Seq(U) /\ Len(c \o b) = Len(c) + Len(b)
        /\ \A i \in 1..(Len(c) + Len(b)) : (c \o b)[i] = IF i <= Len(c) THEN c[i] ELSE b[i - Len(c)]
    BY <1>3, <1>5, ConcatProperties
  <2>2. Len(c) = p + n /\ Len(b) = m - p /\ u = c \o b
    BY <1>1, <1>3, <1>5
  <2> QED BY <2>1, <2>2
<1>7. Len(u) = m + n /\ \A i \in 1..(m + n) : u[i] = IF i <= p + n THEN c[i] ELSE b[i - (p + n)]
  <2>1. p + n + (m - p) = m + n
    BY <1>1
  <2> QED BY <1>6, <2>1
<1>8. ASSUME NEW i \in 1..p PROVE u[i] = s[i]
  <2>1. i \in 1..(m + n) /\ i \in 1..(p + n) /\ i <= p + n /\ i <= p
    BY <1>1
  <2>2. u[i] = c[i] /\ c[i] = a[i] /\ a[i] = s[i]
    BY <1>2, <1>5, <1>7, <2>1
  <2> QED BY <2>2
<1>9. ASSUME NEW i \in (p + 1)..(p + n) PROVE u[i] = t[i - p]
  <2>1. i \in 1..(m + n) /\ i \in 1..(p + n) /\ i <= p + n /\ ~(i <= p)
    BY <1>1
  <2>2. u[i] = c[i] /\ c[i] = t[i - p]
    BY <1>5, <1>7, <2>1
  <2> QED BY <2>2
<1>10. ASSUME NEW i \in (p + n + 1)..(m + n) PROVE u[i] = s[i - n]
  <2>1. i - (p + n) \in 1..(m - p) /\ p + (i - (p + n)) = i - n /\ ~(i <= p + n) /\ i \in 1..(m + n)
    BY <1>1
  <2>2. u[i] = b[i - (p + n)] /\ b[i - (p + n)] = s[p + (i - (p + n))]
    BY <1>3, <1>7, <2>1
  <2> QED BY <2>1, <2>2
<1>11. \A i, j \in 1..m : s[i] = s[j] => i = j
  BY <1>0 DEF Distinct
<1>12. \A i, j \in 1..n : t[i] = t[j] => i = j
  BY <1>0 DEF Distinct
<1>13. \A i \in 1..m : \A j \in 1..n : s[i] # t[j]
  BY <1>1
<1>14. InOrder(u, m + n, s, m)
  <2>1. /\ \A i \in 1..p : u[i] = s[i]
        /\ \A i \in (p + 1)..(p + n) : u[i] = t[i - p]
        /\ \A i \in (p + n + 1)..(m + n) : u[i] = s[i - n]
    BY <1>8, <1>9, <1>10
  <2>2. p \in 0..m
    BY <1>1
  <2>3. Woven(u, s, m, t, n, p)
    BY <1>11, <1>12, <1>13, <2>1, Zenon DEF Woven
  <2> QED BY <2>2, <2>3, InsertedAt
<1>15. InOrder(u, Len(u), s, Len(s))
  BY <1>0, <1>7, <1>14
<1>16. u \in Seq(S \cup T)
  BY <1>6 DEF U
<1> QED BY <1>15, <1>16

\* Every entry has one place.
RowsInv == rows \in Seq(ledger) /\ Distinct(rows)

LEMMA NewerEntryDef ==
  ASSUME RowsInv, NEW e, NEW f
  PROVE  NewerEntry(e, f) <=> \E i, j \in 1..Len(rows) : j < i /\ rows[i] = e /\ rows[j] = f
BY LenProperties DEF NewerEntry, RowsInv

LEMMA NewerEntryOrder ==
  ASSUME RowsInv, NEW e, NEW f, NEW g
  PROVE  ~NewerEntry(e, e) /\ (NewerEntry(e, f) /\ NewerEntry(f, g) => NewerEntry(e, g))
<1>1. Len(rows) \in Nat
  BY LenProperties DEF RowsInv
<1>2. \A i, j \in 1..Len(rows) : rows[i] = rows[j] => i = j
  BY DEF RowsInv, Distinct
<1> QED BY <1>1, <1>2, NewerEntryDef

\* Entries keep their order when others are inserted.
OrderKept == \A e, f : NewerEntry(e, f) => NewerEntry(e, f)'

LEMMA RowsNext ==
  ASSUME RowsInv, IsFiniteSet(ledger'), ledger \subseteq ledger', RecordRows
  PROVE  RowsInv' /\ OrderKept
<1> DEFINE new == ledger' \ ledger
<1>1. PICK p \in {q \in 0..Len(rows) : Len(rows) - q <= Overtaken}, s \in Bijection(1..Cardinality(new), new) :
        rows' = SubSeq(rows, 1, p) \o s \o SubSeq(rows, p + 1, Len(rows))
  BY DEF RecordRows
<1>2. Cardinality(new) \in Nat
  <2>1. new \subseteq ledger'
    OBVIOUS
  <2> QED BY <2>1, Grows
<1> HIDE DEF new
<1>3. s \in Seq(new) /\ Distinct(s)
  <2>1. s \in [1..Cardinality(new) -> new] /\ \A i, j \in 1..Cardinality(new) : s[i] = s[j] => i = j
    BY DEF Bijection, Injection, IsInjective
  <2>2. s \in Seq(new)
    BY <1>2, <2>1, SeqDef
  <2>3. Len(s) = Cardinality(new)
    BY <1>2, <2>1, <2>2, LenProperties
  <2> QED BY <2>1, <2>2, <2>3 DEF Distinct
<1>4. rows \in Seq(ledger) /\ Distinct(rows) /\ ledger \cap new = {} /\ ledger' = ledger \cup new
  BY DEF RowsInv, new
<1>5. rows' \in Seq(ledger \cup new) /\ InOrder(rows', Len(rows'), rows, Len(rows))
  <2>1. p \in 0..Len(rows)
    BY <1>1
  <2>2. rows' = Insert(rows, s, p)
    BY <1>1 DEF Insert
  <2> QED BY <1>3, <1>4, <2>1, <2>2, Inserted
<1>6. RowsInv'
  BY <1>4, <1>5 DEF RowsInv, Distinct, InOrder
<1>7. OrderKept
  <2> SUFFICES ASSUME NEW e, NEW f, NewerEntry(e, f) PROVE NewerEntry(e, f)'
    BY DEF OrderKept
  <2>1. PICK i \in 1..Len(rows), j \in 1..Len(rows) : j < i /\ rows[i] = e /\ rows[j] = f
    BY NewerEntryDef
  <2>2. PICK k \in 1..Len(rows'), l \in 1..Len(rows') : l < k /\ rows'[k] = e /\ rows'[l] = f
    BY <1>5, <2>1 DEF InOrder
  <2>3. DOMAIN rows' = 1..Len(rows')
    BY <1>5, LenProperties
  <2> QED BY <2>2, <2>3 DEF NewerEntry
<1> QED BY <1>6, <1>7

-----------------------------------------------------------------------------
(* Lists and places *)

\* What the lists rest on: the money and the rentals are in order, entries have one
\* place each, and there are finitely many of both.
RowsOK == MoneyInv /\ PaidInv /\ RowsInv /\ IsFiniteSet(servedMap)

LEMMA ServedNext ==
  ASSUME Agreement, [Next]_vars
  PROVE  servedMap \subseteq servedMap' /\ \E r : servedMap' \subseteq servedMap \cup {r}
<1>1. [Lease!Next]_<<tenantMap, servedMap>>
  BY LeaseNext DEF LeaseStep
<1>2. ASSUME NEW a \in Accounts, NEW r \in Rentals, Lease!Lend(a, r)
      PROVE  servedMap' = servedMap \cup {r}
  BY <1>2 DEF Lease!Lend, servedMap
<1>3. ASSUME NEW a \in Accounts, Lease!GiveBack(a) PROVE servedMap' = servedMap
  BY <1>3 DEF Lease!GiveBack, servedMap
<1> QED BY <1>1, <1>2, <1>3 DEF Lease!Next

\* A commit, or a step that commits nothing.
Committed == [Next]_vars /\ (RecordRows \/ UNCHANGED <<ledger, rows>>)

LEMMA ViewCommitted == [ViewNext]_<<vars, viewVars>> => Committed
<1> USE DEF vars, moneyVars
<1>1. [ViewNext]_<<vars, viewVars>> => RecordRows \/ UNCHANGED <<ledger, rows>>
  BY DEF ViewNext, Commit, ReadDetail, ReadList, viewVars
<1> QED BY <1>1, ViewStep DEF Committed

LEMMA RowsOKNext ==
  ASSUME RowsOK, Committed PROVE RowsOK' /\ OrderKept /\ Keeps /\ FinalStep /\ Stays
<1>1. [Next]_vars /\ MoneyInv /\ PaidInv /\ RowsInv /\ Agreement /\ TypeOK
  BY DEF RowsOK, Committed, MoneyInv, Agreement
<1>2. MoneyInv' /\ PaidInv' /\ Stays /\ FinalStep /\ Keeps
  BY <1>1, MoneyNext, PaidNext, SteadyNext, FinalNext, KeepsNext DEF Steady
<1>3. IsFiniteSet(servedMap')
  <2>1. PICK r : servedMap' \subseteq servedMap \cup {r}
    BY <1>1, ServedNext
  <2>2. IsFiniteSet(servedMap \cup {r})
    BY FS_AddElement DEF RowsOK
  <2> QED BY <2>1, <2>2, FS_Subset
<1>4. RowsInv' /\ OrderKept
  <2>1. CASE RecordRows
    <3>1. IsFiniteSet(ledger') /\ ledger \subseteq ledger'
      BY <1>2 DEF MoneyInv, WellFormed, Keeps
    <3> QED BY <1>1, <2>1, <3>1, RowsNext
  <2>2. CASE UNCHANGED <<ledger, rows>>
    BY <1>1, <2>2 DEF RowsInv, Distinct, OrderKept, NewerEntry
  <2> QED BY <2>1, <2>2 DEF Committed
<1> QED BY <1>2, <1>3, <1>4 DEF RowsOK

LEMMA ListKinds ==
  ASSUME NEW l \in Lists
  PROVE  \/ l.kind = "ledger" /\ ListedRows(l) = LedgerRows(l.user)
         \/ l.kind = "refunds" /\ ListedRows(l) = RefundRows(l.user)
         \/ l.kind = "rentals" /\ ListedRows(l) = Matching(l.filter)
BY DEF Lists, ListedRows

LEMMA ListedFinite ==
  ASSUME RowsOK, NEW l \in Lists PROVE IsFiniteSet(ListedRows(l)) /\ Cardinality(ListedRows(l)) \in Nat
<1>1. ListedRows(l) \subseteq ledger \/ ListedRows(l) \subseteq servedMap
  BY ListKinds DEF LedgerRows, RefundRows, Matching, servedMap
<1>2. IsFiniteSet(ledger) /\ IsFiniteSet(servedMap)
  BY DEF RowsOK, MoneyInv, WellFormed
<1> QED BY <1>1, <1>2, Grows

\* The order of a list is strict.
LEMMA BeforeOrder ==
  ASSUME RowsOK, NEW l \in Lists, NEW x \in ListedRows(l), NEW y \in ListedRows(l), NEW z \in ListedRows(l)
  PROVE  ~Before(l, x, x) /\ (Before(l, x, y) /\ Before(l, y, z) => Before(l, x, z))
<1>1. CASE l.kind = "rentals"
  <2>1. x \in Rentals /\ y \in Rentals /\ z \in Rentals
    BY <1>1, ListKinds DEF Matching
  <2>2. /\ x \in Nat /\ y \in Nat /\ z \in Nat
        /\ payExp[x] \in Nat /\ payExp[y] \in Nat /\ payExp[z] \in Nat
    BY <2>1, RentalsAssumption DEF RowsOK, MoneyInv, Agreement, TypeOK, RentalTypes
  <2> QED BY <1>1, <2>2 DEF Before, Newer
<1>2. CASE l.kind # "rentals"
  BY <1>2, NewerEntryOrder DEF Before, RowsOK
<1> QED BY <1>1, <1>2

\* The rows before x.
Ahead(l, x) == {y \in ListedRows(l) : Before(l, y, x)}

LEMMA AheadFinite ==
  ASSUME RowsOK, NEW l \in Lists, NEW x \in ListedRows(l)
  PROVE  /\ Ahead(l, x) \subseteq ListedRows(l) /\ x \notin Ahead(l, x) /\ IsFiniteSet(Ahead(l, x))
         /\ Cardinality(Ahead(l, x)) \in Nat /\ Cardinality(Ahead(l, x)) < Cardinality(ListedRows(l))
         /\ Place(l, x) = 1 + Cardinality(Ahead(l, x))
<1>1. Ahead(l, x) \subseteq ListedRows(l)
  BY DEF Ahead
<1>2. x \notin Ahead(l, x)
  BY BeforeOrder DEF Ahead
<1>3. IsFiniteSet(ListedRows(l)) /\ Cardinality(ListedRows(l)) \in Nat
  BY ListedFinite
<1>4. /\ IsFiniteSet(Ahead(l, x)) /\ Cardinality(Ahead(l, x)) \in Nat
      /\ Cardinality(Ahead(l, x)) <= Cardinality(ListedRows(l))
  BY <1>1, <1>3, Grows
<1>5. Cardinality(Ahead(l, x)) # Cardinality(ListedRows(l))
  <2>1. Cardinality(Ahead(l, x)) = Cardinality(ListedRows(l)) => Ahead(l, x) = ListedRows(l)
    BY <1>1, <1>3, FS_Subset
  <2> QED BY <1>2, <2>1
<1>6. Place(l, x) = 1 + Cardinality(Ahead(l, x))
  BY DEF Place, Ahead
<1>7. Cardinality(Ahead(l, x)) < Cardinality(ListedRows(l))
  BY <1>3, <1>4, <1>5
<1> QED BY <1>1, <1>2, <1>4, <1>6, <1>7

-----------------------------------------------------------------------------
(* A list that only grows *)

\* A rental that matches a filter on final values matches it from then on.
LEMMA MatchingGrows ==
  ASSUME RowsOK, Agreement', servedMap \subseteq servedMap', Keeps, FinalStep, Stays,
         NEW filter, NEW r \in Matching(filter),
         \A c \in DOMAIN filter :
           \/ c \in {"user", "id"}
           \/ /\ c \in {"rental", "payment", "deposit", "refund"}
              /\ filter[c] \in {"Completed", "Cancelled", "Success", "Failed", "RELEASED", "FORFEITED", "REFUNDED"}
  PROVE  r \in Matching(filter)'
<1>1. r \in Rentals /\ rStatus[r] # "Absent"
  BY DEF Matching
<1>2. rStatus'[r] # "Absent"
  BY <1>1 DEF servedMap
<1>3. rUser'[r] = rUser[r] /\ rDeposit'[r] = rDeposit[r]
  BY <1>1 DEF Keeps
<1>4. /\ rStatus[r] \in RentalStatuses /\ pStatus[r] \in PayStatuses /\ hold[r] \in HoldStatuses
      /\ refund[r] \in {"Absent", "Completed"}
  BY <1>1 DEF RowsOK, MoneyInv, Agreement, TypeOK, RentalTypes, PaymentTypes
<1>5. refund[r] = "Completed" => refund'[r] = "Completed"
  BY <1>1 DEF RowsOK, MoneyInv, Books, Returned, Stays
<1>6. ASSUME NEW c \in DOMAIN filter
      PROVE  (IF c = "deposit" THEN DepositMatches(r, filter[c]) ELSE Column(r)[c] = filter[c])'
  <2>0. IF c = "deposit" THEN DepositMatches(r, filter[c]) ELSE Column(r)[c] = filter[c]
    BY DEF Matching
  <2>1. CASE c = "user"
    BY <1>3, <2>0, <2>1 DEF Column
  <2>2. CASE c = "id"
    BY <2>0, <2>2 DEF Column
  <2>3. CASE c = "rental"
    <3>1. rStatus[r] = filter[c] /\ rStatus[r] \in {"Completed", "Cancelled"}
      BY <1>4, <2>0, <2>3 DEF Column, RentalStatuses
    <3>2. rStatus'[r] = filter[c]
      BY <1>1, <3>1 DEF FinalStep
    <3> QED BY <2>3, <3>2 DEF Column
  <2>4. CASE c = "payment"
    <3>1. pStatus[r] = filter[c] /\ pStatus[r] \in {"Success", "Failed"}
      BY <1>4, <2>0, <2>4 DEF Column, PayStatuses
    <3>2. pStatus'[r] = filter[c]
      BY <1>1, <3>1 DEF FinalStep
    <3> QED BY <2>4, <3>2 DEF Column
  <2>5. CASE c = "refund"
    <3>1. refund[r] = filter[c] /\ refund[r] = "Completed"
      BY <1>4, <2>0, <2>5 DEF Column
    <3>2. refund'[r] = filter[c]
      BY <1>5, <3>1
    <3> QED BY <2>5, <3>2 DEF Column
  <2>6. CASE c = "deposit"
    <3>1. DepositMatches(r, filter[c]) /\ filter[c] # "NONE" /\ filter[c] # "HELD"
      BY <2>0, <2>6
    <3>2. hold[r] \in {"Released", "Forfeited", "Refunded"}
      BY <3>1 DEF DepositMatches
    <3>3. hold'[r] = hold[r]
      BY <1>1, <3>2, SettledStatuses DEF FinalStep
    <3> QED BY <1>3, <2>6, <3>1, <3>3 DEF DepositMatches
  <2> QED BY <2>1, <2>2, <2>3, <2>4, <2>5, <2>6
<1> QED BY <1>1, <1>2, <1>6 DEF Matching

LEMMA ListGrows ==
  ASSUME RowsOK, Committed, NEW l \in Lists, OnlyGrows(l)
  PROVE  /\ ListedRows(l) \subseteq ListedRows(l)'
         /\ \A x \in ListedRows(l) : Ahead(l, x) \subseteq Ahead(l, x)'
<1>1. RowsOK' /\ OrderKept /\ Keeps /\ FinalStep /\ Stays
  BY RowsOKNext
<1>2. servedMap \subseteq servedMap' /\ Agreement'
  BY <1>1, ServedNext DEF RowsOK, MoneyInv, Committed
<1>3. ListedRows(l) \subseteq ListedRows(l)'
  <2>1. CASE l.kind = "rentals"
    <3>1. ListedRows(l) = Matching(l.filter) /\ ListedRows(l)' = Matching(l.filter)'
      BY <2>1 DEF ListedRows
    <3>2. \A c \in DOMAIN l.filter :
            \/ c \in {"user", "id"}
            \/ /\ c \in {"rental", "payment", "deposit", "refund"}
               /\ l.filter[c] \in {"Completed", "Cancelled", "Success", "Failed", "RELEASED", "FORFEITED", "REFUNDED"}
      BY <2>1 DEF OnlyGrows
    <3>3. PICK filter : filter = l.filter
      OBVIOUS
    <3>4. \A r \in Matching(filter) : r \in Matching(filter)'
      BY <1>1, <1>2, <3>2, <3>3, MatchingGrows
    <3> QED BY <3>1, <3>3, <3>4
  <2>2. CASE l.kind # "rentals"
    <3>1. ledger \subseteq ledger'
      BY <1>1 DEF Keeps
    <3> QED BY <2>2, <3>1 DEF Lists, ListedRows, LedgerRows, RefundRows
  <2> QED BY <2>1, <2>2
<1>4. ASSUME NEW x \in ListedRows(l), NEW y \in ListedRows(l), Before(l, y, x) PROVE Before(l, y, x)'
  <2>1. CASE l.kind = "rentals"
    <3>1. x \in Rentals /\ rStatus[x] # "Absent" /\ y \in Rentals /\ rStatus[y] # "Absent"
      BY <2>1 DEF ListedRows, Matching
    <3>2. payExp'[x] = payExp[x] /\ payExp'[y] = payExp[y]
      BY <1>1, <3>1 DEF Keeps
    <3> QED BY <1>4, <2>1, <3>2 DEF Before, Newer
  <2>2. CASE l.kind # "rentals"
    BY <1>1, <1>4, <2>2 DEF Before, OrderKept
  <2> QED BY <2>1, <2>2
<1>5. ASSUME NEW x \in ListedRows(l), NEW y \in Ahead(l, x) PROVE y \in Ahead(l, x)'
  BY <1>3, <1>4 DEF Ahead
<1> QED BY <1>3, <1>5

\* Rows move to later places and never to earlier ones, and the total does not shrink.
LEMMA PlacesGrow ==
  ASSUME RowsOK, Committed, NEW l \in Lists, OnlyGrows(l)
  PROVE  /\ Cardinality(ListedRows(l)') \in Nat /\ Cardinality(ListedRows(l)) <= Cardinality(ListedRows(l)')
         /\ \A x \in ListedRows(l) : /\ x \in ListedRows(l)' /\ Place(l, x) \in Nat /\ Place(l, x)' \in Nat
                                     /\ Place(l, x) <= Place(l, x)'
<1>1. RowsOK' /\ ListedRows(l) \subseteq ListedRows(l)' /\ \A x \in ListedRows(l) : Ahead(l, x) \subseteq Ahead(l, x)'
  BY RowsOKNext, ListGrows
<1>2. IsFiniteSet(ListedRows(l)')
  <2>1. ListedRows(l)' \subseteq ledger' \/ ListedRows(l)' \subseteq servedMap'
    BY DEF Lists, ListedRows, LedgerRows, RefundRows, Matching, servedMap
  <2>2. IsFiniteSet(ledger') /\ IsFiniteSet(servedMap')
    BY <1>1 DEF RowsOK, MoneyInv, WellFormed
  <2> QED BY <2>1, <2>2, Grows
<1>3. Cardinality(ListedRows(l)') \in Nat /\ Cardinality(ListedRows(l)) <= Cardinality(ListedRows(l)')
  BY <1>1, <1>2, Grows
<1>4. ASSUME NEW x \in ListedRows(l)
      PROVE  /\ x \in ListedRows(l)' /\ Place(l, x) \in Nat /\ Place(l, x)' \in Nat
             /\ Place(l, x) <= Place(l, x)'
  <2>1. Place(l, x) = 1 + Cardinality(Ahead(l, x)) /\ Place(l, x)' = 1 + Cardinality(Ahead(l, x)')
    BY DEF Place, Ahead
  <2>2. Ahead(l, x)' \subseteq ListedRows(l)'
    BY DEF Ahead
  <2>3. IsFiniteSet(Ahead(l, x)')
    BY <1>2, <2>2, Grows
  <2>4. Ahead(l, x) \subseteq Ahead(l, x)'
    BY <1>1
  <2>5. /\ Cardinality(Ahead(l, x)) \in Nat /\ Cardinality(Ahead(l, x)') \in Nat
        /\ Cardinality(Ahead(l, x)) <= Cardinality(Ahead(l, x)')
    BY <2>3, <2>4, Grows
  <2> QED BY <1>1, <2>1, <2>5
<1> QED BY <1>3, <1>4

-----------------------------------------------------------------------------
(* Pages *)

LEMMA PlaceInside ==
  ASSUME RowsOK, NEW l \in Lists, NEW x \in ListedRows(l)
  PROVE  Place(l, x) \in Nat /\ Place(l, x) <= Cardinality(ListedRows(l))
<1>1. /\ Cardinality(Ahead(l, x)) \in Nat /\ Cardinality(Ahead(l, x)) < Cardinality(ListedRows(l))
      /\ Place(l, x) = 1 + Cardinality(Ahead(l, x)) /\ Cardinality(ListedRows(l)) \in Nat
  BY AheadFinite, ListedFinite
<1> QED BY <1>1

\* Of some rows of a list, one has none of the others before it.
LEMMA FirstRow ==
  ASSUME RowsOK, NEW l \in Lists, NEW S, S \subseteq ListedRows(l), S # {}
  PROVE  \E x \in S : Ahead(l, x) \cap S = {}
<1> DEFINE T == {Ahead(l, x) : x \in S}
<1>1. T \subseteq SUBSET ListedRows(l) /\ T # {} /\ IsFiniteSet(ListedRows(l))
  BY ListedFinite DEF Ahead
<1>2. PICK m \in T : \A s \in T : s \subseteq m => s = m
  <2> HIDE DEF T
  <2> QED BY <1>1, SmallestSubset
<1>3. PICK x \in S : m = Ahead(l, x)
  BY <1>2
<1>4. ASSUME NEW y \in S, y \in Ahead(l, x) PROVE FALSE
  <2>1. x \in ListedRows(l) /\ y \in ListedRows(l) /\ Before(l, y, x)
    BY <1>4 DEF Ahead
  <2>2. \A z \in ListedRows(l) : Before(l, z, y) => Before(l, z, x)
    BY <2>1, BeforeOrder
  <2>3. Ahead(l, y) \subseteq Ahead(l, x)
    BY <2>2 DEF Ahead
  <2>4. Ahead(l, y) = Ahead(l, x)
    BY <1>2, <1>3, <2>3
  <2>5. y \notin Ahead(l, y)
    BY <2>1, AheadFinite
  <2> QED BY <1>4, <2>4, <2>5
<1> QED BY <1>4

\* A page that shows rows ends within the list.
LEMMA PageFits ==
  ASSUME RowsOK, NEW l \in Lists, NEW n \in Nat, NEW S, S \subseteq ListedRows(l),
         \A x \in S : n < Place(l, x)
  PROVE  /\ Cardinality(S) \in Nat
         /\ S = {} \/ n + Cardinality(S) <= Cardinality(ListedRows(l))
<1>1. IsFiniteSet(ListedRows(l)) /\ IsFiniteSet(S) /\ Cardinality(S) \in Nat
  BY ListedFinite, Grows
<1>2. ASSUME S # {} PROVE n + Cardinality(S) <= Cardinality(ListedRows(l))
  <2>1. PICK x \in S : Ahead(l, x) \cap S = {}
    BY <1>2, FirstRow
  <2>2. /\ Ahead(l, x) \subseteq ListedRows(l) /\ IsFiniteSet(Ahead(l, x))
        /\ Cardinality(Ahead(l, x)) \in Nat /\ Place(l, x) = 1 + Cardinality(Ahead(l, x))
    BY <2>1, AheadFinite
  <2>3. Cardinality(Ahead(l, x) \cup S)
          = Cardinality(Ahead(l, x)) + Cardinality(S) - Cardinality(Ahead(l, x) \cap S)
    BY <1>1, <2>2, FS_Union
  <2>4. Cardinality(Ahead(l, x) \cap S) = 0
    BY <2>1, FS_EmptySet
  <2>5. /\ Cardinality(Ahead(l, x) \cup S) <= Cardinality(ListedRows(l))
        /\ Cardinality(ListedRows(l)) \in Nat
    BY <1>1, <2>2, Grows
  <2>6. n < Place(l, x)
    BY <2>1
  <2> HIDE DEF Ahead
  <2> QED BY <1>1, <2>2, <2>3, <2>4, <2>5, <2>6
<1> QED BY <1>1, <1>2

\* Rows before the pages up to p.
LEMMA OffsetIsNat ==
  ASSUME NEW p \in Nat \ {0}
  PROVE  p * PageSize \in Nat /\ (p - 1) * PageSize \in Nat /\ (p + 1) - 1 = p
BY PageAssumption

\* The total of a list with rows after page p makes another page.
LEMMA AnotherPage ==
  ASSUME NEW p \in Nat \ {0}, NEW n \in Nat, p * PageSize < n
  PROVE  p < (n + PageSize - 1) \div PageSize
<1>1. PICK s \in Nat \ {0} : s = PageSize
  BY PageAssumption
<1>2. PICK q : q = (n + s - 1) \div s
  OBVIOUS
<1>3. q \in Nat /\ n + s - 1 < (q + 1) * s
  BY <1>1, <1>2
<1>4. p * s + s < (q + 1) * s
  BY <1>1, <1>3
<1> QED BY <1>1, <1>2, <1>3, <1>4

-----------------------------------------------------------------------------
(* Going through the pages *)

\* The rows still to be shown come after the first n of the list.
Beyond(l, n) == \A x \in walk.had \ walk.seen : n < Place(l, x)

\* The rows of the page last read lie within the first n of the list.
Fits(n) ==
  /\ Cardinality(walk.shown) \in Nat
  /\ walk.shown = {} \/ (walk.page - 1) * PageSize + Cardinality(walk.shown) <= n

\* What a reader of a list that only grows has seen and will see.
Covered(l) ==
  /\ walk.had \subseteq ListedRows(l)
  /\ walk.step = "List" => Beyond(l, (walk.page - 1) * PageSize)
  /\ walk.step \in {"Count", "Answered"} => Beyond(l, walk.page * PageSize)
  /\ walk.step = "Count" => Fits(Cardinality(ListedRows(l)))
  /\ walk.step = "Answered" =>
       /\ walk.total \in Nat /\ Fits(walk.total)
       /\ walk.had \subseteq walk.seen \/ walk.page * PageSize < walk.total
  /\ walk.step = "End" => walk.had \subseteq walk.seen

WalkFields ==
  /\ DOMAIN walk = {"step", "list", "page", "had", "shown", "seen", "total"}
  /\ walk.step # "Idle" => walk.list \in Lists /\ walk.page \in Nat \ {0}

\* The part about list l; the list of a walk does not change.
WalkCovered(l) == walk.step # "Idle" /\ walk.list = l /\ OnlyGrows(l) => Covered(l)

WalkInv == RowsOK /\ WalkFields /\ \A l \in Lists : WalkCovered(l)

\* A list depends on the rentals and the ledger only.
LEMMA ListsKept ==
  ASSUME NEW l, UNCHANGED <<vars, rows>>
  PROVE  ListedRows(l)' = ListedRows(l) /\ \A x : Place(l, x)' = Place(l, x)
<1>1. /\ ledger' = ledger /\ rows' = rows /\ payExp' = payExp /\ rStatus' = rStatus /\ pStatus' = pStatus
      /\ pProvider' = pProvider /\ rUser' = rUser /\ refund' = refund /\ hold' = hold /\ rDeposit' = rDeposit
  BY DEF vars, moneyVars, orderVars, paymentVars, holdVars
<1>2. ListedRows(l)' = ListedRows(l)
  <2>1. \A u : LedgerRows(u)' = LedgerRows(u) /\ RefundRows(u)' = RefundRows(u)
    BY <1>1, Zenon DEF LedgerRows, RefundRows
  <2>2. \A r, d : DepositMatches(r, d)' = DepositMatches(r, d)
    BY <1>1, Zenon DEF DepositMatches
  <2>3. \A r : Column(r)' = Column(r)
    BY <1>1, Zenon DEF Column, EligibleWalletRefund
  <2>4. \A f : Matching(f)' = Matching(f)
    BY <1>1, <2>2, <2>3, Zenon DEF Matching
  <2> QED BY <2>1, <2>4, Zenon DEF ListedRows
<1>3. \A x, y : Before(l, x, y)' = Before(l, x, y)
  BY <1>1, Zenon DEF Before, Newer, NewerEntry
<1>4. \A x : {y \in ListedRows(l)' : Before(l, y, x)'} = {y \in ListedRows(l) : Before(l, y, x)}
  BY <1>2, <1>3
<1> QED BY <1>2, <1>4, Zenon DEF Place

LEMMA CoveredCommit ==
  ASSUME RowsOK, WalkFields, Committed, walk' = walk, NEW l \in Lists, WalkCovered(l)
  PROVE  WalkCovered(l)'
<1> SUFFICES ASSUME walk.step # "Idle", walk.list = l, OnlyGrows(l) PROVE Covered(l)'
  BY DEF WalkCovered
<1>1. Covered(l) /\ walk.page \in Nat \ {0}
  BY DEF WalkCovered, WalkFields
<1>2. /\ Cardinality(ListedRows(l)) <= Cardinality(ListedRows(l)')
      /\ \A x \in ListedRows(l) : /\ x \in ListedRows(l)' /\ Place(l, x) \in Nat /\ Place(l, x)' \in Nat
                                  /\ Place(l, x) <= Place(l, x)'
  BY PlacesGrow
<1>3. walk.had \subseteq ListedRows(l)'
  BY <1>1, <1>2 DEF Covered
<1>4. ASSUME NEW n \in Nat, Beyond(l, n) PROVE Beyond(l, n)'
  BY <1>1, <1>2, <1>4 DEF Beyond, Covered
<1>5. ASSUME Fits(Cardinality(ListedRows(l))) PROVE Fits(Cardinality(ListedRows(l)))'
  <2>1. PICK k \in Nat : k = (walk.page - 1) * PageSize
    BY <1>1, OffsetIsNat
  <2>2. Cardinality(ListedRows(l)) \in Nat /\ Cardinality(ListedRows(l)') \in Nat
    BY ListedFinite, PlacesGrow
  <2> QED BY <1>2, <1>5, <2>1, <2>2 DEF Fits
<1>6. walk.page * PageSize \in Nat /\ (walk.page - 1) * PageSize \in Nat
  BY <1>1, OffsetIsNat
<1>7. ASSUME walk.step = "List" PROVE Beyond(l, (walk.page - 1) * PageSize)'
  <2>1. PICK n \in Nat : n = (walk.page - 1) * PageSize
    BY <1>6
  <2> QED BY <1>1, <1>4, <1>7, <2>1 DEF Covered, Beyond
<1>8. ASSUME walk.step \in {"Count", "Answered"} PROVE Beyond(l, walk.page * PageSize)'
  <2>1. PICK n \in Nat : n = walk.page * PageSize
    BY <1>6
  <2> QED BY <1>1, <1>4, <1>8, <2>1 DEF Covered, Beyond
<1>9. ASSUME walk.step = "Answered"
      PROVE  /\ walk.total \in Nat /\ Fits(walk.total)'
             /\ walk.had \subseteq walk.seen \/ walk.page * PageSize < walk.total
  BY <1>1, <1>9 DEF Covered, Fits
<1> QED BY <1>1, <1>3, <1>5, <1>7, <1>8, <1>9 DEF Covered

\* The first page: nothing has been seen yet, and places are counted from one.
LEMMA CoveredStart ==
  ASSUME RowsOK, NEW l \in Lists, StartWalk(l), UNCHANGED <<vars, rows>>, NEW m \in Lists
  PROVE  WalkCovered(m)'
<1>1. /\ walk'.step = "List" /\ walk'.list = l /\ walk'.page = 1
      /\ walk'.had = ListedRows(l) /\ walk'.seen = {}
  BY DEF StartWalk, NoWalk
<1>2. \A x \in ListedRows(l) : Place(l, x) \in Nat /\ Place(l, x) > 0
  <2> TAKE x \in ListedRows(l)
  <2>1. Cardinality(Ahead(l, x)) \in Nat /\ Place(l, x) = 1 + Cardinality(Ahead(l, x))
    BY AheadFinite
  <2> QED BY <2>1
<1>3. ListedRows(l)' = ListedRows(l) /\ \A x : Place(l, x)' = Place(l, x)
  BY ListsKept
<1>4. (1 - 1) * PageSize = 0
  BY PageAssumption
<1>5. Covered(l)'
  BY <1>1, <1>2, <1>3, <1>4 DEF Covered, Beyond
<1> QED BY <1>1, <1>5 DEF WalkCovered

\* What is not on this page and not on an earlier one is on a later one.
LEMMA CoveredPage ==
  ASSUME RowsOK, WalkFields, NEW l \in Lists, WalkCovered(l), ReadPage, UNCHANGED <<vars, rows>>
  PROVE  WalkCovered(l)'
<1> SUFFICES ASSUME walk'.step # "Idle", walk'.list = l, OnlyGrows(l) PROVE Covered(l)'
  BY DEF WalkCovered
<1>1. /\ walk.step = "List" /\ walk'.step = "Count" /\ walk'.list = walk.list /\ walk'.page = walk.page
      /\ walk'.had = walk.had /\ walk'.shown = OnPage(walk.list, walk.page)
      /\ walk'.seen = walk.seen \cup OnPage(walk.list, walk.page)
  BY DEF ReadPage, WalkFields
<1>2. PICK p \in Nat \ {0} : p = walk.page
  BY <1>1 DEF WalkFields
<1>3. walk.list = l /\ Covered(l)
  BY <1>1 DEF WalkCovered
<1>4. PICK S : S = OnPage(l, p)
  OBVIOUS
<1>5. PICK from \in Nat, to \in Nat : from = (p - 1) * PageSize /\ to = p * PageSize
  BY <1>2, OffsetIsNat
<1>6. S = {x \in ListedRows(l) : from < Place(l, x) /\ Place(l, x) <= to}
  BY <1>4, <1>5 DEF OnPage
<1>7. ListedRows(l)' = ListedRows(l) /\ \A x : Place(l, x)' = Place(l, x)
  BY ListsKept
<1>8. walk.had \subseteq ListedRows(l) /\ \A x \in walk.had \ walk.seen : from < Place(l, x)
  BY <1>1, <1>2, <1>3, <1>5 DEF Covered, Beyond
<1>9. ASSUME NEW x \in walk.had, x \notin walk.seen, x \notin S PROVE to < Place(l, x)
  <2>1. x \in ListedRows(l) /\ from < Place(l, x) /\ Place(l, x) \in Nat
    BY <1>8, <1>9, PlaceInside
  <2> QED BY <1>6, <1>9, <2>1
<1>10. Cardinality(S) \in Nat /\ (S = {} \/ from + Cardinality(S) <= Cardinality(ListedRows(l)))
  BY <1>6, PageFits
<1>11. walk'.shown = S /\ walk'.seen = walk.seen \cup S /\ walk'.page = p
  BY <1>1, <1>2, <1>3, <1>4
<1>12. Beyond(l, walk.page * PageSize)'
  BY <1>1, <1>5, <1>7, <1>9, <1>11 DEF Beyond
<1>13. Fits(Cardinality(ListedRows(l)))'
  BY <1>5, <1>7, <1>10, <1>11 DEF Fits
<1> QED BY <1>1, <1>7, <1>8, <1>12, <1>13 DEF Covered

LEMMA CoveredTotal ==
  ASSUME RowsOK, WalkFields, NEW l \in Lists, WalkCovered(l), ReadTotal, UNCHANGED <<vars, rows>>
  PROVE  WalkCovered(l)'
<1> SUFFICES ASSUME walk'.step # "Idle", walk'.list = l, OnlyGrows(l) PROVE Covered(l)'
  BY DEF WalkCovered
<1>1. /\ walk.step = "Count" /\ walk'.step = "Answered" /\ walk'.list = walk.list /\ walk'.page = walk.page
      /\ walk'.had = walk.had /\ walk'.shown = walk.shown /\ walk'.seen = walk.seen
      /\ walk'.total = Cardinality(ListedRows(walk.list))
  BY DEF ReadTotal, WalkFields
<1>2. PICK p \in Nat \ {0} : p = walk.page
  BY <1>1 DEF WalkFields
<1>3. walk.list = l /\ Covered(l)
  BY <1>1 DEF WalkCovered
<1>4. PICK n \in Nat : n = Cardinality(ListedRows(l))
  BY ListedFinite
<1>5. PICK to \in Nat : to = p * PageSize
  BY <1>2, OffsetIsNat
<1>6. walk'.total = n /\ walk'.page = p
  BY <1>1, <1>2, <1>3, <1>4
<1>7. ASSUME NEW x \in walk.had, x \notin walk.seen PROVE to < n
  <2>1. x \in ListedRows(l) /\ to < Place(l, x)
    BY <1>1, <1>2, <1>3, <1>5, <1>7 DEF Covered, Beyond
  <2>2. Place(l, x) \in Nat /\ Place(l, x) <= n
    BY <1>4, <2>1, PlaceInside
  <2> QED BY <2>1, <2>2
<1>8. Fits(walk.total)'
  BY <1>1, <1>2, <1>3, <1>4, <1>6 DEF Covered, Fits
<1>9. walk'.had \subseteq walk'.seen \/ walk'.page * PageSize < walk'.total
  BY <1>1, <1>5, <1>6, <1>7
<1>10. ListedRows(l)' = ListedRows(l) /\ \A x : Place(l, x)' = Place(l, x)
  BY ListsKept
<1>11. Beyond(l, walk.page * PageSize)'
  BY <1>1, <1>3, <1>10 DEF Covered, Beyond
<1> QED BY <1>1, <1>3, <1>6, <1>8, <1>9, <1>10, <1>11 DEF Covered

\* The reader stops only when the total leaves no row for another page.
LEMMA CoveredTurn ==
  ASSUME RowsOK, WalkFields, NEW l \in Lists, WalkCovered(l), NextPage, UNCHANGED <<vars, rows>>
  PROVE  WalkCovered(l)'
<1>0. walk.step = "Answered" /\ walk'.list = walk.list /\ walk'.had = walk.had /\ walk'.seen = walk.seen
  BY DEF NextPage, WalkFields
<1> SUFFICES ASSUME walk.list = l, OnlyGrows(l) PROVE Covered(l)'
  BY <1>0 DEF WalkCovered
<1>1. PICK p \in Nat \ {0} : p = walk.page
  BY <1>0 DEF WalkFields
<1>2. Covered(l)
  BY <1>0 DEF WalkCovered
<1>3. walk.had \subseteq walk.seen \/ p < TotalPages
  <2>1. PICK n \in Nat : n = walk.total
    BY <1>0, <1>2 DEF Covered
  <2>2. walk.had \subseteq walk.seen \/ p * PageSize < n
    BY <1>0, <1>1, <1>2, <2>1 DEF Covered
  <2> QED BY <2>1, <2>2, AnotherPage DEF TotalPages
<1>4. ListedRows(l)' = ListedRows(l) /\ \A x : Place(l, x)' = Place(l, x)
  BY ListsKept
<1>5. CASE p < TotalPages
  <2>1. walk'.step = "List" /\ walk'.page = p + 1
    BY <1>1, <1>5 DEF NextPage, WalkFields
  <2>2. Beyond(l, (walk.page - 1) * PageSize)'
    <3>1. walk'.page - 1 = walk.page
      BY <1>1, <2>1, OffsetIsNat
    <3>2. PICK n : n = walk.page * PageSize /\ n = (walk'.page - 1) * PageSize
      BY <3>1
    <3>3. Beyond(l, n)
      BY <1>0, <1>2, <3>2 DEF Covered, Beyond
    <3> QED BY <1>0, <1>4, <3>2, <3>3 DEF Beyond
  <2> QED BY <1>0, <1>2, <1>4, <2>1, <2>2 DEF Covered
<1>6. CASE ~(p < TotalPages)
  <2>1. walk'.step = "End"
    BY <1>1, <1>6 DEF NextPage, WalkFields
  <2> QED BY <1>0, <1>2, <1>3, <1>4, <1>6, <2>1 DEF Covered
<1> QED BY <1>5, <1>6

LEMMA WalkNext == WalkInv /\ [ViewNext]_<<vars, viewVars>> => WalkInv'
<1> SUFFICES ASSUME WalkInv, [ViewNext]_<<vars, viewVars>> PROVE WalkInv'
  OBVIOUS
<1>1. Committed /\ RowsOK /\ WalkFields /\ \A l \in Lists : WalkCovered(l)
  BY ViewCommitted DEF WalkInv
<1>2. RowsOK'
  BY <1>1, RowsOKNext
<1>3. Lists' = Lists
  BY DEF Lists
<1>4. CASE walk' = walk
  <2>1. WalkFields'
    BY <1>1, <1>4 DEF WalkFields, Lists
  <2> QED BY <1>1, <1>2, <1>4, <2>1, CoveredCommit DEF WalkInv, Lists
<1>5. CASE ReadList
  <2>1. UNCHANGED <<vars, rows>>
    BY <1>5 DEF ReadList
  <2>2. ASSUME NEW l \in Lists, StartWalk(l) PROVE WalkFields' /\ \A m \in Lists : WalkCovered(m)'
    <3>1. WalkFields'
      BY <2>2 DEF StartWalk, NoWalk, WalkFields, Lists
    <3> QED BY <1>1, <2>1, <2>2, <3>1, CoveredStart
  <2>3. CASE ReadPage
    <3>1. WalkFields'
      BY <1>1, <2>3 DEF ReadPage, WalkFields, Lists
    <3> QED BY <1>1, <1>2, <2>1, <2>3, <3>1, CoveredPage DEF WalkInv, Lists
  <2>4. CASE ReadTotal
    <3>1. WalkFields'
      BY <1>1, <2>4 DEF ReadTotal, WalkFields, Lists
    <3> QED BY <1>1, <1>2, <2>1, <2>4, <3>1, CoveredTotal DEF WalkInv, Lists
  <2>5. CASE NextPage
    <3>1. WalkFields'
      BY <1>1, <2>5 DEF NextPage, WalkFields, Lists
    <3> QED BY <1>1, <1>2, <2>1, <2>5, <3>1, CoveredTurn DEF WalkInv, Lists
  <2> QED BY <1>2, <1>5, <2>2, <2>3, <2>4, <2>5 DEF ReadList, WalkInv, Lists
<1> QED BY <1>4, <1>5 DEF ViewNext, Commit, ReadDetail, viewVars

LEMMA WalkInit == ViewInit => WalkInv
<1> SUFFICES ASSUME ViewInit PROVE WalkInv
  OBVIOUS
<1>1. Init /\ rows = <<>> /\ walk = NoWalk
  BY DEF ViewInit
<1>2. MoneyInv /\ PaidInv
  BY <1>1, MoneyInit, PaidInit
<1>3. IsFiniteSet(servedMap)
  <2>1. servedMap = {}
    BY <1>1 DEF Init, servedMap
  <2> QED BY <2>1, FS_EmptySet
<1>4. RowsInv
  BY <1>1 DEF Init, RowsInv, Distinct
<1>5. WalkFields /\ walk.step = "Idle"
  BY <1>1 DEF WalkFields, NoWalk
<1> QED BY <1>2, <1>3, <1>4, <1>5 DEF WalkInv, RowsOK, WalkCovered

\* A reader who goes through the pages of a list that only grows has seen every row
\* that was there at the start, for any number of rows, any page size, and any entries
\* that late commits sort between the rows already shown.
THEOREM PagesShowAll == ViewSpec => []PagesSkipNothing
<1>1. WalkInv => PagesSkipNothing
  BY DEF WalkInv, WalkFields, WalkCovered, Covered, PagesSkipNothing
<1> QED BY <1>1, WalkInit, WalkNext, PTL DEF ViewSpec

\* The total that is counted after a page was read covers the rows on it, whatever
\* committed between the two queries.
THEOREM TotalsCoverPages == ViewSpec => []TotalCoversPage
<1>1. WalkInv => TotalCoversPage
  BY DEF WalkInv, WalkFields, WalkCovered, Covered, Fits, TotalCoversPage
<1> QED BY <1>1, WalkInit, WalkNext, PTL DEF ViewSpec
=============================================================================
