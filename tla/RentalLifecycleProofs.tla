----------------------- MODULE RentalLifecycleProofs ------------------------
(***************************************************************************)
(* Theorems about RentalLifecycle, for every number of customers, accounts *)
(* and rentals, in four parts: the types and the states of one rental;     *)
(* that accounts, rentals, payments and deposit holds agree; that the      *)
(* rental aggregate implements AccountLease; and what happens when.        *)
(***************************************************************************)
EXTENDS RentalLifecycle, TLAPS

-----------------------------------------------------------------------------
(* Operators *)

\* Prices are natural numbers (CalculateRentalTotal).
LEMMA PriceType ==
  ASSUME NEW p \in Pricings, NEW h \in Durations
  PROVE  RentalPrice(p, h) \in Nat /\ PaymentAmount(p, h) \in Nat
BY PricingsAssumption, TimeAssumption DEF RentalPrice, PaymentAmount

\* Dropping an item from a clean-up pass leaves a pass.
LEMMA DropType ==
  ASSUME NEW pass \in Passes, NEW r \in Rentals
  PROVE  Drop(pass, r) \in Passes
BY DEF Drop, Passes, IdlePass

\* A captured time is a natural number.
LEMMA RecentType == Recent \subseteq Nat
BY DEF Recent

\* Adding well-formed entries keeps the ledger well formed.
LEMMA HoldEntryType ==
  ASSUME TypeOK, NEW r \in Rentals, rStatus[r] # "Absent", NEW e \in HoldEntry(r)
  PROVE  /\ e.kind \in EntryKinds /\ e.user \in Users
         /\ e.rental \in Rentals /\ e.amount \in Nat
BY DEF TypeOK, RentalTypes, HoldEntry, Entry, EntryKinds, RecordKinds

LEMMA RefundEntriesType ==
  ASSUME TypeOK, NEW r \in Rentals, rStatus[r] # "Absent", NEW e \in RefundEntries(r)
  PROVE  /\ e.kind \in EntryKinds /\ e.user \in Users
         /\ e.rental \in Rentals /\ e.amount \in Nat
BY DEF TypeOK, RentalTypes, RefundEntries, RefundableDeposit, Entry, EntryKinds, CreditKinds

\* A rental that waits for payment has a customer and an amount to pay.
LEMMA AwaitingRow ==
  ASSUME TypeOK, NEW r \in Rentals, AwaitsPayment(r)
  PROVE  rUser[r] \in Users /\ AmountDue(r) \in Nat
<1>1. rStatus[r] # "Absent"
  BY DEF AwaitsPayment
<1>2. rUser[r] \in Users
  BY <1>1 DEF TypeOK, RentalTypes
<1>3. AmountDue(r) \in Nat
  BY DEF TypeOK, RentalTypes, AmountDue
<1> QED BY <1>2, <1>3

-----------------------------------------------------------------------------
(* Type correctness *)

\* The three transitions that several handlers share.
LEMMA FreeUnpaidType ==
  ASSUME TypeOK, NEW r \in Rentals, NEW st \in {"Cancelled", "Expired"},
         AwaitsPayment(r), FreeUnpaid(r, st)
  PROVE  now' \in 0..MaxTime /\ AccountTypes' /\ RentalTypes' /\ PaymentTypes' /\ MoneyTypes'
<1>1. r \in Rentals /\ rStatus[r] = "Waiting"
  BY DEF AwaitsPayment
<1>2. AccountTypes'
  BY <1>1 DEF TypeOK, AccountTypes, RentalTypes, AcctStatuses, FreeUnpaid, AwaitsPayment
<1>3. RentalTypes'
  BY <1>1 DEF TypeOK, RentalTypes, RentalStatuses, FreeUnpaid, orderVars
<1>4. PaymentTypes'
  BY DEF TypeOK, PaymentTypes, PayStatuses, FreeUnpaid, holdVars
<1>5. now' \in 0..MaxTime /\ MoneyTypes'
  BY DEF TypeOK, MoneyTypes, FreeUnpaid, moneyVars
<1> QED BY <1>2, <1>3, <1>4, <1>5

LEMMA ActivateType ==
  ASSUME TypeOK, NEW r \in Rentals, AwaitsPayment(r), NEW entries, Activate(r, entries),
         \A e \in entries : /\ e.kind \in EntryKinds /\ e.user \in Users
                            /\ e.rental \in Rentals /\ e.amount \in Nat
  PROVE  /\ now' \in 0..MaxTime /\ AccountTypes' /\ RentalTypes'
         /\ pStatus' \in [Rentals -> PayStatuses] /\ hold' \in [Rentals -> HoldStatuses]
         /\ holdSource' = holdSource /\ refund' = refund /\ issued' = issued
         /\ \A e \in ledger' : /\ e.kind \in EntryKinds /\ e.user \in Users
                               /\ e.rental \in Rentals \cup {NoRental} /\ e.amount \in Nat
         /\ waitPass' \in Passes /\ usePass' \in Passes
<1>1. rStatus[r] = "Waiting"
  BY DEF AwaitsPayment
<1>2. AccountTypes'
  BY <1>1 DEF TypeOK, AccountTypes, RentalTypes, AcctStatuses, Activate, AwaitsPayment
<1>3. RentalTypes'
  BY <1>1 DEF TypeOK, RentalTypes, RentalStatuses, Activate, orderVars
<1>4. pStatus' \in [Rentals -> PayStatuses] /\ hold' \in [Rentals -> HoldStatuses]
  BY DEF TypeOK, PaymentTypes, PayStatuses, HoldStatuses, Activate
<1>5. \A e \in ledger' : /\ e.kind \in EntryKinds /\ e.user \in Users
                         /\ e.rental \in Rentals \cup {NoRental} /\ e.amount \in Nat
  BY <1>1, HoldEntryType DEF TypeOK, MoneyTypes, Activate
<1> QED BY <1>2, <1>3, <1>4, <1>5 DEF TypeOK, Activate, passVars

LEMMA SettleType ==
  ASSUME TypeOK, NEW r \in Rentals, rStatus[r] # "Absent",
         NEW st \in HoldStatuses, NEW src \in HoldSources \cup {Null}, NEW credit \in Nat,
         NEW entries, Settle(r, st, src, credit, entries), refund' \in [Rentals -> {"Absent", "Completed"}],
         \A e \in entries : /\ e.kind \in EntryKinds /\ e.user \in Users
                            /\ e.rental \in Rentals /\ e.amount \in Nat
  PROVE  TypeOK'
<1>1. AccountTypes'
  BY DEF TypeOK, AccountTypes, Settle, acctVars
<1>2. RentalTypes'
  BY DEF TypeOK, RentalTypes, RentalStatuses, Settle, orderVars
<1>3. PaymentTypes'
  BY DEF TypeOK, PaymentTypes, Settle, paymentVars
<1>4. MoneyTypes'
  <2>1. rUser[r] \in Users
    BY DEF TypeOK, RentalTypes
  <2>2. balance' \in [Users -> 0..MaxInt64]
    BY <2>1 DEF TypeOK, MoneyTypes, Settle, CanCredit
  <2> QED BY <2>2 DEF TypeOK, MoneyTypes, Settle
<1> QED BY <1>1, <1>2, <1>3, <1>4 DEF TypeOK, Settle, passVars

LEMMA TypeInit == Init => TypeOK
<1> SUFFICES ASSUME Init PROVE TypeOK
  OBVIOUS
<1>1. AccountTypes
  BY DEF Init, AccountTypes, AcctStatuses
<1>2. RentalTypes
  BY DEF Init, RentalTypes, RentalStatuses
<1>3. PaymentTypes
  BY DEF Init, PaymentTypes, PayStatuses, HoldStatuses
<1>4. MoneyTypes
  BY TimeAssumption DEF Init, MoneyTypes
<1> QED BY <1>1, <1>2, <1>3, <1>4, TimeAssumption DEF Init, TypeOK, Passes, IdlePass

\* A list of rental ids with the time it was read is a pass.
LEMMA PassType ==
  ASSUME TypeOK, NEW S \in SUBSET Rentals
  PROVE  [now |-> now, todo |-> S] \in Passes
BY DEF TypeOK, Passes

LEMMA TypeAdmin == TypeOK /\ AdminStep => TypeOK'
<1> SUFFICES ASSUME TypeOK, AdminStep PROVE TypeOK'
  OBVIOUS
<1>1. ASSUME NEW a \in Accounts, NEW p \in Pricings, CreateAccount(a, p) PROVE TypeOK'
  <2>1. AccountTypes'
    BY <1>1 DEF TypeOK, AccountTypes, AcctStatuses, CreateAccount
  <2> QED BY <1>1, <2>1 DEF TypeOK, RentalTypes, PaymentTypes, MoneyTypes, CreateAccount,
            orderVars, paymentVars, holdVars, moneyVars, passVars
<1>2. ASSUME NEW a \in Accounts, NEW p \in Pricings, UpdateAccount(a, p) PROVE TypeOK'
  <2>1. AccountTypes'
    BY <1>2 DEF TypeOK, AccountTypes, AcctStatuses, UpdateAccount
  <2> QED BY <1>2, <2>1 DEF TypeOK, RentalTypes, PaymentTypes, MoneyTypes, UpdateAccount,
            orderVars, paymentVars, holdVars, moneyVars, passVars
<1>3. ASSUME NEW a \in Accounts, DisableAccountIfIdle(a) PROVE TypeOK'
  <2>1. AccountTypes'
    BY <1>3 DEF TypeOK, AccountTypes, AcctStatuses, DisableAccountIfIdle
  <2> QED BY <1>3, <2>1 DEF TypeOK, RentalTypes, PaymentTypes, MoneyTypes, DisableAccountIfIdle,
            orderVars, paymentVars, holdVars, moneyVars, passVars
<1>4. ASSUME NEW r \in Rentals, ReleaseDeposit(r) PROVE TypeOK'
  <2>1. rStatus[r] # "Absent" /\ refund' = refund
    BY <1>4 DEF ReleaseDeposit, Reviewable
  <2>2. rUser[r] \in Users /\ rDeposit[r] \in Nat
    BY <2>1 DEF TypeOK, RentalTypes
  <2> DEFINE entries ==
        {Entry("DepositReleasedBalance", <<"deposit:release", r>>, rUser[r], r, rDeposit[r])}
  <2>3. \A e \in entries : /\ e.kind \in EntryKinds /\ e.user \in Users
                           /\ e.rental \in Rentals /\ e.amount \in Nat
    BY <2>2 DEF Entry, EntryKinds, CreditKinds
  <2>4. Settle(r, "Released", "AdminRelease", rDeposit[r], entries)
    BY <1>4 DEF ReleaseDeposit
  <2>5. "Released" \in HoldStatuses /\ "AdminRelease" \in HoldSources
    BY DEF HoldStatuses, HoldSources
  <2>6. refund' \in [Rentals -> {"Absent", "Completed"}]
    BY <2>1 DEF TypeOK, PaymentTypes
  <2> HIDE DEF entries
  <2> QED BY <2>1, <2>2, <2>3, <2>4, <2>5, <2>6, SettleType
<1>5. ASSUME NEW r \in Rentals, RefundWalletPayment(r) PROVE TypeOK'
  <2>1. rStatus[r] # "Absent"
    BY <1>5 DEF RefundWalletPayment, Refundable
  <2> DEFINE st == IF RefundableDeposit(r) > 0 THEN "Refunded" ELSE hold[r]
             src == IF RefundableDeposit(r) > 0 THEN "WalletRefund" ELSE holdSource[r]
             credit == rPrice[r] + RefundableDeposit(r)
  <2>2. st \in HoldStatuses /\ src \in HoldSources \cup {Null}
    BY DEF TypeOK, PaymentTypes, HoldStatuses, HoldSources
  <2>3. credit \in Nat
    BY DEF TypeOK, RentalTypes, RefundableDeposit
  <2>4. refund' \in [Rentals -> {"Absent", "Completed"}]
    BY <1>5 DEF TypeOK, PaymentTypes, RefundWalletPayment
  <2>5. Settle(r, st, src, credit, RefundEntries(r))
    BY <1>5 DEF RefundWalletPayment
  <2> HIDE DEF st, src, credit
  <2> QED BY <2>1, <2>2, <2>3, <2>4, <2>5, RefundEntriesType, SettleType
<1>6. ASSUME NEW r \in Rentals, NEW t \in Recent, ForfeitDeposit(r, t) PROVE TypeOK'
  <2>1. rStatus[r] # "Absent" /\ refund' = refund
    BY <1>6 DEF ForfeitDeposit, Reviewable
  <2>2. rUser[r] \in Users /\ rDeposit[r] \in Nat
    BY <2>1 DEF TypeOK, RentalTypes
  <2> DEFINE entries ==
        {Entry("DepositForfeited", <<"deposit:forfeit", r>>, rUser[r], r, rDeposit[r])}
  <2>3. \A e \in entries : /\ e.kind \in EntryKinds /\ e.user \in Users
                           /\ e.rental \in Rentals /\ e.amount \in Nat
    BY <2>2 DEF Entry, EntryKinds, RecordKinds
  <2>4. Settle(r, "Forfeited", "AdminForfeit", 0, entries)
    BY <1>6 DEF ForfeitDeposit
  <2>5. "Forfeited" \in HoldStatuses /\ "AdminForfeit" \in HoldSources
    BY DEF HoldStatuses, HoldSources
  <2>6. refund' \in [Rentals -> {"Absent", "Completed"}]
    BY <2>1 DEF TypeOK, PaymentTypes
  <2> HIDE DEF entries
  <2> QED BY <2>1, <2>3, <2>4, <2>5, <2>6, SettleType
<1>7. ASSUME NEW k \in AdjustKeys, NEW u \in Users, NEW n \in Adjustments,
             AdjustAdminBalance(k, u, n)
      PROVE  TypeOK'
  <2>1. n \in Int /\ (IF n > 0 THEN n ELSE -n) \in Nat
    BY PricingsAssumption
  <2>2. balance' \in [Users -> 0..MaxInt64]
    BY <1>7, <2>1 DEF TypeOK, MoneyTypes, AdjustAdminBalance
  <2>3. MoneyTypes'
    BY <1>7, <2>1, <2>2 DEF TypeOK, MoneyTypes, AdjustAdminBalance, Entry, EntryKinds, CreditKinds, DebitKinds
  <2> QED BY <1>7, <2>3 DEF TypeOK, AccountTypes, RentalTypes, PaymentTypes, AdjustAdminBalance,
            acctVars, orderVars, paymentVars, holdVars, passVars
<1> QED BY <1>1, <1>2, <1>3, <1>4, <1>5, <1>6, <1>7 DEF AdminStep

LEMMA TypeCustomer == TypeOK /\ CustomerStep => TypeOK'
<1> SUFFICES ASSUME TypeOK, CustomerStep PROVE TypeOK'
  OBVIOUS
<1>1. ASSUME NEW u \in Users, NEW a \in Accounts, NEW r \in Rentals, NEW h \in Durations,
             NEW t \in Recent, NEW s \in Recent, RentAccount(u, a, r, h, t, s)
      PROVE  TypeOK'
  <2>1. acctPricing[a] \in Pricings
    BY <1>1 DEF TypeOK, AccountTypes, RentAccount
  <2>2. /\ RentalPrice(acctPricing[a], h) \in Nat /\ acctPricing[a].deposit \in Nat
        /\ t + h * Hour \in Nat /\ s + PaymentWindow \in Nat
    BY <2>1, PriceType, RecentType, PricingsAssumption, TimeAssumption
  <2>3. AccountTypes'
    BY <1>1, <2>1 DEF TypeOK, AccountTypes, AcctStatuses, RentAccount
  <2>4. RentalTypes'
    BY <1>1, <2>2 DEF TypeOK, RentalTypes, RentalStatuses, RentAccount
  <2>5. PaymentTypes'
    BY <1>1 DEF TypeOK, PaymentTypes, PayStatuses, RentAccount, holdVars
  <2> QED BY <1>1, <2>3, <2>4, <2>5 DEF TypeOK, MoneyTypes, RentAccount, moneyVars, passVars
<1>2. ASSUME NEW r \in Rentals, CancelRental(r) PROVE TypeOK'
  <2>1. AwaitsPayment(r) /\ FreeUnpaid(r, "Cancelled")
    BY <1>2 DEF CancelRental
  <2> QED BY <1>2, <2>1, FreeUnpaidType DEF TypeOK, CancelRental, passVars
<1>3. ASSUME NEW r \in Rentals, NEW t \in Recent, PayRentalWithBalance(r, t) PROVE TypeOK'
  <2>1. AwaitsPayment(r)
    BY <1>3 DEF PayRentalWithBalance
  <2>2. rUser[r] \in Users /\ AmountDue(r) \in Nat
    BY <2>1, AwaitingRow
  <2> DEFINE entries == {Entry("BalanceDebit", <<"balance:debit", r>>, rUser[r], r, AmountDue(r))}
  <2>3. \A e \in entries : /\ e.kind \in EntryKinds /\ e.user \in Users
                           /\ e.rental \in Rentals /\ e.amount \in Nat
    BY <2>2 DEF Entry, EntryKinds, DebitKinds
  <2>4. Activate(r, entries)
    BY <1>3 DEF PayRentalWithBalance
  <2>5. balance' \in [Users -> 0..MaxInt64]
    BY <1>3, <2>2, TimeAssumption DEF TypeOK, MoneyTypes, PayRentalWithBalance
  <2>6. pProvider' \in [Rentals -> {"internal", "balance", Null}] /\ extTx' = extTx
    BY <1>3 DEF TypeOK, PaymentTypes, PayRentalWithBalance
  <2> HIDE DEF entries
  <2>7. /\ now' \in 0..MaxTime /\ AccountTypes' /\ RentalTypes'
        /\ pStatus' \in [Rentals -> PayStatuses] /\ hold' \in [Rentals -> HoldStatuses]
        /\ holdSource' = holdSource /\ refund' = refund /\ issued' = issued
        /\ \A e \in ledger' : /\ e.kind \in EntryKinds /\ e.user \in Users
                              /\ e.rental \in Rentals \cup {NoRental} /\ e.amount \in Nat
        /\ waitPass' \in Passes /\ usePass' \in Passes
    BY <2>1, <2>3, <2>4, ActivateType
  <2> QED BY <2>5, <2>6, <2>7 DEF TypeOK, PaymentTypes, MoneyTypes
<1>4. ASSUME NEW r \in Rentals, NEW t \in Recent, GetRentalCredentials(r, t) PROVE TypeOK'
  BY <1>4 DEF TypeOK, AccountTypes, RentalTypes, PaymentTypes, MoneyTypes, GetRentalCredentials,
     acctVars, orderVars, paymentVars, holdVars, moneyVars, passVars
<1> QED BY <1>1, <1>2, <1>3, <1>4 DEF CustomerStep

\* ProcessWebhook goes on only for a payment that waits, of the provider's kind,
\* with an external transaction no other payment has used.
LEMMA WebhookProcesses ==
  ASSUME NEW r, NEW x, WebhookReply(r, x) = "Process"
  PROVE  AwaitsPayment(r) /\ pProvider[r] = "internal" /\ ~ExtTxTaken(r, x)
<1>1. ~ExtTxTaken(r, x)
  BY DEF WebhookReply
<1>2. pStatus[r] # "Absent" /\ pProvider[r] = "internal"
  BY <1>1 DEF WebhookReply
<1>3. pStatus[r] # "Success"
  BY <1>1, <1>2 DEF WebhookReply
<1>4. pStatus[r] # "Failed"
  BY <1>1, <1>2, <1>3 DEF WebhookReply
<1>5. AwaitsPayment(r)
  BY <1>1, <1>2, <1>3, <1>4 DEF WebhookReply
<1> QED BY <1>1, <1>2, <1>5

LEMMA TypeProvider == TypeOK /\ ProviderStep => TypeOK'
<1> SUFFICES ASSUME TypeOK, NEW r \in Rentals, NEW x \in ExtTxs, NEW s \in Recent,
                    ProcessWebhook(r, x, s)
             PROVE  TypeOK'
  BY DEF ProviderStep
<1>1. AwaitsPayment(r)
  BY WebhookProcesses DEF ProcessWebhook
<1>2. rUser[r] \in Users /\ AmountDue(r) \in Nat
  BY <1>1, AwaitingRow
<1> DEFINE entries ==
      {Entry("ProviderPaymentReceived", <<"payment:webhook", x>>, rUser[r], r, AmountDue(r))}
<1>3. \A e \in entries : /\ e.kind \in EntryKinds /\ e.user \in Users
                         /\ e.rental \in Rentals /\ e.amount \in Nat
  BY <1>2 DEF Entry, EntryKinds, RecordKinds
<1>4. Activate(r, entries)
  BY DEF ProcessWebhook
<1>5. extTx' \in [Rentals -> ExtTxs \cup {Null}] /\ pProvider' = pProvider /\ balance' = balance
  BY DEF TypeOK, PaymentTypes, ProcessWebhook
<1> HIDE DEF entries
<1>6. /\ now' \in 0..MaxTime /\ AccountTypes' /\ RentalTypes'
      /\ pStatus' \in [Rentals -> PayStatuses] /\ hold' \in [Rentals -> HoldStatuses]
      /\ holdSource' = holdSource /\ refund' = refund /\ issued' = issued
      /\ \A e \in ledger' : /\ e.kind \in EntryKinds /\ e.user \in Users
                            /\ e.rental \in Rentals \cup {NoRental} /\ e.amount \in Nat
      /\ waitPass' \in Passes /\ usePass' \in Passes
  BY <1>1, <1>3, <1>4, ActivateType
<1> QED BY <1>5, <1>6 DEF TypeOK, PaymentTypes, MoneyTypes

LEMMA TypeWorker == TypeOK /\ WorkerStep => TypeOK'
<1> SUFFICES ASSUME TypeOK, WorkerStep PROVE TypeOK'
  OBVIOUS
<1>1. ASSUME ScanWaiting PROVE TypeOK'
  <2>1. waitPass' \in Passes
    BY <1>1, PassType DEF ScanWaiting
  <2> QED BY <1>1, <2>1 DEF TypeOK, AccountTypes, RentalTypes, PaymentTypes, MoneyTypes, ScanWaiting,
     acctVars, orderVars, paymentVars, holdVars, moneyVars
<1>2. ASSUME ScanExpired PROVE TypeOK'
  <2>1. usePass' \in Passes
    BY <1>2, PassType DEF ScanExpired
  <2> QED BY <1>2, <2>1 DEF TypeOK, AccountTypes, RentalTypes, PaymentTypes, MoneyTypes, ScanExpired,
     acctVars, orderVars, paymentVars, holdVars, moneyVars
<1>3. ASSUME NEW r \in Rentals, ExpireWaitingPaymentReservation(r) PROVE TypeOK'
  <2>1. AwaitsPayment(r) /\ FreeUnpaid(r, "Expired")
    BY <1>3 DEF ExpireWaitingPaymentReservation, PaymentOverdue
  <2>2. waitPass' \in Passes /\ usePass' \in Passes
    BY <1>3, DropType DEF TypeOK, ExpireWaitingPaymentReservation
  <2> QED BY <2>1, <2>2, FreeUnpaidType DEF TypeOK
<1>4. ASSUME NEW r \in Rentals, SkipWaiting(r) PROVE TypeOK'
  <2>1. waitPass' \in Passes
    BY <1>4, DropType DEF TypeOK, SkipWaiting
  <2> QED BY <1>4, <2>1 DEF TypeOK, AccountTypes, RentalTypes, PaymentTypes, MoneyTypes, SkipWaiting,
     acctVars, orderVars, paymentVars, holdVars, moneyVars
<1>5. ASSUME NEW r \in Rentals, ExpireRental(r) PROVE TypeOK'
  <2>1. rStatus[r] = "Active"
    BY <1>5 DEF ExpireRental, UsageOver
  <2>2. ReviewDeadline(r) \in Nat \cup {Null}
    BY TimeAssumption DEF TypeOK, RentalTypes, ReviewDeadline
  <2>3. AccountTypes'
    BY <1>5, <2>1 DEF TypeOK, AccountTypes, RentalTypes, AcctStatuses, ExpireRental
  <2>4. RentalTypes'
    BY <1>5, <2>1, <2>2 DEF TypeOK, RentalTypes, RentalStatuses, ExpireRental, orderVars
  <2>5. usePass' \in Passes
    BY <1>5, DropType DEF TypeOK, ExpireRental
  <2> QED BY <1>5, <2>3, <2>4, <2>5 DEF TypeOK, PaymentTypes, MoneyTypes, ExpireRental,
            paymentVars, holdVars, moneyVars
<1>6. ASSUME NEW r \in Rentals, SkipExpired(r) PROVE TypeOK'
  <2>1. usePass' \in Passes
    BY <1>6, DropType DEF TypeOK, SkipExpired
  <2> QED BY <1>6, <2>1 DEF TypeOK, AccountTypes, RentalTypes, PaymentTypes, MoneyTypes, SkipExpired,
     acctVars, orderVars, paymentVars, holdVars, moneyVars
<1>7. ASSUME NEW r \in Rentals, NEW t \in Recent, FinalizeNext(r, t) PROVE TypeOK'
  <2>1. rStatus[r] # "Absent" /\ refund' = refund
    BY <1>7 DEF FinalizeNext, IsHead, Finalizable
  <2>2. rUser[r] \in Users /\ rDeposit[r] \in Nat
    BY <2>1 DEF TypeOK, RentalTypes
  <2>3. refund' \in [Rentals -> {"Absent", "Completed"}]
    BY <2>1 DEF TypeOK, PaymentTypes
  <2>4. CASE hold[r] = "Held"
    <3>1. \A e \in AutoReleaseEntries(r) : /\ e.kind \in EntryKinds /\ e.user \in Users
                                           /\ e.rental \in Rentals /\ e.amount \in Nat
      BY <2>2 DEF AutoReleaseEntries, Entry, EntryKinds, CreditKinds
    <3>2. Settle(r, "Released", "AutoRelease", rDeposit[r], AutoReleaseEntries(r))
      BY <1>7, <2>4 DEF FinalizeNext
    <3>3. "Released" \in HoldStatuses /\ "AutoRelease" \in HoldSources
      BY DEF HoldStatuses, HoldSources
    <3> QED BY <2>1, <2>2, <2>3, <3>1, <3>2, <3>3, SettleType
  <2>5. CASE hold[r] # "Held"
    <3> DEFINE nothing == 0
               none == {}
    <3>1. Settle(r, hold[r], holdSource[r], nothing, none)
      BY <1>7, <2>5 DEF FinalizeNext
    <3>2. hold[r] \in HoldStatuses /\ holdSource[r] \in HoldSources \cup {Null}
      BY DEF TypeOK, PaymentTypes
    <3>3. nothing \in Nat /\ \A e \in none : /\ e.kind \in EntryKinds /\ e.user \in Users
                                            /\ e.rental \in Rentals /\ e.amount \in Nat
      OBVIOUS
    <3> HIDE DEF nothing, none
    <3> QED BY <2>1, <2>3, <3>1, <3>2, <3>3, SettleType
  <2> QED BY <2>4, <2>5
<1> QED BY <1>1, <1>2, <1>3, <1>4, <1>5, <1>6, <1>7
     DEF WorkerStep, SweepWaiting, SweepExpired, Finalize

LEMMA TypeNext == TypeOK /\ [Next]_vars => TypeOK'
<1> SUFFICES ASSUME TypeOK, [Next]_vars PROVE TypeOK'
  OBVIOUS
<1>1. CASE Restart
  <2>1. waitPass' \in Passes /\ usePass' \in Passes
    BY <1>1 DEF Restart, Passes, IdlePass
  <2> QED BY <1>1, <2>1 DEF TypeOK, AccountTypes, RentalTypes, PaymentTypes, MoneyTypes, Restart,
     acctVars, orderVars, paymentVars, holdVars, moneyVars
<1>2. CASE Tick
  BY <1>2, TimeAssumption DEF TypeOK, AccountTypes, RentalTypes, PaymentTypes, MoneyTypes, Tick,
     acctVars, orderVars, paymentVars, holdVars, moneyVars, passVars
<1>3. CASE UNCHANGED vars
  BY <1>3 DEF TypeOK, AccountTypes, RentalTypes, PaymentTypes, MoneyTypes, vars,
     acctVars, orderVars, paymentVars, holdVars, moneyVars, passVars
<1> QED BY <1>1, <1>2, <1>3, TypeAdmin, TypeCustomer, TypeProvider, TypeWorker DEF Next

\* Every table keeps its types, and every row refers to rows that exist, in every
\* reachable state: no handler or job writes an account or a user that is not there.
THEOREM TypeCorrect == Spec => []TypeOK
BY TypeInit, TypeNext, PTL DEF Spec

-----------------------------------------------------------------------------
(* Accounts, rentals, payments and deposit holds agree *)

Live(r) == rStatus[r] \in {"Waiting", "Active"}

\* AccountMatchesRental without set comprehensions, the form the proofs use.
Tenancy ==
  /\ \A r, q \in Rentals : Live(r) /\ Live(q) /\ rAcct[r] = rAcct[q] => r = q
  /\ \A r \in Rentals : rStatus[r] = "Waiting" => acctStatus[rAcct[r]] = "Reserved"
  /\ \A r \in Rentals : rStatus[r] = "Active" => acctStatus[rAcct[r]] = "Rented"
  /\ \A a \in Accounts : acctStatus[a] = "Reserved" =>
       \E r \in Rentals : rAcct[r] = a /\ rStatus[r] = "Waiting"
  /\ \A a \in Accounts : acctStatus[a] = "Rented" =>
       \E r \in Rentals : rAcct[r] = a /\ rStatus[r] = "Active"

LEMMA TenancyMeaning == Tenancy => AccountMatchesRental
<1> SUFFICES ASSUME Tenancy, NEW a \in Accounts
             PROVE  /\ \A r, q \in LiveRentals(a) : r = q
                    /\ acctStatus[a] = "Reserved" <=> \E r \in LiveRentals(a) : rStatus[r] = "Waiting"
                    /\ acctStatus[a] = "Rented" <=> ActiveRentals(a) # {}
  BY DEF AccountMatchesRental
<1>1. \A r, q \in LiveRentals(a) : r = q
  BY DEF Tenancy, Live, LiveRentals
<1>2. acctStatus[a] = "Reserved" <=> \E r \in LiveRentals(a) : rStatus[r] = "Waiting"
  BY DEF Tenancy, LiveRentals
<1>3. acctStatus[a] = "Rented" <=> ActiveRentals(a) # {}
  BY DEF Tenancy, ActiveRentals
<1> QED BY <1>1, <1>2, <1>3

-----------------------------------------------------------------------------
(* The shapes of a step, and what each does to Tenancy *)

LEMMA TenancySame ==
  ASSUME Tenancy, rStatus' = rStatus, rAcct' = rAcct, acctStatus' = acctStatus
  PROVE  Tenancy'
BY DEF Tenancy, Live

\* A status that says nothing about a tenant is replaced by another such status.
LEMMA TenancyIdleAccount ==
  ASSUME TypeOK, Tenancy, NEW a \in Accounts, NEW st,
         acctStatus[a] \notin {"Reserved", "Rented"}, st \notin {"Reserved", "Rented"},
         rStatus' = rStatus, rAcct' = rAcct, acctStatus' = [acctStatus EXCEPT ![a] = st]
  PROVE  Tenancy'
BY DEF Tenancy, Live, TypeOK, AccountTypes, RentalTypes

\* A live rental ends and its account becomes available.
LEMMA TenancyEnds ==
  ASSUME TypeOK, Tenancy, NEW r \in Rentals, NEW st, Live(r), st \notin {"Waiting", "Active"},
         rStatus' = [rStatus EXCEPT ![r] = st], rAcct' = rAcct,
         acctStatus' = [acctStatus EXCEPT ![rAcct[r]] = "Available"]
  PROVE  Tenancy'
<1>1. rAcct[r] \in Accounts
  BY DEF TypeOK, RentalTypes, Live
<1>2. acctStatus' \in [Accounts -> AcctStatuses] /\ rStatus \in [Rentals -> RentalStatuses]
  BY DEF TypeOK, AccountTypes, RentalTypes, AcctStatuses
<1>3. \A q \in Rentals : q # r /\ Live(q) => rAcct[q] # rAcct[r]
  BY DEF Tenancy
<1> QED BY <1>1, <1>2, <1>3 DEF Tenancy, Live, TypeOK, AccountTypes, RentalTypes

\* A waiting rental becomes active and its account rented.
LEMMA TenancyActivates ==
  ASSUME TypeOK, Tenancy, NEW r \in Rentals, rStatus[r] = "Waiting",
         rStatus' = [rStatus EXCEPT ![r] = "Active"], rAcct' = rAcct,
         acctStatus' = [acctStatus EXCEPT ![rAcct[r]] = "Rented"]
  PROVE  Tenancy'
<1>1. rAcct[r] \in Accounts
  BY DEF TypeOK, RentalTypes
<1>2. \A q \in Rentals : q # r /\ Live(q) => rAcct[q] # rAcct[r]
  BY DEF Tenancy, Live
<1> QED BY <1>1, <1>2 DEF Tenancy, Live, TypeOK, AccountTypes, RentalTypes

\* A rental that is over changes its status.
LEMMA TenancyOver ==
  ASSUME TypeOK, Tenancy, NEW r \in Rentals, NEW st, ~Live(r), st \notin {"Waiting", "Active"},
         rStatus' = [rStatus EXCEPT ![r] = st], rAcct' = rAcct, acctStatus' = acctStatus
  PROVE  Tenancy'
BY DEF Tenancy, Live, TypeOK, RentalTypes

\* An available account gets a new rental and is reserved for it.
LEMMA TenancyBegins ==
  ASSUME TypeOK, Tenancy, NEW r \in Rentals, NEW a \in Accounts, ~Live(r),
         acctStatus[a] = "Available",
         rStatus' = [rStatus EXCEPT ![r] = "Waiting"], rAcct' = [rAcct EXCEPT ![r] = a],
         acctStatus' = [acctStatus EXCEPT ![a] = "Reserved"]
  PROVE  Tenancy'
<1>1. \A q \in Rentals : Live(q) => rAcct[q] # a
  BY DEF Tenancy, Live
<1> QED BY <1>1 DEF Tenancy, Live, TypeOK, AccountTypes, RentalTypes

-----------------------------------------------------------------------------
(* The shapes of a step, and what each does to PaymentMatchesRental *)

LEMMA PaymentSame ==
  ASSUME PaymentMatchesRental, rStatus' = rStatus, pStatus' = pStatus, hold' = hold,
         rDeposit' = rDeposit
  PROVE  PaymentMatchesRental'
BY DEF PaymentMatchesRental

LEMMA PaymentBegins ==
  ASSUME TypeOK, PaymentMatchesRental, NEW r \in Rentals, NEW d, rStatus[r] = "Absent",
         rStatus' = [rStatus EXCEPT ![r] = "Waiting"], pStatus' = [pStatus EXCEPT ![r] = "Pending"],
         rDeposit' = [rDeposit EXCEPT ![r] = d], hold' = hold
  PROVE  PaymentMatchesRental'
BY DEF PaymentMatchesRental, TypeOK, RentalTypes, PaymentTypes

LEMMA PaymentFails ==
  ASSUME TypeOK, PaymentMatchesRental, NEW r \in Rentals, NEW st \in {"Cancelled", "Expired"},
         AwaitsPayment(r), FreeUnpaid(r, st)
  PROVE  PaymentMatchesRental'
BY DEF PaymentMatchesRental, TypeOK, RentalTypes, PaymentTypes, AwaitsPayment, FreeUnpaid,
       orderVars, holdVars

LEMMA PaymentSucceeds ==
  ASSUME TypeOK, PaymentMatchesRental, NEW r \in Rentals, NEW entries,
         AwaitsPayment(r), Activate(r, entries)
  PROVE  PaymentMatchesRental'
BY DEF PaymentMatchesRental, TypeOK, RentalTypes, PaymentTypes, AwaitsPayment, Activate, orderVars

\* A paid rental that is over is completed; its hold ends up absent or settled.
LEMMA PaymentSettles ==
  ASSUME TypeOK, PaymentMatchesRental, NEW r \in Rentals, NEW st, NEW src, NEW credit, NEW entries,
         rStatus[r] \in {"Expired", "Completed"}, pStatus[r] = "Success",
         st = "Absent" <=> hold[r] = "Absent", st # "Held",
         Settle(r, st, src, credit, entries)
  PROVE  PaymentMatchesRental'
BY DEF PaymentMatchesRental, TypeOK, RentalTypes, PaymentTypes, Settle, orderVars, paymentVars

\* The clean-up job ends a paid, active rental.
LEMMA PaymentUsedUp ==
  ASSUME TypeOK, PaymentMatchesRental, NEW r \in Rentals, ExpireRental(r)
  PROVE  PaymentMatchesRental'
BY DEF PaymentMatchesRental, TypeOK, RentalTypes, PaymentTypes, ExpireRental, UsageOver,
       orderVars, paymentVars, holdVars

-----------------------------------------------------------------------------
(* The inductive invariant *)

\* Each of the two agreements needs the types; DecisionsAreFinal needs both.
Agreement == TypeOK /\ Tenancy /\ PaymentMatchesRental

LEMMA AgreementInit == Init => Agreement
<1> SUFFICES ASSUME Init PROVE Agreement
  OBVIOUS
<1>1. Tenancy
  BY DEF Init, Tenancy, Live
<1>2. PaymentMatchesRental
  BY DEF Init, PaymentMatchesRental
<1> QED BY <1>1, <1>2, TypeInit DEF Agreement

\* What RefundWalletPayment does to the hold of an eligible rental.
LEMMA RefundSettles ==
  ASSUME Agreement, NEW r \in Rentals, RefundWalletPayment(r)
  PROVE  \E st, src, credit, entries :
           /\ Settle(r, st, src, credit, entries)
           /\ st = "Absent" <=> hold[r] = "Absent"
           /\ st # "Held"
           /\ hold[r] # "Held" => st = hold[r] /\ src = holdSource[r]
           /\ rStatus[r] \in {"Expired", "Completed"} /\ pStatus[r] = "Success"
<1> DEFINE st == IF RefundableDeposit(r) > 0 THEN "Refunded" ELSE hold[r]
           src == IF RefundableDeposit(r) > 0 THEN "WalletRefund" ELSE holdSource[r]
<1>1. Settle(r, st, src, rPrice[r] + RefundableDeposit(r), RefundEntries(r))
  BY DEF RefundWalletPayment
<1>2. rStatus[r] \in {"Expired", "Completed"} /\ pStatus[r] = "Success"
  BY DEF RefundWalletPayment, Refundable
<1>3. RefundableDeposit(r) > 0 <=> hold[r] = "Held"
  BY <1>2 DEF Agreement, TypeOK, RentalTypes, PaymentMatchesRental, RefundableDeposit
<1> QED BY <1>1, <1>2, <1>3

\* What one iteration of FinalizeExpiredRentals does to the head of the queue.
LEMMA FinalizeSettles ==
  ASSUME Agreement, NEW r \in Rentals, NEW t, FinalizeNext(r, t)
  PROVE  \E st, src, credit, entries :
           /\ Settle(r, st, src, credit, entries)
           /\ st = "Absent" <=> hold[r] = "Absent"
           /\ st # "Held"
           /\ hold[r] # "Held" => st = hold[r] /\ src = holdSource[r]
           /\ rStatus[r] \in {"Expired", "Completed"} /\ pStatus[r] = "Success"
<1>1. rStatus[r] = "Expired" /\ pStatus[r] = "Success"
  BY DEF FinalizeNext, IsHead, Finalizable
<1>2. CASE hold[r] = "Held"
  <2>1. Settle(r, "Released", "AutoRelease", rDeposit[r], AutoReleaseEntries(r))
    BY <1>2 DEF FinalizeNext
  <2> QED BY <1>1, <1>2, <2>1
<1>3. CASE hold[r] # "Held"
  <2>1. Settle(r, hold[r], holdSource[r], 0, {})
    BY <1>3 DEF FinalizeNext
  <2> QED BY <1>1, <1>3, <2>1
<1> QED BY <1>2, <1>3

\* What an admin's decision does to a held deposit.
LEMMA DecisionSettles ==
  ASSUME NEW r \in Rentals, NEW t, ReleaseDeposit(r) \/ ForfeitDeposit(r, t)
  PROVE  \E st, src, credit, entries :
           /\ Settle(r, st, src, credit, entries)
           /\ st \notin {"Absent", "Held"}
           /\ hold[r] = "Held" /\ rStatus[r] = "Expired" /\ pStatus[r] = "Success"
<1>1. hold[r] = "Held" /\ rStatus[r] = "Expired" /\ pStatus[r] = "Success"
  BY DEF ReleaseDeposit, ForfeitDeposit, Reviewable
<1>2. CASE ReleaseDeposit(r)
  <2>1. Settle(r, "Released", "AdminRelease", rDeposit[r],
               {Entry("DepositReleasedBalance", <<"deposit:release", r>>, rUser[r], r, rDeposit[r])})
    BY <1>2 DEF ReleaseDeposit
  <2> QED BY <1>1, <2>1
<1>3. CASE ForfeitDeposit(r, t)
  <2>1. Settle(r, "Forfeited", "AdminForfeit", 0,
               {Entry("DepositForfeited", <<"deposit:forfeit", r>>, rUser[r], r, rDeposit[r])})
    BY <1>3 DEF ForfeitDeposit
  <2> QED BY <1>1, <2>1
<1> QED BY <1>2, <1>3

\* Every settlement is one of these, and keeps both agreements.
LEMMA SettlementAgrees ==
  ASSUME Agreement, NEW r \in Rentals, NEW st, NEW src, NEW credit, NEW entries,
         Settle(r, st, src, credit, entries), st = "Absent" <=> hold[r] = "Absent", st # "Held",
         rStatus[r] \in {"Expired", "Completed"}, pStatus[r] = "Success"
  PROVE  Tenancy' /\ PaymentMatchesRental'
<1>1. Tenancy'
  <2>1. ~Live(r)
    BY DEF Live
  <2>2. rStatus' = [rStatus EXCEPT ![r] = "Completed"] /\ rAcct' = rAcct /\ acctStatus' = acctStatus
    BY DEF Settle, acctVars, orderVars
  <2> QED BY <2>1, <2>2, TenancyOver DEF Agreement
<1>2. PaymentMatchesRental'
  BY PaymentSettles DEF Agreement
<1> QED BY <1>1, <1>2

\* Steps that leave rentals, payments, holds and account statuses alone.
LEMMA NeutralAgrees ==
  ASSUME Agreement, rStatus' = rStatus, rAcct' = rAcct, rDeposit' = rDeposit,
         acctStatus' = acctStatus, pStatus' = pStatus, hold' = hold
  PROVE  Tenancy' /\ PaymentMatchesRental'
BY TenancySame, PaymentSame DEF Agreement

LEMMA AdminAgrees ==
  ASSUME Agreement, AdminStep PROVE Tenancy' /\ PaymentMatchesRental'
<1>1. ASSUME NEW a \in Accounts, NEW p \in Pricings, CreateAccount(a, p)
      PROVE  Tenancy' /\ PaymentMatchesRental'
  <2>1. Tenancy'
    BY <1>1, TenancyIdleAccount DEF Agreement, CreateAccount, orderVars
  <2> QED BY <1>1, <2>1, PaymentSame DEF Agreement, CreateAccount, orderVars, paymentVars, holdVars
<1>2. ASSUME NEW a \in Accounts, NEW p \in Pricings, UpdateAccount(a, p)
      PROVE  Tenancy' /\ PaymentMatchesRental'
  BY <1>2, NeutralAgrees DEF UpdateAccount, orderVars, paymentVars, holdVars
<1>3. ASSUME NEW a \in Accounts, DisableAccountIfIdle(a)
      PROVE  Tenancy' /\ PaymentMatchesRental'
  <2>1. Tenancy'
    BY <1>3, TenancyIdleAccount DEF Agreement, DisableAccountIfIdle, Idle, orderVars
  <2> QED BY <1>3, <2>1, PaymentSame DEF Agreement, DisableAccountIfIdle, orderVars, paymentVars, holdVars
<1>4. ASSUME NEW r \in Rentals, NEW t, ReleaseDeposit(r) \/ ForfeitDeposit(r, t)
      PROVE  Tenancy' /\ PaymentMatchesRental'
  BY <1>4, DecisionSettles, SettlementAgrees
<1>5. ASSUME NEW r \in Rentals, RefundWalletPayment(r)
      PROVE  Tenancy' /\ PaymentMatchesRental'
  BY <1>5, RefundSettles, SettlementAgrees
<1>6. ASSUME NEW k \in AdjustKeys, NEW u \in Users, NEW n \in Adjustments, AdjustAdminBalance(k, u, n)
      PROVE  Tenancy' /\ PaymentMatchesRental'
  BY <1>6, NeutralAgrees DEF AdjustAdminBalance, acctVars, orderVars, paymentVars, holdVars
<1> QED BY <1>1, <1>2, <1>3, <1>4, <1>5, <1>6 DEF AdminStep

\* An unpaid rental is given up, by its customer or by the clean-up job.
LEMMA GivingUpAgrees ==
  ASSUME Agreement, NEW r \in Rentals, NEW st \in {"Cancelled", "Expired"},
         AwaitsPayment(r), FreeUnpaid(r, st)
  PROVE  Tenancy' /\ PaymentMatchesRental'
<1>1. Live(r)
  BY DEF AwaitsPayment, Live
<1>2. Tenancy'
  BY <1>1, TenancyEnds DEF Agreement, FreeUnpaid, orderVars
<1> QED BY <1>2, PaymentFails DEF Agreement

\* A rental is paid, by the provider's webhook or from the wallet.
LEMMA PayingAgrees ==
  ASSUME Agreement, NEW r \in Rentals, NEW entries, AwaitsPayment(r), Activate(r, entries)
  PROVE  Tenancy' /\ PaymentMatchesRental'
<1>1. Tenancy'
  BY TenancyActivates DEF Agreement, Activate, AwaitsPayment, orderVars
<1> QED BY <1>1, PaymentSucceeds DEF Agreement

LEMMA CustomerAgrees ==
  ASSUME Agreement, CustomerStep PROVE Tenancy' /\ PaymentMatchesRental'
<1>1. ASSUME NEW u \in Users, NEW a \in Accounts, NEW r \in Rentals, NEW h, NEW t, NEW s,
             RentAccount(u, a, r, h, t, s)
      PROVE  Tenancy' /\ PaymentMatchesRental'
  <2>1. ~Live(r) /\ rStatus[r] = "Absent"
    BY <1>1 DEF RentAccount, FreshId, Live
  <2>2. Tenancy'
    BY <1>1, <2>1, TenancyBegins DEF Agreement, RentAccount
  <2> QED BY <1>1, <2>1, <2>2, PaymentBegins DEF Agreement, RentAccount, holdVars
<1>2. ASSUME NEW r \in Rentals, CancelRental(r) PROVE Tenancy' /\ PaymentMatchesRental'
  BY <1>2, GivingUpAgrees DEF CancelRental
<1>3. ASSUME NEW r \in Rentals, NEW t, PayRentalWithBalance(r, t)
      PROVE  Tenancy' /\ PaymentMatchesRental'
  BY <1>3, PayingAgrees DEF PayRentalWithBalance
<1>4. ASSUME NEW r \in Rentals, NEW t, GetRentalCredentials(r, t)
      PROVE  Tenancy' /\ PaymentMatchesRental'
  BY <1>4, NeutralAgrees DEF GetRentalCredentials, acctVars, orderVars, paymentVars, holdVars
<1> QED BY <1>1, <1>2, <1>3, <1>4 DEF CustomerStep

LEMMA WorkerAgrees ==
  ASSUME Agreement, WorkerStep PROVE Tenancy' /\ PaymentMatchesRental'
<1>1. ASSUME ScanWaiting \/ ScanExpired PROVE Tenancy' /\ PaymentMatchesRental'
  BY <1>1, NeutralAgrees DEF ScanWaiting, ScanExpired, acctVars, orderVars, paymentVars, holdVars
<1>2. ASSUME NEW r \in Rentals, SkipWaiting(r) \/ SkipExpired(r)
      PROVE  Tenancy' /\ PaymentMatchesRental'
  BY <1>2, NeutralAgrees DEF SkipWaiting, SkipExpired, acctVars, orderVars, paymentVars, holdVars
<1>3. ASSUME NEW r \in Rentals, ExpireWaitingPaymentReservation(r)
      PROVE  Tenancy' /\ PaymentMatchesRental'
  BY <1>3, GivingUpAgrees DEF ExpireWaitingPaymentReservation, PaymentOverdue
<1>4. ASSUME NEW r \in Rentals, ExpireRental(r) PROVE Tenancy' /\ PaymentMatchesRental'
  <2>1. Live(r)
    BY <1>4 DEF ExpireRental, UsageOver, Live
  <2>2. Tenancy'
    BY <1>4, <2>1, TenancyEnds DEF Agreement, ExpireRental, orderVars
  <2> QED BY <1>4, <2>2, PaymentUsedUp DEF Agreement
<1>5. ASSUME NEW r \in Rentals, NEW t, FinalizeNext(r, t) PROVE Tenancy' /\ PaymentMatchesRental'
  BY <1>5, FinalizeSettles, SettlementAgrees
<1> QED BY <1>1, <1>2, <1>3, <1>4, <1>5 DEF WorkerStep, SweepWaiting, SweepExpired, Finalize

LEMMA AgreementNext == Agreement /\ [Next]_vars => Agreement'
<1> SUFFICES ASSUME Agreement, [Next]_vars PROVE Agreement'
  OBVIOUS
<1>1. TypeOK'
  BY TypeNext DEF Agreement
<1>2. Tenancy' /\ PaymentMatchesRental'
  <2>1. CASE ProviderStep
    BY <2>1, WebhookProcesses, PayingAgrees DEF ProviderStep, ProcessWebhook
  <2>2. CASE Restart \/ Tick
    BY <2>2, NeutralAgrees DEF Restart, Tick, acctVars, orderVars, paymentVars, holdVars
  <2>3. CASE UNCHANGED vars
    BY <2>3, NeutralAgrees DEF vars, acctVars, orderVars, paymentVars, holdVars
  <2> QED BY <2>1, <2>2, <2>3, AdminAgrees, CustomerAgrees, WorkerAgrees DEF Next
<1> QED BY <1>1, <1>2 DEF Agreement

LEMMA AgreementHolds == Spec => []Agreement
BY AgreementInit, AgreementNext, PTL DEF Spec

\* No two rentals ever hold the same account, and the account's status always says
\* whether it is free, reserved or in use: no interleaving of ordering, paying,
\* cancelling, clean-up and deletion lends an account twice or strands it.
THEOREM AccountsAgree == Spec => []AccountMatchesRental
<1>1. Agreement => AccountMatchesRental
  BY TenancyMeaning DEF Agreement
<1> QED BY <1>1, AgreementHolds, PTL

\* Rental, payment and deposit hold always agree: access implies payment, payment
\* implies a held deposit, completion implies a settled one.
THEOREM PaymentsAgree == Spec => []PaymentMatchesRental
<1>1. Agreement => PaymentMatchesRental
  BY DEF Agreement
<1> QED BY <1>1, AgreementHolds, PTL

-----------------------------------------------------------------------------
(* Decisions are final *)

FinalStep ==
  \A r \in Rentals :
    /\ hold[r] \in DOMAIN SettlementKind => hold'[r] = hold[r] /\ holdSource'[r] = holdSource[r]
    /\ rStatus[r] \in {"Completed", "Cancelled"} => rStatus'[r] = rStatus[r]
    /\ pStatus[r] \in {"Success", "Failed"} => pStatus'[r] = pStatus[r]

LEMMA SettledStatuses == DOMAIN SettlementKind = {"Released", "Forfeited", "Refunded"}
BY DEF SettlementKind

LEMMA FinalSame ==
  ASSUME rStatus' = rStatus, pStatus' = pStatus, hold' = hold, holdSource' = holdSource
  PROVE  FinalStep
BY DEF FinalStep

\* The rentals and payments that ordering, paying and giving up write are undecided.
LEMMA FinalUnpaid ==
  ASSUME Agreement, NEW r \in Rentals, NEW rs, NEW ps, NEW h,
         rStatus[r] \in {"Absent", "Waiting"}, hold[r] = "Absent",
         rStatus' = [rStatus EXCEPT ![r] = rs], pStatus' = [pStatus EXCEPT ![r] = ps],
         hold' = [hold EXCEPT ![r] = h], holdSource' = holdSource
  PROVE  FinalStep
<1>1. pStatus[r] \in {"Absent", "Pending"}
  BY DEF Agreement, PaymentMatchesRental
<1> QED BY <1>1, SettledStatuses DEF FinalStep, Agreement, TypeOK, RentalTypes, PaymentTypes

LEMMA FinalSettlement ==
  ASSUME Agreement, NEW r \in Rentals, NEW st, NEW src, NEW credit, NEW entries,
         Settle(r, st, src, credit, entries), rStatus[r] \in {"Expired", "Completed"},
         hold[r] # "Held" => st = hold[r] /\ src = holdSource[r]
  PROVE  FinalStep
BY SettledStatuses DEF FinalStep, Agreement, TypeOK, RentalTypes, PaymentTypes, Settle, paymentVars

LEMMA FinalNext == Agreement /\ [Next]_vars => FinalStep
<1> SUFFICES ASSUME Agreement, [Next]_vars PROVE FinalStep
  OBVIOUS
<1> USE DEF acctVars, orderVars, paymentVars, holdVars
<1>1. CASE AdminStep
  <2>1. ASSUME NEW a \in Accounts, NEW p \in Pricings, CreateAccount(a, p) \/ UpdateAccount(a, p)
        PROVE  FinalStep
    BY <2>1, FinalSame DEF CreateAccount, UpdateAccount
  <2>2. ASSUME NEW a \in Accounts, DisableAccountIfIdle(a) PROVE FinalStep
    BY <2>2, FinalSame DEF DisableAccountIfIdle
  <2>3. ASSUME NEW r \in Rentals, NEW t, ReleaseDeposit(r) \/ ForfeitDeposit(r, t) PROVE FinalStep
    BY <2>3, DecisionSettles, FinalSettlement
  <2>4. ASSUME NEW r \in Rentals, RefundWalletPayment(r) PROVE FinalStep
    BY <2>4, RefundSettles, FinalSettlement
  <2>5. ASSUME NEW k \in AdjustKeys, NEW u \in Users, NEW n \in Adjustments, AdjustAdminBalance(k, u, n)
        PROVE  FinalStep
    BY <2>5, FinalSame DEF AdjustAdminBalance
  <2> QED BY <1>1, <2>1, <2>2, <2>3, <2>4, <2>5 DEF AdminStep
<1>2. ASSUME NEW r \in Rentals, NEW st, AwaitsPayment(r), FreeUnpaid(r, st) PROVE FinalStep
  <2>1. rStatus[r] = "Waiting" /\ hold[r] = "Absent" /\ hold' = [hold EXCEPT ![r] = hold[r]]
    BY <1>2 DEF AwaitsPayment, FreeUnpaid, Agreement, PaymentMatchesRental, TypeOK, PaymentTypes
  <2> QED BY <1>2, <2>1, FinalUnpaid DEF FreeUnpaid
<1>3. ASSUME NEW r \in Rentals, NEW entries, AwaitsPayment(r), Activate(r, entries) PROVE FinalStep
  <2> DEFINE h == IF rDeposit[r] > 0 THEN "Held" ELSE hold[r]
  <2>1. rStatus[r] = "Waiting" /\ hold[r] = "Absent"
    BY <1>3 DEF AwaitsPayment, Activate
  <2>2. /\ rStatus' = [rStatus EXCEPT ![r] = "Active"] /\ pStatus' = [pStatus EXCEPT ![r] = "Success"]
        /\ hold' = [hold EXCEPT ![r] = h] /\ holdSource' = holdSource
    BY <1>3 DEF Activate
  <2>3. h \in {"Held", "Absent"}
    BY <2>1
  <2>4. pStatus[r] = "Pending"
    BY <1>3 DEF AwaitsPayment
  <2> HIDE DEF h
  <2> QED BY <2>1, <2>2, <2>3, <2>4, SettledStatuses
       DEF FinalStep, Agreement, TypeOK, RentalTypes, PaymentTypes
<1>4. CASE CustomerStep
  <2>1. ASSUME NEW u \in Users, NEW a \in Accounts, NEW r \in Rentals, NEW h, NEW t, NEW s,
               RentAccount(u, a, r, h, t, s)
        PROVE  FinalStep
    <3>1. rStatus[r] = "Absent" /\ hold[r] = "Absent" /\ hold' = [hold EXCEPT ![r] = hold[r]]
      BY <2>1 DEF RentAccount, FreshId, Agreement, PaymentMatchesRental, TypeOK, PaymentTypes
    <3> QED BY <2>1, <3>1, FinalUnpaid DEF RentAccount
  <2>2. ASSUME NEW r \in Rentals, CancelRental(r) PROVE FinalStep
    BY <1>2, <2>2 DEF CancelRental
  <2>3. ASSUME NEW r \in Rentals, NEW t, PayRentalWithBalance(r, t) PROVE FinalStep
    BY <1>3, <2>3 DEF PayRentalWithBalance
  <2>4. ASSUME NEW r \in Rentals, NEW t, GetRentalCredentials(r, t) PROVE FinalStep
    BY <2>4, FinalSame DEF GetRentalCredentials
  <2> QED BY <1>4, <2>1, <2>2, <2>3, <2>4 DEF CustomerStep
<1>5. CASE ProviderStep
  BY <1>3, <1>5, WebhookProcesses DEF ProviderStep, ProcessWebhook
<1>6. CASE WorkerStep
  <2>1. ASSUME ScanWaiting \/ ScanExpired PROVE FinalStep
    BY <2>1, FinalSame DEF ScanWaiting, ScanExpired
  <2>2. ASSUME NEW r \in Rentals, SkipWaiting(r) \/ SkipExpired(r) PROVE FinalStep
    BY <2>2, FinalSame DEF SkipWaiting, SkipExpired
  <2>3. ASSUME NEW r \in Rentals, ExpireWaitingPaymentReservation(r) PROVE FinalStep
    BY <1>2, <2>3 DEF ExpireWaitingPaymentReservation, PaymentOverdue
  <2>4. ASSUME NEW r \in Rentals, ExpireRental(r) PROVE FinalStep
    BY <2>4 DEF FinalStep, ExpireRental, UsageOver, Agreement, TypeOK, RentalTypes
  <2>5. ASSUME NEW r \in Rentals, NEW t, FinalizeNext(r, t) PROVE FinalStep
    BY <2>5, FinalizeSettles, FinalSettlement
  <2> QED BY <1>6, <2>1, <2>2, <2>3, <2>4, <2>5 DEF WorkerStep, SweepWaiting, SweepExpired, Finalize
<1>7. CASE Restart \/ Tick
  BY <1>7, FinalSame DEF Restart, Tick
<1>8. CASE UNCHANGED vars
  BY <1>8, FinalSame DEF vars
<1> QED BY <1>1, <1>4, <1>5, <1>6, <1>7, <1>8 DEF Next

\* A settled deposit is never settled again or differently, by an admin, the
\* finalizer or a refund, and finished rentals and payments keep their outcome.
THEOREM FinalDecisions == Spec => DecisionsAreFinal
<1>1. Agreement /\ [Next]_vars => [FinalStep]_vars
  BY FinalNext
<1>2. [][FinalStep]_vars => DecisionsAreFinal
  BY PTL DEF FinalStep, DecisionsAreFinal
<1> QED BY <1>1, <1>2, AgreementHolds, PTL DEF Spec

-----------------------------------------------------------------------------
(* The rental aggregate implements AccountLease *)

\* The refinement mapping of Lease, by name.
tenantMap == [a \in Accounts |-> Tenant(a)]
servedMap == {r \in Rentals : rStatus[r] # "Absent"}

-----------------------------------------------------------------------------
(* Who is the tenant, before a step and after it *)

LEMMA OnlyChoice == ASSUME NEW r PROVE (CHOOSE q \in {r} : TRUE) = r
OBVIOUS

LEMMA TenantIs ==
  ASSUME NEW a, NEW r, LiveRentals(a) = {r}
  PROVE  Tenant(a) = r
BY OnlyChoice DEF Tenant

LEMMA TenantIsNext ==
  ASSUME NEW a, NEW r, LiveRentals(a)' = {r}
  PROVE  Tenant(a)' = r
BY OnlyChoice DEF Tenant

LEMMA TenantSame ==
  ASSUME NEW a, LiveRentals(a)' = LiveRentals(a)
  PROVE  Tenant(a)' = Tenant(a)
BY DEF Tenant

-----------------------------------------------------------------------------
(* The shapes of a step, and what each does to the lease *)

LeaseStep == [Lease!Next]_<<tenantMap, servedMap>>

\* Steps that change neither who is live nor where leave the lease alone.
LEMMA LeaseSame ==
  ASSUME rAcct' = rAcct,
         \A r \in Rentals : rStatus'[r] \in {"Waiting", "Active"} <=> Live(r),
         \A r \in Rentals : rStatus'[r] = "Absent" <=> rStatus[r] = "Absent"
  PROVE  LeaseStep
<1>1. ASSUME NEW a \in Accounts PROVE Tenant(a)' = Tenant(a)
  <2>1. LiveRentals(a)' = LiveRentals(a)
    BY DEF LiveRentals, Live
  <2> QED BY <2>1, TenantSame
<1>2. tenantMap' = tenantMap
  BY <1>1 DEF tenantMap
<1>3. servedMap' = servedMap
  BY DEF servedMap
<1> QED BY <1>2, <1>3 DEF LeaseStep

\* The status of a rental that is not live changes to another such status.
LEMMA LeaseOver ==
  ASSUME TypeOK, NEW r \in Rentals, NEW st, ~Live(r), rStatus[r] # "Absent",
         st \notin {"Waiting", "Active", "Absent"},
         rStatus' = [rStatus EXCEPT ![r] = st], rAcct' = rAcct
  PROVE  LeaseStep
BY LeaseSame DEF Live, TypeOK, RentalTypes

\* Paying a reservation keeps the tenant.
LEMMA LeaseActivates ==
  ASSUME TypeOK, NEW r \in Rentals, rStatus[r] = "Waiting",
         rStatus' = [rStatus EXCEPT ![r] = "Active"], rAcct' = rAcct
  PROVE  LeaseStep
BY LeaseSame DEF Live, TypeOK, RentalTypes

\* A live rental that ends gives its account back.
LEMMA LeaseEnds ==
  ASSUME TypeOK, Tenancy, NEW r \in Rentals, NEW st, Live(r),
         st \notin {"Waiting", "Active", "Absent"},
         rStatus' = [rStatus EXCEPT ![r] = st], rAcct' = rAcct
  PROVE  LeaseStep
<1> DEFINE b == rAcct[r]
<1>1. b \in Accounts
  BY DEF TypeOK, RentalTypes, Live
<1>2. r # Null
  BY RentalsAssumption, NullAssumption
<1>3. LiveRentals(b) = {r} /\ LiveRentals(b)' = {}
  BY DEF LiveRentals, Live, Tenancy, TypeOK, RentalTypes
<1>4. Tenant(b) = r /\ Tenant(b)' = Null
  BY <1>3, TenantIs DEF Tenant
<1>5. ASSUME NEW a \in Accounts, a # b PROVE Tenant(a)' = Tenant(a)
  <2>1. LiveRentals(a)' = LiveRentals(a)
    BY <1>5 DEF LiveRentals, Live, TypeOK, RentalTypes
  <2> QED BY <2>1, TenantSame
<1>6. tenantMap' = [tenantMap EXCEPT ![b] = Null]
  BY <1>1, <1>4, <1>5 DEF tenantMap
<1>7. servedMap' = servedMap
  BY DEF servedMap, Live, TypeOK, RentalTypes
<1>8. Lease!GiveBack(b)
  BY <1>1, <1>2, <1>4, <1>6, <1>7 DEF Lease!GiveBack, tenantMap, servedMap
<1> QED BY <1>1, <1>8 DEF LeaseStep, Lease!Next

\* A new rental on an account nobody has borrows it.
LEMMA LeaseBegins ==
  ASSUME TypeOK, NEW r \in Rentals, NEW b \in Accounts, rStatus[r] = "Absent",
         LiveRentals(b) = {},
         rStatus' = [rStatus EXCEPT ![r] = "Waiting"], rAcct' = [rAcct EXCEPT ![r] = b]
  PROVE  LeaseStep
<1>1. LiveRentals(b)' = {r}
  BY DEF LiveRentals, Live, TypeOK, RentalTypes
<1>2. Tenant(b) = Null /\ Tenant(b)' = r
  BY <1>1, TenantIsNext DEF Tenant
<1>3. ASSUME NEW a \in Accounts, a # b PROVE Tenant(a)' = Tenant(a)
  <2>1. LiveRentals(a)' = LiveRentals(a)
    BY <1>3 DEF LiveRentals, Live, TypeOK, RentalTypes
  <2> QED BY <2>1, TenantSame
<1>4. tenantMap' = [tenantMap EXCEPT ![b] = r]
  BY <1>2, <1>3 DEF tenantMap
<1>5. servedMap' = servedMap \cup {r} /\ r \notin servedMap
  BY DEF servedMap, TypeOK, RentalTypes
<1>6. Lease!Lend(b, r)
  BY <1>2, <1>4, <1>5 DEF Lease!Lend, tenantMap, servedMap
<1> QED BY <1>6 DEF LeaseStep, Lease!Next

-----------------------------------------------------------------------------
(* Every step of the rental aggregate *)

LEMMA LeaseSettles ==
  ASSUME TypeOK, NEW r \in Rentals, NEW st, NEW src, NEW credit, NEW entries,
         rStatus[r] \in {"Expired", "Completed"}, Settle(r, st, src, credit, entries)
  PROVE  LeaseStep
BY LeaseOver DEF Settle, orderVars, Live

LEMMA LeaseNext == Agreement /\ [Next]_vars => LeaseStep
<1> SUFFICES ASSUME Agreement, [Next]_vars PROVE LeaseStep
  OBVIOUS
<1> USE DEF orderVars
<1>0. TypeOK /\ Tenancy
  BY DEF Agreement
<1>1. ASSUME rStatus' = rStatus, rAcct' = rAcct PROVE LeaseStep
  BY <1>1, LeaseSame DEF Live
<1>2. ASSUME NEW r \in Rentals, NEW st, st \in {"Cancelled", "Expired"},
             AwaitsPayment(r), FreeUnpaid(r, st)
      PROVE  LeaseStep
  <2>1. Live(r) /\ rStatus' = [rStatus EXCEPT ![r] = st] /\ rAcct' = rAcct
    BY <1>2 DEF AwaitsPayment, FreeUnpaid, Live
  <2>2. st \notin {"Waiting", "Active", "Absent"}
    BY <1>2
  <2> QED BY <1>0, <2>1, <2>2, LeaseEnds
<1>3. ASSUME NEW r \in Rentals, NEW entries, AwaitsPayment(r), Activate(r, entries) PROVE LeaseStep
  BY <1>0, <1>3, LeaseActivates DEF AwaitsPayment, Activate
<1>4. CASE AdminStep
  <2>1. ASSUME NEW a \in Accounts, NEW p \in Pricings, CreateAccount(a, p) \/ UpdateAccount(a, p)
        PROVE  LeaseStep
    BY <1>1, <2>1 DEF CreateAccount, UpdateAccount
  <2>2. ASSUME NEW a \in Accounts, DisableAccountIfIdle(a) PROVE LeaseStep
    BY <1>1, <2>2 DEF DisableAccountIfIdle
  <2>3. ASSUME NEW r \in Rentals, NEW t, ReleaseDeposit(r) \/ ForfeitDeposit(r, t) PROVE LeaseStep
    BY <1>0, <2>3, DecisionSettles, LeaseSettles
  <2>4. ASSUME NEW r \in Rentals, RefundWalletPayment(r) PROVE LeaseStep
    BY <1>0, <2>4, RefundSettles, LeaseSettles
  <2>5. ASSUME NEW k \in AdjustKeys, NEW u \in Users, NEW n \in Adjustments, AdjustAdminBalance(k, u, n)
        PROVE  LeaseStep
    BY <1>1, <2>5 DEF AdjustAdminBalance
  <2> QED BY <1>4, <2>1, <2>2, <2>3, <2>4, <2>5 DEF AdminStep
<1>5. CASE CustomerStep
  <2>1. ASSUME NEW u \in Users, NEW a \in Accounts, NEW r \in Rentals, NEW h \in Durations, NEW t, NEW s,
               RentAccount(u, a, r, h, t, s)
        PROVE  LeaseStep
    BY <1>0, <2>1, LeaseBegins DEF RentAccount, FreshId
  <2>2. ASSUME NEW r \in Rentals, CancelRental(r) PROVE LeaseStep
    BY <1>2, <2>2 DEF CancelRental
  <2>3. ASSUME NEW r \in Rentals, NEW t, PayRentalWithBalance(r, t) PROVE LeaseStep
    BY <1>3, <2>3 DEF PayRentalWithBalance
  <2>4. ASSUME NEW r \in Rentals, NEW t, GetRentalCredentials(r, t) PROVE LeaseStep
    BY <1>1, <2>4 DEF GetRentalCredentials
  <2> QED BY <1>5, <2>1, <2>2, <2>3, <2>4 DEF CustomerStep
<1>6. CASE ProviderStep
  BY <1>3, <1>6, WebhookProcesses DEF ProviderStep, ProcessWebhook
<1>7. CASE WorkerStep
  <2>1. ASSUME ScanWaiting \/ ScanExpired PROVE LeaseStep
    BY <1>1, <2>1 DEF ScanWaiting, ScanExpired
  <2>2. ASSUME NEW r \in Rentals, SkipWaiting(r) \/ SkipExpired(r) PROVE LeaseStep
    BY <1>1, <2>2 DEF SkipWaiting, SkipExpired
  <2>3. ASSUME NEW r \in Rentals, ExpireWaitingPaymentReservation(r) PROVE LeaseStep
    BY <1>2, <2>3 DEF ExpireWaitingPaymentReservation, PaymentOverdue
  <2>4. ASSUME NEW r \in Rentals, ExpireRental(r) PROVE LeaseStep
    <3>1. Live(r) /\ rStatus' = [rStatus EXCEPT ![r] = "Expired"] /\ rAcct' = rAcct
      BY <2>4 DEF ExpireRental, UsageOver, Live
    <3> QED BY <1>0, <3>1, LeaseEnds
  <2>5. ASSUME NEW r \in Rentals, NEW t, FinalizeNext(r, t) PROVE LeaseStep
    BY <1>0, <2>5, FinalizeSettles, LeaseSettles
  <2> QED BY <1>7, <2>1, <2>2, <2>3, <2>4, <2>5 DEF WorkerStep, SweepWaiting, SweepExpired, Finalize
<1>8. CASE Restart \/ Tick
  BY <1>1, <1>8 DEF Restart, Tick
<1>9. CASE UNCHANGED vars
  BY <1>1, <1>9 DEF vars
<1> QED BY <1>4, <1>5, <1>6, <1>7, <1>8, <1>9 DEF Next

\* Before the first request nobody has an account.
LEMMA LeaseInit == Init => Lease!Init
<1> SUFFICES ASSUME Init PROVE Lease!Init
  OBVIOUS
<1>1. ASSUME NEW a \in Accounts PROVE Tenant(a) = Null
  BY DEF Init, Tenant, LiveRentals
<1>2. servedMap = {}
  BY DEF Init, servedMap
<1> QED BY <1>1, <1>2 DEF Lease!Init, servedMap

\* The rental aggregate implements the lending of accounts: whatever payments,
\* settlements, admins and clean-up jobs do, an account passes from one rental
\* to the next only by being given back, and a rental gets an account once.
THEOREM Lends == Spec => LendsAccounts
<1>1. Agreement /\ [Next]_vars => [Lease!Next]_<<tenantMap, servedMap>>
  BY LeaseNext DEF LeaseStep
<1>2. LendsAccounts <=> Lease!Init /\ [][Lease!Next]_<<tenantMap, servedMap>>
  BY DEF LendsAccounts, Lease!Spec, tenantMap, servedMap
<1> QED BY <1>1, <1>2, LeaseInit, AgreementHolds, PTL DEF Spec

-----------------------------------------------------------------------------
(* Time: what a captured clock can and cannot do *)

\* The time that a clean-up pass works with has passed ...
PassesBehind == waitPass.now <= now /\ usePass.now <= now

\* ... a paid rental is over only after its period ...
Ended ==
  \A r \in Rentals :
    pStatus[r] = "Success" /\ rStatus[r] \in {"Expired", "Completed"} => endAt[r] <= now

\* ... and the payment window closes, with the delay of one request, before it.
Windows == \A r \in Rentals : rStatus[r] # "Absent" => payExp[r] + Delay <= endAt[r]

TimeInv == Agreement /\ PassesBehind /\ Ended /\ Windows

LEMMA TimeInit == Init => TimeInv
BY AgreementInit DEF Init, TimeInv, PassesBehind, IdlePass, Ended, Windows

\* What a step may do to a rental in use, to a deposit, to an unpaid rental and
\* to the credentials, given the time.
InTime ==
  /\ \A r \in Rentals :
       /\ rStatus[r] = "Active" /\ rStatus'[r] # "Active" => endAt[r] <= now
       /\ hold[r] = "Held" /\ hold'[r] # "Held" => endAt[r] <= now
       /\ rStatus[r] # "Active" /\ rStatus'[r] = "Active" => now < endAt[r]
  /\ \A r \in issued' \ issued : LiveRentals(rAcct[r]) = {r} /\ now < endAt[r] + Delay

Timely == InTime /\ Ended' /\ Windows'

LEMMA TimelySame ==
  ASSUME TimeInv, rStatus' = rStatus, pStatus' = pStatus, hold' = hold, endAt' = endAt,
         payExp' = payExp, issued' = issued, now' \in Nat, now <= now'
  PROVE  Timely
<1>1. now \in Nat /\ endAt \in [Rentals -> Nat]
  BY TimeAssumption DEF TimeInv, Agreement, TypeOK, RentalTypes
<1> QED BY <1>1 DEF TimeInv, Timely, InTime, Ended, Windows

\* An order: fifteen minutes to pay and two lock waits fit into the shortest period.
LEMMA TimelyOrder ==
  ASSUME TimeInv, NEW u, NEW a, NEW r \in Rentals, NEW h \in Durations, NEW t \in Recent, NEW s \in Recent,
         RentAccount(u, a, r, h, t, s)
  PROVE  Timely
<1>1. /\ rStatus[r] = "Absent" /\ pStatus' = [pStatus EXCEPT ![r] = "Pending"]
      /\ rStatus' = [rStatus EXCEPT ![r] = "Waiting"] /\ t <= s /\ hold' = hold /\ issued' = issued /\ now' = now
      /\ endAt' = [endAt EXCEPT ![r] = t + h * Hour] /\ payExp' = [payExp EXCEPT ![r] = s + PaymentWindow]
  BY DEF RentAccount, FreshId, holdVars
<1>2. t \in Nat /\ s \in Nat /\ s <= t + Delay
  BY TimeAssumption DEF Recent, TimeInv, Agreement, TypeOK
<1>3. h * Hour \in Nat /\ Hour <= h * Hour
  BY TimeAssumption
<1>4. s + PaymentWindow + Delay <= t + h * Hour
  BY <1>2, <1>3, TimeAssumption, WindowAssumption
<1> QED BY <1>1, <1>4 DEF Timely, InTime, TimeInv, Ended, Windows, Agreement, TypeOK, RentalTypes, PaymentTypes

LEMMA TimelyGivenUp ==
  ASSUME TimeInv, NEW r \in Rentals, NEW st \in {"Cancelled", "Expired"}, AwaitsPayment(r), FreeUnpaid(r, st)
  PROVE  Timely
<1>1. /\ rStatus[r] = "Waiting" /\ pStatus' = [pStatus EXCEPT ![r] = "Failed"]
      /\ rStatus' = [rStatus EXCEPT ![r] = st] /\ hold' = hold /\ issued' = issued /\ now' = now
      /\ endAt' = endAt /\ payExp' = payExp
  BY DEF AwaitsPayment, FreeUnpaid, orderVars, holdVars
<1> QED BY <1>1 DEF Timely, InTime, TimeInv, Ended, Windows, Agreement, TypeOK, RentalTypes, PaymentTypes

\* A payment accepted with a clock read up to Delay ago.
LEMMA TimelyPayment ==
  ASSUME TimeInv, NEW r \in Rentals, NEW entries, NEW s \in Recent,
         AwaitsPayment(r), InPaymentWindow(r, s), Activate(r, entries)
  PROVE  Timely
<1>1. /\ rStatus[r] = "Waiting" /\ pStatus' = [pStatus EXCEPT ![r] = "Success"]
      /\ rStatus' = [rStatus EXCEPT ![r] = "Active"] /\ issued' = issued /\ now' = now
      /\ endAt' = endAt /\ payExp' = payExp /\ hold[r] = "Absent" /\ \A q \in Rentals \ {r} : hold'[q] = hold[q]
  BY DEF AwaitsPayment, Activate, orderVars, TimeInv, Agreement, TypeOK, PaymentTypes
<1>2. now < endAt[r]
  <2>1. s \in Nat /\ now \in Nat /\ now <= s + Delay /\ s < payExp[r] /\ payExp[r] \in Nat /\ endAt[r] \in Nat
    BY TimeAssumption DEF Recent, InPaymentWindow, TimeInv, Agreement, TypeOK, RentalTypes
  <2>2. payExp[r] + Delay <= endAt[r]
    BY <1>1 DEF TimeInv, Windows
  <2> QED BY <2>1, <2>2, TimeAssumption
<1> QED BY <1>1, <1>2 DEF Timely, InTime, TimeInv, Ended, Windows, Agreement, TypeOK, RentalTypes, PaymentTypes

\* A settlement finds a rental whose period has ended.
LEMMA TimelySettlement ==
  ASSUME TimeInv, NEW r \in Rentals, NEW st, NEW src, NEW credit, NEW entries,
         Settle(r, st, src, credit, entries), rStatus[r] \in {"Expired", "Completed"}, pStatus[r] = "Success"
  PROVE  Timely
<1>1. /\ rStatus' = [rStatus EXCEPT ![r] = "Completed"] /\ pStatus' = pStatus /\ hold' = [hold EXCEPT ![r] = st]
      /\ issued' = issued /\ now' = now /\ endAt' = endAt /\ payExp' = payExp
  BY DEF Settle, orderVars, paymentVars
<1>2. endAt[r] <= now
  BY DEF TimeInv, Ended
<1> QED BY <1>1, <1>2 DEF Timely, InTime, TimeInv, Ended, Windows, Agreement, TypeOK, RentalTypes, PaymentTypes

\* The clean-up job ends a rental with the time its pass captured.
LEMMA TimelyUsedUp ==
  ASSUME TimeInv, NEW r \in Rentals, ExpireRental(r)
  PROVE  Timely
<1>1. /\ rStatus[r] = "Active" /\ rStatus' = [rStatus EXCEPT ![r] = "Expired"] /\ pStatus' = pStatus /\ hold' = hold
      /\ issued' = issued /\ now' = now /\ endAt' = endAt /\ payExp' = payExp /\ endAt[r] <= usePass.now
  BY DEF ExpireRental, UsageOver, orderVars, paymentVars, holdVars
<1>2. endAt[r] <= now
  BY <1>1 DEF TimeInv, PassesBehind, Agreement, TypeOK, RentalTypes, Passes
<1> QED BY <1>1, <1>2 DEF Timely, InTime, TimeInv, Ended, Windows, Agreement, TypeOK, RentalTypes, PaymentTypes

LEMMA TimelyCredentials ==
  ASSUME TimeInv, NEW r \in Rentals, NEW t \in Recent, GetRentalCredentials(r, t)
  PROVE  Timely
<1>1. /\ rStatus[r] = "Active" /\ t < endAt[r] /\ issued' = issued \cup {r}
      /\ rStatus' = rStatus /\ pStatus' = pStatus /\ hold' = hold /\ now' = now /\ endAt' = endAt /\ payExp' = payExp
  BY DEF GetRentalCredentials, WithinPeriod, orderVars, paymentVars, holdVars
<1>2. LiveRentals(rAcct[r]) = {r}
  BY <1>1 DEF TimeInv, Agreement, Tenancy, Live, LiveRentals
<1>3. now < endAt[r] + Delay
  BY <1>1, TimeAssumption DEF Recent, TimeInv, Agreement, TypeOK, RentalTypes
<1> QED BY <1>1, <1>2, <1>3 DEF Timely, InTime, TimeInv, Ended, Windows

LEMMA TimelyNext == TimeInv /\ [Next]_vars => Timely
<1> SUFFICES ASSUME TimeInv, [Next]_vars PROVE Timely
  OBVIOUS
<1> USE DEF acctVars, orderVars, paymentVars, holdVars
<1>0. now \in Nat /\ now <= now /\ Agreement
  BY TimeAssumption DEF TimeInv, Agreement, TypeOK
<1>1. CASE AdminStep
  <2>1. ASSUME NEW a \in Accounts, NEW p \in Pricings, CreateAccount(a, p) \/ UpdateAccount(a, p)
        PROVE  Timely
    BY <1>0, <2>1, TimelySame DEF CreateAccount, UpdateAccount
  <2>2. ASSUME NEW a \in Accounts, DisableAccountIfIdle(a) PROVE Timely
    BY <1>0, <2>2, TimelySame DEF DisableAccountIfIdle
  <2>3. ASSUME NEW r \in Rentals, NEW t, ReleaseDeposit(r) \/ ForfeitDeposit(r, t) PROVE Timely
    BY <2>3, DecisionSettles, TimelySettlement
  <2>4. ASSUME NEW r \in Rentals, RefundWalletPayment(r) PROVE Timely
    BY <1>0, <2>4, RefundSettles, TimelySettlement
  <2>5. ASSUME NEW k \in AdjustKeys, NEW u \in Users, NEW n \in Adjustments, AdjustAdminBalance(k, u, n)
        PROVE  Timely
    BY <1>0, <2>5, TimelySame DEF AdjustAdminBalance
  <2> QED BY <1>1, <2>1, <2>2, <2>3, <2>4, <2>5 DEF AdminStep
<1>2. CASE CustomerStep
  <2>1. ASSUME NEW r \in Rentals, CancelRental(r) PROVE Timely
    BY <2>1, TimelyGivenUp DEF CancelRental
  <2>2. ASSUME NEW r \in Rentals, NEW s \in Recent, PayRentalWithBalance(r, s) PROVE Timely
    BY <2>2, TimelyPayment DEF PayRentalWithBalance
  <2> QED BY <1>2, <2>1, <2>2, TimelyOrder, TimelyCredentials DEF CustomerStep
<1>3. CASE ProviderStep
  <2>1. ASSUME NEW r \in Rentals, NEW x \in ExtTxs, NEW s \in Recent, ProcessWebhook(r, x, s) PROVE Timely
    BY <2>1, WebhookProcesses, TimelyPayment DEF ProcessWebhook
  <2> QED BY <1>3, <2>1 DEF ProviderStep
<1>4. CASE WorkerStep
  <2>1. ASSUME ScanWaiting \/ ScanExpired PROVE Timely
    BY <1>0, <2>1, TimelySame DEF ScanWaiting, ScanExpired
  <2>2. ASSUME NEW r \in Rentals, SkipWaiting(r) \/ SkipExpired(r) PROVE Timely
    BY <1>0, <2>2, TimelySame DEF SkipWaiting, SkipExpired
  <2>3. ASSUME NEW r \in Rentals, ExpireWaitingPaymentReservation(r) PROVE Timely
    BY <2>3, TimelyGivenUp DEF ExpireWaitingPaymentReservation, PaymentOverdue
  <2>4. ASSUME NEW r \in Rentals, NEW t, FinalizeNext(r, t) PROVE Timely
    BY <1>0, <2>4, FinalizeSettles, TimelySettlement
  <2> QED BY <1>4, <2>1, <2>2, <2>3, <2>4, TimelyUsedUp DEF WorkerStep, SweepWaiting, SweepExpired, Finalize
<1>5. CASE Restart
  BY <1>0, <1>5, TimelySame DEF Restart
<1>6. CASE Tick
  BY <1>0, <1>6, TimelySame DEF Tick
<1>7. CASE UNCHANGED vars
  BY <1>0, <1>7, TimelySame DEF vars
<1> QED BY <1>1, <1>2, <1>3, <1>4, <1>5, <1>6, <1>7 DEF Next

\* A pass captures the clock when it starts, and the clock never goes back.
LEMMA PassesNext == TimeInv /\ [Next]_vars => PassesBehind'
<1> SUFFICES ASSUME TimeInv, [Next]_vars PROVE PassesBehind'
  OBVIOUS
<1> USE DEF passVars
<1>0. /\ now \in Nat /\ waitPass.now \in Nat /\ usePass.now \in Nat
      /\ waitPass.now <= now /\ usePass.now <= now
  BY TimeAssumption DEF TimeInv, Agreement, TypeOK, Passes, PassesBehind
<1>1. ASSUME now' = now, waitPass' = waitPass \/ waitPass'.now \in {now, 0} \/ waitPass'.now = waitPass.now,
             usePass' = usePass \/ usePass'.now \in {now, 0} \/ usePass'.now = usePass.now
      PROVE  PassesBehind'
  BY <1>0, <1>1 DEF PassesBehind
<1>2. \A p, r : Drop(p, r).now \in {p.now, 0}
  BY DEF Drop, IdlePass
<1>3. CASE AdminStep
  <2>1. now' = now /\ waitPass' = waitPass /\ usePass' = usePass
    BY <1>3 DEF AdminStep, CreateAccount, UpdateAccount, DisableAccountIfIdle, ReleaseDeposit,
       RefundWalletPayment, ForfeitDeposit, Settle, AdjustAdminBalance
  <2> QED BY <1>1, <2>1
<1>4. CASE CustomerStep
  <2>1. ASSUME NEW u, NEW a, NEW r, NEW h, NEW t, NEW s, RentAccount(u, a, r, h, t, s) PROVE PassesBehind'
    BY <1>1, <2>1 DEF RentAccount
  <2>2. ASSUME NEW r \in Rentals, CancelRental(r) PROVE PassesBehind'
    BY <1>1, <2>2 DEF CancelRental, FreeUnpaid
  <2>3. ASSUME NEW r \in Rentals, NEW t, PayRentalWithBalance(r, t) \/ GetRentalCredentials(r, t) PROVE PassesBehind'
    BY <1>1, <2>3 DEF PayRentalWithBalance, Activate, GetRentalCredentials
  <2> QED BY <1>4, <2>1, <2>2, <2>3 DEF CustomerStep
<1>5. CASE ProviderStep
  <2>1. now' = now /\ waitPass' = waitPass /\ usePass' = usePass
    BY <1>5 DEF ProviderStep, ProcessWebhook, Activate
  <2> QED BY <1>1, <2>1
<1>6. CASE WorkerStep
  <2>1. CASE ScanWaiting \/ ScanExpired
    BY <1>1, <2>1 DEF ScanWaiting, ScanExpired
  <2>2. ASSUME NEW r \in Rentals, SweepWaiting(r) PROVE PassesBehind'
    <3>1. now' = now /\ waitPass' = Drop(waitPass, r) /\ usePass' = usePass
      BY <2>2 DEF SweepWaiting, ExpireWaitingPaymentReservation, SkipWaiting, FreeUnpaid
    <3> QED BY <1>1, <1>2, <3>1
  <2>3. ASSUME NEW r \in Rentals, SweepExpired(r) PROVE PassesBehind'
    <3>1. now' = now /\ usePass' = Drop(usePass, r) /\ waitPass' = waitPass
      BY <2>3 DEF SweepExpired, ExpireRental, SkipExpired
    <3> QED BY <1>1, <1>2, <3>1
  <2>4. CASE Finalize
    <3>1. now' = now /\ waitPass' = waitPass /\ usePass' = usePass
      BY <2>4 DEF Finalize, FinalizeNext, Settle
    <3> QED BY <1>1, <3>1
  <2> QED BY <1>6, <2>1, <2>2, <2>3, <2>4 DEF WorkerStep
<1>7. CASE Restart
  BY <1>1, <1>7 DEF Restart, IdlePass
<1>8. CASE Tick
  BY <1>0, <1>8 DEF Tick, PassesBehind
<1>9. CASE UNCHANGED vars
  BY <1>1, <1>9 DEF vars
<1> QED BY <1>3, <1>4, <1>5, <1>6, <1>7, <1>8, <1>9 DEF Next

LEMMA TimeNext == TimeInv /\ [Next]_vars => TimeInv'
BY TimelyNext, PassesNext, AgreementNext DEF TimeInv, Timely

LEMMA TimeHolds == Spec => []TimeInv
BY TimeInit, TimeNext, PTL DEF Spec

LEMMA AlwaysInTime == Spec => [][InTime]_vars
<1>1. TimeInv /\ [Next]_vars => [InTime]_vars
  BY TimelyNext DEF Timely
<1> QED BY <1>1, TimeHolds, PTL DEF Spec

\* A paid customer keeps the account, and the deposit stays held, until the end of
\* the period: the clean-up job's captured time is never ahead of the clock, and no
\* settlement finds a rental that has not ended.
THEOREM EndsInTime == Spec => NothingEndsEarly
<1>1. InTime => \A r \in Rentals :
                  /\ rStatus[r] = "Active" /\ rStatus'[r] # "Active" => endAt[r] <= now
                  /\ hold[r] = "Held" /\ hold'[r] # "Held" => endAt[r] <= now
  BY DEF InTime
<1> QED BY <1>1, AlwaysInTime, PTL DEF NothingEndsEarly

\* No payment activates a rental after its period: it is checked against a clock read
\* before the locks, yet the payment window plus that delay closes before the period.
THEOREM ActivatesInTime == Spec => ActivatedWithinPeriod
<1>1. InTime => \A r \in Rentals :
                  rStatus[r] # "Active" /\ rStatus'[r] = "Active" => now < endAt[r]
  BY DEF InTime
<1> QED BY <1>1, AlwaysInTime, PTL DEF ActivatedWithinPeriod

\* Credentials go to the account's only tenant, in its period or within the delay of
\* one request after it, however late the clean-up job runs.
THEOREM CredentialsInTime == Spec => CredentialsOnlyToTenant
<1>1. InTime => \A r \in issued' \ issued : LiveRentals(rAcct[r]) = {r} /\ now < endAt[r] + Delay
  BY DEF InTime
<1> QED BY <1>1, AlwaysInTime, PTL DEF CredentialsOnlyToTenant

-----------------------------------------------------------------------------
(* Repeated webhooks *)

\* Exactly the payments that the provider made have an external transaction, and no
\* two have the same.
Transactions ==
  /\ \A r \in Rentals : extTx[r] # Null <=> pStatus[r] = "Success" /\ pProvider[r] = "internal"
  /\ \A r, q \in Rentals : extTx[r] # Null /\ extTx[r] = extTx[q] => r = q

\* A payment that is not the provider's is outside.
LEMMA TransactionsSame ==
  ASSUME Agreement, Transactions, NEW r \in Rentals, extTx' = extTx, extTx[r] = Null,
         \A q \in Rentals : q # r => pStatus'[q] = pStatus[q] /\ pProvider'[q] = pProvider[q],
         ~(pStatus'[r] = "Success" /\ pProvider'[r] = "internal")
  PROVE  Transactions'
BY DEF Transactions

LEMMA TransactionsNext == Agreement /\ Transactions /\ [Next]_vars => Transactions'
<1> SUFFICES ASSUME Agreement, Transactions, [Next]_vars PROVE Transactions'
  OBVIOUS
<1> USE DEF paymentVars
<1>1. ASSUME UNCHANGED paymentVars PROVE Transactions'
  BY <1>1 DEF Transactions
<1>2. pStatus \in [Rentals -> PayStatuses] /\ extTx \in [Rentals -> ExtTxs \cup {Null}]
      /\ pProvider \in [Rentals -> {"internal", "balance", Null}]
  BY DEF Agreement, TypeOK, PaymentTypes
<1>3. ASSUME NEW r \in Rentals, AwaitsPayment(r) PROVE extTx[r] = Null
  BY <1>3 DEF AwaitsPayment, Transactions
<1>4. ASSUME NEW r \in Rentals, NEW st, AwaitsPayment(r), FreeUnpaid(r, st) PROVE Transactions'
  <2>1. pStatus'[r] = "Failed" /\ extTx' = extTx /\ pProvider' = pProvider
        /\ \A q \in Rentals : q # r => pStatus'[q] = pStatus[q]
    BY <1>2, <1>4 DEF FreeUnpaid
  <2> QED BY <1>3, <1>4, <2>1, TransactionsSame
<1>5. CASE AdminStep
  BY <1>1, <1>5 DEF AdminStep, CreateAccount, UpdateAccount, DisableAccountIfIdle, ReleaseDeposit,
     RefundWalletPayment, ForfeitDeposit, Settle, AdjustAdminBalance
<1>6. CASE CustomerStep
  <2>1. ASSUME NEW u, NEW a, NEW r \in Rentals, NEW h, NEW t, NEW s, RentAccount(u, a, r, h, t, s)
        PROVE  Transactions'
    <3>1. pStatus[r] = "Absent"
      BY <2>1 DEF RentAccount, FreshId, Agreement, PaymentMatchesRental
    <3>2. extTx[r] = Null
      BY <3>1 DEF Transactions
    <3>3. pStatus'[r] = "Pending" /\ extTx' = extTx
          /\ \A q \in Rentals : q # r => pStatus'[q] = pStatus[q] /\ pProvider'[q] = pProvider[q]
      BY <1>2, <2>1 DEF RentAccount
    <3> QED BY <3>2, <3>3, TransactionsSame
  <2>2. ASSUME NEW r \in Rentals, CancelRental(r) PROVE Transactions'
    BY <1>4, <2>2 DEF CancelRental
  <2>3. ASSUME NEW r \in Rentals, NEW t, PayRentalWithBalance(r, t) PROVE Transactions'
    <3>1. pProvider'[r] = "balance" /\ extTx' = extTx
          /\ \A q \in Rentals : q # r => pStatus'[q] = pStatus[q] /\ pProvider'[q] = pProvider[q]
      BY <1>2, <2>3 DEF PayRentalWithBalance, Activate
    <3>2. extTx[r] = Null
      BY <1>3, <2>3 DEF PayRentalWithBalance
    <3> QED BY <3>1, <3>2, TransactionsSame
  <2>4. ASSUME NEW r \in Rentals, NEW t, GetRentalCredentials(r, t) PROVE Transactions'
    BY <1>1, <2>4 DEF GetRentalCredentials
  <2> QED BY <1>6, <2>1, <2>2, <2>3, <2>4 DEF CustomerStep
<1>7. CASE ProviderStep
  <2> SUFFICES ASSUME NEW r \in Rentals, NEW x \in ExtTxs, NEW s, ProcessWebhook(r, x, s)
               PROVE  Transactions'
    BY <1>7 DEF ProviderStep
  <2>1. pProvider[r] = "internal" /\ ~ExtTxTaken(r, x)
    BY WebhookProcesses DEF ProcessWebhook
  <2>2. x # Null
    BY NullAssumption
  <2>3. extTx'[r] = x /\ pStatus'[r] = "Success" /\ pProvider' = pProvider
    BY <1>2 DEF ProcessWebhook, Activate
  <2>4. \A q \in Rentals : q # r => extTx'[q] = extTx[q] /\ pStatus'[q] = pStatus[q]
    BY <1>2 DEF ProcessWebhook, Activate
  <2>5. \A q \in Rentals : q # r => extTx[q] # x
    BY <2>1, <2>2 DEF ExtTxTaken, Transactions
  <2> QED BY <2>1, <2>2, <2>3, <2>4, <2>5 DEF Transactions
<1>8. CASE WorkerStep
  <2>1. ASSUME NEW r \in Rentals, ExpireWaitingPaymentReservation(r) PROVE Transactions'
    BY <1>4, <2>1 DEF ExpireWaitingPaymentReservation, PaymentOverdue
  <2>2. ASSUME NEW r \in Rentals, SkipWaiting(r) \/ SweepExpired(r) PROVE Transactions'
    BY <1>1, <2>2 DEF SkipWaiting, SweepExpired, ExpireRental, SkipExpired
  <2>3. CASE ScanWaiting \/ ScanExpired \/ Finalize
    BY <1>1, <2>3 DEF ScanWaiting, ScanExpired, Finalize, FinalizeNext, Settle
  <2> QED BY <1>8, <2>1, <2>2, <2>3 DEF WorkerStep, SweepWaiting
<1>9. CASE Restart \/ Tick \/ UNCHANGED vars
  BY <1>1, <1>9 DEF Restart, Tick, vars
<1> QED BY <1>5, <1>6, <1>7, <1>8, <1>9 DEF Next

\* The webhook that paid for a rental is recognised whenever it comes again, and never
\* taken for the payment of another rental.
THEOREM RedeliveriesRecognised == Spec => []RedeliveryIsRecognised
<1>1. Init => Transactions
  BY DEF Init, Transactions
<1>2. Agreement /\ Transactions => RedeliveryIsRecognised
  <2> SUFFICES ASSUME Agreement, Transactions, NEW r \in Rentals,
                      pStatus[r] = "Success", pProvider[r] = "internal"
               PROVE  WebhookReply(r, extTx[r])
                        = IF rStatus[r] = "Active" THEN "Idempotent" ELSE "InvalidTransition"
    BY DEF RedeliveryIsRecognised
  <2>1. ~ExtTxTaken(r, extTx[r])
    BY DEF Transactions, ExtTxTaken
  <2>2. rStatus[r] = "Active" => acctStatus[rAcct[r]] = "Rented"
    BY DEF Agreement, Tenancy, TypeOK, RentalTypes
  <2> QED BY <2>1, <2>2 DEF WebhookReply
<1>3. Spec => []Transactions
  BY <1>1, TransactionsNext, AgreementHolds, PTL DEF Spec
<1> QED BY <1>2, <1>3, AgreementHolds, PTL
=============================================================================
