------------------------- MODULE RentalMoneyProofs --------------------------
(***************************************************************************)
(* The wallets, the ledger and the rentals agree about money, for every    *)
(* number of customers, accounts and rentals, and every price and deposit: *)
(* first what the sum of a finite set of entries is, then what each step   *)
(* does to the ledger.                                                     *)
(***************************************************************************)
EXTENDS RentalLifecycleProofs, FiniteSetTheorems

-----------------------------------------------------------------------------
(* Induction over finite sets, as the existence of a smallest counterexample *)
LEMMA SmallestSubset ==
  ASSUME NEW S, IsFiniteSet(S), NEW T, T \subseteq SUBSET S, T # {}
  PROVE  \E m \in T : \A s \in T : s \subseteq m => s = m
<1>1. IsWellFoundedOn(StrictSubsetOrdering(S), SUBSET S)
  BY FS_StrictSubsetOrderingWellFounded, FS_FiniteSubsetsOfFinite
<1>2. \E m \in T : \A s \in T : <<s, m>> \notin StrictSubsetOrdering(S)
  BY <1>1, WFMin
<1>3. PICK m \in T : \A s \in T : <<s, m>> \notin StrictSubsetOrdering(S)
  BY <1>2
<1>4. ASSUME NEW s \in T, s \subseteq m PROVE s = m
  BY <1>3, <1>4 DEF StrictSubsetOrdering
<1> QED BY <1>4

First(s) == CHOOSE x \in s : TRUE

LEMMA FirstIn == ASSUME NEW s, s # {} PROVE First(s) \in s
BY DEF First

\* The equation of the recursive function behind Total(S).
Sums(S, g) ==
  g = [s \in SUBSET S |-> IF s = {} THEN 0 ELSE First(s).amount + g[s \ {First(s)}]]

Sum(S) == CHOOSE g : Sums(S, g)

LEMMA TotalUnfold == \A S : Total(S) = Sum(S)[S]
BY DEF Total, MapThenSumSet, MapThenFoldSet, Sum, Sums, First

\* Total(S) is computed by the recursive function, which agrees with Total on every subset.
Computed(S) == Sums(S, Sum(S)) /\ \A s \in SUBSET S : Sum(S)[s] = Total(s)

\* What Total does in one step.
OneStep(S) == Total(S) = IF S = {} THEN 0 ELSE First(S).amount + Total(S \ {First(S)})

LEMMA ComputedStep == ASSUME NEW S, Computed(S) PROVE OneStep(S)
<1>1. S \in SUBSET S /\ S \ {First(S)} \in SUBSET S
  OBVIOUS
<1>2. Sum(S)[S] = IF S = {} THEN 0 ELSE First(S).amount + Sum(S)[S \ {First(S)}]
  BY <1>1 DEF Computed, Sums
<1> QED BY <1>1, <1>2 DEF Computed, OneStep

LEMMA AllComputed == ASSUME NEW S, IsFiniteSet(S) PROVE Computed(S)
<1> DEFINE Bad == {s \in SUBSET S : ~Computed(s)}
<1> SUFFICES ASSUME Bad # {} PROVE FALSE
  OBVIOUS
<1>1. PICK m \in Bad : \A s \in Bad : s \subseteq m => s = m
  <2>1. Bad \subseteq SUBSET S
    OBVIOUS
  <2> HIDE DEF Bad
  <2> QED BY <2>1, SmallestSubset
<1>2. m \subseteq S /\ ~Computed(m) /\ \A s \in SUBSET m : s # m => Computed(s)
  BY <1>1
<1> HIDE DEF Bad
<1>3. \A s \in SUBSET m : s # m => OneStep(s)
  BY <1>2, ComputedStep
<1>4. Sums(m, Sum(m))
  <2> DEFINE g == [s \in SUBSET m |-> IF s = {} THEN 0 ELSE First(s).amount + Total(s \ {First(s)})]
  <2>1. \A s \in SUBSET m : s # m => g[s] = Total(s)
    BY <1>3 DEF OneStep
  <2>2. ASSUME NEW s \in SUBSET m, s # {} PROVE g[s \ {First(s)}] = Total(s \ {First(s)})
    <3>1. First(s) \in s /\ s \ {First(s)} \in SUBSET m
      BY <2>2, FirstIn
    <3>2. s \ {First(s)} # m
      BY <3>1
    <3> HIDE DEF g
    <3> QED BY <2>1, <3>1, <3>2
  <2>3. g = [s \in SUBSET m |-> IF s = {} THEN 0 ELSE First(s).amount + g[s \ {First(s)}]]
    <3>1. \A s \in SUBSET m : g[s] = IF s = {} THEN 0 ELSE First(s).amount + Total(s \ {First(s)})
      OBVIOUS
    <3>2. g = [s \in SUBSET m |-> g[s]]
      OBVIOUS
    <3> HIDE DEF g
    <3> QED BY <2>2, <3>1, <3>2
  <2>4. \E h : Sums(m, h)
    <3> HIDE DEF g
    <3> QED BY <2>3 DEF Sums
  <2> QED BY <2>4 DEF Sum
<1>5. \A s \in SUBSET m : Sum(m)[s] = Total(s)
  <2> DEFINE Off == {s \in SUBSET m : Sum(m)[s] # Total(s)}
  <2> SUFFICES ASSUME Off # {} PROVE FALSE
    OBVIOUS
  <2>1. PICK n \in Off : \A s \in Off : s \subseteq n => s = n
    <3>1. IsFiniteSet(m) /\ Off \subseteq SUBSET m
      BY <1>2, FS_Subset
    <3> HIDE DEF Off
    <3> QED BY <3>1, SmallestSubset
  <2>2. n \in SUBSET m /\ Sum(m)[n] # Total(n) /\ \A s \in SUBSET n : s # n => Sum(m)[s] = Total(s)
    BY <2>1
  <2> HIDE DEF Off
  <2>3. n # m
    BY <2>2, TotalUnfold
  <2>4. OneStep(n)
    BY <1>3, <2>2, <2>3
  <2>5. Sum(m)[n] = IF n = {} THEN 0 ELSE First(n).amount + Sum(m)[n \ {First(n)}]
    BY <1>4, <2>2 DEF Sums
  <2>6. n # {} => Sum(m)[n \ {First(n)}] = Total(n \ {First(n)})
    <3>1. n # {} => n \ {First(n)} \in SUBSET n /\ n \ {First(n)} # n
      BY FirstIn
    <3> QED BY <2>2, <3>1
  <2> QED BY <2>2, <2>4, <2>5, <2>6 DEF OneStep
<1> QED BY <1>2, <1>4, <1>5 DEF Computed

-----------------------------------------------------------------------------
(* Sums of amounts *)

Amounts(S) == \A e \in S : e.amount \in Nat

LEMMA TotalEmpty == Total({}) = 0
BY AllComputed, ComputedStep, FS_EmptySet DEF OneStep

LEMMA TotalNat == ASSUME NEW S, IsFiniteSet(S), Amounts(S) PROVE Total(S) \in Nat
<1> DEFINE Bad == {s \in SUBSET S : Total(s) \notin Nat}
<1> SUFFICES ASSUME Bad # {} PROVE FALSE
  OBVIOUS
<1>1. PICK m \in Bad : \A s \in Bad : s \subseteq m => s = m
  <2>1. Bad \subseteq SUBSET S
    OBVIOUS
  <2> HIDE DEF Bad
  <2> QED BY <2>1, SmallestSubset
<1>2. m \in SUBSET S /\ Total(m) \notin Nat /\ \A s \in SUBSET m : s # m => Total(s) \in Nat
  BY <1>1
<1> HIDE DEF Bad
<1>3. OneStep(m)
  BY <1>2, FS_Subset, AllComputed, ComputedStep
<1>4. m # {}
  <2>1. m = {} => Total(m) = 0
    BY TotalEmpty, Zenon
  <2> QED BY <1>2, <2>1
<1>5. First(m) \in m /\ m \ {First(m)} \in SUBSET m /\ m \ {First(m)} # m
  BY <1>4, FirstIn
<1>6. First(m).amount \in Nat
  BY <1>2, <1>5 DEF Amounts
<1> QED BY <1>2, <1>3, <1>4, <1>5, <1>6 DEF OneStep

\* The order of summation does not matter.
LEMMA TotalRemove ==
  ASSUME NEW S, IsFiniteSet(S), Amounts(S), NEW e \in S
  PROVE  Total(S) = e.amount + Total(S \ {e})
<1> DEFINE Bad == {s \in SUBSET S : \E x \in s : Total(s) # x.amount + Total(s \ {x})}
<1> SUFFICES ASSUME Bad # {} PROVE FALSE
  OBVIOUS
<1>1. PICK m \in Bad : \A s \in Bad : s \subseteq m => s = m
  <2>1. Bad \subseteq SUBSET S
    OBVIOUS
  <2> HIDE DEF Bad
  <2> QED BY <2>1, SmallestSubset
<1>2. m \in SUBSET S
  BY <1>1
<1>3. PICK x \in m : Total(m) # x.amount + Total(m \ {x})
  BY <1>1
<1>4. \A s \in SUBSET m : s # m => \A y \in s : Total(s) = y.amount + Total(s \ {y})
  BY <1>1, <1>2
<1> HIDE DEF Bad
<1> DEFINE f == First(m)
<1>5. f \in m
  BY <1>3, FirstIn
<1>6. Total(m) = f.amount + Total(m \ {f})
  BY <1>2, <1>3, FS_Subset, AllComputed, ComputedStep DEF OneStep
<1> HIDE DEF f
<1>7. f # x
  BY <1>3, <1>6
<1>8. Total(m \ {f}) = x.amount + Total((m \ {f}) \ {x})
  BY <1>3, <1>4, <1>5, <1>7
<1>9. Total(m \ {x}) = f.amount + Total((m \ {x}) \ {f})
  BY <1>3, <1>4, <1>5, <1>7
<1>10. (m \ {f}) \ {x} = (m \ {x}) \ {f}
  OBVIOUS
<1>11. x.amount \in Nat /\ f.amount \in Nat /\ Total((m \ {x}) \ {f}) \in Nat
  <2>1. (m \ {x}) \ {f} \in SUBSET S
    BY <1>2
  <2>2. IsFiniteSet((m \ {x}) \ {f}) /\ Amounts((m \ {x}) \ {f})
    BY <2>1, FS_Subset DEF Amounts
  <2> QED BY <1>2, <1>3, <1>5, <2>2, TotalNat DEF Amounts
<1>12. Total(m \ {f}) = x.amount + Total((m \ {x}) \ {f})
  BY <1>8, <1>10, Zenon
<1> QED BY <1>3, <1>6, <1>9, <1>11, <1>12

LEMMA TotalAdd ==
  ASSUME NEW S, IsFiniteSet(S), Amounts(S), NEW e, e \notin S, e.amount \in Nat
  PROVE  Total(S \cup {e}) = Total(S) + e.amount
<1>1. IsFiniteSet(S \cup {e}) /\ Amounts(S \cup {e}) /\ (S \cup {e}) \ {e} = S
  BY FS_AddElement DEF Amounts
<1>2. Total(S \cup {e}) = e.amount + Total(S)
  BY <1>1, TotalRemove
<1> QED BY <1>2, TotalNat

LEMMA TotalSingle == ASSUME NEW e, e.amount \in Nat PROVE Total({e}) = e.amount
<1>1. IsFiniteSet({}) /\ Amounts({}) /\ {} \cup {e} = {e}
  BY FS_EmptySet DEF Amounts
<1> QED BY <1>1, TotalAdd, TotalEmpty

-----------------------------------------------------------------------------
(* The ledger *)

LEMMA EntryFields ==
  ASSUME NEW kind, NEW key, NEW u, NEW r, NEW n
  PROVE  LET e == Entry(kind, key, u, r, n)
         IN e.kind = kind /\ e.key = key /\ e.user = u /\ e.rental = r /\ e.amount = n
BY DEF Entry

\* An entry whose key is unused is new.
LEMMA UnusedIsNew ==
  ASSUME NEW L, NEW N, KeysUnused(L, N), NEW e \in N
  PROVE  e \notin L
BY DEF KeysUnused

WellFormed(L) == IsFiniteSet(L) /\ Amounts(L)

\* What an entry does to the wallet of u.
Effect(e, u) ==
  IF e.user # u THEN 0
  ELSE IF e.kind \in CreditKinds THEN e.amount
  ELSE IF e.kind \in DebitKinds THEN -e.amount
  ELSE 0

LEMMA OneMoreEntry ==
  ASSUME NEW L, WellFormed(L), NEW e, e \notin L, e.amount \in Nat, NEW u
  PROVE  /\ WellFormed(L \cup {e})
         /\ LedgerBalance(L, u) \in Int
         /\ LedgerBalance(L \cup {e}, u) = LedgerBalance(L, u) + Effect(e, u)
<1> DEFINE C(M) == {x \in M : x.user = u /\ x.kind \in CreditKinds}
           D(M) == {x \in M : x.user = u /\ x.kind \in DebitKinds}
<1>1. WellFormed(L \cup {e})
  BY FS_AddElement DEF WellFormed, Amounts
<1>2. IsFiniteSet(C(L)) /\ Amounts(C(L)) /\ IsFiniteSet(D(L)) /\ Amounts(D(L))
  BY FS_Subset DEF WellFormed, Amounts
<1>3. Total(C(L)) \in Nat /\ Total(D(L)) \in Nat
  BY <1>2, TotalNat
<1>4. CreditKinds \cap DebitKinds = {}
  BY DEF CreditKinds, DebitKinds
<1>5. CASE e.user = u /\ e.kind \in CreditKinds
  <2>1. C(L \cup {e}) = C(L) \cup {e} /\ D(L \cup {e}) = D(L) /\ e \notin C(L)
    BY <1>4, <1>5
  <2>2. Total(C(L) \cup {e}) = Total(C(L)) + e.amount
    BY <1>2, <2>1, TotalAdd
  <2> HIDE DEF C, D
  <2>3. LedgerBalance(L \cup {e}, u) = Total(C(L \cup {e})) - Total(D(L \cup {e}))
    BY DEF LedgerBalance, C, D
  <2>4. LedgerBalance(L, u) = Total(C(L)) - Total(D(L))
    BY DEF LedgerBalance, C, D
  <2>5. Total(C(L \cup {e})) = Total(C(L)) + e.amount /\ Total(D(L \cup {e})) = Total(D(L))
    BY <2>1, <2>2, Zenon
  <2> QED BY <1>1, <1>3, <1>5, <2>3, <2>4, <2>5 DEF Effect
<1>6. CASE e.user = u /\ e.kind \in DebitKinds
  <2>1. D(L \cup {e}) = D(L) \cup {e} /\ C(L \cup {e}) = C(L) /\ e \notin D(L)
    BY <1>4, <1>6
  <2>2. Total(D(L) \cup {e}) = Total(D(L)) + e.amount
    BY <1>2, <2>1, TotalAdd
  <2>5. e.kind \notin CreditKinds
    BY <1>4, <1>6
  <2> HIDE DEF C, D
  <2>3. LedgerBalance(L \cup {e}, u) = Total(C(L \cup {e})) - Total(D(L \cup {e}))
    BY DEF LedgerBalance, C, D
  <2>4. LedgerBalance(L, u) = Total(C(L)) - Total(D(L))
    BY DEF LedgerBalance, C, D
  <2>6. Total(D(L \cup {e})) = Total(D(L)) + e.amount /\ Total(C(L \cup {e})) = Total(C(L))
    BY <2>1, <2>2, Zenon
  <2> QED BY <1>1, <1>3, <1>6, <2>3, <2>4, <2>5, <2>6 DEF Effect
<1>7. CASE ~(e.user = u /\ e.kind \in CreditKinds \cup DebitKinds)
  <2>1. D(L \cup {e}) = D(L) /\ C(L \cup {e}) = C(L)
    BY <1>7
  <2>2. Effect(e, u) = 0
    BY <1>7 DEF Effect
  <2> HIDE DEF C, D
  <2>3. LedgerBalance(L \cup {e}, u) = Total(C(L \cup {e})) - Total(D(L \cup {e}))
    BY DEF LedgerBalance, C, D
  <2>4. LedgerBalance(L, u) = Total(C(L)) - Total(D(L))
    BY DEF LedgerBalance, C, D
  <2> QED BY <1>1, <1>3, <2>1, <2>2, <2>3, <2>4
<1> QED BY <1>5, <1>6, <1>7

LEMMA EntriesOfUnion ==
  ASSUME NEW L, NEW N, NEW r, NEW K
  PROVE  EntriesOf(L \cup N, r, K) = EntriesOf(L, r, K) \cup EntriesOf(N, r, K)
BY DEF EntriesOf

-----------------------------------------------------------------------------
(* The books of one rental *)

ChargeKinds == {"ProviderPaymentReceived", "BalanceDebit"}
SettlementKinds == {"DepositReleasedBalance", "DepositForfeited", "DepositRefundCredit"}
RefundKinds == {"BalanceRefundCredit"}
HoldKinds == {"DepositHeld"}
Decided == {"Released", "Forfeited", "Refunded"}

\* A paid rental has one charge, over price and deposit ...
Charged(r) ==
  IF pStatus[r] = "Success"
  THEN \E e : EntriesOf(ledger, r, ChargeKinds) = {e} /\ e.amount = rPrice[r] + rDeposit[r]
  ELSE EntriesOf(ledger, r, ChargeKinds) = {}

\* ... a deposit one entry that it is held ...
HeldOnce(r) ==
  IF hold[r] = "Absent"
  THEN EntriesOf(ledger, r, HoldKinds) = {}
  ELSE \E e : EntriesOf(ledger, r, HoldKinds) = {e} /\ e.amount = rDeposit[r]

\* ... a decided deposit one settlement, of its kind ...
Settled(r) ==
  IF hold[r] \in Decided
  THEN \E e : /\ EntriesOf(ledger, r, SettlementKinds) = {e}
              /\ e.kind = SettlementKind[hold[r]] /\ e.amount = rDeposit[r]
  ELSE EntriesOf(ledger, r, SettlementKinds) = {}

\* ... and a refunded rental, which was paid, one refund of its price.
Returned(r) ==
  IF refund[r] = "Completed"
  THEN /\ pStatus[r] = "Success"
       /\ \E e : EntriesOf(ledger, r, RefundKinds) = {e} /\ e.amount = rPrice[r]
  ELSE EntriesOf(ledger, r, RefundKinds) = {}

Books(r) == Charged(r) /\ HeldOnce(r) /\ Settled(r) /\ Returned(r)

\* Adjustments belong to no rental.
AdminEntries == \A e \in ledger : e.kind \in {"AdminCredit", "AdminDebit"} => e.rental = NoRental

MoneyInv ==
  /\ Agreement
  /\ WellFormed(ledger) /\ AdminEntries
  /\ \A r \in Rentals : Books(r)
  /\ WalletMatchesLedger

-----------------------------------------------------------------------------
(* Steps and books *)

SameRow(r) ==
  /\ pStatus'[r] = pStatus[r] /\ hold'[r] = hold[r] /\ refund'[r] = refund[r]
  /\ rPrice'[r] = rPrice[r] /\ rDeposit'[r] = rDeposit[r]

\* A rental of which nothing is written keeps its books.
LEMMA BooksSame ==
  ASSUME NEW r, Books(r), SameRow(r), \A K : EntriesOf(ledger', r, K) = EntriesOf(ledger, r, K)
  PROVE  Books(r)'
<1>1. Charged(r)'
  BY DEF Books, Charged, SameRow
<1>2. Settled(r)'
  BY DEF Books, Settled, SameRow
<1>3. Returned(r)'
  BY DEF Books, Returned, SameRow
<1>4. HeldOnce(r)'
  BY DEF Books, HeldOnce, SameRow
<1> QED BY <1>1, <1>2, <1>3, <1>4 DEF Books

\* Entries of one rental do not concern another.
LEMMA OtherBooks ==
  ASSUME MoneyInv, NEW N, NEW r, \A e \in N : e.rental = r, ledger' = ledger \cup N,
         \A q \in Rentals : q # r => SameRow(q)
  PROVE  \A q \in Rentals : q # r => Books(q)'
<1> TAKE q \in Rentals
<1> HAVE q # r
<1>1. \A K : EntriesOf(ledger', q, K) = EntriesOf(ledger, q, K)
  BY DEF EntriesOf
<1>2. Books(q) /\ SameRow(q)
  BY DEF MoneyInv
<1> QED BY <1>1, <1>2, BooksSame

\* A step without entries that leaves paid rentals alone.
LEMMA BooksUnpaid ==
  ASSUME MoneyInv, ledger' = ledger, NEW r \in Rentals,
         pStatus[r] # "Success", pStatus'[r] # "Success", hold[r] = "Absent",
         hold'[r] = hold[r], refund'[r] = refund[r],
         \A q \in Rentals : q # r => SameRow(q)
  PROVE  \A q \in Rentals : Books(q)'
<1>1. \A q \in Rentals : q # r => Books(q)'
  <2>1. \A q, K : EntriesOf(ledger', q, K) = EntriesOf(ledger, q, K)
    OBVIOUS
  <2> QED BY <2>1, BooksSame DEF MoneyInv
<1>2. Books(r)
  BY DEF MoneyInv
<1>3. Charged(r)' /\ HeldOnce(r)' /\ Settled(r)' /\ Returned(r)'
  BY <1>2 DEF Books, Charged, HeldOnce, Settled, Returned, Decided
<1> QED BY <1>1, <1>3 DEF Books

LEMMA BooksActivate ==
  ASSUME MoneyInv, NEW r \in Rentals, AwaitsPayment(r), NEW e, e.rental = r,
         e.kind \in ChargeKinds, e.amount = AmountDue(r), Activate(r, {e})
  PROVE  \A q \in Rentals : Books(q)'
<1> DEFINE N == {e} \cup HoldEntry(r)
<1>0. pStatus \in [Rentals -> PayStatuses] /\ hold \in [Rentals -> HoldStatuses]
  BY DEF MoneyInv, Agreement, TypeOK, PaymentTypes
<1>1. ledger' = ledger \cup N
  BY DEF Activate
<1>2. \A n \in N : n.rental = r
  BY DEF HoldEntry, Entry
<1>3. \A q \in Rentals : q # r => SameRow(q)
  BY <1>0 DEF Activate, SameRow, orderVars
<1>4. \A q \in Rentals : q # r => Books(q)'
  BY <1>1, <1>2, <1>3, OtherBooks
<1>5. /\ pStatus[r] = "Pending" /\ pStatus'[r] = "Success" /\ hold[r] = "Absent"
      /\ hold'[r] \in {"Absent", "Held"} /\ refund' = refund /\ rPrice' = rPrice /\ rDeposit' = rDeposit
  BY <1>0 DEF AwaitsPayment, Activate, orderVars
<1>6. Books(r)
  BY DEF MoneyInv
<1>7. /\ EntriesOf(N, r, ChargeKinds) = {e}
      /\ EntriesOf(N, r, SettlementKinds) = {} /\ EntriesOf(N, r, RefundKinds) = {}
  BY DEF EntriesOf, HoldEntry, Entry, ChargeKinds, SettlementKinds, RefundKinds
<1>12. IF hold'[r] = "Absent"
       THEN EntriesOf(N, r, HoldKinds) = {}
       ELSE \E f : EntriesOf(N, r, HoldKinds) = {f} /\ f.amount = rDeposit[r]
  <2> DEFINE f == Entry("DepositHeld", <<"deposit:hold", r>>, rUser[r], r, rDeposit[r])
  <2>1. f.kind = "DepositHeld" /\ f.rental = r /\ f.amount = rDeposit[r]
    BY DEF Entry
  <2>2. HoldEntry(r) = IF rDeposit[r] > 0 THEN {f} ELSE {}
    BY DEF HoldEntry
  <2>3. hold'[r] = IF rDeposit[r] > 0 THEN "Held" ELSE "Absent"
    BY <1>0, <1>5 DEF Activate
  <2>4. e.kind # "DepositHeld"
    BY DEF ChargeKinds
  <2> HIDE DEF f
  <2>5. EntriesOf(N, r, HoldKinds) = IF rDeposit[r] > 0 THEN {f} ELSE {}
    BY <2>1, <2>2, <2>4 DEF EntriesOf, HoldKinds
  <2> QED BY <2>1, <2>3, <2>5
<1> HIDE DEF N
<1>8. \A K : EntriesOf(ledger', r, K) = EntriesOf(ledger, r, K) \cup EntriesOf(N, r, K)
  BY <1>1, EntriesOfUnion
<1>9. Charged(r)'
  <2>1. EntriesOf(ledger', r, ChargeKinds) = {e}
    BY <1>5, <1>6, <1>7, <1>8 DEF Books, Charged
  <2> QED BY <1>5, <2>1 DEF Charged, AmountDue
<1>10. Settled(r)'
  <2>1. EntriesOf(ledger', r, SettlementKinds) = {}
    BY <1>5, <1>6, <1>7, <1>8 DEF Books, Settled, Decided
  <2> QED BY <1>5, <2>1 DEF Settled, Decided
<1>11. Returned(r)'
  <2>1. EntriesOf(ledger', r, RefundKinds) = EntriesOf(ledger, r, RefundKinds)
    BY <1>7, <1>8
  <2> QED BY <1>5, <1>6, <2>1 DEF Books, Returned
<1>13. HeldOnce(r)'
  <2>1. EntriesOf(ledger', r, HoldKinds) = EntriesOf(N, r, HoldKinds)
    BY <1>5, <1>6, <1>8 DEF Books, HeldOnce
  <2> QED BY <1>5, <1>12, <2>1 DEF HeldOnce
<1> QED BY <1>4, <1>9, <1>10, <1>11, <1>13 DEF Books

\* A settlement: the deposit is decided by an entry of its kind, or it was
\* decided before; the price is refunded by an entry, or not.
LEMMA BooksSettle ==
  ASSUME MoneyInv, NEW r \in Rentals, pStatus[r] = "Success",
         NEW st, NEW src, NEW credit, NEW N, Settle(r, st, src, credit, N),
         \A n \in N : n.rental = r, EntriesOf(N, r, ChargeKinds) = {}, EntriesOf(N, r, HoldKinds) = {},
         \/ EntriesOf(N, r, SettlementKinds) = {} /\ st = hold[r]
         \/ /\ hold[r] = "Held" /\ st \in Decided
            /\ \E e : EntriesOf(N, r, SettlementKinds) = {e} /\ e.kind = SettlementKind[st] /\ e.amount = rDeposit[r],
         \/ refund' = refund /\ EntriesOf(N, r, RefundKinds) = {}
         \/ /\ refund[r] = "Absent" /\ refund' = [refund EXCEPT ![r] = "Completed"]
            /\ \E e : EntriesOf(N, r, RefundKinds) = {e} /\ e.amount = rPrice[r]
  PROVE  \A q \in Rentals : Books(q)'
<1>0. /\ pStatus \in [Rentals -> PayStatuses] /\ hold \in [Rentals -> HoldStatuses]
      /\ refund \in [Rentals -> {"Absent", "Completed"}]
  BY DEF MoneyInv, Agreement, TypeOK, PaymentTypes
<1>1. /\ ledger' = ledger \cup N /\ pStatus' = pStatus /\ rPrice' = rPrice /\ rDeposit' = rDeposit
      /\ hold' = [hold EXCEPT ![r] = st]
  BY DEF Settle, orderVars, paymentVars
<1>2. \A q \in Rentals : q # r => SameRow(q)
  BY <1>0, <1>1 DEF SameRow
<1>3. \A q \in Rentals : q # r => Books(q)'
  BY <1>1, <1>2, OtherBooks
<1>4. \A K : EntriesOf(ledger', r, K) = EntriesOf(ledger, r, K) \cup EntriesOf(N, r, K)
  BY <1>1, EntriesOfUnion
<1>5. Books(r)
  BY DEF MoneyInv
<1>6. Charged(r)'
  <2>1. EntriesOf(ledger', r, ChargeKinds) = EntriesOf(ledger, r, ChargeKinds)
    BY <1>4
  <2> QED BY <1>1, <1>5, <2>1 DEF Books, Charged
<1>7. Settled(r)'
  <2>1. CASE EntriesOf(N, r, SettlementKinds) = {} /\ st = hold[r]
    <3>1. EntriesOf(ledger', r, SettlementKinds) = EntriesOf(ledger, r, SettlementKinds)
      BY <1>4, <2>1
    <3>2. hold'[r] = hold[r]
      BY <1>0, <1>1, <2>1
    <3> QED BY <1>1, <1>5, <3>1, <3>2 DEF Books, Settled
  <2>2. CASE /\ hold[r] = "Held" /\ st \in Decided
             /\ \E e : EntriesOf(N, r, SettlementKinds) = {e} /\ e.kind = SettlementKind[st] /\ e.amount = rDeposit[r]
    <3>1. EntriesOf(ledger, r, SettlementKinds) = {}
      BY <1>5, <2>2 DEF Books, Settled, Decided
    <3>2. EntriesOf(ledger', r, SettlementKinds) = EntriesOf(N, r, SettlementKinds)
      BY <1>4, <3>1
    <3>3. hold'[r] = st
      BY <1>0, <1>1
    <3> QED BY <1>1, <2>2, <3>2, <3>3 DEF Settled
  <2> QED BY <2>1, <2>2
<1>8. Returned(r)'
  <2>1. CASE refund' = refund /\ EntriesOf(N, r, RefundKinds) = {}
    <3>1. EntriesOf(ledger', r, RefundKinds) = EntriesOf(ledger, r, RefundKinds)
      BY <1>4, <2>1
    <3> QED BY <1>1, <1>5, <2>1, <3>1 DEF Books, Returned
  <2>2. CASE /\ refund[r] = "Absent" /\ refund' = [refund EXCEPT ![r] = "Completed"]
             /\ \E e : EntriesOf(N, r, RefundKinds) = {e} /\ e.amount = rPrice[r]
    <3>1. EntriesOf(ledger', r, RefundKinds) = EntriesOf(N, r, RefundKinds)
      BY <1>4, <1>5, <2>2 DEF Books, Returned
    <3>2. refund'[r] = "Completed"
      BY <1>0, <2>2
    <3> QED BY <1>1, <2>2, <3>1, <3>2 DEF Returned
  <2> QED BY <2>1, <2>2
<1>9. HeldOnce(r)'
  <2>1. EntriesOf(ledger', r, HoldKinds) = EntriesOf(ledger, r, HoldKinds)
    BY <1>4
  <2>2. hold'[r] = "Absent" <=> hold[r] = "Absent"
    BY <1>0, <1>1 DEF Decided
  <2> QED BY <1>1, <1>5, <2>1, <2>2 DEF Books, HeldOnce
<1> QED BY <1>3, <1>6, <1>7, <1>8, <1>9 DEF Books

-----------------------------------------------------------------------------
(* Steps and wallets *)

\* Two different new entries add up.
LEMMA TwoMoreEntries ==
  ASSUME NEW L, WellFormed(L), NEW e, NEW f, e \notin L, f \notin L, e # f,
         e.amount \in Nat, f.amount \in Nat, NEW u, NEW M, M = L \cup {e, f}
  PROVE  WellFormed(M) /\ LedgerBalance(M, u) = LedgerBalance(L, u) + Effect(e, u) + Effect(f, u)
<1> DEFINE K == L \cup {e}
<1>1. WellFormed(K) /\ LedgerBalance(K, u) = LedgerBalance(L, u) + Effect(e, u)
  BY OneMoreEntry
<1>2. f \notin K /\ M = K \cup {f}
  OBVIOUS
<1> HIDE DEF K
<1>3. WellFormed(K \cup {f}) /\ LedgerBalance(K \cup {f}, u) = LedgerBalance(K, u) + Effect(f, u)
  <2>1. WellFormed(K) /\ f \notin K /\ f.amount \in Nat
    BY <1>1, <1>2
  <2> QED BY <2>1, OneMoreEntry
<1> QED BY <1>1, <1>2, <1>3

\* The money that a step moves: as much as its entries say, none of them an
\* adjustment of a rental.
Accounted ==
  WellFormed(ledger)' /\ AdminEntries' /\ WalletMatchesLedger'

LEMMA AccountedSame ==
  ASSUME MoneyInv, balance' = balance, ledger' = ledger
  PROVE  Accounted
BY DEF MoneyInv, Accounted, WellFormed, AdminEntries, WalletMatchesLedger

LEMMA AccountedOne ==
  ASSUME MoneyInv, NEW e, KeysUnused(ledger, {e}), e.amount \in Nat,
         e.kind \in {"AdminCredit", "AdminDebit"} => e.rental = NoRental,
         ledger' = ledger \cup {e}, \A u \in Users : balance'[u] = balance[u] + Effect(e, u)
  PROVE  Accounted
<1>1. e \notin ledger
  BY UnusedIsNew
<1>2. WellFormed(ledger)
  BY DEF MoneyInv
<1>3. ASSUME NEW u \in Users PROVE balance'[u] = LedgerBalance(ledger', u)
  <2>1. LedgerBalance(ledger \cup {e}, u) = LedgerBalance(ledger, u) + Effect(e, u)
    BY <1>1, <1>2, OneMoreEntry
  <2>2. balance[u] = LedgerBalance(ledger, u)
    BY DEF MoneyInv, WalletMatchesLedger
  <2> QED BY <2>1, <2>2
<1>4. WellFormed(ledger \cup {e})
  BY <1>1, <1>2, OneMoreEntry
<1>5. AdminEntries'
  BY DEF MoneyInv, AdminEntries
<1> QED BY <1>3, <1>4, <1>5 DEF Accounted, WalletMatchesLedger

LEMMA AccountedTwo ==
  ASSUME MoneyInv, NEW e, NEW f, KeysUnused(ledger, {e, f}), e # f, e.amount \in Nat, f.amount \in Nat,
         e.kind \notin {"AdminCredit", "AdminDebit"}, f.kind \notin {"AdminCredit", "AdminDebit"},
         ledger' = ledger \cup {e, f},
         \A u \in Users : balance'[u] = balance[u] + Effect(e, u) + Effect(f, u)
  PROVE  Accounted
<1>1. e \notin ledger /\ f \notin ledger
  BY UnusedIsNew
<1>2. WellFormed(ledger)
  BY DEF MoneyInv
<1>3. ASSUME NEW u \in Users PROVE balance'[u] = LedgerBalance(ledger', u)
  <2>1. LedgerBalance(ledger', u) = LedgerBalance(ledger, u) + Effect(e, u) + Effect(f, u)
    BY <1>1, <1>2, TwoMoreEntries
  <2>2. balance[u] = LedgerBalance(ledger, u)
    BY DEF MoneyInv, WalletMatchesLedger
  <2> QED BY <2>1, <2>2
<1>4. WellFormed(ledger')
  BY <1>1, <1>2, TwoMoreEntries
<1>5. AdminEntries'
  BY DEF MoneyInv, AdminEntries
<1> QED BY <1>3, <1>4, <1>5 DEF Accounted, WalletMatchesLedger

\* Paying: the charge moves what it says, holding the deposit moves nothing.
LEMMA AccountedActivate ==
  ASSUME MoneyInv, NEW r \in Rentals, AwaitsPayment(r),
         NEW kind \in ChargeKinds, NEW key, key # <<"deposit:hold", r>>, 
         Activate(r, {Entry(kind, key, rUser[r], r, AmountDue(r))}),
         \A u \in Users :
           balance'[u] = balance[u] + Effect(Entry(kind, key, rUser[r], r, AmountDue(r)), u)
  PROVE  Accounted
<1> DEFINE e == Entry(kind, key, rUser[r], r, AmountDue(r))
           f == Entry("DepositHeld", <<"deposit:hold", r>>, rUser[r], r, rDeposit[r])
<1>1. rPrice[r] \in Nat /\ rDeposit[r] \in Nat /\ AmountDue(r) \in Nat
  BY DEF MoneyInv, Agreement, TypeOK, RentalTypes, AmountDue
<1>2. /\ e.amount \in Nat /\ f.amount \in Nat /\ e.key # f.key
      /\ e.kind \in ChargeKinds /\ f.kind = "DepositHeld"
  BY <1>1 DEF Entry
<1>3. e.kind \notin {"AdminCredit", "AdminDebit"} /\ f.kind \notin {"AdminCredit", "AdminDebit"}
  BY <1>2 DEF ChargeKinds
<1>4. \A u : Effect(f, u) = 0 /\ Effect(e, u) \in Int
  BY <1>2 DEF Effect, CreditKinds, DebitKinds
<1>5. HoldEntry(r) = IF rDeposit[r] > 0 THEN {f} ELSE {}
  BY DEF HoldEntry
<1>6. KeysUnused(ledger, {e} \cup HoldEntry(r)) /\ ledger' = ledger \cup {e} \cup HoldEntry(r)
  BY DEF Activate
<1>7. \A u \in Users : balance'[u] = balance[u] + Effect(e, u) /\ balance[u] \in Int
  BY DEF MoneyInv, Agreement, TypeOK, MoneyTypes
<1> HIDE DEF e, f
<1>8. CASE rDeposit[r] > 0
  <2>1. KeysUnused(ledger, {e, f}) /\ ledger' = ledger \cup {e, f} /\ e # f
    BY <1>2, <1>5, <1>6, <1>8
  <2>2. \A u \in Users : balance'[u] = balance[u] + Effect(e, u) + Effect(f, u)
    BY <1>4, <1>7
  <2> QED BY <1>2, <1>3, <2>1, <2>2, AccountedTwo
<1>9. CASE ~(rDeposit[r] > 0)
  <2>1. KeysUnused(ledger, {e}) /\ ledger' = ledger \cup {e}
    BY <1>5, <1>6, <1>9
  <2> QED BY <1>2, <1>3, <1>7, <2>1, AccountedOne
<1> QED BY <1>8, <1>9

\* Settling: the customer's wallet gets what the entry says.
LEMMA AccountedSettle ==
  ASSUME MoneyInv, NEW r \in Rentals, pStatus[r] = "Success",
         NEW st, NEW src, NEW credit, NEW e, e.user = rUser[r], e.amount \in Nat,
         e.kind \notin {"AdminCredit", "AdminDebit"}, credit = Effect(e, rUser[r]),
         Settle(r, st, src, credit, {e})
  PROVE  Accounted
<1>1. rUser[r] \in Users
  BY DEF MoneyInv, Agreement, PaymentMatchesRental, TypeOK, RentalTypes
<1>2. balance \in [Users -> Int]
  BY DEF MoneyInv, Agreement, TypeOK, MoneyTypes
<1>3. \A u \in Users : balance'[u] = balance[u] + Effect(e, u)
  BY <1>1, <1>2 DEF Settle, Effect
<1> QED BY <1>3, AccountedOne DEF Settle

-----------------------------------------------------------------------------
(* What each action does to the books and to the wallets *)

MoneyStep == (\A r \in Rentals : Books(r)') /\ Accounted

LEMMA MoneySame ==
  ASSUME MoneyInv, balance' = balance, ledger' = ledger, pStatus' = pStatus, hold' = hold,
         refund' = refund, rPrice' = rPrice, rDeposit' = rDeposit
  PROVE  MoneyStep
<1>1. \A r, K : EntriesOf(ledger', r, K) = EntriesOf(ledger, r, K)
  OBVIOUS
<1>2. \A r \in Rentals : SameRow(r) /\ Books(r)
  BY DEF SameRow, MoneyInv
<1> QED BY <1>1, <1>2, BooksSame, AccountedSame DEF MoneyStep

\* A rental is ordered or given up: nothing is paid.
LEMMA MoneyUnpaid ==
  ASSUME MoneyInv, NEW r \in Rentals, rStatus[r] \in {"Absent", "Waiting"}, 
         pStatus'[r] # "Success", balance' = balance, ledger' = ledger, hold' = hold, refund' = refund,
         \A q \in Rentals : q # r => SameRow(q)
  PROVE  MoneyStep
<1>1. pStatus[r] # "Success" /\ hold[r] = "Absent"
  BY DEF MoneyInv, Agreement, PaymentMatchesRental
<1> QED BY <1>1, BooksUnpaid, AccountedSame DEF MoneyStep

\* The three kinds of settlement of a held deposit that move the deposit alone.
LEMMA MoneyDecides ==
  ASSUME MoneyInv, NEW r \in Rentals, hold[r] = "Held", pStatus[r] = "Success",
         NEW st \in {"Released", "Forfeited"}, NEW src, NEW key, NEW credit,
         credit = IF st = "Released" THEN rDeposit[r] ELSE 0,
         Settle(r, st, src, credit, {Entry(SettlementKind[st], key, rUser[r], r, rDeposit[r])}),
         refund' = refund
  PROVE  MoneyStep
<1> DEFINE e == Entry(SettlementKind[st], key, rUser[r], r, rDeposit[r])
<1>1. /\ e.kind = SettlementKind[st] /\ e.user = rUser[r] /\ e.rental = r /\ e.amount = rDeposit[r]
  BY DEF Entry
<1>2. SettlementKind[st] = IF st = "Released" THEN "DepositReleasedBalance" ELSE "DepositForfeited"
  BY DEF SettlementKind
<1>3. rDeposit[r] \in Nat
  BY DEF MoneyInv, Agreement, TypeOK, RentalTypes
<1>4. Settle(r, st, src, credit, {e})
  OBVIOUS
<1> HIDE DEF e
<1>5. credit = Effect(e, rUser[r])
  BY <1>1, <1>2, <1>3 DEF Effect, CreditKinds, DebitKinds
<1>6. Accounted
  BY <1>1, <1>2, <1>3, <1>4, <1>5, AccountedSettle
<1>7. /\ EntriesOf({e}, r, ChargeKinds) = {} /\ EntriesOf({e}, r, RefundKinds) = {}
      /\ EntriesOf({e}, r, SettlementKinds) = {e} /\ EntriesOf({e}, r, HoldKinds) = {}
  BY <1>1, <1>2 DEF EntriesOf, ChargeKinds, RefundKinds, SettlementKinds, HoldKinds
<1>8. \A q \in Rentals : Books(q)'
  <2>1. /\ hold[r] = "Held" /\ st \in Decided
        /\ \E x : EntriesOf({e}, r, SettlementKinds) = {x} /\ x.kind = SettlementKind[st] /\ x.amount = rDeposit[r]
    BY <1>1, <1>7 DEF Decided
  <2>2. \A n \in {e} : n.rental = r
    BY <1>1
  <2> QED BY <1>4, <1>7, <2>1, <2>2, BooksSettle
<1> QED BY <1>6, <1>8 DEF MoneyStep

LEMMA MoneyRelease ==
  ASSUME MoneyInv, NEW r \in Rentals, ReleaseDeposit(r) PROVE MoneyStep
<1>1. hold[r] = "Held" /\ pStatus[r] = "Success" /\ refund' = refund
  BY DEF ReleaseDeposit, Reviewable
<1>2. Settle(r, "Released", "AdminRelease", rDeposit[r],
             {Entry("DepositReleasedBalance", <<"deposit:release", r>>, rUser[r], r, rDeposit[r])})
  BY DEF ReleaseDeposit
<1>3. SettlementKind["Released"] = "DepositReleasedBalance"
  BY DEF SettlementKind
<1> QED BY <1>1, <1>2, <1>3, MoneyDecides

LEMMA MoneyForfeit ==
  ASSUME MoneyInv, NEW r \in Rentals, NEW t, ForfeitDeposit(r, t) PROVE MoneyStep
<1>1. hold[r] = "Held" /\ pStatus[r] = "Success" /\ refund' = refund
  BY DEF ForfeitDeposit, Reviewable
<1>2. Settle(r, "Forfeited", "AdminForfeit", 0,
             {Entry("DepositForfeited", <<"deposit:forfeit", r>>, rUser[r], r, rDeposit[r])})
  BY DEF ForfeitDeposit
<1>3. SettlementKind["Forfeited"] = "DepositForfeited"
  BY DEF SettlementKind
<1> QED BY <1>1, <1>2, <1>3, MoneyDecides

LEMMA MoneyFinalize ==
  ASSUME MoneyInv, NEW r \in Rentals, NEW t, FinalizeNext(r, t) PROVE MoneyStep
<1>1. pStatus[r] = "Success" /\ refund' = refund
  BY DEF FinalizeNext, IsHead, Finalizable
<1>2. CASE hold[r] = "Held"
  <2>1. Settle(r, "Released", "AutoRelease", rDeposit[r],
               {Entry("DepositReleasedBalance", <<"deposit:auto-release", r>>, rUser[r], r, rDeposit[r])})
    BY <1>2 DEF FinalizeNext, AutoReleaseEntries
  <2>2. SettlementKind["Released"] = "DepositReleasedBalance"
    BY DEF SettlementKind
  <2> QED BY <1>1, <1>2, <2>1, <2>2, MoneyDecides
<1>3. CASE hold[r] # "Held"
  <2>1. /\ ledger' = ledger /\ hold' = [hold EXCEPT ![r] = hold[r]]
        /\ balance' = [balance EXCEPT ![rUser[r]] = @ + 0]
        /\ pStatus' = pStatus /\ rPrice' = rPrice /\ rDeposit' = rDeposit
    BY <1>3 DEF FinalizeNext, Settle, orderVars, paymentVars
  <2>2. hold' = hold /\ balance' = balance
    BY <2>1 DEF MoneyInv, Agreement, TypeOK, PaymentTypes, MoneyTypes
  <2> QED BY <1>1, <2>1, <2>2, MoneySame
<1> QED BY <1>2, <1>3

\* A refund pays the price back, and the deposit if it is still held.
LEMMA MoneyRefund ==
  ASSUME MoneyInv, NEW r \in Rentals, RefundWalletPayment(r) PROVE MoneyStep
<1> DEFINE e == Entry("BalanceRefundCredit", <<"refund:wallet:principal", r>>, rUser[r], r, rPrice[r])
           f == Entry("DepositRefundCredit", <<"refund:wallet:deposit", r>>, rUser[r], r, rDeposit[r])
<1>1. /\ pStatus[r] = "Success" /\ refund[r] = "Absent"
      /\ refund' = [refund EXCEPT ![r] = "Completed"]
  BY DEF RefundWalletPayment, Refundable
<1>2. rPrice[r] \in Nat /\ rDeposit[r] \in Nat /\ rUser[r] \in Users /\ balance \in [Users -> Int]
  BY <1>1 DEF MoneyInv, Agreement, PaymentMatchesRental, TypeOK, RentalTypes, MoneyTypes
<1>3. /\ e.kind = "BalanceRefundCredit" /\ e.user = rUser[r] /\ e.rental = r /\ e.amount = rPrice[r]
      /\ f.kind = "DepositRefundCredit" /\ f.user = rUser[r] /\ f.rental = r /\ f.amount = rDeposit[r]
  BY DEF Entry
<1>4. CASE hold[r] = "Held"
  <2>1. rDeposit[r] > 0
    BY <1>1, <1>4 DEF MoneyInv, Agreement, PaymentMatchesRental
  <2>2. RefundableDeposit(r) = rDeposit[r]
    BY <1>4, <2>1 DEF RefundableDeposit
  <2>3. RefundEntries(r) = {e, f}
    BY <2>1, <2>2 DEF RefundEntries
  <2>4. Settle(r, "Refunded", "WalletRefund", rPrice[r] + rDeposit[r], {e, f})
    BY <2>1, <2>2, <2>3 DEF RefundWalletPayment
  <2> HIDE DEF e, f
  <2>5. \A u : Effect(e, u) + Effect(f, u) = IF u = rUser[r] THEN rPrice[r] + rDeposit[r] ELSE 0
    BY <1>2, <1>3 DEF Effect, CreditKinds
  <2>6. \A u \in Users : balance'[u] = balance[u] + Effect(e, u) + Effect(f, u)
    <3> SUFFICES ASSUME NEW u \in Users PROVE balance'[u] = balance[u] + Effect(e, u) + Effect(f, u)
      OBVIOUS
    <3>1. Effect(e, u) \in Int /\ Effect(f, u) \in Int /\ balance[u] \in Int
      BY <1>2, <1>3 DEF Effect
    <3>2. balance'[u] = IF u = rUser[r] THEN balance[u] + (rPrice[r] + rDeposit[r]) ELSE balance[u]
      BY <1>2, <2>4 DEF Settle
    <3> QED BY <1>2, <2>5, <3>1, <3>2
  <2>7. KeysUnused(ledger, {e, f}) /\ ledger' = ledger \cup {e, f} /\ e # f
    BY <1>3, <2>4 DEF Settle
  <2>8. Accounted
    BY <1>2, <1>3, <2>6, <2>7, AccountedTwo
  <2>9. /\ EntriesOf({e, f}, r, ChargeKinds) = {} /\ EntriesOf({e, f}, r, RefundKinds) = {e}
        /\ EntriesOf({e, f}, r, SettlementKinds) = {f} /\ EntriesOf({e, f}, r, HoldKinds) = {}
    BY <1>3 DEF EntriesOf, ChargeKinds, RefundKinds, SettlementKinds, HoldKinds
  <2>10. /\ "Refunded" \in Decided
         /\ \E x : EntriesOf({e, f}, r, SettlementKinds) = {x} /\ x.kind = SettlementKind["Refunded"] /\ x.amount = rDeposit[r]
    BY <1>3, <2>9 DEF Decided, SettlementKind
  <2>11. \E x : EntriesOf({e, f}, r, RefundKinds) = {x} /\ x.amount = rPrice[r]
    BY <1>3, <2>9
  <2>12. \A n \in {e, f} : n.rental = r
    BY <1>3
  <2>13. EntriesOf({e, f}, r, ChargeKinds) = {} /\ EntriesOf({e, f}, r, HoldKinds) = {}
    BY <2>9
  <2>14. \A q \in Rentals : Books(q)'
    <3> DEFINE N == {e, f}
    <3>1. /\ Settle(r, "Refunded", "WalletRefund", rPrice[r] + rDeposit[r], N)
          /\ \A n \in N : n.rental = r
          /\ EntriesOf(N, r, ChargeKinds) = {} /\ EntriesOf(N, r, HoldKinds) = {}
      BY <2>4, <2>12, <2>13
    <3>2. /\ hold[r] = "Held" /\ "Refunded" \in Decided
          /\ \E x : EntriesOf(N, r, SettlementKinds) = {x} /\ x.kind = SettlementKind["Refunded"] /\ x.amount = rDeposit[r]
      BY <1>4, <2>10
    <3>3. \E x : EntriesOf(N, r, RefundKinds) = {x} /\ x.amount = rPrice[r]
      BY <2>11
    <3> HIDE DEF N
    <3> QED BY <1>1, <3>1, <3>2, <3>3, BooksSettle
  <2> QED BY <2>8, <2>14 DEF MoneyStep
<1>5. CASE hold[r] # "Held"
  <2>1. RefundableDeposit(r) = 0
    BY <1>5 DEF RefundableDeposit
  <2>2. RefundEntries(r) = {e}
    BY <2>1 DEF RefundEntries
  <2>3. Settle(r, hold[r], holdSource[r], rPrice[r], {e})
    <3>1. rPrice[r] + RefundableDeposit(r) = rPrice[r] /\ ~(RefundableDeposit(r) > 0)
      BY <1>2, <2>1
    <3> QED BY <2>2, <3>1 DEF RefundWalletPayment
  <2> HIDE DEF e, f
  <2>4. rPrice[r] = Effect(e, rUser[r])
    BY <1>3 DEF Effect, CreditKinds
  <2>5. Accounted
    BY <1>1, <1>2, <1>3, <2>3, <2>4, AccountedSettle
  <2>6. /\ EntriesOf({e}, r, ChargeKinds) = {} /\ EntriesOf({e}, r, RefundKinds) = {e}
        /\ EntriesOf({e}, r, SettlementKinds) = {} /\ EntriesOf({e}, r, HoldKinds) = {}
    BY <1>3 DEF EntriesOf, ChargeKinds, RefundKinds, SettlementKinds, HoldKinds
  <2>7. \E x : EntriesOf({e}, r, RefundKinds) = {x} /\ x.amount = rPrice[r]
    BY <1>3, <2>6
  <2>8. \A n \in {e} : n.rental = r
    BY <1>3
  <2>9. \A q \in Rentals : Books(q)'
    BY <1>1, <2>3, <2>6, <2>7, <2>8, BooksSettle
  <2> QED BY <2>5, <2>9 DEF MoneyStep
<1> QED BY <1>4, <1>5

LEMMA MoneyPay ==
  ASSUME MoneyInv, NEW r \in Rentals, NEW s, PayRentalWithBalance(r, s) PROVE MoneyStep
<1> DEFINE e == Entry("BalanceDebit", <<"balance:debit", r>>, rUser[r], r, AmountDue(r))
<1>1. AwaitsPayment(r) /\ Activate(r, {e}) /\ balance' = [balance EXCEPT ![rUser[r]] = @ - AmountDue(r)]
  BY DEF PayRentalWithBalance
<1>2. /\ e.kind = "BalanceDebit" /\ e.user = rUser[r] /\ e.rental = r /\ e.amount = AmountDue(r)
      /\ <<"balance:debit", r>> # <<"deposit:hold", r>>
  BY DEF Entry
<1>3. AmountDue(r) \in Nat /\ balance \in [Users -> Int]
  BY DEF MoneyInv, Agreement, TypeOK, RentalTypes, MoneyTypes, AmountDue
<1>4. \A u \in Users : balance'[u] = balance[u] + Effect(e, u)
  BY <1>1, <1>2, <1>3 DEF Effect, CreditKinds, DebitKinds
<1>5. Accounted
  BY <1>1, <1>2, <1>4, AccountedActivate DEF ChargeKinds
<1>6. \A q \in Rentals : Books(q)'
  BY <1>1, <1>2, BooksActivate DEF ChargeKinds
<1> QED BY <1>5, <1>6 DEF MoneyStep

LEMMA MoneyWebhook ==
  ASSUME MoneyInv, NEW r \in Rentals, NEW x, NEW s, ProcessWebhook(r, x, s) PROVE MoneyStep
<1> DEFINE e == Entry("ProviderPaymentReceived", <<"payment:webhook", x>>, rUser[r], r, AmountDue(r))
<1>1. AwaitsPayment(r) /\ Activate(r, {e}) /\ balance' = balance
  BY WebhookProcesses DEF ProcessWebhook
<1>2. /\ e.kind = "ProviderPaymentReceived" /\ e.rental = r /\ e.amount = AmountDue(r)
      /\ <<"payment:webhook", x>> # <<"deposit:hold", r>>
  BY DEF Entry
<1>3. \A u \in Users : balance'[u] = balance[u] + Effect(e, u)
  BY <1>1, <1>2 DEF Effect, CreditKinds, DebitKinds, MoneyInv, Agreement, TypeOK, MoneyTypes
<1>4. Accounted
  BY <1>1, <1>2, <1>3, AccountedActivate DEF ChargeKinds
<1>5. \A q \in Rentals : Books(q)'
  BY <1>1, <1>2, BooksActivate DEF ChargeKinds
<1> QED BY <1>4, <1>5 DEF MoneyStep

LEMMA MoneyAdjust ==
  ASSUME MoneyInv, NEW k \in AdjustKeys, NEW u \in Users, NEW n \in Adjustments, AdjustAdminBalance(k, u, n)
  PROVE  MoneyStep
<1> DEFINE kind == IF n > 0 THEN "AdminCredit" ELSE "AdminDebit"
           size == IF n > 0 THEN n ELSE -n
           e == Entry(kind, <<"admin:balance", k>>, u, NoRental, size)
<1>1. n \in Int /\ size \in Nat
  BY PricingsAssumption
<1>2. e.kind = kind /\ e.user = u /\ e.rental = NoRental /\ e.amount = size
  BY DEF Entry
<1>3. /\ KeysUnused(ledger, {e}) /\ ledger' = ledger \cup {e}
      /\ balance' = [balance EXCEPT ![u] = @ + n]
      /\ pStatus' = pStatus /\ hold' = hold /\ refund' = refund /\ rPrice' = rPrice /\ rDeposit' = rDeposit
  BY DEF AdjustAdminBalance, orderVars, paymentVars, holdVars
<1> HIDE DEF e
<1>4. \A v \in Users : balance'[v] = balance[v] + Effect(e, v)
  BY <1>1, <1>2, <1>3 DEF Effect, CreditKinds, DebitKinds, MoneyInv, Agreement, TypeOK, MoneyTypes
<1>5. Accounted
  BY <1>1, <1>2, <1>3, <1>4, AccountedOne
<1>6. NoRental \notin Rentals
  BY RentalsAssumption
<1>7. \A q \in Rentals : Books(q)'
  <2>1. \A q \in Rentals : q # NoRental /\ SameRow(q)
    BY <1>3, <1>6 DEF SameRow
  <2> QED BY <1>2, <1>3, <2>1, OtherBooks
<1> QED BY <1>5, <1>7 DEF MoneyStep

LEMMA MoneyOrder ==
  ASSUME MoneyInv, NEW u, NEW a, NEW r \in Rentals, NEW h, NEW t, NEW s, RentAccount(u, a, r, h, t, s)
  PROVE  MoneyStep
<1>1. rStatus[r] = "Absent" /\ balance' = balance /\ ledger' = ledger /\ hold' = hold /\ refund' = refund
  BY DEF RentAccount, FreshId, moneyVars, holdVars
<1>2. pStatus'[r] # "Success" /\ \A q \in Rentals : q # r => SameRow(q)
  BY DEF RentAccount, SameRow, holdVars, MoneyInv, Agreement, TypeOK, RentalTypes, PaymentTypes
<1> QED BY <1>1, <1>2, MoneyUnpaid

LEMMA MoneyGivenUp ==
  ASSUME MoneyInv, NEW r \in Rentals, NEW st, AwaitsPayment(r), FreeUnpaid(r, st) PROVE MoneyStep
<1>1. rStatus[r] = "Waiting" /\ balance' = balance /\ ledger' = ledger /\ hold' = hold /\ refund' = refund
  BY DEF AwaitsPayment, FreeUnpaid, moneyVars, holdVars
<1>2. pStatus'[r] # "Success" /\ \A q \in Rentals : q # r => SameRow(q)
  BY DEF FreeUnpaid, SameRow, orderVars, holdVars, MoneyInv, Agreement, TypeOK, PaymentTypes
<1> QED BY <1>1, <1>2, MoneyUnpaid

LEMMA MoneyInit == Init => MoneyInv
<1> SUFFICES ASSUME Init PROVE MoneyInv
  OBVIOUS
<1>1. WellFormed(ledger) /\ AdminEntries
  BY FS_EmptySet DEF Init, WellFormed, Amounts, AdminEntries
<1>2. \A r \in Rentals : Books(r)
  BY DEF Init, Books, Charged, HeldOnce, Settled, Returned, Decided, EntriesOf
<1>3. WalletMatchesLedger
  <2>1. \A u : LedgerBalance({}, u) = 0
    <3> SUFFICES ASSUME NEW u PROVE LedgerBalance({}, u) = 0
      OBVIOUS
    <3>1. /\ {e \in {} : e.user = u /\ e.kind \in CreditKinds} = {}
          /\ {e \in {} : e.user = u /\ e.kind \in DebitKinds} = {}
      OBVIOUS
    <3>2. LedgerBalance({}, u) = Total({}) - Total({})
      BY <3>1 DEF LedgerBalance
    <3> QED BY <3>2, TotalEmpty
  <2>2. ledger = {} /\ \A u \in Users : balance[u] = 0
    BY DEF Init
  <2> QED BY <2>1, <2>2 DEF WalletMatchesLedger
<1> QED BY <1>1, <1>2, <1>3, AgreementInit DEF MoneyInv

LEMMA MoneyNext == MoneyInv /\ [Next]_vars => MoneyInv'
<1> SUFFICES ASSUME MoneyInv, [Next]_vars PROVE MoneyInv'
  OBVIOUS
<1>0. SUFFICES MoneyStep
  <2>1. Agreement'
    BY AgreementNext DEF MoneyInv
  <2> QED BY <2>1 DEF MoneyInv, MoneyStep, Accounted
<1> USE DEF acctVars, orderVars, paymentVars, holdVars, moneyVars
<1>1. CASE AdminStep
  <2>1. ASSUME NEW a \in Accounts, NEW p \in Pricings, CreateAccount(a, p) \/ UpdateAccount(a, p)
        PROVE  MoneyStep
    BY <2>1, MoneySame DEF CreateAccount, UpdateAccount
  <2>2. ASSUME NEW a \in Accounts, DisableAccountIfIdle(a) PROVE MoneyStep
    BY <2>2, MoneySame DEF DisableAccountIfIdle
  <2> QED BY <1>1, <2>1, <2>2, MoneyRelease, MoneyForfeit, MoneyRefund, MoneyAdjust DEF AdminStep
<1>2. CASE CustomerStep
  <2>1. ASSUME NEW r \in Rentals, CancelRental(r) PROVE MoneyStep
    BY <2>1, MoneyGivenUp DEF CancelRental
  <2>2. ASSUME NEW r \in Rentals, NEW t, GetRentalCredentials(r, t) PROVE MoneyStep
    BY <2>2, MoneySame DEF GetRentalCredentials
  <2> QED BY <1>2, <2>1, <2>2, MoneyOrder, MoneyPay DEF CustomerStep
<1>3. CASE ProviderStep
  BY <1>3, MoneyWebhook DEF ProviderStep
<1>4. CASE WorkerStep
  <2>1. ASSUME ScanWaiting \/ ScanExpired PROVE MoneyStep
    BY <2>1, MoneySame DEF ScanWaiting, ScanExpired
  <2>2. ASSUME NEW r \in Rentals, SkipWaiting(r) \/ SkipExpired(r) PROVE MoneyStep
    BY <2>2, MoneySame DEF SkipWaiting, SkipExpired
  <2>3. ASSUME NEW r \in Rentals, ExpireWaitingPaymentReservation(r) PROVE MoneyStep
    BY <2>3, MoneyGivenUp DEF ExpireWaitingPaymentReservation, PaymentOverdue
  <2>4. ASSUME NEW r \in Rentals, ExpireRental(r) PROVE MoneyStep
    BY <2>4, MoneySame DEF ExpireRental
  <2> QED BY <1>4, <2>1, <2>2, <2>3, <2>4, MoneyFinalize DEF WorkerStep, SweepWaiting, SweepExpired, Finalize
<1>5. CASE Restart \/ Tick
  BY <1>5, MoneySame DEF Restart, Tick
<1>6. CASE UNCHANGED vars
  BY <1>6, MoneySame DEF vars
<1> QED BY <1>1, <1>2, <1>3, <1>4, <1>5, <1>6 DEF Next

LEMMA MoneyHolds == Spec => []MoneyInv
BY MoneyInit, MoneyNext, PTL DEF Spec

-----------------------------------------------------------------------------
(* Paid rentals *)

\* Every rental that exists has a price: prices per hour and durations are positive.
Priced == \A r \in Rentals : rStatus[r] # "Absent" => rPrice[r] > 0

\* A refund completes its rental.
RefundedIsOver == \A r \in Rentals : refund[r] # "Absent" => rStatus[r] = "Completed"

\* What stays as it is once a rental is paid.
Stays ==
  \A r \in Rentals :
    pStatus[r] = "Success" =>
      /\ pStatus'[r] = "Success" /\ pProvider'[r] = pProvider[r]
      /\ rStatus[r] \in {"Expired", "Completed"} => rStatus'[r] \in {"Expired", "Completed"}
      /\ rPrice'[r] = rPrice[r] /\ rDeposit'[r] = rDeposit[r]
      /\ refund[r] = "Completed" => refund'[r] = "Completed"

PaidInv == Agreement /\ Priced /\ RefundedIsOver

Steady == Priced' /\ RefundedIsOver' /\ Stays

LEMMA SteadySame ==
  ASSUME PaidInv, rStatus' = rStatus, pStatus' = pStatus, pProvider' = pProvider, rPrice' = rPrice,
         rDeposit' = rDeposit, refund' = refund
  PROVE  Steady
BY DEF PaidInv, Steady, Priced, RefundedIsOver, Stays

\* The steps before a rental is paid, and the payment.
LEMMA SteadyUnpaid ==
  ASSUME PaidInv, NEW r \in Rentals, rStatus[r] \in {"Absent", "Waiting"}, refund' = refund, rPrice'[r] > 0,
         \A q \in Rentals : q # r => /\ rStatus'[q] = rStatus[q] /\ pStatus'[q] = pStatus[q]
                                  /\ rPrice'[q] = rPrice[q] /\ rDeposit'[q] = rDeposit[q]
                                  /\ pProvider'[q] = pProvider[q]
  PROVE  Steady
<1>1. pStatus[r] # "Success" /\ refund[r] = "Absent"
  BY DEF PaidInv, RefundedIsOver, Agreement, PaymentMatchesRental
<1> QED BY <1>1 DEF PaidInv, Steady, Priced, RefundedIsOver, Stays

LEMMA SteadySettlement ==
  ASSUME PaidInv, NEW r \in Rentals, NEW st, NEW src, NEW credit, NEW entries,
         Settle(r, st, src, credit, entries), rStatus[r] \in {"Expired", "Completed"},
         refund' = refund \/ refund' = [refund EXCEPT ![r] = "Completed"]
  PROVE  Steady
<1>1. /\ rStatus' = [rStatus EXCEPT ![r] = "Completed"] /\ pStatus' = pStatus /\ pProvider' = pProvider
      /\ rPrice' = rPrice /\ rDeposit' = rDeposit
  BY DEF Settle, orderVars, paymentVars
<1>2. rStatus \in [Rentals -> RentalStatuses] /\ refund \in [Rentals -> {"Absent", "Completed"}]
  BY DEF PaidInv, Agreement, TypeOK, RentalTypes, PaymentTypes
<1> QED BY <1>1, <1>2 DEF PaidInv, Steady, Priced, RefundedIsOver, Stays

LEMMA SteadyOrder ==
  ASSUME PaidInv, NEW u, NEW a \in Accounts, NEW r \in Rentals, NEW h \in Durations, NEW t, NEW s,
         RentAccount(u, a, r, h, t, s)
  PROVE  Steady
<1>1. acctPricing[a] \in Pricings
  BY DEF RentAccount, PaidInv, Agreement, TypeOK, AccountTypes
<1>2. acctPricing[a].hourly \in Nat \ {0} /\ h \in Nat \ {0}
  BY <1>1, PricingsAssumption, TimeAssumption
<1>3. acctPricing[a].hourly * h > 0
  BY <1>2
<1>4. rPrice'[r] > 0
  BY <1>3 DEF RentAccount, RentalPrice, PaidInv, Agreement, TypeOK, RentalTypes
<1>5. \A q \in Rentals : q # r => /\ rStatus'[q] = rStatus[q] /\ pStatus'[q] = pStatus[q]
                                  /\ rPrice'[q] = rPrice[q] /\ rDeposit'[q] = rDeposit[q]
                                  /\ pProvider'[q] = pProvider[q]
  BY DEF RentAccount, PaidInv, Agreement, TypeOK, RentalTypes, PaymentTypes
<1>6. rStatus[r] \in {"Absent", "Waiting"} /\ refund' = refund
  BY DEF RentAccount, FreshId, holdVars
<1> QED BY <1>4, <1>5, <1>6, SteadyUnpaid

LEMMA SteadyGivenUp ==
  ASSUME PaidInv, NEW r \in Rentals, NEW st, AwaitsPayment(r), FreeUnpaid(r, st)
  PROVE  Steady
<1>1. /\ rStatus[r] = "Waiting" /\ refund' = refund /\ rPrice' = rPrice /\ rDeposit' = rDeposit /\ pProvider' = pProvider
      /\ rStatus' = [rStatus EXCEPT ![r] = st] /\ pStatus' = [pStatus EXCEPT ![r] = "Failed"]
  BY DEF AwaitsPayment, FreeUnpaid, orderVars, holdVars
<1>2. rPrice'[r] > 0 /\ rStatus[r] \in {"Absent", "Waiting"}
  BY <1>1 DEF PaidInv, Priced
<1>3. \A q \in Rentals : q # r => /\ rStatus'[q] = rStatus[q] /\ pStatus'[q] = pStatus[q]
                                  /\ rPrice'[q] = rPrice[q] /\ rDeposit'[q] = rDeposit[q]
                                  /\ pProvider'[q] = pProvider[q]
  BY <1>1 DEF PaidInv, Agreement, TypeOK, RentalTypes, PaymentTypes
<1> QED BY <1>1, <1>2, <1>3, SteadyUnpaid

LEMMA SteadyPayment ==
  ASSUME PaidInv, NEW r \in Rentals, NEW entries, AwaitsPayment(r), Activate(r, entries),
         \A q \in Rentals : q # r => pProvider'[q] = pProvider[q]
  PROVE  Steady
<1>1. /\ rStatus[r] = "Waiting" /\ refund' = refund /\ rPrice' = rPrice /\ rDeposit' = rDeposit
      /\ rStatus' = [rStatus EXCEPT ![r] = "Active"] /\ pStatus' = [pStatus EXCEPT ![r] = "Success"]
  BY DEF AwaitsPayment, Activate, orderVars
<1>2. rPrice'[r] > 0 /\ rStatus[r] \in {"Absent", "Waiting"}
  BY <1>1 DEF PaidInv, Priced
<1>3. \A q \in Rentals : q # r => /\ rStatus'[q] = rStatus[q] /\ pStatus'[q] = pStatus[q]
                                  /\ rPrice'[q] = rPrice[q] /\ rDeposit'[q] = rDeposit[q]
                                  /\ pProvider'[q] = pProvider[q]
  BY <1>1 DEF PaidInv, Agreement, TypeOK, RentalTypes, PaymentTypes
<1> QED BY <1>1, <1>2, <1>3, SteadyUnpaid

LEMMA SteadyUsedUp ==
  ASSUME PaidInv, NEW r \in Rentals, ExpireRental(r)
  PROVE  Steady
<1>1. /\ rStatus[r] = "Active" /\ refund' = refund /\ rPrice' = rPrice /\ rDeposit' = rDeposit /\ pStatus' = pStatus /\ pProvider' = pProvider
      /\ rStatus' = [rStatus EXCEPT ![r] = "Expired"]
  BY DEF ExpireRental, UsageOver, orderVars, paymentVars, holdVars
<1>2. rStatus \in [Rentals -> RentalStatuses]
  BY DEF PaidInv, Agreement, TypeOK, RentalTypes
<1> QED BY <1>1, <1>2 DEF PaidInv, Steady, Priced, RefundedIsOver, Stays

LEMMA SteadyNext == PaidInv /\ [Next]_vars => Steady
<1> SUFFICES ASSUME PaidInv, [Next]_vars PROVE Steady
  OBVIOUS
<1> USE DEF acctVars, orderVars, paymentVars, holdVars
<1>0. Agreement /\ pProvider \in [Rentals -> {"internal", "balance", Null}]
  BY DEF PaidInv, Agreement, TypeOK, PaymentTypes
<1>1. CASE AdminStep
  <2>1. ASSUME NEW a \in Accounts, NEW p \in Pricings, CreateAccount(a, p) \/ UpdateAccount(a, p)
        PROVE  Steady
    BY <2>1, SteadySame DEF CreateAccount, UpdateAccount
  <2>2. ASSUME NEW a \in Accounts, DisableAccountIfIdle(a) PROVE Steady
    BY <2>2, SteadySame DEF DisableAccountIfIdle
  <2>3. ASSUME NEW r \in Rentals, NEW t, ReleaseDeposit(r) \/ ForfeitDeposit(r, t) PROVE Steady
    <3>1. refund' = refund
      BY <2>3 DEF ReleaseDeposit, ForfeitDeposit
    <3> QED BY <2>3, <3>1, DecisionSettles, SteadySettlement
  <2>4. ASSUME NEW r \in Rentals, RefundWalletPayment(r) PROVE Steady
    <3>1. refund' = [refund EXCEPT ![r] = "Completed"]
      BY <2>4 DEF RefundWalletPayment
    <3> QED BY <1>0, <2>4, <3>1, RefundSettles, SteadySettlement
  <2>5. ASSUME NEW k \in AdjustKeys, NEW u \in Users, NEW n \in Adjustments, AdjustAdminBalance(k, u, n)
        PROVE  Steady
    BY <2>5, SteadySame DEF AdjustAdminBalance
  <2> QED BY <1>1, <2>1, <2>2, <2>3, <2>4, <2>5 DEF AdminStep
<1>2. CASE CustomerStep
  <2>1. ASSUME NEW r \in Rentals, CancelRental(r) PROVE Steady
    BY <2>1, SteadyGivenUp DEF CancelRental
  <2>2. ASSUME NEW r \in Rentals, NEW s \in Recent, PayRentalWithBalance(r, s) PROVE Steady
    <3>1. \A q \in Rentals : q # r => pProvider'[q] = pProvider[q]
      BY <1>0, <2>2 DEF PayRentalWithBalance
    <3> QED BY <2>2, <3>1, SteadyPayment DEF PayRentalWithBalance
  <2>3. ASSUME NEW r \in Rentals, NEW t \in Recent, GetRentalCredentials(r, t) PROVE Steady
    BY <2>3, SteadySame DEF GetRentalCredentials
  <2> QED BY <1>2, <2>1, <2>2, <2>3, SteadyOrder DEF CustomerStep
<1>3. CASE ProviderStep
  <2>1. ASSUME NEW r \in Rentals, NEW x \in ExtTxs, NEW s \in Recent, ProcessWebhook(r, x, s) PROVE Steady
    BY <2>1, WebhookProcesses, SteadyPayment DEF ProcessWebhook
  <2> QED BY <1>3, <2>1 DEF ProviderStep
<1>4. CASE WorkerStep
  <2>1. ASSUME ScanWaiting \/ ScanExpired PROVE Steady
    BY <2>1, SteadySame DEF ScanWaiting, ScanExpired
  <2>2. ASSUME NEW r \in Rentals, SkipWaiting(r) \/ SkipExpired(r) PROVE Steady
    BY <2>2, SteadySame DEF SkipWaiting, SkipExpired
  <2>3. ASSUME NEW r \in Rentals, ExpireWaitingPaymentReservation(r) PROVE Steady
    BY <2>3, SteadyGivenUp DEF ExpireWaitingPaymentReservation, PaymentOverdue
  <2>4. ASSUME NEW r \in Rentals, NEW t, FinalizeNext(r, t) PROVE Steady
    <3>1. refund' = refund
      BY <2>4 DEF FinalizeNext
    <3> QED BY <1>0, <2>4, <3>1, FinalizeSettles, SteadySettlement
  <2> QED BY <1>4, <2>1, <2>2, <2>3, <2>4, SteadyUsedUp DEF WorkerStep, SweepWaiting, SweepExpired, Finalize
<1>5. CASE Restart \/ Tick
  BY <1>5, SteadySame DEF Restart, Tick
<1>6. CASE UNCHANGED vars
  BY <1>6, SteadySame DEF vars
<1> QED BY <1>1, <1>2, <1>3, <1>4, <1>5, <1>6 DEF Next

LEMMA PaidInit == Init => PaidInv
BY AgreementInit DEF Init, PaidInv, Priced, RefundedIsOver

LEMMA PaidNext == PaidInv /\ [Next]_vars => PaidInv'
BY SteadyNext, AgreementNext DEF PaidInv, Steady

-----------------------------------------------------------------------------
(* The theorems *)

\* Every wallet always holds what the append-only ledger adds up to, for any number
\* of customers, rentals and adjustments: no handler and no job moves money without
\* recording it, or records it without moving it.
THEOREM WalletsMatchLedger == Spec => []WalletMatchesLedger
<1>1. MoneyInv => WalletMatchesLedger
  BY DEF MoneyInv
<1> QED BY <1>1, MoneyHolds, PTL

\* What the books say of the sums that the properties form.
LEMMA ChargeTotals ==
  ASSUME MoneyInv, NEW r \in Rentals, pStatus[r] = "Success"
  PROVE  /\ Cardinality(EntriesOf(ledger, r, ChargeKinds)) = 1
         /\ Total(EntriesOf(ledger, r, ChargeKinds)) = rPrice[r] + rDeposit[r]
<1>1. PICK e : EntriesOf(ledger, r, ChargeKinds) = {e} /\ e.amount = rPrice[r] + rDeposit[r]
  BY DEF MoneyInv, Books, Charged
<1>2. e.amount \in Nat
  BY <1>1 DEF MoneyInv, Agreement, TypeOK, RentalTypes
<1>3. Cardinality({e}) = 1 /\ Total({e}) = e.amount
  BY <1>2, FS_Singleton, TotalSingle
<1> QED BY <1>1, <1>3

\* A paid rental is charged exactly once and in full, an unpaid one never, whatever
\* way webhooks, wallet payments, cancellation and clean-up interleave.
THEOREM ChargesOnce == Spec => []ChargedExactlyOnce
<1>1. MoneyInv => ChargedExactlyOnce
  <2> SUFFICES ASSUME MoneyInv, NEW r \in Rentals
               PROVE  IF pStatus[r] = "Success"
                      THEN /\ Cardinality(EntriesOf(ledger, r, ChargeKinds)) = 1
                           /\ Total(EntriesOf(ledger, r, ChargeKinds)) = rPrice[r] + rDeposit[r]
                      ELSE EntriesOf(ledger, r, ChargeKinds) = {}
    BY DEF ChargedExactlyOnce, ChargeKinds
  <2>1. CASE pStatus[r] = "Success"
    BY <2>1, ChargeTotals
  <2>2. CASE pStatus[r] # "Success"
    BY <2>2 DEF MoneyInv, Books, Charged
  <2> QED BY <2>1, <2>2
<1> QED BY <1>1, MoneyHolds, PTL

\* A deposit is settled at most once although release, forfeiture, automatic release
\* and refund use different idempotency keys, and the one entry is of the kind that
\* the hold's status says and over the full deposit.
THEOREM DepositsSettleOnce == Spec => []DepositSettledOnce
<1>1. {SettlementKind[k] : k \in DOMAIN SettlementKind} = SettlementKinds
  BY DEF SettlementKind, SettlementKinds
<1>2. MoneyInv => DepositSettledOnce
  <2> SUFFICES ASSUME MoneyInv, NEW r \in Rentals
               PROVE  LET settled == EntriesOf(ledger, r, SettlementKinds)
                      IN IF hold[r] \in DOMAIN SettlementKind
                         THEN \E e \in settled : /\ settled = {e} /\ e.kind = SettlementKind[hold[r]]
                                                 /\ e.amount = rDeposit[r]
                         ELSE settled = {}
    BY <1>1 DEF DepositSettledOnce
  <2>1. DOMAIN SettlementKind = Decided
    BY SettledStatuses DEF Decided
  <2>2. Settled(r)
    BY DEF MoneyInv, Books
  <2> QED BY <2>1, <2>2 DEF Settled
<1> QED BY <1>2, MoneyHolds, PTL

\* A customer never gets back more for a rental than was paid for it: the deposit
\* comes back once, by release or by refund, and the price once, by refund.
THEOREM PaysBackWithinPaid == Spec => []PaidBackWithinPaid
<1>1. MoneyInv => PaidBackWithinPaid
  <2> SUFFICES ASSUME MoneyInv, NEW r \in Rentals
               PROVE  Total(EntriesOf(ledger, r, CreditKinds)) <= Total(EntriesOf(ledger, r, ChargeKinds))
    BY DEF PaidBackWithinPaid, ChargeKinds
  <2> DEFINE credits == EntriesOf(ledger, r, CreditKinds)
             back == EntriesOf(ledger, r, {"DepositReleasedBalance", "DepositRefundCredit"})
             price == EntriesOf(ledger, r, RefundKinds)
  <2>1. Charged(r) /\ Settled(r) /\ Returned(r)
    BY DEF MoneyInv, Books
  <2>2. rPrice[r] \in Nat /\ rDeposit[r] \in Nat
    BY DEF MoneyInv, Agreement, TypeOK, RentalTypes
  <2>3. credits = back \cup price
    BY RentalsAssumption DEF EntriesOf, CreditKinds, RefundKinds, MoneyInv, AdminEntries
  <2>4. back \cap price = {}
    BY DEF EntriesOf, RefundKinds
  <2>5. back \subseteq EntriesOf(ledger, r, SettlementKinds)
    BY DEF EntriesOf, SettlementKinds
  <2>6. back = {} \/ \E e : back = {e} /\ e.amount = rDeposit[r]
    BY <2>1, <2>5 DEF Settled
  <2>7. price = {} \/ \E e : price = {e} /\ e.amount = rPrice[r]
    BY <2>1 DEF Returned
  <2>8. CASE pStatus[r] = "Success"
    <3>1. Total(EntriesOf(ledger, r, ChargeKinds)) = rPrice[r] + rDeposit[r]
      BY <2>8, ChargeTotals
    <3> HIDE DEF credits, back, price
    <3>2. Total(credits) \in Nat /\ Total(credits) <= rPrice[r] + rDeposit[r]
      <4>1. CASE back = {} /\ price = {}
        <5>1. credits = {}
          BY <2>3, <4>1
        <5> QED BY <2>2, <5>1, TotalEmpty
      <4>2. ASSUME NEW e, back = {e}, e.amount = rDeposit[r], price = {}
            PROVE  Total(credits) \in Nat /\ Total(credits) <= rPrice[r] + rDeposit[r]
        <5>1. credits = {e} /\ e.amount \in Nat
          BY <2>2, <2>3, <4>2
        <5> QED BY <2>2, <4>2, <5>1, TotalSingle
      <4>3. ASSUME NEW e, price = {e}, e.amount = rPrice[r], back = {}
            PROVE  Total(credits) \in Nat /\ Total(credits) <= rPrice[r] + rDeposit[r]
        <5>1. credits = {e} /\ e.amount \in Nat
          BY <2>2, <2>3, <4>3
        <5> QED BY <2>2, <4>3, <5>1, TotalSingle
      <4>4. ASSUME NEW e, NEW f, back = {e}, e.amount = rDeposit[r], price = {f}, f.amount = rPrice[r]
            PROVE  Total(credits) \in Nat /\ Total(credits) <= rPrice[r] + rDeposit[r]
        <5>1. credits = {e} \cup {f} /\ f \notin {e} /\ e.amount \in Nat /\ f.amount \in Nat
          BY <2>2, <2>3, <2>4, <4>4
        <5>2. IsFiniteSet({e}) /\ Amounts({e}) /\ Total({e}) = e.amount
          BY <5>1, FS_Singleton, TotalSingle DEF Amounts
        <5>3. Total({e} \cup {f}) = Total({e}) + f.amount
          BY <5>1, <5>2, TotalAdd
        <5>4. Total(credits) = Total({e}) + f.amount
          BY <5>1, <5>3, Zenon
        <5> QED BY <2>2, <4>4, <5>2, <5>4
      <4> QED BY <2>6, <2>7, <4>1, <4>2, <4>3, <4>4
    <3> QED BY <3>1, <3>2 DEF credits
  <2>9. CASE pStatus[r] # "Success"
    <3>1. hold[r] = "Absent"
      BY <2>9 DEF MoneyInv, Agreement, PaymentMatchesRental
    <3>2. EntriesOf(ledger, r, SettlementKinds) = {}
      BY <2>1, <3>1 DEF Settled, Decided
    <3>3. price = {}
      BY <2>1, <2>9 DEF Returned
    <3>4. credits = {} /\ EntriesOf(ledger, r, ChargeKinds) = {}
      BY <2>1, <2>3, <2>5, <2>9, <3>2, <3>3 DEF Charged
    <3> QED BY <3>4, TotalEmpty
  <2> QED BY <2>8, <2>9
<1> QED BY <1>1, MoneyHolds, PTL
-----------------------------------------------------------------------------
(* The fund of a rental *)

\* A set of at most one entry with the sum n.
Sole(S, n) == (S = {} /\ n = 0) \/ \E e : S = {e} /\ e.amount = n

LEMMA TotalSole == ASSUME NEW S, NEW n \in Nat, Sole(S, n) PROVE Total(S) = n
<1>1. CASE S = {} /\ n = 0
  BY <1>1, TotalEmpty
<1>2. ASSUME NEW e, S = {e}, e.amount = n PROVE Total(S) = n
  BY <1>2, TotalSingle
<1> QED BY <1>1, <1>2 DEF Sole

LEMMA TotalPair ==
  ASSUME NEW A, NEW B, NEW m \in Nat, NEW n \in Nat, A \cap B = {}, Sole(A, m), Sole(B, n)
  PROVE  Total(A \cup B) = m + n
<1>1. CASE B = {} /\ n = 0
  <2>1. A \cup B = A
    BY <1>1
  <2>2. Total(A) = m
    BY TotalSole
  <2> QED BY <1>1, <2>1, <2>2
<1>2. ASSUME NEW f, B = {f}, f.amount = n PROVE Total(A \cup B) = m + n
  <2>1. f \notin A /\ A \cup B = A \cup {f}
    BY <1>2
  <2>2. IsFiniteSet(A) /\ Amounts(A)
    <3>1. CASE A = {}
      BY <3>1, FS_EmptySet DEF Amounts
    <3>2. ASSUME NEW e, A = {e}, e.amount = m PROVE IsFiniteSet(A) /\ Amounts(A)
      BY <3>2, FS_Singleton DEF Amounts
    <3> QED BY <3>1, <3>2 DEF Sole
  <2>3. Total(A \cup {f}) = Total(A) + f.amount
    BY <1>2, <2>1, <2>2, TotalAdd
  <2>4. Total(A) = m
    BY TotalSole
  <2> QED BY <1>2, <2>1, <2>3, <2>4
<1> QED BY <1>1, <1>2 DEF Sole

\* What is left of the payment for a rental, by the statuses of its rows.
Outstanding(r) ==
  IF pStatus[r] = "Success"
  THEN (IF hold[r] \in Decided THEN 0 ELSE rDeposit[r]) + (IF refund[r] = "Completed" THEN 0 ELSE rPrice[r])
  ELSE 0

\* The ledger says the same.
FundsAgree == \A r \in Rentals : Fund(r) = Outstanding(r) /\ Outstanding(r) \in Nat

LEMMA FundIs == MoneyInv => FundsAgree
<1> SUFFICES ASSUME MoneyInv, NEW r \in Rentals PROVE Fund(r) = Outstanding(r) /\ Outstanding(r) \in Nat
  BY DEF FundsAgree
<1> DEFINE in == EntriesOf(ledger, r, ChargeKinds)
           out == EntriesOf(ledger, r, CreditKinds \cup {"DepositForfeited"})
           settled == EntriesOf(ledger, r, SettlementKinds)
           price == EntriesOf(ledger, r, RefundKinds)
           d == IF hold[r] \in Decided THEN rDeposit[r] ELSE 0
           p == IF refund[r] = "Completed" THEN rPrice[r] ELSE 0
<1>1. Charged(r) /\ Settled(r) /\ Returned(r)
  BY DEF MoneyInv, Books
<1>2. rPrice[r] \in Nat /\ rDeposit[r] \in Nat /\ d \in Nat /\ p \in Nat
  BY DEF MoneyInv, Agreement, TypeOK, RentalTypes
<1>3. out = settled \cup price
  BY RentalsAssumption DEF EntriesOf, CreditKinds, RefundKinds, SettlementKinds, MoneyInv, AdminEntries
<1>4. settled \cap price = {}
  BY DEF EntriesOf, RefundKinds, SettlementKinds
<1>5. Sole(settled, d) /\ Sole(price, p)
  BY <1>1 DEF Settled, Returned, Sole
<1>6. Fund(r) = Total(in) - Total(out)
  BY DEF Fund, ChargeKinds
<1>7. pStatus[r] # "Success" => hold[r] \notin Decided /\ refund[r] # "Completed" /\ in = {}
  BY <1>1 DEF MoneyInv, Agreement, PaymentMatchesRental, Decided, Returned, Charged
<1>8. pStatus[r] = "Success" => Total(in) = rPrice[r] + rDeposit[r]
  BY ChargeTotals
<1>9. Outstanding(r) = IF pStatus[r] = "Success" THEN rPrice[r] + rDeposit[r] - (d + p) ELSE 0
  BY <1>2 DEF Outstanding
<1>10. pStatus[r] # "Success" => d = 0 /\ p = 0
  BY <1>7
<1>11. /\ pStatus[r] = "Success" => Outstanding(r) \in Nat
  BY <1>2 DEF Outstanding
<1> HIDE DEF in, out, settled, price, d, p
<1>12. Total(out) = d + p
  BY <1>2, <1>3, <1>4, <1>5, TotalPair
<1>13. CASE pStatus[r] = "Success"
  BY <1>2, <1>6, <1>8, <1>9, <1>11, <1>12, <1>13
<1>14. CASE pStatus[r] # "Success"
  <2>1. Total(in) = 0
    BY <1>7, <1>14, TotalEmpty
  <2> QED BY <1>6, <1>9, <1>10, <1>12, <1>14, <2>1
<1> QED BY <1>13, <1>14

-----------------------------------------------------------------------------
(* The escrow *)

payerMap == [r \in Rentals |-> Payer(r)]
fundMap == [r \in Rentals |-> Fund(r)]
usedMap == {k \in AdjustKeys : \E e \in ledger : e.key = <<"admin:balance", k>>}

EscrowStep == [Custody!Next]_<<balance, payerMap, fundMap, usedMap>>

\* What the steps have in common: the money is in order before and after.
Trusted == MoneyInv /\ MoneyInv'

LEMMA FundsNext ==
  ASSUME Trusted
  PROVE  /\ \A r \in Rentals : fundMap[r] = Outstanding(r) /\ fundMap'[r] = Outstanding(r)'
         /\ fundMap \in [Rentals -> Nat] /\ fundMap' \in [Rentals -> Nat]
<1>1. FundsAgree
  BY FundIs DEF Trusted
<1>2. MoneyInv' => FundsAgree'
  BY FundIs, PTL
<1> QED BY <1>1, <1>2 DEF fundMap, Trusted, FundsAgree

\* Steps that move no money.
LEMMA EscrowSame ==
  ASSUME balance' = balance, ledger' = ledger, \A r \in Rentals : Payer(r)' = Payer(r) PROVE EscrowStep
<1>1. payerMap' = payerMap
  BY DEF payerMap
<1>2. fundMap' = fundMap /\ usedMap' = usedMap
  BY DEF fundMap, Fund, usedMap
<1> QED BY <1>1, <1>2 DEF EscrowStep

\* Entries with other keys are no adjustments.
LEMMA UsedSame ==
  ASSUME NEW N, ledger' = ledger \cup N, \A e \in N, k \in AdjustKeys : e.key # <<"admin:balance", k>>
  PROVE  usedMap' = usedMap
BY DEF usedMap

LEMMA OtherFunds ==
  ASSUME Trusted, NEW r \in Rentals, \A q \in Rentals : q # r => SameRow(q)
  PROVE  /\ fundMap' \in [Rentals -> Nat]
         /\ \A q \in Rentals \ {r} : fundMap'[q] = fundMap[q]
<1>1. \A q \in Rentals \ {r} : Outstanding(q)' = Outstanding(q)
  BY DEF SameRow, Outstanding
<1> QED BY <1>1, FundsNext

LEMMA EscrowPays ==
  ASSUME Trusted, PaidInv, NEW r \in Rentals, AwaitsPayment(r), NEW e, Activate(r, {e}),
         \A k \in AdjustKeys : e.key # <<"admin:balance", k>>,
         \/ balance' = balance
         \/ balance[rUser[r]] >= AmountDue(r) /\ balance' = [balance EXCEPT ![rUser[r]] = @ - AmountDue(r)]
  PROVE  EscrowStep
<1> DEFINE u == rUser[r]
<1>0. /\ pStatus \in [Rentals -> PayStatuses] /\ hold \in [Rentals -> HoldStatuses]
      /\ refund \in [Rentals -> {"Absent", "Completed"}] /\ balance \in [Users -> Nat]
      /\ rPrice[r] \in Nat /\ rDeposit[r] \in Nat
  BY DEF Trusted, MoneyInv, Agreement, TypeOK, PaymentTypes, MoneyTypes, RentalTypes
<1>1. /\ pStatus[r] = "Pending" /\ rStatus[r] = "Waiting" /\ hold[r] = "Absent"
      /\ pStatus' = [pStatus EXCEPT ![r] = "Success"] /\ refund' = refund
      /\ rUser' = rUser /\ rPrice' = rPrice /\ rDeposit' = rDeposit
      /\ hold' = [hold EXCEPT ![r] = IF rDeposit[r] > 0 THEN "Held" ELSE @]
      /\ ledger' = ledger \cup ({e} \cup HoldEntry(r))
  BY DEF AwaitsPayment, Activate, orderVars
<1>2. u \in Users /\ rPrice[r] > 0
  BY <1>1 DEF PaidInv, Agreement, TypeOK, RentalTypes, Priced
<1>3. \A q \in Rentals : q # r => SameRow(q)
  BY <1>0, <1>1 DEF SameRow
<1>4. fundMap' \in [Rentals -> Nat] /\ \A q \in Rentals \ {r} : fundMap'[q] = fundMap[q]
  BY <1>3, OtherFunds
<1>5. refund[r] = "Absent"
  BY <1>0, <1>1 DEF PaidInv, RefundedIsOver
<1>6. fundMap'[r] = AmountDue(r) /\ AmountDue(r) \in Nat /\ AmountDue(r) > 0
  <2>1. Outstanding(r)' = rDeposit[r] + rPrice[r]
    BY <1>0, <1>1, <1>5 DEF Outstanding, Decided
  <2>2. fundMap'[r] = rDeposit[r] + rPrice[r]
    BY <2>1, FundsNext
  <2> QED BY <1>0, <1>2, <2>2 DEF AmountDue
<1>7. payerMap[r] = Null /\ payerMap' = [payerMap EXCEPT ![r] = u]
  BY <1>0, <1>1 DEF payerMap, Payer
<1>8. usedMap' = usedMap
  <2>1. \A x \in {e} \cup HoldEntry(r), k \in AdjustKeys : x.key # <<"admin:balance", k>>
    BY DEF HoldEntry, Entry
  <2> HIDE DEF u
  <2> QED BY <1>1, <2>1, UsedSame
<1>9. \/ balance' = balance
      \/ balance[u] + (-fundMap'[r]) >= 0 /\ balance' = [balance EXCEPT ![u] = @ + (-fundMap'[r])]
  BY <1>0, <1>2, <1>6
<1>10. Custody!Pay(r, u)
  BY <1>4, <1>6, <1>7, <1>8, <1>9 DEF Custody!Pay, Custody!FundOf, Custody!Credit, payerMap, fundMap, usedMap
<1> QED BY <1>2, <1>10 DEF EscrowStep, Custody!Next

\* A settlement: what leaves the fund is credited or forfeited.
LEMMA EscrowSettles ==
  ASSUME Trusted, NEW r \in Rentals, pStatus[r] = "Success",
         NEW st, NEW src, NEW credit, NEW N, Settle(r, st, src, credit, N),
         \A e \in N, k \in AdjustKeys : e.key # <<"admin:balance", k>>,
         refund' = refund \/ refund' = [refund EXCEPT ![r] = "Completed"],
         Outstanding(r)' <= Outstanding(r), credit \in {0, Outstanding(r) - Outstanding(r)'}
  PROVE  EscrowStep
<1> DEFINE u == rUser[r]
<1>0. /\ hold \in [Rentals -> HoldStatuses] /\ refund \in [Rentals -> {"Absent", "Completed"}]
      /\ balance \in [Users -> Nat]
  BY DEF Trusted, MoneyInv, Agreement, TypeOK, PaymentTypes, MoneyTypes
<1>1. /\ pStatus' = pStatus /\ rUser' = rUser /\ rPrice' = rPrice /\ rDeposit' = rDeposit
      /\ hold' = [hold EXCEPT ![r] = st] /\ ledger' = ledger \cup N
      /\ balance' = [balance EXCEPT ![u] = @ + credit]
  BY DEF Settle, orderVars, paymentVars
<1>2. u \in Users /\ u # Null
  BY NullAssumption DEF Trusted, MoneyInv, Agreement, PaymentMatchesRental, TypeOK, RentalTypes
<1>3. \A q \in Rentals : q # r => SameRow(q)
  BY <1>0, <1>1 DEF SameRow
<1>4. fundMap' \in [Rentals -> Nat] /\ \A q \in Rentals \ {r} : fundMap'[q] = fundMap[q]
  BY <1>3, OtherFunds
<1>5. /\ fundMap[r] = Outstanding(r) /\ fundMap'[r] = Outstanding(r)'
      /\ fundMap[r] \in Nat /\ fundMap'[r] \in Nat /\ fundMap \in [Rentals -> Nat]
  BY FundsNext
<1>6. payerMap' = payerMap /\ payerMap[r] = u
  BY <1>1 DEF payerMap, Payer
<1>7. usedMap' = usedMap
  BY <1>1, UsedSame
<1> HIDE DEF u
<1>8. CASE Outstanding(r)' < Outstanding(r) /\ credit = Outstanding(r) - Outstanding(r)'
  <2>1. fundMap'[r] < fundMap[r] /\ credit = fundMap[r] - fundMap'[r] /\ balance[u] + credit >= 0
    BY <1>0, <1>2, <1>5, <1>8
  <2>2. Custody!GiveBack(r)
    BY <1>1, <1>2, <1>4, <1>6, <1>7, <2>1
       DEF Custody!GiveBack, Custody!FundOf, Custody!Credit, payerMap, fundMap, usedMap
  <2> QED BY <2>2 DEF EscrowStep, Custody!Next
<1>9. CASE Outstanding(r)' < Outstanding(r) /\ credit = 0
  <2>1. fundMap'[r] < fundMap[r] /\ balance' = balance
    BY <1>0, <1>1, <1>2, <1>5, <1>9
  <2>2. Custody!Forfeit(r)
    BY <1>4, <1>6, <1>7, <2>1 DEF Custody!Forfeit, Custody!FundOf, payerMap, fundMap, usedMap
  <2> QED BY <2>2 DEF EscrowStep, Custody!Next
<1>10. CASE Outstanding(r)' = Outstanding(r)
  <2>1. credit = 0
    BY <1>5, <1>10
  <2>2. balance' = balance
    BY <1>0, <1>1, <1>2, <2>1
  <2>3. fundMap' = fundMap
    BY <1>4, <1>5, <1>10
  <2> QED BY <1>6, <1>7, <2>2, <2>3 DEF EscrowStep
<1>11. Outstanding(r)' < Outstanding(r) \/ Outstanding(r)' = Outstanding(r)
  BY <1>5
<1> QED BY <1>8, <1>9, <1>10, <1>11

\* Release, forfeiture and automatic release of a held deposit.
LEMMA EscrowDecides ==
  ASSUME Trusted, NEW r \in Rentals, hold[r] = "Held", pStatus[r] = "Success",
         NEW st \in {"Released", "Forfeited"}, NEW src, NEW credit, NEW N, Settle(r, st, src, credit, N),
         \A e \in N, k \in AdjustKeys : e.key # <<"admin:balance", k>>,
         refund' = refund, credit \in {0, rDeposit[r]}
  PROVE  EscrowStep
<1>1. /\ hold \in [Rentals -> HoldStatuses] /\ rPrice[r] \in Nat /\ rDeposit[r] \in Nat
  BY DEF Trusted, MoneyInv, Agreement, TypeOK, PaymentTypes, RentalTypes
<1>2. /\ pStatus' = pStatus /\ rPrice' = rPrice /\ rDeposit' = rDeposit /\ hold'[r] = st
  BY <1>1 DEF Settle, orderVars, paymentVars
<1>3. PICK p \in Nat : p = IF refund[r] = "Completed" THEN 0 ELSE rPrice[r]
  BY <1>1
<1>4. Outstanding(r) = rDeposit[r] + p /\ Outstanding(r)' = p
  BY <1>1, <1>2, <1>3 DEF Outstanding, Decided
<1>5. Outstanding(r)' <= Outstanding(r) /\ credit \in {0, Outstanding(r) - Outstanding(r)'}
  BY <1>1, <1>4
<1> QED BY <1>5, EscrowSettles

LEMMA EscrowFinalize ==
  ASSUME Trusted, NEW r \in Rentals, NEW t, FinalizeNext(r, t) PROVE EscrowStep
<1>1. pStatus[r] = "Success" /\ refund' = refund
  BY DEF FinalizeNext, IsHead, Finalizable
<1>2. CASE hold[r] = "Held"
  <2>1. Settle(r, "Released", "AutoRelease", rDeposit[r], AutoReleaseEntries(r))
    BY <1>2 DEF FinalizeNext
  <2>2. \A e \in AutoReleaseEntries(r), k \in AdjustKeys : e.key # <<"admin:balance", k>>
    BY DEF AutoReleaseEntries, Entry
  <2> QED BY <1>1, <1>2, <2>1, <2>2, EscrowDecides
<1>3. CASE hold[r] # "Held"
  <2>1. Settle(r, hold[r], holdSource[r], 0, {})
    BY <1>3 DEF FinalizeNext
  <2>2. hold \in [Rentals -> HoldStatuses]
    BY DEF Trusted, MoneyInv, Agreement, TypeOK, PaymentTypes
  <2>3. Outstanding(r)' = Outstanding(r) /\ Outstanding(r) \in Nat
    <3>1. Outstanding(r)' = Outstanding(r)
      BY <1>1, <2>1, <2>2 DEF Settle, Outstanding, orderVars, paymentVars
    <3> QED BY <3>1, FundIs DEF Trusted, FundsAgree
  <2>4. Outstanding(r)' <= Outstanding(r)
    BY <2>3
  <2> QED BY <1>1, <2>1, <2>4, EscrowSettles
<1> QED BY <1>2, <1>3

LEMMA EscrowRefund ==
  ASSUME Trusted, NEW r \in Rentals, RefundWalletPayment(r) PROVE EscrowStep
<1> DEFINE st == IF RefundableDeposit(r) > 0 THEN "Refunded" ELSE hold[r]
           src == IF RefundableDeposit(r) > 0 THEN "WalletRefund" ELSE holdSource[r]
           credit == rPrice[r] + RefundableDeposit(r)
<1>1. /\ pStatus[r] = "Success" /\ refund[r] = "Absent" /\ refund' = [refund EXCEPT ![r] = "Completed"]
      /\ Settle(r, st, src, credit, RefundEntries(r))
  BY DEF RefundWalletPayment, Refundable
<1>2. /\ hold \in [Rentals -> HoldStatuses] /\ refund \in [Rentals -> {"Absent", "Completed"}]
      /\ rPrice[r] \in Nat /\ rDeposit[r] \in Nat
  BY DEF Trusted, MoneyInv, Agreement, TypeOK, PaymentTypes, RentalTypes
<1>3. /\ pStatus' = pStatus /\ rPrice' = rPrice /\ rDeposit' = rDeposit /\ hold'[r] = st
      /\ refund'[r] = "Completed"
  BY <1>1, <1>2 DEF Settle, orderVars, paymentVars
<1>4. rDeposit[r] > 0 <=> hold[r] # "Absent"
  BY <1>1 DEF Trusted, MoneyInv, Agreement, PaymentMatchesRental
<1>5. \A e \in RefundEntries(r), k \in AdjustKeys : e.key # <<"admin:balance", k>>
  BY DEF RefundEntries, Entry
<1>6. Outstanding(r) = credit /\ Outstanding(r)' = 0 /\ credit \in Nat
  <2>1. CASE hold[r] = "Held"
    <3>1. RefundableDeposit(r) = rDeposit[r] /\ rDeposit[r] > 0
      BY <1>4, <2>1 DEF RefundableDeposit
    <3>2. Outstanding(r) = rDeposit[r] + rPrice[r]
      BY <1>1, <2>1 DEF Outstanding, Decided
    <3>3. Outstanding(r)' = 0
      BY <1>1, <1>3, <3>1 DEF Outstanding, Decided
    <3> QED BY <1>2, <3>1, <3>2, <3>3
  <2>2. CASE hold[r] # "Held"
    <3>1. RefundableDeposit(r) = 0
      BY <2>2 DEF RefundableDeposit
    <3>2. hold[r] \in Decided \/ rDeposit[r] = 0
      BY <1>2, <1>4, <2>2 DEF Decided, HoldStatuses
    <3>3. Outstanding(r) = rPrice[r]
      BY <1>1, <1>2, <3>2 DEF Outstanding
    <3>4. Outstanding(r)' = 0
      BY <1>1, <1>3, <3>1, <3>2 DEF Outstanding
    <3> QED BY <1>2, <3>1, <3>3, <3>4
  <2> QED BY <2>1, <2>2
<1> HIDE DEF st, src, credit
<1>7. Outstanding(r)' <= Outstanding(r) /\ credit \in {0, Outstanding(r) - Outstanding(r)'}
  BY <1>6
<1> QED BY <1>1, <1>5, <1>7, EscrowSettles

LEMMA EscrowAdjusts ==
  ASSUME Trusted, NEW k \in AdjustKeys, NEW u \in Users, NEW n \in Adjustments, AdjustAdminBalance(k, u, n)
  PROVE  EscrowStep
<1> DEFINE e == Entry(IF n > 0 THEN "AdminCredit" ELSE "AdminDebit", <<"admin:balance", k>>, u, NoRental,
                      IF n > 0 THEN n ELSE -n)
<1>1. /\ KeysUnused(ledger, {e}) /\ ledger' = ledger \cup {e} /\ balance[u] + n >= 0
      /\ balance' = [balance EXCEPT ![u] = @ + n]
      /\ pStatus' = pStatus /\ rUser' = rUser /\ hold' = hold /\ refund' = refund
      /\ rPrice' = rPrice /\ rDeposit' = rDeposit
  BY DEF AdjustAdminBalance, orderVars, paymentVars, holdVars
<1>2. e.key = <<"admin:balance", k>>
  BY DEF Entry
<1>3. n \in Int /\ balance \in [Users -> Nat]
  BY PricingsAssumption DEF Trusted, MoneyInv, Agreement, TypeOK, MoneyTypes
<1> HIDE DEF e
<1>4. k \notin usedMap /\ usedMap' = usedMap \cup {k}
  BY <1>1, <1>2 DEF KeysUnused, usedMap
<1>5. payerMap' = payerMap
  BY <1>1 DEF payerMap, Payer
<1>6. fundMap' = fundMap
  <2>1. \A r \in Rentals : Outstanding(r)' = Outstanding(r)
    BY <1>1 DEF Outstanding
  <2> QED BY <2>1, FundsNext
<1>7. balance'[u] - balance[u] = n
  BY <1>1, <1>3
<1>8. balance[u] + (balance'[u] - balance[u]) >= 0 /\ balance' = [balance EXCEPT ![u] = @ + (balance'[u] - balance[u])]
  BY <1>1, <1>7
<1>9. Custody!Adjust(k, u)
  BY <1>4, <1>5, <1>6, <1>8 DEF Custody!Adjust, Custody!Credit, payerMap, fundMap, usedMap
<1> QED BY <1>9 DEF EscrowStep, Custody!Next

\* A rental is ordered or given up.
LEMMA EscrowUnpaid ==
  ASSUME NEW r \in Rentals, pStatus[r] # "Success", pStatus'[r] # "Success", balance' = balance, ledger' = ledger,
         \A q \in Rentals : q # r => pStatus'[q] = pStatus[q] /\ rUser'[q] = rUser[q]
  PROVE  EscrowStep
<1>1. \A q \in Rentals : Payer(q)' = Payer(q)
  BY DEF Payer
<1> QED BY <1>1, EscrowSame

LEMMA EscrowGivenUp ==
  ASSUME Trusted, NEW r \in Rentals, NEW st, AwaitsPayment(r), FreeUnpaid(r, st) PROVE EscrowStep
<1>1. pStatus \in [Rentals -> PayStatuses]
  BY DEF Trusted, MoneyInv, Agreement, TypeOK, PaymentTypes
<1> QED BY <1>1, EscrowUnpaid DEF AwaitsPayment, FreeUnpaid, orderVars, moneyVars

LEMMA EscrowNext == MoneyInv /\ MoneyInv' /\ PaidInv /\ [Next]_vars => EscrowStep
<1> SUFFICES ASSUME Trusted, PaidInv, [Next]_vars PROVE EscrowStep
  BY DEF Trusted
<1> USE DEF acctVars, orderVars, paymentVars, holdVars, moneyVars
<1>0. ASSUME balance' = balance, ledger' = ledger, pStatus' = pStatus, rUser' = rUser PROVE EscrowStep
  BY <1>0, EscrowSame DEF Payer
<1>1. CASE AdminStep
  <2>1. ASSUME NEW a \in Accounts, NEW p \in Pricings, CreateAccount(a, p) \/ UpdateAccount(a, p) PROVE EscrowStep
    BY <1>0, <2>1 DEF CreateAccount, UpdateAccount
  <2>2. ASSUME NEW a \in Accounts, DisableAccountIfIdle(a) PROVE EscrowStep
    BY <1>0, <2>2 DEF DisableAccountIfIdle
  <2>3. ASSUME NEW r \in Rentals, ReleaseDeposit(r) PROVE EscrowStep
    <3> DEFINE N == {Entry("DepositReleasedBalance", <<"deposit:release", r>>, rUser[r], r, rDeposit[r])}
    <3>1. /\ hold[r] = "Held" /\ pStatus[r] = "Success" /\ refund' = refund
          /\ Settle(r, "Released", "AdminRelease", rDeposit[r], N)
      BY <2>3 DEF ReleaseDeposit, Reviewable
    <3>2. \A e \in N, k \in AdjustKeys : e.key # <<"admin:balance", k>>
      BY DEF Entry
    <3> HIDE DEF N
    <3> QED BY <3>1, <3>2, EscrowDecides
  <2>4. ASSUME NEW r \in Rentals, NEW t \in Recent, ForfeitDeposit(r, t) PROVE EscrowStep
    <3> DEFINE N == {Entry("DepositForfeited", <<"deposit:forfeit", r>>, rUser[r], r, rDeposit[r])}
    <3>1. /\ hold[r] = "Held" /\ pStatus[r] = "Success" /\ refund' = refund
          /\ Settle(r, "Forfeited", "AdminForfeit", 0, N)
      BY <2>4 DEF ForfeitDeposit, Reviewable
    <3>2. \A e \in N, k \in AdjustKeys : e.key # <<"admin:balance", k>>
      BY DEF Entry
    <3> HIDE DEF N
    <3> QED BY <3>1, <3>2, EscrowDecides
  <2> QED BY <1>1, <2>1, <2>2, <2>3, <2>4, EscrowRefund, EscrowAdjusts DEF AdminStep
<1>2. CASE CustomerStep
  <2>1. ASSUME NEW u \in Users, NEW a \in Accounts, NEW r \in Rentals, NEW h \in Durations, NEW t, NEW s,
               RentAccount(u, a, r, h, t, s)
        PROVE  EscrowStep
    <3>1. pStatus[r] # "Success"
      BY <2>1 DEF RentAccount, FreshId, PaidInv, Agreement, PaymentMatchesRental
    <3>2. /\ pStatus'[r] # "Success" /\ balance' = balance /\ ledger' = ledger
          /\ \A q \in Rentals : q # r => pStatus'[q] = pStatus[q] /\ rUser'[q] = rUser[q]
      BY <2>1 DEF RentAccount, PaidInv, Agreement, TypeOK, PaymentTypes, RentalTypes
    <3> QED BY <3>1, <3>2, EscrowUnpaid
  <2>2. ASSUME NEW r \in Rentals, CancelRental(r) PROVE EscrowStep
    BY <2>2, EscrowGivenUp DEF CancelRental
  <2>3. ASSUME NEW r \in Rentals, NEW s \in Recent, PayRentalWithBalance(r, s) PROVE EscrowStep
    <3> DEFINE e == Entry("BalanceDebit", <<"balance:debit", r>>, rUser[r], r, AmountDue(r))
    <3>1. /\ AwaitsPayment(r) /\ Activate(r, {e}) /\ balance[rUser[r]] >= AmountDue(r)
          /\ balance' = [balance EXCEPT ![rUser[r]] = @ - AmountDue(r)]
      BY <2>3 DEF PayRentalWithBalance
    <3>2. \A k \in AdjustKeys : e.key # <<"admin:balance", k>>
      BY DEF Entry
    <3> HIDE DEF e
    <3> QED BY <3>1, <3>2, EscrowPays
  <2>4. ASSUME NEW r \in Rentals, NEW t \in Recent, GetRentalCredentials(r, t) PROVE EscrowStep
    BY <1>0, <2>4 DEF GetRentalCredentials
  <2> QED BY <1>2, <2>1, <2>2, <2>3, <2>4 DEF CustomerStep
<1>3. CASE ProviderStep
  <2>1. ASSUME NEW r \in Rentals, NEW x \in ExtTxs, NEW s \in Recent, ProcessWebhook(r, x, s) PROVE EscrowStep
    <3> DEFINE e == Entry("ProviderPaymentReceived", <<"payment:webhook", x>>, rUser[r], r, AmountDue(r))
    <3>1. AwaitsPayment(r) /\ Activate(r, {e}) /\ balance' = balance
      BY <2>1, WebhookProcesses DEF ProcessWebhook
    <3>2. \A k \in AdjustKeys : e.key # <<"admin:balance", k>>
      BY DEF Entry
    <3> HIDE DEF e
    <3> QED BY <3>1, <3>2, EscrowPays
  <2> QED BY <1>3, <2>1 DEF ProviderStep
<1>4. CASE WorkerStep
  <2>1. ASSUME ScanWaiting \/ ScanExpired PROVE EscrowStep
    BY <1>0, <2>1 DEF ScanWaiting, ScanExpired
  <2>2. ASSUME NEW r \in Rentals, SkipWaiting(r) \/ SkipExpired(r) PROVE EscrowStep
    BY <1>0, <2>2 DEF SkipWaiting, SkipExpired
  <2>3. ASSUME NEW r \in Rentals, ExpireWaitingPaymentReservation(r) PROVE EscrowStep
    BY <2>3, EscrowGivenUp DEF ExpireWaitingPaymentReservation, PaymentOverdue
  <2>4. ASSUME NEW r \in Rentals, ExpireRental(r) PROVE EscrowStep
    BY <1>0, <2>4 DEF ExpireRental
  <2> QED BY <1>4, <2>1, <2>2, <2>3, <2>4, EscrowFinalize DEF WorkerStep, SweepWaiting, SweepExpired, Finalize
<1>5. CASE Restart \/ Tick
  BY <1>0, <1>5 DEF Restart, Tick
<1>6. CASE UNCHANGED vars
  BY <1>0, <1>6 DEF vars
<1> QED BY <1>1, <1>2, <1>3, <1>4, <1>5, <1>6 DEF Next

\* Before the first payment there is no money.
LEMMA EscrowInit == Init => Custody!Init
<1> SUFFICES ASSUME Init PROVE Custody!Init
  OBVIOUS
<1>1. ledger = {} /\ balance = [u \in Users |-> 0] /\ \A r \in Rentals : pStatus[r] = "Absent"
  BY DEF Init
<1>2. \A r \in Rentals : Payer(r) = Null
  BY <1>1 DEF Payer
<1>3. \A r \in Rentals : Fund(r) = 0
  BY <1>1, MoneyInit, FundIs DEF FundsAgree, Outstanding
<1>4. usedMap = {}
  BY <1>1 DEF usedMap
<1> QED BY <1>1, <1>2, <1>3, <1>4 DEF Custody!Init, usedMap

\* The rental aggregate implements the escrow: whatever handlers and jobs do, and in
\* whatever order, the money that leaves a rental goes to the customer who paid for
\* it or is forfeited, never more than was paid, and an adjustment counts once.
THEOREM KeepsInTrust == Spec => HoldsMoney
<1>1. MoneyInv /\ MoneyInv' /\ PaidInv /\ [Next]_vars
        => [Custody!Next]_<<balance, payerMap, fundMap, usedMap>>
  BY EscrowNext DEF EscrowStep
<1>2. HoldsMoney <=> Custody!Init /\ [][Custody!Next]_<<balance, payerMap, fundMap, usedMap>>
  BY DEF HoldsMoney, Custody!Spec, payerMap, fundMap, usedMap
<1>3. Spec => []PaidInv
  BY PaidInit, PaidNext, PTL DEF Spec
<1> QED BY <1>1, <1>2, <1>3, EscrowInit, MoneyHolds, PTL DEF Spec
=============================================================================
