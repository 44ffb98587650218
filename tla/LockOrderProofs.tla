-------------------------- MODULE LockOrderProofs ---------------------------
(***************************************************************************)
(* Transactions that follow one of the two orders of row locks never       *)
(* wait for each other in a circle, for every number of them and every     *)
(* pool size.                                                              *)
(***************************************************************************)
EXTENDS LockOrder, SequenceTheorems, TLAPS

-----------------------------------------------------------------------------
(* The lock requests of one transaction *)

\* What it takes to be the concatenation of two sequences.
LEMMA Joined ==
  ASSUME NEW A, NEW s \in Seq(A), NEW t \in Seq(A), NEW u \in Seq(A), Len(u) = Len(s) + Len(t),
         \A i \in 1..Len(u) : u[i] = IF i <= Len(s) THEN s[i] ELSE t[i - Len(s)]
  PROVE  s \o t = u
<1>1. s \o t \in Seq(A) /\ Len(s \o t) = Len(u) /\ \A i \in 1..Len(s \o t) : (s \o t)[i] = u[i]
  BY ConcatProperties
<1> QED BY <1>1, SeqEqual

LEMMA TwoAndOne == ASSUME NEW a, NEW b, NEW c PROVE <<a, b>> \o <<c>> = <<a, b, c>>
<1> DEFINE A == {a, b, c}
           s == <<a, b>>
           t == <<c>>
           u == <<a, b, c>>
<1>1. s \in Seq(A) /\ t \in Seq(A) /\ u \in Seq(A) /\ Len(s) = 2 /\ Len(t) = 1 /\ Len(u) = 3
  OBVIOUS
<1>2. \A i \in 1..3 : u[i] = IF i <= 2 THEN s[i] ELSE t[i - 2]
  OBVIOUS
<1> HIDE DEF s, t, u, A
<1>3. Len(u) = Len(s) + Len(t) /\ \A i \in 1..Len(u) : u[i] = IF i <= Len(s) THEN s[i] ELSE t[i - Len(s)]
  BY <1>1, <1>2
<1>4. s \o t = u
  BY <1>1, <1>3, Joined, Zenon
<1> QED BY <1>4 DEF s, t, u

LEMMA OneAndTwo == ASSUME NEW a, NEW b, NEW c PROVE <<a>> \o <<b, c>> = <<a, b, c>>
<1> DEFINE A == {a, b, c}
           s == <<a>>
           t == <<b, c>>
           u == <<a, b, c>>
<1>1. s \in Seq(A) /\ t \in Seq(A) /\ u \in Seq(A) /\ Len(s) = 1 /\ Len(t) = 2 /\ Len(u) = 3
  OBVIOUS
<1>2. \A i \in 1..3 : u[i] = IF i <= 1 THEN s[i] ELSE t[i - 1]
  OBVIOUS
<1> HIDE DEF s, t, u, A
<1>3. Len(u) = Len(s) + Len(t) /\ \A i \in 1..Len(u) : u[i] = IF i <= Len(s) THEN s[i] ELSE t[i - Len(s)]
  BY <1>1, <1>2
<1>4. s \o t = u
  BY <1>1, <1>3, Joined, Zenon
<1> QED BY <1>4 DEF s, t, u

LEMMA ThreeAndFive ==
  ASSUME NEW a, NEW b, NEW c, NEW d, NEW e, NEW f, NEW g, NEW h
  PROVE  <<a, b, c>> \o <<d, e, f, g, h>> = <<a, b, c, d, e, f, g, h>>
<1> DEFINE A == {a, b, c, d, e, f, g, h}
           s == <<a, b, c>>
           t == <<d, e, f, g, h>>
           u == <<a, b, c, d, e, f, g, h>>
<1>1. s \in Seq(A) /\ t \in Seq(A) /\ u \in Seq(A) /\ Len(s) = 3 /\ Len(t) = 5 /\ Len(u) = 8
  OBVIOUS
<1>2. \A i \in 1..8 : u[i] = IF i <= 3 THEN s[i] ELSE t[i - 3]
  OBVIOUS
<1> HIDE DEF s, t, u, A
<1>3. Len(u) = Len(s) + Len(t) /\ \A i \in 1..Len(u) : u[i] = IF i <= Len(s) THEN s[i] ELSE t[i - Len(s)]
  BY <1>1, <1>2
<1>4. s \o t = u
  BY <1>1, <1>3, Joined, Zenon
<1> QED BY <1>4 DEF s, t, u

LEMMA TwoAndFive ==
  ASSUME NEW a, NEW b, NEW d, NEW e, NEW f, NEW g, NEW h
  PROVE  <<a, b>> \o <<d, e, f, g, h>> = <<a, b, d, e, f, g, h>>
<1> DEFINE A == {a, b, d, e, f, g, h}
           s == <<a, b>>
           t == <<d, e, f, g, h>>
           u == <<a, b, d, e, f, g, h>>
<1>1. s \in Seq(A) /\ t \in Seq(A) /\ u \in Seq(A) /\ Len(s) = 2 /\ Len(t) = 5 /\ Len(u) = 7
  OBVIOUS
<1>2. \A i \in 1..7 : u[i] = IF i <= 2 THEN s[i] ELSE t[i - 2]
  OBVIOUS
<1> HIDE DEF s, t, u, A
<1>3. Len(u) = Len(s) + Len(t) /\ \A i \in 1..Len(u) : u[i] = IF i <= Len(s) THEN s[i] ELSE t[i - Len(s)]
  BY <1>1, <1>2
<1>4. s \o t = u
  BY <1>1, <1>3, Joined, Zenon
<1> QED BY <1>4 DEF s, t, u

LEMMA SettleList ==
  ASSUME NEW r, NEW actor
  PROVE  SettleLocks(r, actor) =
           <<X("key", r), X("admin", "mutation"), X("user", actor), X("rental", r), X("account", Acct(r)),
             X("payment", r), X("hold", r), X("user", User(r))>>
<1>1. <<X("key", r)>> \o AdminLocks(actor) = <<X("key", r), X("admin", "mutation"), X("user", actor)>>
  BY OneAndTwo, Zenon DEF AdminLocks
<1>2. <<X("key", r), X("admin", "mutation"), X("user", actor)>> \o SettlementLocks(r) =
        <<X("key", r), X("admin", "mutation"), X("user", actor), X("rental", r), X("account", Acct(r)),
          X("payment", r), X("hold", r), X("user", User(r))>>
  BY ThreeAndFive DEF SettlementLocks
<1> QED BY <1>1, <1>2, Zenon DEF SettleLocks

LEMMA FinalizeList ==
  ASSUME NEW r
  PROVE  FinalizeLocks(r) =
           <<Skip("key", r), Skip("rental", r), X("rental", r), X("account", Acct(r)),
             X("payment", r), X("hold", r), X("user", User(r))>>
BY TwoAndFive DEF FinalizeLocks, SettlementLocks

LEMMA AdjustList ==
  ASSUME NEW r, NEW actor
  PROVE  AdjustLocks(r, actor) = <<X("admin", "mutation"), X("user", actor), X("user", User(r))>>
BY TwoAndOne, Zenon DEF AdjustLocks, AdminLocks

LEMMA AccountAdminList ==
  ASSUME NEW r, NEW actor
  PROVE  AccountAdminLocks(r, actor) = <<X("admin", "mutation"), X("user", actor), X("account", Acct(r))>>
BY TwoAndOne, Zenon DEF AccountAdminLocks, AdminLocks

-----------------------------------------------------------------------------
(* Two orders of locks *)

\* Rows that RentalOrder handlers lock only after their rental's row.
Guarded == {"payment", "hold"}

Rank(lock) ==
  IF lock[1] = "key" THEN 1
  ELSE IF lock[1] = "admin" THEN 2
  ELSE IF lock[1] = "user" THEN IF lock[2] \in Customers THEN 7 ELSE 3
  ELSE IF lock[1] = "payment" THEN 4
  ELSE IF lock[1] = "rental" THEN 5
  ELSE 6

\* Requests come in ascending order, apart from those of kinds P: they come
\* after the request for the rental they belong to.
InOrder(q, j, P) ==
  IF q[j].lock[1] \in P
  THEN \E i \in 1..(j - 1) : q[i].lock = <<"rental", q[j].lock[2]>> /\ q[i].mode = "X"
  ELSE \A i \in 1..(j - 1) :
         \/ q[i].lock[1] \in P
         \/ Rank(q[i].lock) < Rank(q[j].lock)
         \/ q[i].lock = q[j].lock /\ q[i].mode = "X"

Ordered(q, P) == Len(q) \in Nat /\ \A j \in 1..Len(q) : InOrder(q, j, P)

LEMMA CustomerOf == ASSUME NEW r \in DOMAIN Customer PROVE User(r) \in Customers
BY DEF User, Customers

LEMMA OrderOrdered ==
  ASSUME NEW r \in DOMAIN Customer, NEW P \in {{}, Guarded}
  PROVE  Ordered(RentAccountLocks(r), P)
<1> DEFINE q == RentAccountLocks(r)
<1>1. /\ Len(q) = 2
      /\ q[1] = X("account", Acct(r))
      /\ q[2] = KS("user", User(r))
  BY DEF RentAccountLocks
<1> HIDE DEF q
<1>2. /\ q[1].lock[1] = "account" /\ q[1].lock[2] = Acct(r)
      /\ q[2].lock[1] = "user" /\ q[2].lock[2] = User(r)
  BY <1>1 DEF X, KS, Skip
<1>3. /\ Rank(q[1].lock) = 6 /\ Rank(q[2].lock) = 7
  BY <1>2, CustomerOf DEF Rank
<1>4. /\ InOrder(q, 1, P)
      /\ InOrder(q, 2, P)
  BY <1>2, <1>3 DEF InOrder, Guarded
<1> QED BY <1>1, <1>4 DEF Ordered, q

LEMMA AdjustOrdered ==
  ASSUME NEW r \in DOMAIN Customer, NEW actor, actor \notin Customers, NEW P \in {{}, Guarded}
  PROVE  Ordered(AdjustLocks(r, actor), P)
<1> DEFINE q == AdjustLocks(r, actor)
<1>1. /\ Len(q) = 3
      /\ q[1] = X("admin", "mutation")
      /\ q[2] = X("user", actor)
      /\ q[3] = X("user", User(r))
  BY AdjustList
<1> HIDE DEF q
<1>2. /\ q[1].lock[1] = "admin" /\ q[1].lock[2] = "mutation"
      /\ q[2].lock[1] = "user" /\ q[2].lock[2] = actor
      /\ q[3].lock[1] = "user" /\ q[3].lock[2] = User(r)
  BY <1>1 DEF X, KS, Skip
<1>3. /\ Rank(q[1].lock) = 2 /\ Rank(q[2].lock) = 3 /\ Rank(q[3].lock) = 7
  BY <1>2, CustomerOf DEF Rank
<1>4. /\ InOrder(q, 1, P)
      /\ InOrder(q, 2, P)
      /\ InOrder(q, 3, P)
  BY <1>2, <1>3 DEF InOrder, Guarded
<1> QED BY <1>1, <1>4 DEF Ordered, q

LEMMA AccountAdminOrdered ==
  ASSUME NEW r \in DOMAIN Customer, NEW actor, actor \notin Customers, NEW P \in {{}, Guarded}
  PROVE  Ordered(AccountAdminLocks(r, actor), P)
<1> DEFINE q == AccountAdminLocks(r, actor)
<1>1. /\ Len(q) = 3
      /\ q[1] = X("admin", "mutation")
      /\ q[2] = X("user", actor)
      /\ q[3] = X("account", Acct(r))
  BY AccountAdminList
<1> HIDE DEF q
<1>2. /\ q[1].lock[1] = "admin" /\ q[1].lock[2] = "mutation"
      /\ q[2].lock[1] = "user" /\ q[2].lock[2] = actor
      /\ q[3].lock[1] = "account" /\ q[3].lock[2] = Acct(r)
  BY <1>1 DEF X, KS, Skip
<1>3. /\ Rank(q[1].lock) = 2 /\ Rank(q[2].lock) = 3 /\ Rank(q[3].lock) = 6
  BY <1>2, CustomerOf DEF Rank
<1>4. /\ InOrder(q, 1, P)
      /\ InOrder(q, 2, P)
      /\ InOrder(q, 3, P)
  BY <1>2, <1>3 DEF InOrder, Guarded
<1> QED BY <1>1, <1>4 DEF Ordered, q

LEMMA WebhookOrdered ==
  ASSUME NEW r \in DOMAIN Customer
  PROVE  Ordered(WebhookLocks(r), {})
<1> DEFINE q == WebhookLocks(r)
<1>1. /\ Len(q) = 4
      /\ q[1] = X("payment", r)
      /\ q[2] = X("rental", r)
      /\ q[3] = X("account", Acct(r))
      /\ q[4] = KS("user", User(r))
  BY DEF WebhookLocks
<1> HIDE DEF q
<1>2. /\ q[1].lock[1] = "payment" /\ q[1].lock[2] = r
      /\ q[2].lock[1] = "rental" /\ q[2].lock[2] = r
      /\ q[3].lock[1] = "account" /\ q[3].lock[2] = Acct(r)
      /\ q[4].lock[1] = "user" /\ q[4].lock[2] = User(r)
  BY <1>1 DEF X, KS, Skip
<1>3. /\ Rank(q[1].lock) = 4 /\ Rank(q[2].lock) = 5 /\ Rank(q[3].lock) = 6 /\ Rank(q[4].lock) = 7
  BY <1>2, CustomerOf DEF Rank
<1>4. /\ InOrder(q, 1, {})
      /\ InOrder(q, 2, {})
      /\ InOrder(q, 3, {})
      /\ InOrder(q, 4, {})
  BY <1>2, <1>3 DEF InOrder, Guarded
<1> QED BY <1>1, <1>4 DEF Ordered, q

LEMMA WalletOrdered ==
  ASSUME NEW r \in DOMAIN Customer
  PROVE  Ordered(WalletLocks(r), {})
<1> DEFINE q == WalletLocks(r)
<1>1. /\ Len(q) = 4
      /\ q[1] = X("payment", r)
      /\ q[2] = X("rental", r)
      /\ q[3] = X("account", Acct(r))
      /\ q[4] = X("user", User(r))
  BY DEF WalletLocks
<1> HIDE DEF q
<1>2. /\ q[1].lock[1] = "payment" /\ q[1].lock[2] = r
      /\ q[2].lock[1] = "rental" /\ q[2].lock[2] = r
      /\ q[3].lock[1] = "account" /\ q[3].lock[2] = Acct(r)
      /\ q[4].lock[1] = "user" /\ q[4].lock[2] = User(r)
  BY <1>1 DEF X, KS, Skip
<1>3. /\ Rank(q[1].lock) = 4 /\ Rank(q[2].lock) = 5 /\ Rank(q[3].lock) = 6 /\ Rank(q[4].lock) = 7
  BY <1>2, CustomerOf DEF Rank
<1>4. /\ InOrder(q, 1, {})
      /\ InOrder(q, 2, {})
      /\ InOrder(q, 3, {})
      /\ InOrder(q, 4, {})
  BY <1>2, <1>3 DEF InOrder, Guarded
<1> QED BY <1>1, <1>4 DEF Ordered, q

LEMMA CancelOrdered ==
  ASSUME NEW r \in DOMAIN Customer
  PROVE  Ordered(CancelLocks(r), Guarded)
<1> DEFINE q == CancelLocks(r)
<1>1. /\ Len(q) = 4
      /\ q[1] = X("rental", r)
      /\ q[2] = X("payment", r)
      /\ q[3] = X("account", Acct(r))
      /\ q[4] = KS("user", User(r))
  BY DEF CancelLocks
<1> HIDE DEF q
<1>2. /\ q[1].lock[1] = "rental" /\ q[1].lock[2] = r /\ q[1].lock = <<"rental", r>> /\ q[1].mode = "X"
      /\ q[2].lock[1] = "payment" /\ q[2].lock[2] = r
      /\ q[3].lock[1] = "account" /\ q[3].lock[2] = Acct(r)
      /\ q[4].lock[1] = "user" /\ q[4].lock[2] = User(r)
  BY <1>1 DEF X, KS, Skip
<1>3. /\ Rank(q[1].lock) = 5 /\ Rank(q[3].lock) = 6 /\ Rank(q[4].lock) = 7
  BY <1>2, CustomerOf DEF Rank
<1>4. /\ InOrder(q, 1, Guarded)
      /\ InOrder(q, 2, Guarded)
      /\ InOrder(q, 3, Guarded)
      /\ InOrder(q, 4, Guarded)
  BY <1>2, <1>3 DEF InOrder, Guarded
<1> QED BY <1>1, <1>4 DEF Ordered, q

LEMMA CredentialsOrdered ==
  ASSUME NEW r \in DOMAIN Customer
  PROVE  Ordered(CredentialsLocks(r), Guarded)
<1> DEFINE q == CredentialsLocks(r)
<1>1. /\ Len(q) = 4
      /\ q[1] = X("rental", r)
      /\ q[2] = X("account", Acct(r))
      /\ q[3] = X("payment", r)
      /\ q[4] = KS("user", User(r))
  BY DEF CredentialsLocks
<1> HIDE DEF q
<1>2. /\ q[1].lock[1] = "rental" /\ q[1].lock[2] = r /\ q[1].lock = <<"rental", r>> /\ q[1].mode = "X"
      /\ q[2].lock[1] = "account" /\ q[2].lock[2] = Acct(r)
      /\ q[3].lock[1] = "payment" /\ q[3].lock[2] = r
      /\ q[4].lock[1] = "user" /\ q[4].lock[2] = User(r)
  BY <1>1 DEF X, KS, Skip
<1>3. /\ Rank(q[1].lock) = 5 /\ Rank(q[2].lock) = 6 /\ Rank(q[4].lock) = 7
  BY <1>2, CustomerOf DEF Rank
<1>4. /\ InOrder(q, 1, Guarded)
      /\ InOrder(q, 2, Guarded)
      /\ InOrder(q, 3, Guarded)
      /\ InOrder(q, 4, Guarded)
  BY <1>2, <1>3 DEF InOrder, Guarded
<1> QED BY <1>1, <1>4 DEF Ordered, q

LEMMA ExpireRentalOrdered ==
  ASSUME NEW r \in DOMAIN Customer
  PROVE  Ordered(ExpireRentalLocks(r), Guarded)
<1> DEFINE q == ExpireRentalLocks(r)
<1>1. /\ Len(q) = 3
      /\ q[1] = Skip("rental", r)
      /\ q[2] = Skip("account", Acct(r))
      /\ q[3] = KS("user", User(r))
  BY DEF ExpireRentalLocks
<1> HIDE DEF q
<1>2. /\ q[1].lock[1] = "rental" /\ q[1].lock[2] = r /\ q[1].lock = <<"rental", r>> /\ q[1].mode = "X"
      /\ q[2].lock[1] = "account" /\ q[2].lock[2] = Acct(r)
      /\ q[3].lock[1] = "user" /\ q[3].lock[2] = User(r)
  BY <1>1 DEF X, KS, Skip
<1>3. /\ Rank(q[1].lock) = 5 /\ Rank(q[2].lock) = 6 /\ Rank(q[3].lock) = 7
  BY <1>2, CustomerOf DEF Rank
<1>4. /\ InOrder(q, 1, Guarded)
      /\ InOrder(q, 2, Guarded)
      /\ InOrder(q, 3, Guarded)
  BY <1>2, <1>3 DEF InOrder, Guarded
<1> QED BY <1>1, <1>4 DEF Ordered, q

LEMMA SettleOrdered ==
  ASSUME NEW r \in DOMAIN Customer, NEW actor, actor \notin Customers
  PROVE  Ordered(SettleLocks(r, actor), Guarded)
<1> DEFINE q == SettleLocks(r, actor)
<1>1. /\ Len(q) = 8
      /\ q[1] = X("key", r)
      /\ q[2] = X("admin", "mutation")
      /\ q[3] = X("user", actor)
      /\ q[4] = X("rental", r)
      /\ q[5] = X("account", Acct(r))
      /\ q[6] = X("payment", r)
      /\ q[7] = X("hold", r)
      /\ q[8] = X("user", User(r))
  BY SettleList
<1> HIDE DEF q
<1>2. /\ q[1].lock[1] = "key" /\ q[1].lock[2] = r
      /\ q[2].lock[1] = "admin" /\ q[2].lock[2] = "mutation"
      /\ q[3].lock[1] = "user" /\ q[3].lock[2] = actor
      /\ q[4].lock[1] = "rental" /\ q[4].lock[2] = r /\ q[4].lock = <<"rental", r>> /\ q[4].mode = "X"
      /\ q[5].lock[1] = "account" /\ q[5].lock[2] = Acct(r)
      /\ q[6].lock[1] = "payment" /\ q[6].lock[2] = r
      /\ q[7].lock[1] = "hold" /\ q[7].lock[2] = r
      /\ q[8].lock[1] = "user" /\ q[8].lock[2] = User(r)
  BY <1>1 DEF X, KS, Skip
<1>3. /\ Rank(q[1].lock) = 1 /\ Rank(q[2].lock) = 2 /\ Rank(q[3].lock) = 3 /\ Rank(q[4].lock) = 5 /\ Rank(q[5].lock) = 6 /\ Rank(q[8].lock) = 7
  BY <1>2, CustomerOf DEF Rank
<1>4. /\ InOrder(q, 1, Guarded)
      /\ InOrder(q, 2, Guarded)
      /\ InOrder(q, 3, Guarded)
      /\ InOrder(q, 4, Guarded)
      /\ InOrder(q, 5, Guarded)
      /\ InOrder(q, 6, Guarded)
      /\ InOrder(q, 7, Guarded)
      /\ InOrder(q, 8, Guarded)
  BY <1>2, <1>3 DEF InOrder, Guarded
<1> QED BY <1>1, <1>4 DEF Ordered, q

LEMMA FinalizeOrdered ==
  ASSUME NEW r \in DOMAIN Customer
  PROVE  Ordered(FinalizeLocks(r), Guarded)
<1> DEFINE q == FinalizeLocks(r)
<1>1. /\ Len(q) = 7
      /\ q[1] = Skip("key", r)
      /\ q[2] = Skip("rental", r)
      /\ q[3] = X("rental", r)
      /\ q[4] = X("account", Acct(r))
      /\ q[5] = X("payment", r)
      /\ q[6] = X("hold", r)
      /\ q[7] = X("user", User(r))
  BY FinalizeList
<1> HIDE DEF q
<1>2. /\ q[1].lock[1] = "key" /\ q[1].lock[2] = r
      /\ q[2].lock[1] = "rental" /\ q[2].lock[2] = r /\ q[2].lock = <<"rental", r>> /\ q[2].mode = "X"
      /\ q[3].lock[1] = "rental" /\ q[3].lock[2] = r /\ q[3].lock = <<"rental", r>> /\ q[3].mode = "X"
      /\ q[4].lock[1] = "account" /\ q[4].lock[2] = Acct(r)
      /\ q[5].lock[1] = "payment" /\ q[5].lock[2] = r
      /\ q[6].lock[1] = "hold" /\ q[6].lock[2] = r
      /\ q[7].lock[1] = "user" /\ q[7].lock[2] = User(r)
  BY <1>1 DEF X, KS, Skip
<1>3. /\ Rank(q[1].lock) = 1 /\ Rank(q[2].lock) = 5 /\ Rank(q[3].lock) = 5 /\ Rank(q[4].lock) = 6 /\ Rank(q[7].lock) = 7
  BY <1>2, CustomerOf DEF Rank
<1>4. /\ InOrder(q, 1, Guarded)
      /\ InOrder(q, 2, Guarded)
      /\ InOrder(q, 3, Guarded)
      /\ InOrder(q, 4, Guarded)
      /\ InOrder(q, 5, Guarded)
      /\ InOrder(q, 6, Guarded)
      /\ InOrder(q, 7, Guarded)
  BY <1>2, <1>3 DEF InOrder, Guarded
<1> QED BY <1>1, <1>4 DEF Ordered, q

-----------------------------------------------------------------------------
(* What transactions hold *)

\* The locks that t's granted requests gave it.
Granted(t) == {[lock |-> Requests(t)[i].lock, mode |-> Requests(t)[i].mode] : i \in 1..pos[t]}

\* Conflicting locks are never held by two transactions.
Exclusive ==
  \A s, t \in Txns : s # t =>
    \A g \in Granted(s), h \in Granted(t) : g.lock = h.lock => ~Conflict(g.mode, h.mode)

Locking ==
  /\ txn \in [Txns -> Kinds] /\ state \in [Txns -> {"New", "Running", "Ended"}]
  /\ pos \in [Txns -> Nat] /\ held = [t \in Txns |-> Granted(t)]
  /\ Exclusive

LEMMA LockingInit == Init => Locking
<1> SUFFICES ASSUME Init PROVE Locking
  OBVIOUS
<1>1. \A t \in Txns : Granted(t) = {}
  BY DEF Init, Granted
<1> QED BY <1>1 DEF Init, Locking, Exclusive

\* A transaction that ends gives everything back.
LEMMA LockingRelease ==
  ASSUME Locking, NEW t \in Txns, Release(t) PROVE Locking'
<1>1. \A s \in Txns : Requests(s)' = Requests(s)
  BY DEF Release, Requests
<1>2. \A s \in Txns : pos'[s] = IF s = t THEN 0 ELSE pos[s]
  BY DEF Release, Locking
<1>3. Granted(t)' = {} /\ \A s \in Txns : s # t => Granted(s)' = Granted(s)
  BY <1>1, <1>2 DEF Granted
<1>4. held' = [s \in Txns |-> Granted(s)']
  BY <1>3 DEF Release, Locking
<1>5. Exclusive'
  BY <1>3 DEF Locking, Exclusive
<1> QED BY <1>4, <1>5 DEF Locking, Release

\* A transaction that begins, or waits, changes nothing.
LEMMA LockingSame ==
  ASSUME Locking, txn' = txn, pos' = pos, held' = held,
         state' \in [Txns -> {"New", "Running", "Ended"}]
  PROVE  Locking'
<1>1. \A s \in Txns : Granted(s)' = Granted(s)
  BY DEF Granted, Requests
<1> QED BY <1>1 DEF Locking, Exclusive

\* A lock is granted when nobody holds a conflicting one.
LEMMA LockingAcquire ==
  ASSUME Locking, NEW t \in Txns, Acquire(t) PROVE Locking'
<1> DEFINE new == [lock |-> NextReq(t).lock, mode |-> NextReq(t).mode]
<1>1. \A s \in Txns : Requests(s)' = Requests(s)
  BY DEF Acquire, Requests
<1>2. \A s \in Txns : pos'[s] = (IF s = t THEN pos[s] + 1 ELSE pos[s]) /\ pos[s] \in Nat
  BY DEF Acquire, Locking
<1>3. Granted(t)' = Granted(t) \cup {new}
  <2>1. 1..(pos[t] + 1) = 1..pos[t] \cup {pos[t] + 1}
    BY <1>2
  <2> QED BY <1>1, <1>2, <2>1 DEF Granted, NextReq
<1>4. \A s \in Txns : s # t => Granted(s)' = Granted(s)
  BY <1>1, <1>2 DEF Granted
<1>5. held' = [s \in Txns |-> Granted(s)']
  BY <1>3, <1>4 DEF Acquire, Locking
<1>6. ASSUME NEW s \in Txns, s # t, NEW g \in Granted(s), g.lock = new.lock
      PROVE  ~Conflict(g.mode, new.mode)
  BY <1>6 DEF Acquire, WaitsFor, Locking
<1>7. \A m, n : Conflict(m, n) = Conflict(n, m)
  BY DEF Conflict
<1> HIDE DEF new
<1>8. Exclusive'
  BY <1>3, <1>4, <1>6, <1>7 DEF Locking, Exclusive
<1>9. pos' \in [Txns -> Nat] /\ txn' = txn /\ state' = state
  BY DEF Locking, Acquire
<1> QED BY <1>5, <1>8, <1>9 DEF Locking

LEMMA LockingNext == Locking /\ [Next]_vars => Locking'
<1> SUFFICES ASSUME Locking, [Next]_vars PROVE Locking'
  OBVIOUS
<1>1. ASSUME NEW t \in Txns, Step(t) \/ Fail(t) PROVE Locking'
  <2>1. CASE Begin(t)
    BY <2>1, LockingSame DEF Begin, Locking
  <2>2. CASE Acquire(t)
    BY <2>2, LockingAcquire
  <2>3. CASE Release(t)
    BY <2>3, LockingRelease
  <2> QED BY <1>1, <2>1, <2>2, <2>3 DEF Step, SkipLocked, Commit, FinishSearch, Fail
<1>2. CASE DetectDeadlock
  <2>1. PICK t \in Txns : Release(t)
    BY <1>2 DEF DetectDeadlock, Cycles, Running
  <2> QED BY <2>1, LockingRelease
<1>3. CASE UNCHANGED vars
  BY <1>3, LockingSame DEF vars, Locking
<1> QED BY <1>1, <1>2, <1>3 DEF Next

LEMMA LockingHolds == Spec => []Locking
BY LockingInit, LockingNext, PTL DEF Spec

-----------------------------------------------------------------------------
(* Cycles *)

\* Everybody in a cycle waits for a lock that somebody in it holds.
LEMMA CycleWaits ==
  ASSUME Locking, NEW S \in Cycles
  PROVE  /\ S # {} /\ S \subseteq Txns
         /\ \A t \in S : /\ HasNext(t)
                         /\ \E s \in S : /\ s # t
                                         /\ \E h \in Granted(s) : h.lock = NextReq(t).lock /\ Conflict(h.mode, NextReq(t).mode)
<1>1. /\ S # {} /\ S \subseteq Running
      /\ \A t \in S : WaitsFor(t) \cap S # {}
  BY DEF Cycles
<1>2. S \subseteq Txns
  BY <1>1 DEF Running
<1>3. ASSUME NEW t \in S
      PROVE  /\ HasNext(t)
             /\ \E s \in S : /\ s # t
                             /\ \E h \in Granted(s) : h.lock = NextReq(t).lock /\ Conflict(h.mode, NextReq(t).mode)
  BY <1>1, <1>2, <1>3 DEF WaitsFor, Locking
<1> QED BY <1>1, <1>2, <1>3

\* When all of them request in order, the next lock of one that is waited for
\* ranks higher than the lock it is waited for: there is no cycle.
LEMMA OrderPreventsCycles ==
  ASSUME Locking, NEW P, NEW S \in Cycles, \A t \in S : Ordered(Requests(t), P)
  PROVE  FALSE
<1> DEFINE lk(t) == NextReq(t).lock
           blocks(s, t) == /\ s # t
                           /\ \E h \in Granted(s) : h.lock = lk(t) /\ Conflict(h.mode, NextReq(t).mode)
<1>1. /\ S # {} /\ S \subseteq Txns
      /\ \A t \in S : HasNext(t) /\ \E s \in S : blocks(s, t)
  BY CycleWaits
<1>2. \A t \in S : /\ pos[t] \in Nat /\ pos[t] + 1 \in 1..Len(Requests(t))
                   /\ InOrder(Requests(t), pos[t] + 1, P)
  <2> SUFFICES ASSUME NEW t \in S
               PROVE  /\ pos[t] \in Nat /\ pos[t] + 1 \in 1..Len(Requests(t))
                      /\ InOrder(Requests(t), pos[t] + 1, P)
    OBVIOUS
  <2>1. pos[t] \in Nat /\ Len(Requests(t)) \in Nat /\ pos[t] < Len(Requests(t))
    BY <1>1 DEF Ordered, HasNext, Locking
  <2>2. pos[t] + 1 \in 1..Len(Requests(t))
    BY <2>1
  <2> QED BY <2>1, <2>2 DEF Ordered
<1>3. ASSUME NEW t \in S, NEW i \in 1..pos[t]
      PROVE  /\ i \in 1..Len(Requests(t)) /\ InOrder(Requests(t), i, P)
             /\ [lock |-> Requests(t)[i].lock, mode |-> Requests(t)[i].mode] \in Granted(t)
  BY <1>2 DEF Ordered, Granted
<1>4. ASSUME NEW s \in S, NEW t \in S, s # t, NEW g \in Granted(s), NEW h \in Granted(t),
             g.lock = h.lock, g.mode = "X"
      PROVE  FALSE
  BY <1>1, <1>4 DEF Locking, Exclusive, Conflict
\* Nobody waits for a row whose rental it has locked: its holder would have to lock that too.
<1>5. ASSUME NEW t \in S, lk(t)[1] \in P PROVE FALSE
  <2>1. PICK s \in S : blocks(s, t)
    BY <1>1
  <2>2. PICK i \in 1..pos[s] : Requests(s)[i].lock = lk(t)
    BY <2>1 DEF Granted
  <2>3. PICK k \in 1..(i - 1) : /\ Requests(s)[k].lock = <<"rental", lk(t)[2]>> /\ Requests(s)[k].mode = "X"
    BY <1>3, <1>5, <2>2 DEF InOrder
  <2>4. PICK j \in 1..pos[t] : /\ Requests(t)[j].lock = <<"rental", lk(t)[2]>> /\ Requests(t)[j].mode = "X"
    <3>1. (pos[t] + 1) - 1 = pos[t]
      BY <1>2
    <3> QED BY <1>2, <1>5, <3>1 DEF InOrder, NextReq
  <2>5. k \in 1..pos[s]
    BY <1>2
  <2> DEFINE g == [lock |-> Requests(s)[k].lock, mode |-> Requests(s)[k].mode]
             h == [lock |-> Requests(t)[j].lock, mode |-> Requests(t)[j].mode]
  <2>6. g \in Granted(s) /\ h \in Granted(t) /\ g.lock = h.lock /\ g.mode = "X"
    BY <1>3, <2>3, <2>4, <2>5
  <2> QED BY <1>4, <2>1, <2>6
\* The next lock of a blocker ranks higher.
<1>6. ASSUME NEW t \in S PROVE \E s \in S : Rank(lk(t)) < Rank(lk(s))
  <2>1. PICK s \in S : blocks(s, t)
    BY <1>1
  <2>2. PICK i \in 1..pos[s] : Requests(s)[i].lock = lk(t)
    BY <2>1 DEF Granted
  <2>3. lk(s)[1] \notin P /\ lk(t)[1] \notin P
    BY <1>5
  <2>4. i \in 1..((pos[s] + 1) - 1)
    BY <1>2
  <2>5. \/ Rank(lk(t)) < Rank(lk(s))
        \/ lk(t) = lk(s) /\ Requests(s)[i].mode = "X"
    BY <1>2, <2>2, <2>3, <2>4 DEF InOrder, NextReq
  <2>6. CASE lk(t) = lk(s) /\ Requests(s)[i].mode = "X"
    <3>1. PICK w \in S : blocks(w, s)
      BY <1>1
    <3>2. PICK h \in Granted(w) : h.lock = lk(s)
      BY <3>1
    <3> DEFINE g == [lock |-> Requests(s)[i].lock, mode |-> Requests(s)[i].mode]
    <3>3. g \in Granted(s) /\ g.lock = h.lock /\ g.mode = "X"
      BY <1>3, <2>2, <2>6, <3>2
    <3> QED BY <1>4, <3>1, <3>3
  <2> QED BY <2>5, <2>6
<1>7. \A t \in S : Rank(lk(t)) \in 1..7
  BY DEF Rank
<1> HIDE DEF lk, blocks
<1>8. \A t \in S : ~(Rank(lk(t)) >= 7)
  BY <1>6, <1>7
<1>9. \A t \in S : ~(Rank(lk(t)) >= 6)
  BY <1>6, <1>7, <1>8
<1>10. \A t \in S : ~(Rank(lk(t)) >= 5)
  BY <1>6, <1>7, <1>9
<1>11. \A t \in S : ~(Rank(lk(t)) >= 4)
  BY <1>6, <1>7, <1>10
<1>12. \A t \in S : ~(Rank(lk(t)) >= 3)
  BY <1>6, <1>7, <1>11
<1>13. \A t \in S : ~(Rank(lk(t)) >= 2)
  BY <1>6, <1>7, <1>12
<1> QED BY <1>1, <1>6, <1>7, <1>13

\* Handlers that lock the rental first, and those that touch no payment.
LEMMA RentalFirst ==
  ASSUME Locking, NEW t \in Txns, txn[t].kind \notin PaymentOrder, txn[t].actor \notin Customers
  PROVE  Ordered(Requests(t), Guarded)
<1> DEFINE r == txn[t].rental
<1>1. r \in DOMAIN Customer
  BY KindsAssumption DEF Locking
<1>2. CASE txn[t].kind = "RentAccount"
  BY <1>1, <1>2, OrderOrdered DEF Requests
<1>3. CASE txn[t].kind = "CancelRental"
  BY <1>1, <1>3, CancelOrdered DEF Requests
<1>4. CASE txn[t].kind = "Credentials"
  BY <1>1, <1>4, CredentialsOrdered DEF Requests
<1>5. CASE txn[t].kind = "ExpireRental"
  BY <1>1, <1>5, ExpireRentalOrdered DEF Requests
<1>6. CASE txn[t].kind = "Settle"
  BY <1>1, <1>6, SettleOrdered DEF Requests
<1>7. CASE txn[t].kind = "Finalize"
  BY <1>1, <1>7, FinalizeOrdered DEF Requests
<1>8. CASE txn[t].kind = "AdjustBalance"
  BY <1>1, <1>8, AdjustOrdered DEF Requests
<1>9. CASE txn[t].kind = "UpdateAccount"
  BY <1>1, <1>9, AccountAdminOrdered DEF Requests
<1>10. CASE txn[t].kind = "SearchAccounts"
  BY <1>10 DEF Requests, Ordered
<1> QED BY <1>2, <1>3, <1>4, <1>5, <1>6, <1>7, <1>8, <1>9, <1>10, KindsAssumption DEF Locking, PaymentOrder

\* Handlers that lock the payment first, and those that touch no payment.
LEMMA PaymentFirstOrdered ==
  ASSUME Locking, NEW t \in Txns, txn[t].kind \notin RentalOrder, txn[t].actor \notin Customers
  PROVE  Ordered(Requests(t), {})
<1> DEFINE r == txn[t].rental
<1>1. r \in DOMAIN Customer
  BY KindsAssumption DEF Locking
<1>2. CASE txn[t].kind = "RentAccount"
  BY <1>1, <1>2, OrderOrdered DEF Requests
<1>3. CASE txn[t].kind = "Webhook"
  BY <1>1, <1>3, WebhookOrdered DEF Requests
<1>4. CASE txn[t].kind = "Pay"
  BY <1>1, <1>4, WalletOrdered DEF Requests
<1>5. CASE txn[t].kind = "ExpireWaiting"
  BY <1>1, <1>5, WebhookOrdered DEF Requests, ExpireWaitingLocks, WebhookLocks
<1>6. CASE txn[t].kind = "AdjustBalance"
  BY <1>1, <1>6, AdjustOrdered DEF Requests
<1>7. CASE txn[t].kind = "UpdateAccount"
  BY <1>1, <1>7, AccountAdminOrdered DEF Requests
<1>8. CASE txn[t].kind = "SearchAccounts"
  BY <1>8 DEF Requests, Ordered
<1> QED BY <1>2, <1>3, <1>4, <1>5, <1>6, <1>7, <1>8, KindsAssumption DEF Locking, RentalOrder

\* However many requests and jobs run at the same time, a deadlock involves a handler
\* that locks the payment before its rental and one that locks the rental before the
\* payment, or an administrator who is a customer: each of the two lock orders by
\* itself, with orders, adjustments and price changes among them, admits none.
THEOREM OrdersAreDeadlockFree == Spec => []EachOrderIsDeadlockFree
<1>1. Locking => EachOrderIsDeadlockFree
  <2> SUFFICES ASSUME Locking, NEW S \in Cycles, \A t \in S : txn[t].actor \notin Customers
               PROVE  /\ \E t \in S : txn[t].kind \in PaymentOrder
                      /\ \E t \in S : txn[t].kind \in RentalOrder
    BY DEF EachOrderIsDeadlockFree
  <2>1. S \subseteq Txns
    BY CycleWaits
  <2>2. ASSUME \A t \in S : txn[t].kind \notin PaymentOrder PROVE FALSE
    BY <2>1, <2>2, RentalFirst, OrderPreventsCycles
  <2>3. ASSUME \A t \in S : txn[t].kind \notin RentalOrder PROVE FALSE
    BY <2>1, <2>3, PaymentFirstOrdered, OrderPreventsCycles
  <2> QED BY <2>2, <2>3
<1> QED BY <1>1, LockingHolds, PTL
=============================================================================
