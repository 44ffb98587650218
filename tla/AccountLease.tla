---------------------------- MODULE AccountLease ----------------------------
(***************************************************************************)
(* What the rental service promises about game accounts, without payments, *)
(* deposits or background jobs: an account has at most one tenant, the     *)
(* rental it is lent to; it is lent only while nobody has it; a rental is  *)
(* served once and never gets an account again.                            *)
(***************************************************************************)
CONSTANTS Accounts, Rentals, Null

VARIABLES
  tenant,  \* the rental each account is lent to, or Null
  served   \* rentals that have, or had, an account

Init ==
  /\ tenant = [a \in Accounts |-> Null]
  /\ served = {}

Lend(a, r) ==
  /\ tenant[a] = Null
  /\ r \notin served
  /\ tenant' = [tenant EXCEPT ![a] = r]
  /\ served' = served \cup {r}

GiveBack(a) ==
  /\ tenant[a] # Null
  /\ tenant' = [tenant EXCEPT ![a] = Null]
  /\ UNCHANGED served

Next ==
  \/ \E a \in Accounts, r \in Rentals : Lend(a, r)
  \/ \E a \in Accounts : GiveBack(a)

Spec == Init /\ [][Next]_<<tenant, served>>
=============================================================================
