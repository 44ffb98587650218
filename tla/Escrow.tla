------------------------------- MODULE Escrow -------------------------------
(***************************************************************************)
(* What the rental service promises about money, without statuses, holds,  *)
(* deadlines or jobs: it keeps a fund for each rental.  A rental is paid   *)
(* once, by one customer.  What leaves a fund goes to the wallet of the    *)
(* customer who paid, or is forfeited; no fund is overdrawn, and no wallet *)
(* changes otherwise than by paying, by being paid back and by requests of *)
(* administrators, each of which counts once.                              *)
(***************************************************************************)
EXTENDS Integers

CONSTANTS Users, Rentals, Requests, Null

VARIABLES
  wallet,  \* what each customer has
  payer,   \* the customer who paid for a rental, or Null
  fund,    \* what was paid for a rental and has not left since
  used     \* administrators' requests that were carried out

Init ==
  /\ wallet = [u \in Users |-> 0]
  /\ payer = [r \in Rentals |-> Null]
  /\ fund = [r \in Rentals |-> 0]
  /\ used = {}

\* The fund of r changes, and no other.
FundOf(r) ==
  /\ fund' \in [Rentals -> Nat]
  /\ \A q \in Rentals \ {r} : fund'[q] = fund[q]

\* The wallet of u changes by n, and no other.
Credit(u, n) == wallet[u] + n >= 0 /\ wallet' = [wallet EXCEPT ![u] = @ + n]

\* Paying from the wallet, or through a provider, which the wallets do not show.
Pay(r, u) ==
  /\ payer[r] = Null /\ payer' = [payer EXCEPT ![r] = u]
  /\ FundOf(r) /\ fund'[r] > 0
  /\ Credit(u, -fund'[r]) \/ wallet' = wallet
  /\ UNCHANGED used

GiveBack(r) ==
  /\ payer[r] # Null
  /\ fund'[r] < fund[r] /\ FundOf(r)
  /\ Credit(payer[r], fund[r] - fund'[r])
  /\ UNCHANGED <<payer, used>>

Forfeit(r) ==
  /\ fund'[r] < fund[r] /\ FundOf(r)
  /\ UNCHANGED <<wallet, payer, used>>

Adjust(k, u) ==
  /\ k \notin used /\ used' = used \cup {k}
  /\ Credit(u, wallet'[u] - wallet[u])
  /\ UNCHANGED <<payer, fund>>

Next ==
  \/ \E r \in Rentals, u \in Users : Pay(r, u)
  \/ \E r \in Rentals : GiveBack(r) \/ Forfeit(r)
  \/ \E k \in Requests, u \in Users : Adjust(k, u)

Spec == Init /\ [][Next]_<<wallet, payer, fund, used>>
=============================================================================
