---------------------------- MODULE MCLockOrder ----------------------------
(* Two rentals of one account, two customers, an administrator who rents too. *)
EXTENDS LockOrder

CONSTANTS u1, u2, root, a1, x1, x2, x3

TwoCustomers == <<u1, u2>>
OneAccount   == <<a1, a1>>

Tx(kind, r, actor) == [kind |-> kind, rental |-> r, actor |-> actor]

\* Every kind once: on rental 1, or on the account and the customer of rental 2; an
\* administrator settles rental 2 and is the customer of rental 1.
EveryKind ==
  {Tx(k, 1, root) : k \in {"CancelRental", "Credentials", "Webhook", "Pay", "ExpireWaiting",
                           "ExpireRental", "Finalize", "Settle", "SearchAccounts"}}
  \cup {Tx(k, 2, root) : k \in {"RentAccount", "AdjustBalance", "UpdateAccount"}}
  \cup {Tx("Settle", 2, u1)}
=============================================================================
