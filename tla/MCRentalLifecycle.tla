-------------------------- MODULE MCRentalLifecycle --------------------------
(* Small instances of RentalLifecycle for TLC. *)
EXTENDS RentalLifecycle, TLC

CONSTANTS u1, u2, a1, a2, x1, k1, k2

Plain   == [hourly |-> 1, deposit |-> 0]
Secured == [hourly |-> 1, deposit |-> 1]

OnlySecured  == {Secured}
BothPricings == {Plain, Secured}
UpAndDown    == {3, -1}

\* Customers, and idempotency keys, are interchangeable; the runs that use the
\* symmetry check safety only.
Interchangeable == Permutations({u1, u2}) \cup Permutations({k1, k2})
=============================================================================
