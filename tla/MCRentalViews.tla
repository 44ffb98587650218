---------------------------- MODULE MCRentalViews ----------------------------
(* Small instances of RentalViews for TLC. *)
EXTENDS RentalViews

CONSTANTS u1, a1, x1, k1

OnlySecured == {[hourly |-> 1, deposit |-> 1]}

\* Lists that no rental leaves, and two that rentals leave again.
AllColumns ==
  {<<>>, [rental |-> "Completed"], [payment |-> "Success", user |-> u1],
   [eligible |-> TRUE], [deposit |-> "HELD"]}
==============================================================================
