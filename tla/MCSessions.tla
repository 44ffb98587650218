----------------------------- MODULE MCSessions -----------------------------
(* Small instances of Sessions for TLC. *)
EXTENDS Sessions, TLC

CONSTANTS u1, u2, u3, t1, t2, t3, c1, c2

\* Requests that set one of the two fields.
OneField ==
  [role : {"ADMIN", "RENT"}, blocked : {Null}] \cup [role : {Null}, blocked : BOOLEAN]

\* Tokens are random and requests anonymous; users differ in Provisioned only.
Interchangeable ==
  Permutations(Tokens) \cup Permutations(Clients) \cup Permutations(Provisioned)
=============================================================================
