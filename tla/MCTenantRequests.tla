-------------------------- MODULE MCTenantRequests --------------------------
(***************************************************************************)
(* Two users, two shops and two requests at a time: enough for two owners  *)
(* who demote each other, one user in two shops, one form sent twice, and  *)
(* an attempt that is counted after the next window began.                 *)
(***************************************************************************)
EXTENDS TenantRequests, TLC

CONSTANTS u1, u2, a, b, i1, i2

Symmetry == Permutations({u1, u2}) \cup Permutations({a, b}) \cup Permutations({i1, i2})
=============================================================================
