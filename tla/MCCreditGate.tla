---------------------------- MODULE MCCreditGate ----------------------------
(***************************************************************************)
(* CreditGate across two shops with one policy, never changed: a proposal  *)
(* of 2, discounted to 1, at shop A and one of 1 at shop B, due a day      *)
(* apart, two sessions.  Three days are enough for one debt to pass its    *)
(* due date, be marked, paid late, voided and written off while the other  *)
(* is proposed and decided.                                                *)
(***************************************************************************)
EXTENDS CreditGate, TLC

CONSTANTS A, B, a1, b1, t1, t2

MCShopOf == (a1 :> A) @@ (b1 :> B)
MCOriginal == (a1 :> 2) @@ (b1 :> 1)
MCDiscounted == [d \in {a1, b1} |-> 1]
MCDueDate == (a1 :> 1) @@ (b1 :> 2)
MCFirstPolicy == [limit |-> 2, maxOpen |-> 1, blacklisted |-> FALSE]
MCPolicies == {MCFirstPolicy}
MCSameDay(t) == t
MCSymmetry == Permutations({t1, t2})
=============================================================================
