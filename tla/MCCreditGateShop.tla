-------------------------- MODULE MCCreditGateShop --------------------------
(***************************************************************************)
(* CreditGate at one shop: two proposals, of 2 discounted to 1 and of 1,   *)
(* under a policy that the owner tightens, relaxes or turns into a         *)
(* blacklisting while they are made and paid.                              *)
(***************************************************************************)
EXTENDS CreditGate, TLC

CONSTANTS A, a1, a2, t1, t2

MCShopOf == [d \in {a1, a2} |-> A]
MCOriginal == (a1 :> 2) @@ (a2 :> 1)
MCDiscounted == [d \in {a1, a2} |-> 1]
MCDueDate == [d \in {a1, a2} |-> 1]
MCPolicy(limit, maxOpen, blacklisted) ==
    [limit |-> limit, maxOpen |-> maxOpen, blacklisted |-> blacklisted]
MCFirstPolicy == MCPolicy(2, 2, FALSE)
MCPolicies == {MCFirstPolicy, MCPolicy(3, 1, FALSE), MCPolicy(3, 2, TRUE)}
MCSameDay(t) == t
MCSymmetry == Permutations({t1, t2})
=============================================================================
