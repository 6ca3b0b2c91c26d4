------------------------------ MODULE ShopBook ------------------------------
(***************************************************************************)
(* What shops and their staff can rely on: everything that is done in a    *)
(* shop is done at one moment, in a shop that is active then, by somebody  *)
(* who belongs to it then, and what has a key is done once.                *)
(***************************************************************************)
EXTENDS Integers

CONSTANTS Users, Shops, Keyed, Roles

VARIABLES
    status,      \* [Shops -> "none", "active" or "suspended"]
    staff,       \* [Shops -> [Users -> his role, "none" or "revoked"]]
    linked,      \* the shops that have the customer
    effects      \* [Users -> [Keyed -> [Shops -> how often it was done]]]

vars == <<status, staff, linked, effects>>

Init ==
    /\ status = [s \in Shops |-> "none"]
    /\ staff = [s \in Shops |-> [u \in Users |-> "none"]]
    /\ linked = {}
    /\ effects = [u \in Users |-> [k \in Keyed |-> [s \in Shops |-> 0]]]

Works(u, s) == status[s] = "active" /\ staff[s][u] \in Roles

Provide(s) ==
    /\ status[s] = "none"
    /\ status' = [status EXCEPT ![s] = "active"]
    /\ \E u \in Users : staff' = [staff EXCEPT ![s][u] = "owner"]
    /\ UNCHANGED <<linked, effects>>

Turn(s) ==
    /\ status[s] # "none"
    /\ status' = [status EXCEPT ![s] = IF @ = "active" THEN "suspended" ELSE "active"]
    /\ UNCHANGED <<staff, linked, effects>>

ChangeStaff(s) ==
    /\ \E u \in Users : Works(u, s) /\ staff[s][u] = "owner"
    /\ \E u \in Users, new \in Roles \cup {"revoked"} : staff' = [staff EXCEPT ![s][u] = new]
    /\ UNCHANGED <<status, linked, effects>>

Link(s) ==
    /\ \E u \in Users : Works(u, s)
    /\ linked' = linked \cup {s}
    /\ UNCHANGED <<status, staff, effects>>

Do(u, k, s) ==
    /\ Works(u, s)
    /\ s \in linked
    /\ \A t \in Shops : effects[u][k][t] = 0
    /\ effects' = [effects EXCEPT ![u][k][s] = 1]
    /\ UNCHANGED <<status, staff, linked>>

Next ==
    \E s \in Shops :
        \/ Provide(s) \/ Turn(s) \/ ChangeStaff(s) \/ Link(s)
        \/ \E u \in Users, k \in Keyed : Do(u, k, s)

Spec == Init /\ [][Next]_vars
=============================================================================
