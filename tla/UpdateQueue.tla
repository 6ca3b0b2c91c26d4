---------------------------- MODULE UpdateQueue ----------------------------
(***************************************************************************)
(* What the polling worker promises: the updates people send are handled   *)
(* one by one, in the order in which they came, each exactly once: its     *)
(* effect is applied, or it is set aside for good.                         *)
(***************************************************************************)
EXTENDS Integers, Sequences

VARIABLES
    arrived,    \* the number of updates sent
    handled     \* the sequence of what was done with them

vars == <<arrived, handled>>

Init == arrived = 0 /\ handled = << >>

Arrive == arrived' = arrived + 1 /\ UNCHANGED handled

Handle ==
    /\ Len(handled) < arrived
    /\ \E how \in {"applied", "quarantined"} : handled' = Append(handled, how)
    /\ UNCHANGED arrived

Next == Arrive \/ Handle

Spec == Init /\ [][Next]_vars /\ WF_vars(Handle)
=============================================================================
