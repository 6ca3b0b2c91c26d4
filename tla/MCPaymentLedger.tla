-------------------------- MODULE MCPaymentLedger --------------------------
(***************************************************************************)
(* PaymentLedger, the audit trail, the rating and the pages over it, with  *)
(* two debts of one customer, both due on day 1.  The first, of 3,         *)
(* discounted to 2, goes far enough for pay, void, pay again late, write   *)
(* off and recover, or for a second recovery after a void.  The second, of *)
(* 1, is paid once or marked overdue: it competes with the first for the   *)
(* daily bonus, which a voided payment of the first keeps from it, and for *)
(* the one row of the administrator's list.                                *)
(***************************************************************************)
EXTENDS DebtPages, TLC

CONSTANTS d1, d2

MCDebts == {d1, d2}
MCOriginal == (d1 :> 3) @@ (d2 :> 1)
MCDiscounted == (d1 :> 2) @@ (d2 :> 1)
MCDueDate == (d1 :> 1) @@ (d2 :> 1)
MCMaxRevision == (d1 :> 8) @@ (d2 :> 3)
MCStartScores == {60, 95}
=============================================================================
