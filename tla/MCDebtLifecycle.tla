-------------------------- MODULE MCDebtLifecycle --------------------------
(***************************************************************************)
(* DebtLifecycle, with the checks of DebtRow, on a small instance: two     *)
(* instants per business day, so that a proposal can expire at any time of *)
(* a day, and amounts 4 / 3, so that a payment can be partial or full on   *)
(* either basis.                                                           *)
(***************************************************************************)
EXTENDS DebtRow

MCBusinessDate(t) == t \div 2
=============================================================================
