---------------------------- MODULE MCLockOrder -----------------------------
(***************************************************************************)
(* LockOrder for TLC: two transactions of any two programs.                *)
(***************************************************************************)
EXTENDS LockOrder, TLC

CONSTANTS t1, t2

TxSymmetry == Permutations(Txs)
=============================================================================
