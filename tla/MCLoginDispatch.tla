-------------------------- MODULE MCLoginDispatch --------------------------
(***************************************************************************)
(* LoginCode seen from the dispatcher: two processes, of which one may     *)
(* crash and one may lose its lock unnoticed, one challenge and one open   *)
(* transaction.                                                            *)
(***************************************************************************)
EXTENDS LoginCode

CONSTANTS u1, b1, t1, w1, w2
=============================================================================
