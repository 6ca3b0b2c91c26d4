---------------------------- MODULE MCLoginCode ----------------------------
(***************************************************************************)
(* LoginCode seen from the web: one user, one browser, two transactions    *)
(* that may be open at once, two challenges, so that one can replace or    *)
(* forestall the other, two generations of the link, and one dispatcher    *)
(* that does not stop.                                                     *)
(***************************************************************************)
EXTENDS LoginCode, TLC

CONSTANTS u1, b1, t1, t2, w1

MCSymmetry == Permutations({t1, t2})
=============================================================================
