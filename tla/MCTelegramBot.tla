--------------------------- MODULE MCTelegramBot ---------------------------
(***************************************************************************)
(* TelegramBot with two users who may open each other's links, two tokens  *)
(* and two updates, enough for a /start and the contact that follows it or *)
(* for two that race a token issued meanwhile; two processes, one lock     *)
(* that may be lost and one accident.                                      *)
(***************************************************************************)
EXTENDS TelegramBot

CONSTANTS u1, u2, c1, w1, w2
=============================================================================
