------------------------------- MODULE MCStream -------------------------------
(***************************************************************************)
(* A small instance of Stream: two requests, for the same clip or for        *)
(* different ones.                                                          *)
(***************************************************************************)
EXTENDS Stream

CONSTANTS c1, c2, r1, r2
=============================================================================
