---------------------------- MODULE MCWipeRound ----------------------------
(* WipeRound on a small network *)
EXTENDS WipeRound, TLC

CONSTANTS a, b, c

=============================================================================
