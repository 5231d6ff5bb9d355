----------------------------- MODULE MCModelSwap -----------------------------
(* Constants of ModelSwap for TLC.                                          *)
EXTENDS ModelSwap
CONSTANTS s1, s2, l1, l2, r0, r1, r2, v1, v2
==============================================================================
