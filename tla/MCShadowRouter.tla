---------------------------- MODULE MCShadowRouter ----------------------------
(* Constants of ShadowRouter for TLC.                                        *)
EXTENDS ShadowRouter
CONSTANTS q1, q2, q3, a1, w1, w2

Body(e, p, s) == [enabled |-> e, percent |-> p, shadow |-> s]

ShadowAll == Body(FALSE, 0, 100)
Canary == Body(TRUE, 50, 0)

\* What the evaluator and an operator ask for, and two bodies the handler rejects.
CanaryOnOff == {ShadowAll, Canary, Body(TRUE, 50, 50), Body(FALSE, -1, 0)}
===============================================================================
