-------------------------- MODULE MCPredictionStore --------------------------
(* Constants of PredictionStore for TLC.                                    *)
EXTENDS PredictionStore
CONSTANTS p1, p2, p3, p4
==============================================================================
