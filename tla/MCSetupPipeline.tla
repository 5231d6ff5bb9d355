--------------------------- MODULE MCSetupPipeline ---------------------------
(* Constants of SetupPipeline for TLC.                                       *)
EXTENDS SetupPipeline

CONSTANTS main, hand, amount, hour, card

OneList == {<<amount, hour>>}

\* Two lists of the same length.
TwoLists == {<<amount, hour>>, <<amount, card>>}
===============================================================================
