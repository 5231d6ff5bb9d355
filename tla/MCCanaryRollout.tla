--------------------------- MODULE MCCanaryRollout ---------------------------
(* Values of the constants of CanaryRollout for TLC.                        *)
EXTENDS CanaryRollout

CONSTANTS champ, chall, fresh

Window(enough, oneClass, prDelta, brierWorse, slow) ==
  [enough |-> enough, oneClass |-> oneClass, prDelta |-> prDelta,
   brierWorse |-> brierWorse, slow |-> slow]

Better == Window(TRUE, FALSE, "better", FALSE, FALSE)
Worse == Window(TRUE, FALSE, "worse", FALSE, FALSE)
Sparse == Window(FALSE, FALSE, "better", FALSE, FALSE)
Slow == Window(TRUE, FALSE, "better", FALSE, TRUE)
Miscalibrated == Window(TRUE, FALSE, "better", TRUE, FALSE)
AllFraud == Window(TRUE, TRUE, "better", FALSE, FALSE)

\* One of each kind: improving, rolled back, recorded without consequence, raising.
EachKind == {Better, Slow, Sparse, AllFraud}
GoodWindows == {Better}
ClearWindows == {Better, Worse, Miscalibrated}

Body(enabled, challengerPct, shadowPct) ==
  [enabled |-> enabled, challengerPct |-> challengerPct, shadowPct |-> shadowPct]

\* Canary on, canary on with the shadow setting the router refuses, shadow only.
OperatorChoices == {Body(TRUE, 30, 0), Body(TRUE, 30, 100), Body(FALSE, 0, 100)}
OperatorEnables == {Body(TRUE, 30, 0)}
OperatorAbsent == {}

NoRetraining == {}
\* A retrained challenger, which the operator also copies over the champion.
BothRetrained == {<<"challenger", fresh>>, <<"champion", fresh>>}

EveryFault == AllFaults
NoFault == {}
\* The router keeps its state, the container its model, reloads their time limit.
ContainersStayUp == AllFaults \ {"router", "champion", "late"}
OnlyDisable == {"disable"}
OnlyChampion == {"champion"}
==============================================================================
