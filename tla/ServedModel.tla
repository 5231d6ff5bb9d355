----------------------------- MODULE ServedModel -----------------------------
(***************************************************************************)
(* What the hot swap of a serving process promises (ModelSwap refines it): *)
(* every model goes through its life in one order, loaded, serving,        *)
(* displaced, destroyed, some stages left out; one model serves at a time; *)
(* a request uses the model that serves, and holds its replacement off.    *)
(* No lock, thread or pointer is mentioned.                                *)
(***************************************************************************)
CONSTANTS
  Models,   \* the models ever loaded
  Users,    \* the requests that may use one at the same time
  Nobody    \* no model

VARIABLES
  stage,    \* Models -> where in its life each model is
  using     \* Users -> the model a request is scored with, or Nobody

servedVars == <<stage, using>>

ServedInit ==
  /\ \E first \in Models :
       stage = [m \in Models |-> IF m = first THEN "serving" ELSE "none"]
  /\ using = [u \in Users |-> Nobody]

Unused == \A u \in Users : using[u] = Nobody

Ages(m, from, to) ==
  /\ stage[m] = from
  /\ stage' = [stage EXCEPT ![m] = to]
  /\ UNCHANGED using

Load(m) == Ages(m, "none", "loaded")

\* A loaded model that does not fit the features is never served.
Reject(m) == Ages(m, "loaded", "destroyed")

\* One step: the new model serves, the old one, if any, does no longer.
Replace(m) ==
  /\ Unused
  /\ stage[m] = "loaded"
  /\ stage' = [n \in Models |-> IF n = m THEN "serving"
                                ELSE IF stage[n] = "serving" THEN "displaced"
                                ELSE stage[n]]
  /\ UNCHANGED using

Discard(m) == Ages(m, "displaced", "destroyed")

\* The process takes its model down.
Retire(m) == Unused /\ Ages(m, "serving", "destroyed")

Begin(u, m) ==
  /\ using[u] = Nobody /\ stage[m] = "serving"
  /\ using' = [using EXCEPT ![u] = m]
  /\ UNCHANGED stage

End(u) ==
  /\ using' = [using EXCEPT ![u] = Nobody]
  /\ UNCHANGED stage

ServedNext ==
  \/ \E m \in Models : Load(m) \/ Reject(m) \/ Replace(m) \/ Discard(m) \/ Retire(m)
  \/ \E u \in Users : End(u) \/ \E m \in Models : Begin(u, m)

ServedSpec == ServedInit /\ [][ServedNext]_servedVars
==============================================================================
