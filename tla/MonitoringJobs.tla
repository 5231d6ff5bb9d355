---------------------------- MODULE MonitoringJobs ----------------------------
(***************************************************************************)
(* The monitoring containers over one database and one clock               *)
(* (docker-compose.yml): the label joiner, the drift detector and the      *)
(* shadow comparator, while requests are scored.  Each job reads what the  *)
(* serving and router processes write and writes a table of its own; any   *)
(* set of them in Deployments may run together.                            *)
(***************************************************************************)
EXTENDS LabelJoiner, DriftDetector, ShadowComparator

vars == <<dataVars, labelVars, driftVars, shadowVars>>

TypeOK == DataTypeOK /\ LabelTypeOK /\ DriftTypeOK /\ ShadowTypeOK

Init == DataInit /\ LabelInit /\ DriftInit /\ ShadowInit

Traffic ==
  /\ \E r \in Rows : Record(r) \/ Commit(r)
  /\ UNCHANGED <<labelVars, driftVars, shadowVars>>

Labels ==
  /\ "labels" \in deployed.jobs /\ LabelStep
  /\ UNCHANGED <<dataVars, driftVars, shadowVars>>

Drift ==
  /\ "drift" \in deployed.jobs /\ DriftStep
  /\ UNCHANGED <<dataVars, labelVars, shadowVars>>

Shadow ==
  /\ "shadow" \in deployed.jobs /\ ShadowStep
  /\ UNCHANGED <<dataVars, labelVars, driftVars>>

\* Time passes while nobody is overdue.
Tick ==
  /\ "drift" \in deployed.jobs => DriftOnTime
  /\ "shadow" \in deployed.jobs => ShadowOnTime
  /\ AdvanceClock
  /\ UNCHANGED <<labelVars, driftVars, shadowVars>>

Next == Traffic \/ Labels \/ Drift \/ Shadow \/ Tick

Spec == Init /\ [][Next]_vars

Commits(r) == Commit(r) /\ UNCHANGED <<labelVars, driftVars, shadowVars>>

\* Queries(j) and Inserts(j) are the label joiner's; an insert that is tried
\* again and again succeeds in the end.
Queries(j) ==
  "labels" \in deployed.jobs /\ Query(j) /\ UNCHANGED <<dataVars, driftVars, shadowVars>>
Inserts(j) ==
  "labels" \in deployed.jobs /\ InsertLabels(j) /\ UNCHANGED <<dataVars, driftVars, shadowVars>>

FairSpec ==
  /\ Spec
  /\ WF_vars(Tick)
  /\ \A r \in Predictions : WF_vars(Commits(r))
  /\ \A j \in Joiners : WF_vars(Queries(j)) /\ SF_vars(Inserts(j))
===============================================================================
