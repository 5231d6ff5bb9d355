---------------------------- MODULE MonitoringData ----------------------------
(***************************************************************************)
(* What the monitoring jobs read: the tables predictions and               *)
(* shadow_comparisons as the serving and the router processes fill them,   *)
(* and the clock.  A prediction carries the time its request was answered, *)
(* a comparison the time its insert began; either becomes visible later,   *)
(* when the batch it is in has been copied                                 *)
(* (serving/internal/predictions/store.go) or the insert has committed     *)
(* (router/internal/canary/decisions.go).  A record that is dropped or     *)
(* lost on the way (PredictionStore, ShadowRouter) never becomes a row and *)
(* is not scored here.                                                     *)
(***************************************************************************)
EXTENDS Integers, FiniteSets

CONSTANTS
  Predictions,  \* rows of predictions; prediction_id
  Comparisons,  \* rows of shadow_comparisons
  Txns,         \* transaction ids
  TxnOf,        \* Predictions -> Txns: a transaction may be scored twice
  Lag,          \* time within which a row becomes visible: a flush and its retry
  MaxTime,      \* bound on the clock
  LastArrival,  \* bound on the time of the last request
  Deployments   \* what may be deployed: jobs, and the rows the traffic makes

Rows == Predictions \cup Comparisons
Jobs == {"labels", "drift", "shadow"}

ASSUME DataAssumption ==
  /\ TxnOf \in [Predictions -> Txns]
  /\ Lag \in Nat /\ MaxTime \in Nat /\ LastArrival \in Nat
  /\ Deployments \subseteq [jobs : SUBSET Jobs, rows : SUBSET Rows]

VARIABLES
  clock,    \* the time, in units of a fraction of the jobs' intervals
  created,  \* Rows -> created_at, or Never
  stored,   \* the rows a query sees
  deployed  \* the deployment

dataVars == <<clock, created, stored, deployed>>

Never == -1

DataTypeOK ==
  /\ clock \in 0..MaxTime
  /\ created \in [Rows -> -1..MaxTime]
  /\ stored \subseteq {r \in Rows : created[r] # Never}
  /\ deployed \in Deployments

DataInit ==
  /\ clock = 0
  /\ created = [r \in Rows |-> Never]
  /\ stored = {}
  /\ deployed \in Deployments

\* The record of a request is made, with the time of day in it.
Record(r) ==
  /\ clock <= LastArrival
  /\ r \in deployed.rows /\ created[r] = Never
  /\ created' = [created EXCEPT ![r] = clock]
  /\ UNCHANGED <<clock, stored, deployed>>

\* Its flush or its insert commits.
Commit(r) ==
  /\ created[r] # Never /\ r \notin stored
  /\ stored' = stored \cup {r}
  /\ UNCHANGED <<clock, created, deployed>>

\* No row waits longer than Lag to become visible.
RowsOnTime == \A r \in Rows \ stored : created[r] # Never => clock < created[r] + Lag

AdvanceClock ==
  /\ clock < MaxTime
  /\ RowsOnTime
  /\ clock' = clock + 1
  /\ UNCHANGED <<created, stored, deployed>>

\* The rows of tbl with created_at BETWEEN from AND to.
Between(tbl, from, to) == {r \in tbl \cap stored : from <= created[r] /\ created[r] <= to}
===============================================================================
