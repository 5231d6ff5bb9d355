---------------------------- MODULE CanaryRollout ----------------------------
(***************************************************************************)
(* The rollout control loop: the canary evaluator                          *)
(* (monitoring/scripts/run_canary_evaluator.py with                        *)
(* monitoring/canary/evaluator.py), the canary_decisions and models tables *)
(* it writes, the routing state it reads and sets through the router's     *)
(* admin API, and the model loaded in the champion serving container.      *)
(* Around it: the operator, register_models.py statement by statement,     *)
(* retraining, and the failures each remote call and each process may meet.*)
(***************************************************************************)
EXTENDS Naturals, Sequences, FiniteSets

CONSTANTS
  Versions,         \* ONNX digests; "model_version" everywhere in the code
  Champion,         \* CHAMPION_VERSION of the evaluator's environment
  Challenger,       \* CHALLENGER_VERSION
  RequiredRuns,     \* canary_required_consecutive_runs (3)
  VisibleRows,      \* LIMIT of the streak query (10)
  Windows,          \* evaluation windows the predictions and labels can give
  OperatorBodies,   \* bodies an operator posts to /admin/canary
  Retrainings,      \* <<slot, version>>: what retraining may put in artifacts/
  FaultKinds,       \* the faults that may happen
  MaxFaults         \* bound: how many of them

\* What an evaluation can tell about the joined predictions and labels.
AllWindows ==
  [enough : BOOLEAN, oneClass : BOOLEAN, prDelta : {"worse", "flat", "better"},
   brierWorse : BOOLEAN, slow : BOOLEAN]

AdminBodies == [enabled : BOOLEAN, challengerPct : 0..100, shadowPct : 0..100]

Slots == {"champion", "challenger"}

AllFaults == {"query", "poll", "write", "reload", "late", "registry", "disable",
              "evaluator", "router", "champion"}

ASSUME RolloutAssumption ==
  /\ Champion \in Versions /\ Challenger \in Versions /\ Champion # Challenger
  /\ RequiredRuns \in Nat \ {0} /\ VisibleRows \in Nat \ {0}
  /\ Windows \subseteq AllWindows
  /\ OperatorBodies \subseteq AdminBodies
  /\ Retrainings \subseteq Slots \X (Versions \ {Champion, Challenger})
  /\ FaultKinds \subseteq AllFaults
  /\ MaxFaults \in Nat

VARIABLES
  pc,          \* where the evaluator is in its loop
  outcome,     \* the decision of the iteration; it names the action as well
  history,     \* canary_decisions.outcome, newest first, newest VisibleRows + 1
  models,      \* models.role by model_version; "absent" when there is no row
  toRetire,    \* the champions that the UPDATE of a promotion has found
  router,      \* routing.State of the router process
  loaded,      \* version of the runner inside the champion container
  lateReloads, \* reload requests that outlived their callers inside it
  artifact,    \* the ONNX files under artifacts/, by slot
  regPc,       \* where register_models is, "idle" when it does not run
  digests,     \* the versions it has read from the files, by slot
  currentRole, \* role its last SELECT returned
  wrote,       \* roles it has written and not committed; "kept" elsewhere
  faults       \* faults so far

databaseVars == <<history, models, toRetire>>
servingVars == <<loaded, lateReloads, artifact>>
registrationVars == <<regPc, digests, currentRole, wrote>>
vars == <<pc, outcome, databaseVars, router, servingVars, registrationVars, faults>>

Outcomes == {"improving", "no_signal", "insufficient_data", "inactive",
             "rollback", "promoted"}
Roles == {"absent", "champion", "challenger", "retired"}

InitialRouting == [enabled |-> FALSE, challengerPct |-> 0, shadowPct |-> 100]
CanaryOff == [enabled |-> FALSE, challengerPct |-> 0, shadowPct |-> 0]

TypeOK ==
  /\ pc \in {"waiting", "polling", "deciding", "writing", "reloading",
             "recording", "promoting", "retiring", "disabling"}
  /\ outcome \in Outcomes \cup {"none"}
  /\ history \in Seq(Outcomes) /\ Len(history) <= VisibleRows + 1
  /\ models \in [Versions -> Roles]
  /\ toRetire \subseteq Versions
  /\ router \in AdminBodies
  /\ loaded \in Versions
  /\ lateReloads \in 0..MaxFaults
  /\ artifact \in [Slots -> Versions]
  /\ regPc \in {"idle", "champion", "update champion", "older", "challenger",
                "update challenger", "commit"}
  /\ digests \in [Slots -> Versions]
  /\ currentRole \in Roles \cup {"none"}
  /\ wrote \in [Versions -> Roles \cup {"kept"}]
  /\ faults \in 0..MaxFaults

NothingWritten ==
  /\ digests = [champion |-> Champion, challenger |-> Challenger]
  /\ currentRole = "none"
  /\ wrote = [v \in Versions |-> "kept"]

Init ==
  /\ pc = "waiting" /\ outcome = "none"
  /\ history = << >>
  /\ models = [v \in Versions |-> IF v = Champion THEN "champion"
                                  ELSE IF v = Challenger THEN "challenger"
                                  ELSE "absent"]
  /\ toRetire = {}
  /\ router = InitialRouting
  /\ loaded = Champion /\ lateReloads = 0
  /\ artifact = [champion |-> Champion, challenger |-> Challenger]
  /\ regPc = "idle" /\ NothingWritten
  /\ faults = 0

Fault(kind) ==
  /\ kind \in FaultKinds
  /\ faults < MaxFaults
  /\ faults' = faults + 1

------------------------------------------------------------------------------
(* The evaluator's loop.                                                    *)

EndIteration == pc' = "waiting" /\ outcome' = "none"

\* stopper.wait times out and the next iteration starts.
Wake ==
  /\ pc = "waiting"
  /\ pc' = "polling"
  /\ UNCHANGED <<outcome, databaseVars, router, servingVars, registrationVars, faults>>

AssumeInactive == outcome' = "inactive" /\ pc' = "writing"

\* GET /admin/state; a canary that is off is recorded as "inactive".
PollRouter ==
  /\ pc = "polling"
  /\ IF router.enabled
     THEN pc' = "deciding" /\ UNCHANGED outcome
     ELSE AssumeInactive
  /\ UNCHANGED <<databaseVars, router, servingVars, registrationVars, faults>>

\* A router that does not answer is taken to have its canary off.
PollFails ==
  /\ pc = "polling"
  /\ Fault("poll")
  /\ AssumeInactive
  /\ UNCHANGED <<databaseVars, router, servingVars, registrationVars>>

RollbackWindow(w) == w.prDelta = "worse" \/ w.brierWorse \/ w.slow

\* Mutant: counts every improving row it reads, not only the leading ones.
AnyImprovements ==
  Cardinality({i \in 1..Len(history) : i <= VisibleRows /\ history[i] = "improving"})
    >= RequiredRuns - 1

\* Mutant: consecutive >= required - 2, the evaluation at hand counted twice.
ShortStreak ==
  /\ RequiredRuns - 2 <= Len(history)
  /\ \A i \in 1..(RequiredRuns - 2) : history[i] = "improving"

\* consecutive >= required - 1, counting from the newest of the rows read.
SustainedImprovement ==
  /\ RequiredRuns - 1 <= VisibleRows
  /\ RequiredRuns - 1 <= Len(history)
  /\ \A i \in 1..(RequiredRuns - 1) : history[i] = "improving"

Verdict(w) ==
  CASE ~w.enough -> "insufficient_data"
    [] w.enough /\ RollbackWindow(w) -> "rollback"
    [] w.enough /\ ~RollbackWindow(w) /\ w.prDelta = "flat" -> "no_signal"
    [] w.enough /\ ~RollbackWindow(w) /\ w.prDelta = "better" ->
         IF SustainedImprovement THEN "promoted" ELSE "improving"

\* Metrics of a window whose labels are all of one class are undefined: the
\* iteration ends in the caller's except branch with nothing recorded.
UndefinedMetrics(w) == w.enough /\ w.oneClass

EvaluateCanary ==
  /\ pc = "deciding"
  /\ \E w \in Windows :
       IF UndefinedMetrics(w)
       THEN EndIteration
       ELSE outcome' = Verdict(w) /\ pc' = "writing"
  /\ UNCHANGED <<databaseVars, router, servingVars, registrationVars, faults>>

EvaluationFails ==
  /\ pc = "deciding"
  /\ Fault("query")
  /\ EndIteration
  /\ UNCHANGED <<databaseVars, router, servingVars, registrationVars>>

\* Mutant: the query reads the oldest rows first (ORDER BY without DESC).
AppendOldestFirst ==
  history' = SubSeq(Append(history, outcome), 1,
                    IF Len(history) >= VisibleRows THEN VisibleRows + 1
                                                   ELSE Len(history) + 1)

\* Mutant: the query has no LIMIT.
AppendUnlimited == history' = <<outcome>> \o history

AppendOutcome ==
  history' = SubSeq(<<outcome>> \o history, 1,
                    IF Len(history) >= VisibleRows THEN VisibleRows + 1
                                                   ELSE Len(history) + 1)

\* Mutant: apply_decision records a promotion before the reload.
RecordFirst(o) ==
  IF o = "promoted" THEN "recording"
  ELSE IF o = "rollback" THEN "retiring"
  ELSE "waiting"

NextStep(o) ==
  IF o = "promoted" THEN "reloading"
  ELSE IF o = "rollback" THEN "retiring"
  ELSE "waiting"

\* The row is committed before apply_decision runs.
WriteDecision ==
  /\ pc = "writing"
  /\ AppendOutcome
  /\ pc' = NextStep(outcome)
  /\ outcome' = IF NextStep(outcome) = "waiting" THEN "none" ELSE outcome
  /\ UNCHANGED <<models, toRetire, router, servingVars, registrationVars, faults>>

\* The insert raises, with its commit done or not: nothing is applied.
WriteFails ==
  /\ pc = "writing"
  /\ Fault("write")
  /\ AppendOutcome \/ UNCHANGED history
  /\ EndIteration
  /\ UNCHANGED <<models, toRetire, router, servingVars, registrationVars>>

\* POST /admin/reload: the container swaps first, the version it reports is
\* compared afterwards, and a mismatch aborts without swapping back.
ReloadChampion ==
  /\ pc = "reloading"
  /\ loaded' = artifact["challenger"]
  /\ IF loaded' = Challenger
     THEN pc' = "recording" /\ UNCHANGED outcome
     ELSE EndIteration
  /\ UNCHANGED <<databaseVars, router, lateReloads, artifact, registrationVars, faults>>

ReloadFails ==
  /\ pc = "reloading"
  /\ Fault("reload")
  /\ EndIteration
  /\ UNCHANGED <<databaseVars, router, servingVars, registrationVars>>

\* The caller gives up after 60 s while the container works on.
ReloadTimesOut ==
  /\ pc = "reloading"
  /\ Fault("late")
  /\ lateReloads' = lateReloads + 1
  /\ EndIteration
  /\ UNCHANGED <<databaseVars, router, loaded, artifact, registrationVars>>

\* A row that register_models has updated and not committed: another UPDATE of
\* it waits. A row it has inserted is not there for anybody else.
Locked(v) == wrote[v] # "kept" /\ models[v] # "absent"

\* The first UPDATE of the transaction finds the rows whose role is 'champion'.
FindChampions ==
  /\ pc = "recording"
  /\ toRetire' = {v \in Versions : models[v] = "champion"}
  /\ pc' = "promoting"
  /\ UNCHANGED <<outcome, history, models, router, servingVars, registrationVars, faults>>

\* Mutant: the old champion keeps its role.
PromotedBeside ==
  [v \in Versions |->
     IF v = Challenger /\ models[v] # "absent" THEN "champion" ELSE models[v]]

\* The champions found are retired, but for those whose row has lost the role
\* while the UPDATE waited for it; then the challenger's row takes the role.
Promoted ==
  [v \in Versions |->
     IF v = Challenger /\ models[v] # "absent" THEN "champion"
     ELSE IF v \in toRetire /\ models[v] = "champion" THEN "retired"
     ELSE models[v]]

\* Both UPDATEs have had their rows.
PromotionUnblocked == \A v \in toRetire \cup {Challenger} : ~Locked(v)

RecordPromotion ==
  /\ pc = "promoting"
  /\ PromotionUnblocked
  /\ models' = Promoted
  /\ toRetire' = {}
  /\ pc' = "disabling"
  /\ UNCHANGED <<outcome, history, router, servingVars, registrationVars, faults>>

\* The transaction is rolled back, or committed without the caller hearing of it.
RecordPromotionFails ==
  /\ pc \in {"recording", "promoting"}
  /\ Fault("registry")
  /\ \/ UNCHANGED models
     \/ pc = "promoting" /\ PromotionUnblocked /\ models' = Promoted
  /\ toRetire' = {}
  /\ EndIteration
  /\ UNCHANGED <<history, router, servingVars, registrationVars>>

\* Mutant: the UPDATE of a rollback has lost its WHERE clause.
EverythingRetired ==
  [v \in Versions |-> IF models[v] # "absent" THEN "retired" ELSE models[v]]

Retired ==
  [v \in Versions |->
     IF v = Challenger /\ models[v] # "absent" THEN "retired" ELSE models[v]]

\* Mutant: the rollback branch returns without switching the canary off.
RetireOnly ==
  /\ pc = "retiring"
  /\ models' = Retired
  /\ EndIteration
  /\ UNCHANGED <<history, toRetire, router, servingVars, registrationVars, faults>>

RetireChallenger ==
  /\ pc = "retiring"
  /\ ~Locked(Challenger)
  /\ models' = Retired
  /\ pc' = "disabling"
  /\ UNCHANGED <<outcome, history, toRetire, router, servingVars, registrationVars,
                 faults>>

RetireFails ==
  /\ pc = "retiring"
  /\ Fault("registry")
  /\ \/ UNCHANGED models
     \/ ~Locked(Challenger) /\ models' = Retired
  /\ EndIteration
  /\ UNCHANGED <<history, toRetire, router, servingVars, registrationVars>>

\* The last call of both branches switches the canary off.
DisableCanary ==
  /\ pc = "disabling"
  /\ router' = CanaryOff
  /\ EndIteration
  /\ UNCHANGED <<databaseVars, servingVars, registrationVars, faults>>

\* Its failure is logged and swallowed; the router may have taken it or not.
DisableFails ==
  /\ pc = "disabling"
  /\ Fault("disable")
  /\ router' \in {router, CanaryOff}
  /\ EndIteration
  /\ UNCHANGED <<databaseVars, servingVars, registrationVars>>

\* The process dies anywhere; compose restarts it and it iterates at once.
EvaluatorCrash ==
  /\ pc # "waiting"
  /\ Fault("evaluator")
  /\ pc' = "polling" /\ outcome' = "none"
  /\ toRetire' = {}
  /\ \/ UNCHANGED lateReloads
     \/ pc = "reloading" /\ "late" \in FaultKinds /\ lateReloads' = lateReloads + 1
  /\ UNCHANGED <<history, models, router, loaded, artifact, registrationVars>>

Evaluator ==
  \/ Wake
  \/ PollRouter \/ PollFails
  \/ EvaluateCanary \/ EvaluationFails
  \/ WriteDecision \/ WriteFails
  \/ ReloadChampion \/ ReloadFails \/ ReloadTimesOut
  \/ FindChampions \/ RecordPromotion \/ RecordPromotionFails
  \/ RetireChallenger \/ RetireFails
  \/ DisableCanary \/ DisableFails

------------------------------------------------------------------------------
(* The rest of the system.                                                  *)

\* A body that handleAdminCanary accepts replaces the routing state.
Accepted(body) == ~(body.enabled /\ body.shadowPct > 0)

OperatorSetsCanary ==
  /\ \E body \in OperatorBodies : Accepted(body) /\ router' = body
  /\ UNCHANGED <<pc, outcome, databaseVars, servingVars, registrationVars, faults>>

\* The routing state lives in memory only.
RouterRestart ==
  /\ Fault("router")
  /\ router' = InitialRouting
  /\ UNCHANGED <<pc, outcome, databaseVars, servingVars, registrationVars>>

\* MODEL_PATH names the champion slot, whatever was promoted since.
ChampionRestart ==
  /\ Fault("champion")
  /\ loaded' = artifact["champion"]
  /\ lateReloads' = 0
  /\ UNCHANGED <<pc, outcome, databaseVars, router, artifact, registrationVars>>

\* A reload whose caller gave up still swaps the runner.
LateReload ==
  /\ lateReloads > 0
  /\ loaded' = artifact["challenger"]
  /\ lateReloads' = lateReloads - 1
  /\ UNCHANGED <<pc, outcome, databaseVars, router, artifact, registrationVars, faults>>

Retrain ==
  /\ \E r \in Retrainings : artifact' = [artifact EXCEPT ![r[1]] = r[2]]
  /\ UNCHANGED <<pc, outcome, databaseVars, router, loaded, lateReloads,
                 registrationVars, faults>>

------------------------------------------------------------------------------
(* register_models.py: one transaction, READ COMMITTED, so each statement    *)
(* sees what is committed when it starts, and what the transaction wrote.    *)

BeginRegistration ==
  /\ regPc = "idle"
  /\ digests' = artifact
  /\ regPc' = "champion"
  /\ UNCHANGED <<pc, outcome, databaseVars, router, servingVars, currentRole, wrote,
                 faults>>

Visible(v) == IF wrote[v] = "kept" THEN models[v] ELSE wrote[v]

EndRegistration ==
  /\ regPc' = "idle"
  /\ digests' = [champion |-> Champion, challenger |-> Challenger]
  /\ currentRole' = "none"
  /\ wrote' = [v \in Versions |-> "kept"]

After(slot) == IF slot = "champion" THEN "older" ELSE "commit"
Updating(slot) == IF slot = "champion" THEN "update champion" ELSE "update challenger"

\* Mutant: upsert_model updates a retired row as it would any other.
RefusesNothing(role) == role \notin Roles

Refused(role) == role = "retired"

\* upsert_model up to its UPDATE: no row, insert one; the role already, skip; a
\* retired version, raise, which rolls the transaction back.
LookUp(slot) ==
  /\ regPc = slot
  /\ currentRole' = Visible(digests[slot])
  /\ \/ /\ currentRole' = "absent"
        /\ wrote' = [wrote EXCEPT ![digests[slot]] = slot]
        /\ regPc' = After(slot)
     \/ /\ currentRole' = slot
        /\ regPc' = After(slot)
        /\ UNCHANGED wrote
     \/ /\ currentRole' \notin {"absent", slot} /\ ~Refused(currentRole')
        /\ regPc' = Updating(slot)
        /\ UNCHANGED wrote
  /\ UNCHANGED <<pc, outcome, databaseVars, router, servingVars, digests, faults>>

RefuseModel(slot) ==
  /\ regPc = slot
  /\ Refused(Visible(digests[slot]))
  /\ EndRegistration
  /\ UNCHANGED <<pc, outcome, databaseVars, router, servingVars, faults>>

\* The UPDATE of upsert_model does not look at the role again.
UpdateRole(slot) ==
  /\ regPc = Updating(slot)
  /\ wrote' = [wrote EXCEPT ![digests[slot]] = slot]
  /\ regPc' = After(slot)
  /\ UNCHANGED <<pc, outcome, databaseVars, router, servingVars, digests, currentRole,
                 faults>>

RetireOlder ==
  /\ regPc = "older"
  /\ wrote' = [v \in Versions |->
                 IF Visible(v) = "challenger" /\ v # digests["challenger"]
                 THEN "retired" ELSE wrote[v]]
  /\ regPc' = "challenger"
  /\ UNCHANGED <<pc, outcome, databaseVars, router, servingVars, digests, currentRole,
                 faults>>

CommitRegistration ==
  /\ regPc = "commit"
  /\ models' = [v \in Versions |-> Visible(v)]
  /\ EndRegistration
  /\ UNCHANGED <<pc, outcome, history, toRetire, router, servingVars, faults>>

\* The script is killed, loses its connection, or is the victim of a deadlock.
AbandonRegistration ==
  /\ regPc # "idle"
  /\ EndRegistration
  /\ UNCHANGED <<pc, outcome, databaseVars, router, servingVars, faults>>

RegisterModels ==
  \/ \E slot \in Slots : LookUp(slot) \/ RefuseModel(slot) \/ UpdateRole(slot)
  \/ RetireOlder
  \/ CommitRegistration

Environment ==
  \/ OperatorSetsCanary
  \/ RouterRestart
  \/ ChampionRestart
  \/ LateReload
  \/ Retrain
  \/ BeginRegistration \/ RegisterModels \/ AbandonRegistration
  \/ EvaluatorCrash

Next == Evaluator \/ Environment

Spec == Init /\ [][Next]_vars

\* stopper.wait always returns and every call has a timeout, so the loop runs
\* on; a registration under way ends, and an UPDATE that waits for its row gets
\* it, PostgreSQL's queues for row locks being first come, first served. Nothing
\* obliges the operator, a crash, a retraining or a registration to happen.
FairSpec ==
  /\ Spec
  /\ WF_vars(Evaluator)
  /\ WF_vars(RegisterModels)
  /\ SF_vars(RecordPromotion \/ RetireChallenger)

------------------------------------------------------------------------------
(* Safety.                                                                  *)

\* Two champions are registered at once only when one of them is a champion that
\* was retrained after the stack was set up: register_models inserts it beside the
\* version in service. Between the champion and the challenger the evaluator was
\* started with, however promotions, rollbacks, crashes and registrations
\* overlap, there is one at most.
AtMostOneChampion ==
  \A v, w \in Versions :
    models[v] = "champion" /\ models[w] = "champion" /\ v # w =>
      \E x \in {v, w} : <<"champion", x>> \in Retrainings

\* The challenger becomes champion only on top of an unbroken run of improving
\* evaluations: RequiredRuns - 1 rows right below the promotion's own row. Any
\* inactive, failed-over, insufficient or neutral row in between restarts it.
PromotionEarned ==
  [][models[Challenger] # "champion" /\ models'[Challenger] = "champion" =>
       /\ Len(history) >= RequiredRuns
       /\ history[1] = "promoted"
       /\ \A i \in 2..RequiredRuns : history[i] = "improving"]_vars

\* The registry names the challenger champion only while the champion container
\* really serves it: apply_decision reloads and compares versions before its
\* transaction. (Provided the container neither restarts in between nor finishes
\* a reload that an earlier iteration gave up on.)
RecordedAfterServed ==
  [][models[Challenger] # "champion" /\ models'[Challenger] = "champion" =>
       loaded = Challenger]_vars

\* A retired version is given another role, in the table or inside a transaction
\* of register_models, by a recorded promotion of the challenger, or by a
\* registration that looked at the version while it was champion and lost the race
\* with its retirement (upsert_model's SELECT and UPDATE). Whoever looks at a
\* retired version refuses it.
NoUnseenRevival ==
  [][\A v \in Versions :
       models[v] = "retired" /\ wrote[v] = "kept" /\ Visible(v)' # "retired" =>
         \/ v = Challenger /\ pc = "promoting"
         \/ /\ regPc = "update challenger" /\ v = digests["challenger"]
            /\ currentRole = "champion"]_vars

------------------------------------------------------------------------------
(* The registry, the decision log and the container implement AuditedRollout: *)
(* a decision is pending from its row's commit until its transaction.         *)

Pending ==
  IF pc = "reloading" THEN "promote"
  ELSE IF pc \in {"recording", "promoting"} THEN "record"
  ELSE IF pc = "retiring" THEN "retire"
  ELSE "none"

\* What the registration under way has found and not retired.
Seen == IF regPc \in {"update challenger", "commit"} THEN {digests["challenger"]} ELSE {}

Files(slot) ==
  {IF slot = "champion" THEN Champion ELSE Challenger}
    \cup {v \in Versions : <<slot, v>> \in Retrainings}

Audit == INSTANCE AuditedRollout
           WITH log <- history, pending <- Pending, roles <- models, seen <- Seen,
                serving <- loaded, late <- lateReloads,
                ChampionFiles <- Files("champion"), ChallengerFiles <- Files("challenger")

\* Every step of the loop and of its environment, failures included, is a step
\* of the audited rollout (apply_decision after _write_decision): each row of the
\* log changes the registry and the container at most once, the registry after
\* the container, and a swap that comes late is one that a promotion's row is due.
ImplementsAudit == Audit!AuditSpec

------------------------------------------------------------------------------
(* Liveness, with finitely many faults.                                     *)

\* A canary that is on is switched off in the end, by a rollback or a promotion,
\* when every window is good or bad: a failed reload, registry or router call is
\* made up for by a later iteration.
CanaryConcludes == router.enabled ~> ~router.enabled

\* When every window is good or bad and nobody switches the canary off by hand, a
\* challenger whose canary the loop finds on ends up champion or retired, however
\* many attempts faults and failed-over polls cut short. (What a registration then
\* makes of it is another matter: one that overlaps the promotion may turn the new
\* champion into a challenger again, whose canary has been switched off.)
RolloutDecided ==
  router.enabled /\ pc = "polling" ~> models[Challenger] \in {"champion", "retired"}

------------------------------------------------------------------------------
(* What the documents and comments say and the code does not do.            *)

\* README.md:26 - the challenger runs "on 100% shadow traffic while the canary
\* evaluator decides whether to promote it". The loop evaluates only a canary
\* that takes live traffic.
ShadowDecides ==
  router.shadowPct = 100 ~> models[Challenger] # "challenger"

\* register_models.py:48-52 - a retirement is final without an explicit UPDATE
\* by an operator. The evaluator's own UPDATE does not look at the role, and the
\* script's looks at it in an earlier statement.
RetirementIsFinal ==
  [][\A v \in Versions : models[v] = "retired" => models'[v] = "retired"]_vars

\* PRODUCTION.md:149 - after a promotion there is "full traffic to promoted
\* champion". A restarted champion container loads the champion slot again.
PromotedIsServed ==
  pc = "waiting" /\ models[Challenger] = "champion" /\ lateReloads = 0 =>
    loaded = Challenger
==============================================================================
