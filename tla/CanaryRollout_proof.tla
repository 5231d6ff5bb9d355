------------------------- MODULE CanaryRollout_proof -------------------------
(* Proofs about CanaryRollout, for all versions, windows, faults and bounds. *)
EXTENDS CanaryRollout, TLAPS

------------------------------------------------------------------------------
(* What one row does to canary_decisions.                                   *)

\* _write_decision puts its row on top, moves the others down by one, and the
\* streak query reads no further than VisibleRows.
LEMMA AppendedRow ==
  ASSUME history \in Seq(Outcomes), Len(history) <= VisibleRows + 1,
         outcome \in Outcomes, AppendOutcome
  PROVE  /\ history' \in Seq(Outcomes)
         /\ Len(history') \in 1..(VisibleRows + 1)
         /\ Len(history') <= Len(history) + 1
         /\ Len(history) <= VisibleRows => Len(history') = Len(history) + 1
         /\ Len(history) > VisibleRows => Len(history') = VisibleRows + 1
         /\ history'[1] = outcome
         /\ \A i \in 2..Len(history') : history'[i] = history[i - 1]
<1> DEFINE rows == <<outcome>> \o history
           n == IF Len(history) >= VisibleRows THEN VisibleRows + 1
                                               ELSE Len(history) + 1
<1>1. VisibleRows \in Nat \ {0}
  BY RolloutAssumption DEF RolloutAssumption
<1>2. /\ rows \in Seq(Outcomes)
      /\ Len(rows) = Len(history) + 1
      /\ rows[1] = outcome
      /\ \A i \in 2..Len(rows) : rows[i] = history[i - 1]
  OBVIOUS
<1>3. n \in 1..Len(rows) /\ n <= VisibleRows + 1
  BY <1>1, <1>2
<1>4. history' = SubSeq(rows, 1, n)
  BY DEF AppendOutcome
<1> HIDE DEF rows, n
<1>5. /\ history' \in Seq(Outcomes)
      /\ Len(history') = n
      /\ \A i \in 1..n : history'[i] = rows[i]
  BY <1>2, <1>3, <1>4
<1>6. QED
  BY <1>1, <1>2, <1>3, <1>5 DEF n

------------------------------------------------------------------------------
(* Type correctness.                                                        *)

\* The verdicts of evaluate_canary are outcomes of the canary_decisions table.
LEMMA VerdictType ==
  ASSUME NEW w \in Windows
  PROVE  Verdict(w) \in Outcomes
<1>1. w \in AllWindows
  BY RolloutAssumption DEF RolloutAssumption
<1>2. QED
  BY <1>1 DEF AllWindows, Verdict, RollbackWindow, Outcomes

\* Each late reload has been paid for with a fault.
Counted ==
  /\ faults \in 0..MaxFaults /\ lateReloads \in 0..MaxFaults
  /\ lateReloads <= faults

\* TypeOK alone is not inductive: a row can be written only if the decision that
\* led to "writing" is one that canary_decisions.outcome admits, and late reloads
\* are bounded because faults are.
Typed ==
  /\ TypeOK
  /\ pc = "writing" => outcome \in Outcomes
  /\ Counted

\* A step leaves both counters alone, takes a fault, perhaps with a reload that will
\* be late, or ends late reloads.
LEMMA StepCounted ==
  ASSUME Counted, Next
  PROVE  Counted'
<1>1. MaxFaults \in Nat
  BY RolloutAssumption DEF RolloutAssumption
<1>2. \/ UNCHANGED <<faults, lateReloads>>
      \/ /\ faults < MaxFaults /\ faults' = faults + 1
         /\ lateReloads' \in {lateReloads, lateReloads + 1, 0}
      \/ faults' = faults /\ lateReloads > 0 /\ lateReloads' = lateReloads - 1
  BY DEF Next, Evaluator, Wake, PollRouter, PollFails, EvaluateCanary, EvaluationFails,
         WriteDecision, WriteFails, ReloadChampion, ReloadFails, ReloadTimesOut,
         FindChampions, RecordPromotion, RecordPromotionFails, RetireChallenger,
         RetireFails, DisableCanary, DisableFails, Environment, OperatorSetsCanary,
         RouterRestart, ChampionRestart, LateReload, Retrain, BeginRegistration,
         RegisterModels, LookUp, RefuseModel, UpdateRole, RetireOlder,
         CommitRegistration, AbandonRegistration, EvaluatorCrash, Fault, servingVars
<1>3. QED
  BY <1>1, <1>2 DEF Counted

\* The evaluator's own steps keep the types.
LEMMA EvaluatorType ==
  ASSUME Typed, Evaluator, Counted'
  PROVE  Typed'
<1> USE DEF Typed, Counted, databaseVars, servingVars, registrationVars
<1>0. /\ history \in Seq(Outcomes) /\ Len(history) <= VisibleRows + 1
      /\ pc = "writing" => outcome \in Outcomes
  BY DEF TypeOK
<1>1. CASE Wake
  BY <1>1 DEF Wake, TypeOK
<1>2. CASE PollRouter \/ PollFails
  BY <1>2 DEF PollRouter, PollFails, AssumeInactive, Fault, TypeOK, Outcomes
<1>3. CASE EvaluateCanary
  <2>1. PICK w \in Windows :
          IF UndefinedMetrics(w) THEN EndIteration
                                 ELSE outcome' = Verdict(w) /\ pc' = "writing"
    BY <1>3 DEF EvaluateCanary
  <2>2. Verdict(w) \in Outcomes
    BY VerdictType
  <2>3. outcome' \in Outcomes \cup {"none"} /\ pc' \in {"waiting", "writing"}
          /\ (pc' = "writing" => outcome' \in Outcomes)
    BY <2>1, <2>2 DEF EndIteration
  <2>4. QED
    BY <1>3, <2>3 DEF EvaluateCanary, TypeOK
<1>4. CASE EvaluationFails
  BY <1>4 DEF EvaluationFails, EndIteration, Fault, TypeOK
<1>5. CASE WriteDecision
  <2>1. history' \in Seq(Outcomes) /\ Len(history') <= VisibleRows + 1
    BY <1>0, <1>5, AppendedRow DEF WriteDecision
  <2>2. pc' \in {"waiting", "reloading", "retiring"}
          /\ outcome' \in Outcomes \cup {"none"}
    BY <1>5 DEF WriteDecision, NextStep, TypeOK
  <2>3. QED
    BY <1>5, <2>1, <2>2 DEF WriteDecision, TypeOK
<1>6. CASE WriteFails
  <2>1. history' \in Seq(Outcomes) /\ Len(history') <= VisibleRows + 1
    <3>1. CASE AppendOutcome
      BY <1>0, <1>6, <3>1, AppendedRow DEF WriteFails
    <3>2. CASE UNCHANGED history
      BY <3>2 DEF TypeOK
    <3>3. QED
      BY <1>6, <3>1, <3>2 DEF WriteFails
  <2>2. QED
    BY <1>6, <2>1 DEF WriteFails, EndIteration, Fault, TypeOK
<1>7. CASE ReloadChampion \/ ReloadFails \/ ReloadTimesOut
  <2>1. CASE ReloadChampion
    <3>1. loaded' \in Versions
      BY <2>1 DEF ReloadChampion, TypeOK, Slots
    <3>2. pc' \in {"recording", "waiting"} /\ outcome' \in {outcome, "none"}
      BY <2>1 DEF ReloadChampion, EndIteration
    <3>3. QED
      BY <2>1, <3>1, <3>2 DEF ReloadChampion, TypeOK
  <2>2. CASE ReloadFails
    BY <2>2 DEF ReloadFails, EndIteration, Fault, TypeOK
  <2>3. CASE ReloadTimesOut
    BY <2>3 DEF ReloadTimesOut, EndIteration, Fault, TypeOK
  <2>4. QED
    BY <1>7, <2>1, <2>2, <2>3
<1>8. CASE FindChampions
  BY <1>8 DEF FindChampions, TypeOK
<1>9. CASE RecordPromotion \/ RecordPromotionFails
  <2>1. Promoted \in [Versions -> Roles]
    BY DEF Promoted, TypeOK, Roles
  <2>2. QED
    BY <1>9, <2>1 DEF RecordPromotion, RecordPromotionFails, EndIteration, Fault, TypeOK
<1>10. CASE RetireChallenger \/ RetireFails
  <2>1. Retired \in [Versions -> Roles]
    BY DEF Retired, TypeOK, Roles
  <2>2. QED
    BY <1>10, <2>1 DEF RetireChallenger, RetireFails, EndIteration, Fault, TypeOK
<1>11. CASE DisableCanary \/ DisableFails
  <2>1. CanaryOff \in AdminBodies
    BY DEF CanaryOff, AdminBodies
  <2>2. QED
    BY <1>11, <2>1 DEF DisableCanary, DisableFails, EndIteration, Fault, TypeOK
<1>12. QED
  BY <1>1, <1>2, <1>3, <1>4, <1>5, <1>6, <1>7, <1>8, <1>9, <1>10, <1>11 DEF Evaluator

\* What a registration that has not begun, or has ended, leaves in its variables.
LEMMA EndedType ==
  ASSUME EndRegistration
  PROVE  /\ digests' \in [Slots -> Versions] /\ currentRole' = "none" /\ regPc' = "idle"
         /\ wrote' \in [Versions -> Roles \cup {"kept"}]
BY RolloutAssumption DEF RolloutAssumption, EndRegistration, Slots

\* The statements of register_models keep the types.
LEMMA RegistrationType ==
  ASSUME Typed, BeginRegistration \/ RegisterModels \/ AbandonRegistration, Counted'
  PROVE  Typed'
<1> USE DEF Typed, Counted, databaseVars, servingVars
<1>1. CASE BeginRegistration
  BY <1>1 DEF BeginRegistration, TypeOK
<1>2. ASSUME NEW slot \in Slots, LookUp(slot)
      PROVE  Typed'
  <2>1. digests[slot] \in Versions /\ slot \in Roles /\ slot \in {"champion", "challenger"}
    BY DEF TypeOK, Slots, Roles
  <2>2. currentRole' \in Roles
    BY <1>2, <2>1 DEF LookUp, Visible, TypeOK
  <2>3. wrote' \in [Versions -> Roles \cup {"kept"}]
    BY <1>2, <2>1 DEF LookUp, TypeOK
  <2>4. regPc' \in {"older", "commit", "update champion", "update challenger"}
    BY <1>2 DEF LookUp, After, Updating
  <2>5. QED
    BY <1>2, <2>2, <2>3, <2>4 DEF LookUp, TypeOK
<1>3. ASSUME NEW slot \in Slots, UpdateRole(slot)
      PROVE  Typed'
  <2>1. digests[slot] \in Versions /\ slot \in Roles
    BY DEF TypeOK, Slots, Roles
  <2>2. wrote' \in [Versions -> Roles \cup {"kept"}]
    BY <1>3, <2>1 DEF UpdateRole, TypeOK
  <2>3. regPc' \in {"older", "commit"}
    BY <1>3 DEF UpdateRole, After
  <2>4. QED
    BY <1>3, <2>2, <2>3 DEF UpdateRole, TypeOK
<1>4. CASE RetireOlder
  <2>1. wrote' \in [Versions -> Roles \cup {"kept"}]
    BY <1>4 DEF RetireOlder, TypeOK, Roles
  <2>2. QED
    BY <1>4, <2>1 DEF RetireOlder, TypeOK
<1>5. CASE CommitRegistration
  <2>1. models' \in [Versions -> Roles]
    BY <1>5 DEF CommitRegistration, Visible, TypeOK
  <2>2. QED
    BY <1>5, <2>1, EndedType DEF CommitRegistration, TypeOK
<1>6. ASSUME NEW slot \in Slots, RefuseModel(slot)
      PROVE  Typed'
  BY <1>6, EndedType DEF RefuseModel, TypeOK
<1>7. CASE AbandonRegistration
  BY <1>7, EndedType DEF AbandonRegistration, TypeOK
<1>8. QED
  BY <1>1, <1>2, <1>3, <1>4, <1>5, <1>6, <1>7 DEF RegisterModels

\* So do the steps of everything around the evaluator.
LEMMA EnvironmentType ==
  ASSUME Typed, Environment, Counted'
  PROVE  Typed'
<1> USE DEF Typed, Counted, databaseVars, servingVars, registrationVars
<1>1. CASE OperatorSetsCanary
  <2>1. router' \in AdminBodies
    BY <1>1, RolloutAssumption DEF RolloutAssumption, OperatorSetsCanary
  <2>2. QED
    BY <1>1, <2>1 DEF OperatorSetsCanary, TypeOK
<1>2. CASE RouterRestart
  <2>1. InitialRouting \in AdminBodies
    BY DEF InitialRouting, AdminBodies
  <2>2. QED
    BY <1>2, <2>1 DEF RouterRestart, Fault, TypeOK
<1>3. CASE ChampionRestart
  <2>1. loaded' \in Versions
    BY <1>3 DEF ChampionRestart, TypeOK, Slots
  <2>2. QED
    BY <1>3, <2>1 DEF ChampionRestart, Fault, TypeOK
<1>4. CASE LateReload
  <2>1. loaded' \in Versions
    BY <1>4 DEF LateReload, TypeOK, Slots
  <2>2. QED
    BY <1>4, <2>1 DEF LateReload, TypeOK
<1>5. CASE Retrain
  <2>1. artifact' \in [Slots -> Versions]
    <3>1. PICK r \in Retrainings : artifact' = [artifact EXCEPT ![r[1]] = r[2]]
      BY <1>5 DEF Retrain
    <3>2. r[2] \in Versions
      BY RolloutAssumption DEF RolloutAssumption
    <3>3. QED
      BY <3>1, <3>2 DEF TypeOK
  <2>2. QED
    BY <1>5, <2>1 DEF Retrain, TypeOK
<1>6. CASE BeginRegistration \/ RegisterModels \/ AbandonRegistration
  BY <1>6, RegistrationType
<1>7. CASE EvaluatorCrash
  BY <1>7 DEF EvaluatorCrash, Fault, TypeOK
<1>8. QED
  BY <1>1, <1>2, <1>3, <1>4, <1>5, <1>6, <1>7 DEF Environment

\* The state after register_models and the first start of every container.
LEMMA InitTyped ==
  ASSUME Init
  PROVE  Typed
<1>1. models \in [Versions -> Roles]
  BY DEF Init, Roles
<1>2. router \in AdminBodies
  BY DEF Init, InitialRouting, AdminBodies
<1>3. history \in Seq(Outcomes) /\ Len(history) <= VisibleRows + 1
  BY RolloutAssumption DEF RolloutAssumption, Init
<1>4. loaded \in Versions /\ artifact \in [Slots -> Versions]
  BY RolloutAssumption DEF RolloutAssumption, Init, Slots
<1>5. faults \in 0..MaxFaults /\ lateReloads \in 0..MaxFaults /\ lateReloads <= faults
  BY RolloutAssumption DEF RolloutAssumption, Init
<1>6. digests \in [Slots -> Versions] /\ wrote \in [Versions -> Roles \cup {"kept"}]
  BY RolloutAssumption DEF RolloutAssumption, Init, NothingWritten, Slots
<1>7. QED
  BY <1>1, <1>2, <1>3, <1>4, <1>5, <1>6 DEF Init, NothingWritten, Typed, TypeOK, Counted

\* One step of anything keeps the types.
LEMMA StepTyped ==
  ASSUME Typed, [Next]_vars
  PROVE  Typed'
<1>1. CASE UNCHANGED vars
  BY <1>1 DEF Typed, TypeOK, Counted, vars, databaseVars, servingVars, registrationVars
<1>2. QED
  BY <1>1, StepCounted, EvaluatorType, EnvironmentType DEF Next, Typed

\* Init and every step keep Typed, so it always holds.
LEMMA AlwaysTyped == Spec => []Typed
<1>1. Init => Typed
  BY InitTyped
<1>2. Typed /\ [Next]_vars => Typed'
  BY StepTyped
<1>3. QED
  BY <1>1, <1>2, PTL DEF Spec

\* Every reachable state is well typed: each decision is one of the outcomes of
\* canary_decisions, each role one of models.role's, whatever calls fail.
THEOREM TypeCorrect == Spec => []TypeOK
<1>1. Typed => TypeOK
  BY DEF Typed
<1>2. QED
  BY <1>1, AlwaysTyped, PTL

------------------------------------------------------------------------------
(* Decisions and their rows.                                                *)

\* The row of a promotion on top of the run of improving rows it rests on.
PromotionRow ==
  /\ Len(history) >= RequiredRuns
  /\ history[1] = "promoted"
  /\ \A i \in 2..RequiredRuns : history[i] = "improving"

\* The inductive invariant behind a decision: a promotion about to be written has
\* its run of improving rows, and from then on the newest row is the decision's.
Justified ==
  /\ Typed
  /\ pc = "writing" /\ outcome = "promoted" => SustainedImprovement
  /\ pc \in {"reloading", "recording", "promoting"} =>
       outcome = "promoted" /\ PromotionRow
  /\ pc = "retiring" =>
       outcome = "rollback" /\ Len(history) > 0 /\ history[1] = "rollback"

\* evaluate_canary returns "promoted" only on the streak it has just counted.
LEMMA VerdictEarned ==
  ASSUME NEW w \in Windows, Verdict(w) = "promoted"
  PROVE  SustainedImprovement
<1>1. w \in AllWindows
  BY RolloutAssumption DEF RolloutAssumption
<1>2. QED
  BY <1>1 DEF AllWindows, Verdict, RollbackWindow

\* Writing a promotion on top of its streak gives a PromotionRow.
LEMMA EarnedRow ==
  ASSUME Typed, outcome = "promoted", SustainedImprovement, AppendOutcome
  PROVE  PromotionRow'
<1>1. /\ history \in Seq(Outcomes) /\ Len(history) <= VisibleRows + 1
      /\ outcome \in Outcomes
  BY DEF Typed, TypeOK, Outcomes
<1>2. /\ RequiredRuns \in Nat \ {0} /\ VisibleRows \in Nat \ {0}
      /\ Len(history) \in Nat
  BY <1>1, RolloutAssumption DEF RolloutAssumption
<1>3. /\ Len(history') \in Nat
      /\ Len(history) <= VisibleRows => Len(history') = Len(history) + 1
      /\ Len(history) > VisibleRows => Len(history') = VisibleRows + 1
      /\ history'[1] = "promoted"
      /\ \A i \in 2..Len(history') : history'[i] = history[i - 1]
  BY <1>1, AppendedRow
<1>4. RequiredRuns <= Len(history')
  BY <1>2, <1>3 DEF SustainedImprovement
<1>5. ASSUME NEW i \in 2..RequiredRuns
      PROVE  history'[i] = "improving"
  <2>1. i \in 2..Len(history') /\ i - 1 \in 1..(RequiredRuns - 1)
    BY <1>2, <1>3, <1>4
  <2>2. QED
    BY <1>3, <2>1 DEF SustainedImprovement
<1>6. QED
  BY <1>3, <1>4, <1>5 DEF PromotionRow

\* The evaluator's steps keep each decision behind its row.
LEMMA EvaluatorJustified ==
  ASSUME Justified, Evaluator, Typed'
  PROVE  Justified'
<1>1. CASE Wake \/ PollRouter \/ PollFails
  BY <1>1 DEF Wake, PollRouter, PollFails, AssumeInactive, Justified
<1>2. CASE EvaluateCanary
  <2>1. PICK w \in Windows :
          IF UndefinedMetrics(w) THEN EndIteration
                                 ELSE outcome' = Verdict(w) /\ pc' = "writing"
    BY <1>2 DEF EvaluateCanary
  <2>2. CASE UndefinedMetrics(w)
    BY <2>1, <2>2 DEF EndIteration, Justified
  <2>3. CASE ~UndefinedMetrics(w)
    <3>1. outcome' = "promoted" => SustainedImprovement
      BY <2>1, <2>3, VerdictEarned
    <3>2. SustainedImprovement <=> SustainedImprovement'
      BY <1>2 DEF EvaluateCanary, SustainedImprovement, databaseVars
    <3>3. QED
      BY <2>1, <2>3, <3>1, <3>2 DEF Justified
  <2>4. QED
    BY <2>2, <2>3
<1>3. CASE EvaluationFails \/ WriteFails \/ ReloadFails \/ ReloadTimesOut
             \/ RecordPromotionFails \/ RetireFails \/ DisableFails \/ DisableCanary
  BY <1>3 DEF EvaluationFails, WriteFails, ReloadFails, ReloadTimesOut,
              RecordPromotionFails, RetireFails, DisableFails, DisableCanary,
              EndIteration, Justified
<1>4. CASE WriteDecision
  <2>1. /\ outcome \in Outcomes /\ history'[1] = outcome
        /\ Len(history') > 0
    <3>1. /\ history \in Seq(Outcomes) /\ Len(history) <= VisibleRows + 1
          /\ outcome \in Outcomes
      BY <1>4 DEF WriteDecision, Justified, Typed, TypeOK
    <3>2. QED
      BY <1>4, <3>1, AppendedRow DEF WriteDecision
  <2>2. CASE outcome = "promoted"
    <3>1. PromotionRow'
      BY <1>4, <2>2, EarnedRow DEF WriteDecision, Justified
    <3>2. pc' = "reloading" /\ outcome' = "promoted"
      BY <1>4, <2>2 DEF WriteDecision, NextStep
    <3>3. QED
      BY <3>1, <3>2 DEF Justified
  <2>3. CASE outcome = "rollback"
    <3>1. pc' = "retiring" /\ outcome' = "rollback"
      BY <1>4, <2>3 DEF WriteDecision, NextStep
    <3>2. QED
      BY <2>1, <2>3, <3>1 DEF Justified
  <2>4. CASE outcome \notin {"promoted", "rollback"}
    <3>1. pc' = "waiting"
      BY <1>4, <2>4 DEF WriteDecision, NextStep
    <3>2. QED
      BY <3>1 DEF Justified
  <2>5. QED
    BY <2>2, <2>3, <2>4
<1>5. CASE ReloadChampion \/ FindChampions
  <2>1. /\ history' = history /\ pc' \in {"recording", "promoting", "waiting"}
        /\ pc' # "waiting" => outcome' = outcome
    BY <1>5 DEF ReloadChampion, FindChampions, EndIteration, databaseVars
  <2>2. outcome = "promoted" /\ PromotionRow
    BY <1>5 DEF ReloadChampion, FindChampions, Justified
  <2>3. PromotionRow'
    BY <2>1, <2>2 DEF PromotionRow
  <2>4. QED
    BY <2>1, <2>2, <2>3 DEF Justified
<1>6. CASE RecordPromotion \/ RetireChallenger
  BY <1>6 DEF RecordPromotion, RetireChallenger, Justified
<1>7. QED
  BY <1>1, <1>2, <1>3, <1>4, <1>5, <1>6 DEF Evaluator

\* Nothing around the evaluator touches its decision or its rows; a crash only
\* makes it forget the decision.
LEMMA EnvironmentJustified ==
  ASSUME Justified, Environment, Typed'
  PROVE  Justified'
<1> USE DEF Environment, OperatorSetsCanary, RouterRestart, ChampionRestart, LateReload,
            Retrain, BeginRegistration, RegisterModels, LookUp, RefuseModel, UpdateRole,
            RetireOlder, CommitRegistration, AbandonRegistration, databaseVars
<1>1. history' = history
  BY DEF EvaluatorCrash
<1>2. CASE EvaluatorCrash
  BY <1>2 DEF EvaluatorCrash, Justified
<1>3. CASE ~EvaluatorCrash
  <2>1. pc' = pc /\ outcome' = outcome
    BY <1>3
  <2>2. (SustainedImprovement => SustainedImprovement') /\ (PromotionRow => PromotionRow')
    BY <1>1 DEF SustainedImprovement, PromotionRow
  <2>3. QED
    BY <1>1, <2>1, <2>2 DEF Justified
<1>4. QED
  BY <1>2, <1>3

\* No decision has been taken yet.
LEMMA InitJustified ==
  ASSUME Init, Typed
  PROVE  Justified
BY RolloutAssumption DEF RolloutAssumption, Init, Justified

\* One step of anything keeps decisions behind their rows.
LEMMA StepJustified ==
  ASSUME Justified, Typed', [Next]_vars
  PROVE  Justified'
<1>1. CASE UNCHANGED vars
  BY <1>1 DEF vars, databaseVars, servingVars, Justified, SustainedImprovement,
              PromotionRow
<1>2. CASE Next
  BY <1>2, EvaluatorJustified, EnvironmentJustified DEF Next
<1>3. QED
  BY <1>1, <1>2

\* Whatever fails, the inductive invariant holds in every reachable state.
LEMMA AlwaysJustified == Spec => []Justified
<1>1. Init /\ Typed => Justified
  BY InitJustified
<1>2. Justified /\ Typed' /\ [Next]_vars => Justified'
  BY StepJustified
<1>3. QED
  BY <1>1, <1>2, AlwaysTyped, PTL DEF Spec

------------------------------------------------------------------------------
(* The registry.                                                            *)

\* Only three operations write models.role: a promotion and a rollback, on rows that
\* no registration holds, and the commit of a registration.
LEMMA RegistryStep ==
  ASSUME [Next]_vars
  PROVE  \/ UNCHANGED models
         \/ /\ pc = "promoting" /\ PromotionUnblocked /\ models' = Promoted
            /\ UNCHANGED registrationVars
         \/ /\ pc = "retiring" /\ ~Locked(Challenger) /\ models' = Retired
            /\ UNCHANGED registrationVars
         \/ CommitRegistration
<1>1. CASE UNCHANGED vars
  BY <1>1 DEF vars, databaseVars
<1>2. CASE Evaluator
  BY <1>2 DEF Evaluator, Wake, PollRouter, PollFails, EvaluateCanary, EvaluationFails,
         WriteDecision, WriteFails, ReloadChampion, ReloadFails, ReloadTimesOut,
         FindChampions, RecordPromotion, RecordPromotionFails, RetireChallenger,
         RetireFails, DisableCanary, DisableFails, databaseVars
<1>3. CASE Environment
  BY <1>3 DEF Environment, OperatorSetsCanary, RouterRestart, ChampionRestart,
         LateReload, Retrain, BeginRegistration, RegisterModels, LookUp, RefuseModel,
         UpdateRole, RetireOlder, AbandonRegistration, EvaluatorCrash, databaseVars
<1>4. QED
  BY <1>1, <1>2, <1>3 DEF Next

\* Only the statements of register_models write what it keeps.
LEMMA RegistrationStep ==
  ASSUME [Next]_vars
  PROVE  \/ UNCHANGED registrationVars
         \/ UNCHANGED models /\ BeginRegistration
         \/ UNCHANGED models /\ \E slot \in Slots : LookUp(slot)
         \/ UNCHANGED models /\ \E slot \in Slots : UpdateRole(slot)
         \/ UNCHANGED models /\ RetireOlder
         \/ UNCHANGED models /\ EndRegistration
         \/ CommitRegistration
<1>1. CASE UNCHANGED vars
  BY <1>1 DEF vars
<1>2. CASE Evaluator
  BY <1>2 DEF Evaluator, Wake, PollRouter, PollFails, EvaluateCanary, EvaluationFails,
         WriteDecision, WriteFails, ReloadChampion, ReloadFails, ReloadTimesOut,
         FindChampions, RecordPromotion, RecordPromotionFails, RetireChallenger,
         RetireFails, DisableCanary, DisableFails
<1>3. CASE Environment
  BY <1>3 DEF Environment, OperatorSetsCanary, RouterRestart, ChampionRestart,
         LateReload, Retrain, BeginRegistration, RegisterModels, LookUp, RefuseModel,
         UpdateRole, RetireOlder, AbandonRegistration, EvaluatorCrash, databaseVars
<1>4. QED
  BY <1>1, <1>2, <1>3 DEF Next

\* What the slots may hold: the champion the stack was set up with is in no
\* challenger's file, the challenger in no champion's.
LEMMA FilesApart ==
  /\ \A slot \in Slots : Files(slot) \subseteq Versions
  /\ Champion \notin Files("challenger") /\ Challenger \notin Files("champion")
  /\ Champion \in Files("champion") /\ Challenger \in Files("challenger")
  /\ \A slot \in Slots : \A v \in Files(slot) \ {Champion, Challenger} :
       <<slot, v>> \in Retrainings
BY RolloutAssumption DEF RolloutAssumption, Files, Slots

\* The files on the disk, and those a registration has read, belong to their slots.
FromFiles ==
  \A slot \in Slots : artifact[slot] \in Files(slot) /\ digests[slot] \in Files(slot)

\* What a registration has written and not committed. It writes roles to the models
\* of their slots; it never touches the champion the stack was set up with; before
\* its first write it has written nothing; an UPDATE follows a SELECT that found the
\* other role, and only the challenger's can come too late: for the champion's slot
\* that role is 'challenger', which no promotion and no rollback takes away.
Written ==
  /\ \A v \in Versions : \A slot \in Slots : wrote[v] = slot => v \in Files(slot)
  /\ \A v \in Versions : wrote[v] # "absent"
  /\ wrote[Champion] = "kept"
  /\ regPc \in {"idle", "champion", "update champion"} =>
       \A v \in Versions : wrote[v] = "kept"
  /\ regPc = "update champion" => models[digests["champion"]] = "challenger"
  /\ regPc = "update challenger" => currentRole = "champion"
  /\ \A v \in Versions : models[v] = "retired" /\ wrote[v] # "kept" =>
       regPc = "commit" /\ v = digests["challenger"] /\ wrote[v] = "challenger"

\* The champion the stack was set up with keeps its role until a promotion retires it
\* for good, so it and the challenger are never both champions.
Succession ==
  /\ models[Champion] \in {"champion", "retired"}
  /\ ~(models[Champion] = "champion" /\ models[Challenger] = "champion")
  /\ pc = "promoting" /\ models[Champion] = "champion" => Champion \in toRetire
  /\ \A v \in Versions : models[v] = "champion" => v \in Files("champion") \cup {Challenger}

Registered == Typed /\ FromFiles /\ Written /\ Succession

\* The types that the following proofs need.
LEMMA RegistryTypes ==
  ASSUME Typed
  PROVE  /\ models \in [Versions -> Roles] /\ wrote \in [Versions -> Roles \cup {"kept"}]
         /\ digests \in [Slots -> Versions] /\ artifact \in [Slots -> Versions]
         /\ digests["champion"] \in Versions /\ digests["challenger"] \in Versions
         /\ Champion \in Versions /\ Challenger \in Versions /\ Champion # Challenger
BY RolloutAssumption DEF RolloutAssumption, Typed, TypeOK, Slots

\* Only a retraining writes files; register_models reads them once.
LEMMA StepFromFiles ==
  ASSUME Registered, [Next]_vars
  PROVE  FromFiles'
<1>1. \A slot \in Slots : artifact'[slot] \in Files(slot)
  <2>1. CASE Retrain
    <3>1. PICK r \in Retrainings : artifact' = [artifact EXCEPT ![r[1]] = r[2]]
      BY <2>1 DEF Retrain
    <3>2. r[1] \in Slots /\ r[2] \in Files(r[1]) /\ r = <<r[1], r[2]>>
      BY RolloutAssumption DEF RolloutAssumption, Files
    <3>3. QED
      BY <3>1, <3>2, RegistryTypes DEF Registered, FromFiles
  <2>2. CASE ~Retrain
    <3>1. artifact' = artifact
      BY <2>2 DEF Next, Evaluator, Wake, PollRouter, PollFails, EvaluateCanary,
         EvaluationFails, WriteDecision, WriteFails, ReloadChampion, ReloadFails,
         ReloadTimesOut, FindChampions, RecordPromotion, RecordPromotionFails,
         RetireChallenger, RetireFails, DisableCanary, DisableFails, Environment,
         OperatorSetsCanary, RouterRestart, ChampionRestart, LateReload,
         BeginRegistration, RegisterModels, LookUp, RefuseModel, UpdateRole,
         RetireOlder, CommitRegistration, AbandonRegistration, EvaluatorCrash, vars,
         servingVars
    <3>2. QED
      BY <3>1 DEF Registered, FromFiles
  <2>3. QED
    BY <2>1, <2>2
<1>2. digests' \in {digests, artifact} \/ EndRegistration
  BY RegistrationStep DEF registrationVars, BeginRegistration, LookUp, UpdateRole,
     RetireOlder, CommitRegistration
<1>3. \A slot \in Slots : digests'[slot] \in Files(slot)
  BY <1>2, FilesApart DEF EndRegistration, Registered, FromFiles, Slots
<1>4. QED
  BY <1>1, <1>3 DEF FromFiles

\* The registry's own steps keep Succession: a promotion retires the champion it has
\* found, a registration has nothing to say about the champion of the setup.
LEMMA StepSuccession ==
  ASSUME Registered, [Next]_vars
  PROVE  Succession'
<1> USE RegistryTypes, FilesApart DEF Registered
<1>1. pc' = "promoting" /\ models'[Champion] = "champion" /\ UNCHANGED models =>
        Champion \in toRetire'
  <2>1. CASE FindChampions
    BY <2>1 DEF FindChampions
  <2>2. CASE ~FindChampions /\ pc' = "promoting"
    <3>1. pc = "promoting" /\ toRetire' = toRetire
      BY <2>2 DEF Next, Evaluator, Wake, PollRouter, PollFails, AssumeInactive,
         EvaluateCanary, EvaluationFails, WriteDecision, NextStep, WriteFails,
         ReloadChampion, ReloadFails, ReloadTimesOut, RecordPromotion,
         RecordPromotionFails, RetireChallenger, RetireFails, DisableCanary,
         DisableFails, EndIteration, Environment, OperatorSetsCanary, RouterRestart,
         ChampionRestart, LateReload, Retrain, BeginRegistration, RegisterModels,
         LookUp, RefuseModel, UpdateRole, RetireOlder, CommitRegistration,
         AbandonRegistration, EvaluatorCrash, vars, databaseVars
    <3>2. QED
      BY <3>1 DEF Succession
  <2>3. QED
    BY <2>1, <2>2
<1>2. CASE UNCHANGED models
  BY <1>1, <1>2 DEF Succession
<1>3. CASE pc = "promoting" /\ models' = Promoted
  <2>1. models'[Champion] = "retired"
    BY <1>3 DEF Promoted, Succession
  <2>2. \A v \in Versions : models'[v] = "champion" =>
          v = Challenger \/ models[v] = "champion"
    BY <1>3 DEF Promoted
  <2>3. QED
    BY <2>1, <2>2 DEF Succession
<1>4. CASE pc = "retiring" /\ models' = Retired
  <2>1. /\ models'[Champion] = models[Champion]
        /\ \A v \in Versions : models'[v] = "champion" => models[v] = "champion"
        /\ models'[Challenger] # "champion"
    BY <1>4 DEF Retired
  <2>2. pc' # "promoting"
    BY <1>4 DEF Next, Evaluator, Wake, PollRouter, PollFails, AssumeInactive,
       EvaluateCanary, EvaluationFails, WriteDecision, NextStep, WriteFails,
       ReloadChampion, ReloadFails, ReloadTimesOut, FindChampions, RecordPromotion,
       RecordPromotionFails, RetireChallenger, RetireFails, DisableCanary,
       DisableFails, EndIteration, Environment, OperatorSetsCanary, RouterRestart,
       ChampionRestart, LateReload, Retrain, BeginRegistration, RegisterModels,
       LookUp, RefuseModel, UpdateRole, RetireOlder, CommitRegistration,
       AbandonRegistration, EvaluatorCrash, vars, databaseVars
  <2>3. QED
    BY <1>1, <2>1, <2>2 DEF Succession
<1>5. CASE CommitRegistration
  <2>1. \A v \in Versions : models'[v] = (IF wrote[v] = "kept" THEN models[v] ELSE wrote[v])
    BY <1>5 DEF CommitRegistration, Visible
  <2>2. models'[Champion] = models[Champion] /\ pc' = pc /\ toRetire' = toRetire
    BY <1>5, <2>1 DEF CommitRegistration, Written
  <2>3. \A v \in Versions : models'[v] = "champion" =>
          models[v] = "champion" \/ v \in Files("champion")
    BY <2>1 DEF Written, Slots
  <2>4. QED
    BY <2>2, <2>3 DEF Succession
<1>6. QED
  BY <1>2, <1>3, <1>4, <1>5, RegistryStep

\* A look at a model keeps Written: only the challenger can be found champion, and
\* only before anything is written can a role be found without having been written.
LEMMA LookUpWritten ==
  ASSUME Registered, NEW slot \in Slots, LookUp(slot), UNCHANGED models
  PROVE  Written'
<1> USE RegistryTypes, FilesApart DEF Registered
<1> DEFINE v == digests[slot]
<1>1. v \in Versions /\ v \in Files(slot) /\ slot \in {"champion", "challenger"}
  BY DEF FromFiles, Slots
<1>2. currentRole' = (IF wrote[v] = "kept" THEN models[v] ELSE wrote[v])
        /\ digests' = digests /\ regPc = slot
  BY DEF LookUp, Visible
<1>3. CASE currentRole' = "absent" /\ wrote' = [wrote EXCEPT ![v] = slot]
             /\ regPc' = After(slot)
  <2>1. models[v] = "absent"
    BY <1>1, <1>2, <1>3 DEF Written
  <2>2. v # Champion
    BY <2>1 DEF Succession
  <2>3. regPc' \in {"older", "commit"}
    BY <1>3 DEF After
  <2>4. \A w \in Versions : wrote'[w] = (IF w = v THEN slot ELSE wrote[w])
    BY <1>3
  <2>5. \A w \in Versions : \A t \in Slots : wrote'[w] = t => w \in Files(t)
    BY <1>1, <2>4 DEF Written
  <2>6. \A w \in Versions : models[w] = "retired" => w # v
    BY <2>1
  <2>7. regPc # "commit"
    BY <1>1, <1>2
  <2> HIDE DEF v
  <2>8. QED
    BY <1>1, <1>2, <2>2, <2>3, <2>4, <2>5, <2>6, <2>7 DEF Written
<1>4. CASE wrote' = wrote /\ regPc' = After(slot)
  <2>1. regPc' \in {"older", "commit"}
    BY <1>4 DEF After
  <2> HIDE DEF v
  <2>2. QED
    BY <1>1, <1>2, <1>4, <2>1 DEF Written
<1>5. CASE currentRole' \notin {"absent", slot} /\ ~Refused(currentRole')
             /\ wrote' = wrote /\ regPc' = Updating(slot)
  <2>1. currentRole' \in {"champion", "challenger"} \ {slot}
    BY <1>1, <1>2, <1>5 DEF Refused, Roles
  <2>2. CASE slot = "champion"
    <3>1. \A w \in Versions : wrote[w] = "kept"
      BY <1>2, <2>2 DEF Written
    <3>2. models[v] = "challenger" /\ regPc' = "update champion"
      BY <1>1, <1>2, <1>5, <2>1, <2>2, <3>1 DEF Updating
    <3>3. QED
      BY <1>2, <1>5, <2>2, <3>1, <3>2 DEF Written
  <2>3. CASE slot = "challenger"
    <3>1. currentRole' = "champion" /\ regPc' = "update challenger" /\ regPc # "commit"
      BY <1>2, <1>5, <2>1, <2>3 DEF Updating
    <3>2. QED
      BY <1>2, <1>5, <3>1 DEF Written
  <2>4. QED
    BY <1>1, <2>2, <2>3
<1>6. QED
  BY <1>3, <1>4, <1>5 DEF LookUp

\* So do its other statements.
LEMMA StatementWritten ==
  ASSUME Registered, UNCHANGED models, NEW slot \in Slots,
         UpdateRole(slot) \/ RetireOlder
  PROVE  Written'
<1> USE RegistryTypes, FilesApart DEF Registered
<1>1. CASE UpdateRole(slot)
  <2> DEFINE v == digests[slot]
  <2>1. v \in Versions /\ v \in Files(slot) /\ slot \in {"champion", "challenger"}
    BY DEF FromFiles, Slots
  <2>2. \A w \in Versions : wrote'[w] = (IF w = v THEN slot ELSE wrote[w])
    BY <1>1 DEF UpdateRole
  <2>3. /\ digests' = digests /\ regPc = Updating(slot) /\ regPc' = After(slot)
        /\ currentRole' = currentRole
    BY <1>1 DEF UpdateRole
  <2>4. v # Champion
    <3>1. CASE slot = "champion"
      BY <2>3, <3>1 DEF Updating, Written, Succession
    <3>2. CASE slot = "challenger"
      BY <2>1, <3>2
    <3>3. QED
      BY <2>1, <3>1, <3>2
  <2>5. \A w \in Versions : \A t \in Slots : wrote'[w] = t => w \in Files(t)
    BY <2>1, <2>2 DEF Written
  <2>6. \A w \in Versions : models[w] = "retired" /\ wrote'[w] # "kept" =>
          regPc' = "commit" /\ w = digests["challenger"] /\ wrote'[w] = "challenger"
    <3>1. CASE slot = "champion"
      BY <2>2, <2>3, <3>1 DEF Updating, Written
    <3>2. CASE slot = "challenger"
      BY <2>2, <2>3, <3>2 DEF Updating, After, Written
    <3>3. QED
      BY <2>1, <3>1, <3>2
  <2>7. regPc' \in {"older", "commit"}
    BY <2>3 DEF After
  <2> HIDE DEF v
  <2>8. QED
    BY <2>1, <2>2, <2>3, <2>4, <2>5, <2>6, <2>7 DEF Written
<1>2. CASE RetireOlder
  <2>1. /\ regPc = "older" /\ regPc' = "challenger" /\ digests' = digests
        /\ \A w \in Versions :
             wrote'[w] = IF Visible(w) = "challenger" /\ w # digests["challenger"]
                         THEN "retired" ELSE wrote[w]
    BY <1>2 DEF RetireOlder
  <2>2. \A w \in Versions : Visible(w) = "challenger" => models[w] # "retired"
    BY <2>1 DEF Visible, Written
  <2>3. Visible(Champion) # "challenger"
    BY DEF Visible, Written, Succession
  <2>4. QED
    BY <2>1, <2>2, <2>3 DEF Written, Slots
<1>3. QED
  BY <1>1, <1>2

\* Every step keeps Written. The evaluator's wait for the rows that a registration has
\* written, and the champion slot's row is not theirs to change.
LEMMA StepWritten ==
  ASSUME Registered, [Next]_vars
  PROVE  Written'
<1> USE RegistryTypes, FilesApart DEF Registered
<1>1. CASE UNCHANGED registrationVars /\ UNCHANGED models
  BY <1>1 DEF Written, registrationVars
<1>2. CASE UNCHANGED registrationVars /\ PromotionUnblocked /\ models' = Promoted
  <2>1. \A v \in Versions : models'[v] = "retired" =>
          models[v] = "retired" \/ wrote[v] = "kept"
    BY <1>2 DEF Promoted, PromotionUnblocked, Locked
  <2>2. digests["champion"] # Challenger
    BY DEF FromFiles, Slots
  <2>3. regPc = "update champion" => models'[digests["champion"]] = "challenger"
    BY <1>2, <2>2 DEF Promoted, Written
  <2>4. QED
    BY <1>2, <2>1, <2>3 DEF Written, registrationVars
<1>3. CASE UNCHANGED registrationVars /\ ~Locked(Challenger) /\ models' = Retired
  <2>1. \A v \in Versions : models'[v] = "retired" =>
          models[v] = "retired" \/ wrote[v] = "kept"
    BY <1>3 DEF Retired, Locked
  <2>2. digests["champion"] # Challenger
    BY DEF FromFiles, Slots
  <2>3. regPc = "update champion" => models'[digests["champion"]] = "challenger"
    BY <1>3, <2>2 DEF Retired, Written
  <2>4. QED
    BY <1>3, <2>1, <2>3 DEF Written, registrationVars
<1>4. CASE UNCHANGED models /\ BeginRegistration
  BY <1>4 DEF BeginRegistration, Written
<1>5. CASE EndRegistration
  BY <1>5 DEF EndRegistration, Written, Slots
<1>6. CASE UNCHANGED models /\ \E slot \in Slots : LookUp(slot)
  BY <1>6, LookUpWritten
<1>7. CASE UNCHANGED models /\ \E slot \in Slots : UpdateRole(slot)
  BY <1>7, StatementWritten
<1>8. CASE UNCHANGED models /\ RetireOlder
  <2>1. "champion" \in Slots
    BY DEF Slots
  <2>2. QED
    BY <1>8, <2>1, StatementWritten
<1>9. QED
  BY <1>1, <1>2, <1>3, <1>4, <1>5, <1>6, <1>7, <1>8, RegistryStep, RegistrationStep
  DEF CommitRegistration

\* The registry's invariant holds in every reachable state.
LEMMA AlwaysRegistered == Spec => []Registered
<1>1. Init /\ Typed => Registered
  BY FilesApart, RegistryTypes
  DEF Init, NothingWritten, Registered, FromFiles, Written, Succession, Slots
<1>2. Registered /\ Typed' /\ [Next]_vars => Registered'
  BY StepFromFiles, StepWritten, StepSuccession DEF Registered
<1>3. QED
  BY <1>1, <1>2, AlwaysTyped, PTL DEF Spec

\* The challenger becomes champion only by a promotion's transaction.
LEMMA ChampionByPromotion ==
  ASSUME Registered, [Next]_vars,
         models[Challenger] # "champion", models'[Challenger] = "champion"
  PROVE  pc = "promoting"
<1> USE RegistryTypes, FilesApart DEF Registered
<1>1. CASE models' = Retired
  BY <1>1 DEF Retired
<1>2. CASE CommitRegistration
  <2>1. wrote[Challenger] # "champion"
    BY DEF Written, Slots
  <2>2. QED
    BY <1>2, <2>1 DEF CommitRegistration, Visible
<1>3. QED
  BY <1>1, <1>2, RegistryStep

\* The challenger becomes champion only on top of RequiredRuns - 1 consecutive
\* improving rows, for every sequence of crashes, failures and operator calls.
THEOREM PromotionsAreEarned == Spec => PromotionEarned
<1> DEFINE Step == models[Challenger] # "champion" /\ models'[Challenger] = "champion" =>
                     /\ Len(history) >= RequiredRuns
                     /\ history[1] = "promoted"
                     /\ \A i \in 2..RequiredRuns : history[i] = "improving"
<1>1. Justified /\ Registered /\ [Next]_vars => Step
  BY ChampionByPromotion DEF Justified, PromotionRow
<1>2. Justified /\ Registered /\ [Next]_vars => [Step]_vars
  BY <1>1
<1>3. QED
  BY <1>2, AlwaysJustified, AlwaysRegistered, PTL DEF Spec, PromotionEarned

\* The streak query reads VisibleRows rows (evaluator.py:231, LIMIT 10): a challenger
\* that must improve for longer than those and the evaluation at hand is never
\* promoted, its model never loaded by a promotion and its role never changed by one,
\* however long it improves. With the configured 3 runs the hypothesis is false.
THEOREM StreakBeyondTheLimit ==
  ASSUME RequiredRuns > VisibleRows + 1
  PROVE  Spec => /\ [](pc \notin {"reloading", "recording", "promoting"})
                 /\ [][models[Challenger] # "champion" => models'[Challenger] # "champion"]_vars
<1>1. Justified => pc \notin {"reloading", "recording", "promoting"}
  <2> SUFFICES ASSUME Justified, pc \in {"reloading", "recording", "promoting"}
               PROVE  FALSE
    OBVIOUS
  <2>1. Len(history) >= RequiredRuns
    BY DEF Justified, PromotionRow
  <2>2. Len(history) \in Nat /\ Len(history) <= VisibleRows + 1
    <3>1. history \in Seq(Outcomes) /\ Len(history) <= VisibleRows + 1
      BY DEF Justified, Typed, TypeOK
    <3>2. QED
      BY <3>1
  <2>3. RequiredRuns \in Nat /\ VisibleRows \in Nat /\ RequiredRuns > VisibleRows + 1
    BY RolloutAssumption DEF RolloutAssumption
  <2> QED
    BY <2>1, <2>2, <2>3
<1>2. Justified /\ Registered /\ [Next]_vars =>
        [models[Challenger] # "champion" => models'[Challenger] # "champion"]_vars
  BY <1>1, ChampionByPromotion
<1> QED
  BY <1>1, <1>2, AlwaysJustified, AlwaysRegistered, PTL DEF Spec

\* A retired version is given a role again only by a recorded promotion, or by a
\* registration that read its role before it was retired: between upsert_model's
\* SELECT and its UPDATE nothing is locked.
THEOREM RevivalsAreRaces == Spec => NoUnseenRevival
<1> DEFINE Step == \A v \in Versions :
                     models[v] = "retired" /\ wrote[v] = "kept" /\ Visible(v)' # "retired" =>
                       \/ v = Challenger /\ pc = "promoting"
                       \/ /\ regPc = "update challenger" /\ v = digests["challenger"]
                          /\ currentRole = "champion"
<1>1. Registered /\ [Next]_vars => Step
  <2> SUFFICES ASSUME Registered, [Next]_vars, NEW v \in Versions,
                      models[v] = "retired", wrote[v] = "kept", Visible(v)' # "retired"
               PROVE  \/ v = Challenger /\ pc = "promoting"
                      \/ /\ regPc = "update challenger" /\ v = digests["challenger"]
                         /\ currentRole = "champion"
    OBVIOUS
  <2> USE RegistryTypes DEF Registered
  <2>1. CASE wrote' = wrote
    <3>1. models'[v] # "retired"
      BY <2>1 DEF Visible
    <3>2. CASE pc = "promoting" /\ models' = Promoted
      BY <3>1, <3>2 DEF Promoted
    <3>3. CASE models' = Retired
      BY <3>1, <3>3 DEF Retired
    <3>4. CASE CommitRegistration
      BY <3>1, <3>4 DEF CommitRegistration, Visible
    <3>5. QED
      BY <3>1, <3>2, <3>3, <3>4, RegistryStep
  <2>2. CASE UNCHANGED models /\ \E slot \in Slots : LookUp(slot)
    <3>1. PICK slot \in Slots : LookUp(slot)
      BY <2>2
    <3>2. wrote'[v] = "kept"
      BY <2>2, <3>1 DEF LookUp, Visible
    <3>3. QED
      BY <2>2, <3>2 DEF Visible
  <2>3. CASE UNCHANGED models /\ \E slot \in Slots : UpdateRole(slot)
    <3>1. PICK slot \in Slots : UpdateRole(slot)
      BY <2>3
    <3>2. wrote'[v] # "kept"
      BY <2>3 DEF Visible
    <3>3. v = digests[slot] /\ regPc = Updating(slot)
      BY <3>1, <3>2 DEF UpdateRole
    <3>4. CASE slot = "champion"
      BY <3>3, <3>4 DEF Updating, Written
    <3>5. CASE slot = "challenger"
      BY <3>3, <3>5 DEF Updating, Written
    <3>6. QED
      BY <3>4, <3>5 DEF Slots
  <2>4. CASE UNCHANGED models /\ RetireOlder
    BY <2>4 DEF RetireOlder, Visible
  <2>5. CASE UNCHANGED models /\ EndRegistration
    BY <2>5 DEF EndRegistration, Visible
  <2>6. CASE CommitRegistration
    BY <2>6 DEF CommitRegistration, EndRegistration, Visible
  <2>7. CASE BeginRegistration
    BY <2>1, <2>7 DEF BeginRegistration
  <2>8. QED
    BY <2>1, <2>2, <2>3, <2>4, <2>5, <2>6, <2>7, RegistrationStep DEF registrationVars
<1>2. Registered /\ [Next]_vars => [Step]_vars
  BY <1>1
<1>3. QED
  BY <1>2, AlwaysRegistered, PTL DEF Spec, NoUnseenRevival

\* Two champions at once means that a champion was retrained: the champion of the setup
\* and the challenger follow each other, whatever is registered meanwhile.
THEOREM SingleChampion == Spec => []AtMostOneChampion
<1>1. Registered => AtMostOneChampion
  <2> SUFFICES ASSUME Registered, NEW v \in Versions, NEW w \in Versions,
                      models[v] = "champion", models[w] = "champion", v # w
               PROVE  \E x \in {v, w} : <<"champion", x>> \in Retrainings
    BY DEF AtMostOneChampion
  <2>1. {v, w} \subseteq Files("champion") \cup {Challenger} /\ {v, w} # {Champion, Challenger}
    BY DEF Registered, Succession
  <2>2. PICK x \in {v, w} : x \notin {Champion, Challenger}
    BY <2>1
  <2>3. QED
    BY <2>1, <2>2, FilesApart DEF Slots
<1>2. QED
  BY <1>1, AlwaysRegistered, PTL

------------------------------------------------------------------------------
(* The registry and the serving container.                                  *)

\* The container keeps serving what it confirmed until the role is recorded.
Confirmed ==
  lateReloads = 0 /\ (pc \in {"recording", "promoting"} => loaded = Challenger)

\* When the champion container neither restarts nor finishes a reload after its
\* caller gave up, the registry names the challenger champion only while the
\* container serves it: the reload comes before the transaction.
THEOREM RegistryFollowsContainer ==
  ASSUME "champion" \notin FaultKinds, "late" \notin FaultKinds
  PROVE  Spec => RecordedAfterServed
<1> DEFINE Step == models[Challenger] # "champion" /\ models'[Challenger] = "champion" =>
                     loaded = Challenger
<1>1. Init => Confirmed
  BY DEF Init, Confirmed
<1>2. Confirmed /\ [Next]_vars => Confirmed'
  <2> SUFFICES ASSUME Confirmed, [Next]_vars PROVE Confirmed'
    OBVIOUS
  <2>1. CASE UNCHANGED vars
    BY <2>1 DEF vars, servingVars, Confirmed
  <2>2. CASE ReloadChampion
    BY <2>2 DEF ReloadChampion, EndIteration, Confirmed
  <2>3. CASE Evaluator /\ ~ReloadChampion
    BY <2>3 DEF Evaluator, Wake, PollRouter, PollFails, EvaluateCanary,
       EvaluationFails, WriteDecision, NextStep, WriteFails, ReloadFails, ReloadTimesOut,
       FindChampions, RecordPromotion, RecordPromotionFails, RetireChallenger,
       RetireFails, DisableCanary, DisableFails, AssumeInactive, EndIteration, Fault,
       servingVars, Confirmed
  <2>4. CASE Environment
    BY <2>4 DEF Environment, EvaluatorCrash, OperatorSetsCanary, RouterRestart,
       ChampionRestart, LateReload, Retrain, BeginRegistration, RegisterModels, LookUp,
       RefuseModel, UpdateRole, RetireOlder, CommitRegistration, AbandonRegistration,
       Fault, servingVars, Confirmed
  <2>5. QED
    BY <2>1, <2>2, <2>3, <2>4 DEF Next
<1>3. Registered /\ Confirmed /\ [Next]_vars => [Step]_vars
  BY ChampionByPromotion DEF Confirmed
<1>4. QED
  BY <1>1, <1>2, <1>3, AlwaysRegistered, PTL DEF Spec, RecordedAfterServed

------------------------------------------------------------------------------
(* Refinement.                                                              *)

\* The evaluator's steps are steps of the audited rollout: a row with what it leaves
\* owed, a swap, an effect, or nothing that shows.
LEMMA EvaluatorAudited ==
  ASSUME Justified, Registered, Evaluator
  PROVE  [Audit!AuditNext]_(Audit!auditVars)
<1> USE DEF Audit!AuditNext, Audit!auditVars, Pending, Seen, databaseVars, servingVars,
            registrationVars
<1>1. CASE Wake \/ PollRouter \/ PollFails \/ EvaluateCanary \/ EvaluationFails
  BY <1>1 DEF Wake, PollRouter, PollFails, EvaluateCanary, EvaluationFails,
              AssumeInactive, EndIteration
<1>2. CASE WriteDecision \/ WriteFails
  <2>1. outcome \in Audit!Outcomes
    BY <1>2 DEF WriteDecision, WriteFails, Justified, Typed, Outcomes, Audit!Outcomes
  <2>2. CASE AppendOutcome
    <3>1. Audit!RecordDecision(outcome)
      BY <1>2, <2>2 DEF WriteDecision, WriteFails, EndIteration, AppendOutcome,
         Audit!RecordDecision, Audit!Recorded, Audit!EffectOf, NextStep, Audit!Earned,
         SustainedImprovement, Justified
    <3>2. QED
      BY <2>1, <3>1
  <2>3. CASE WriteFails /\ UNCHANGED history
    BY <2>3 DEF WriteFails, EndIteration
  <2>4. QED
    BY <1>2, <2>2, <2>3 DEF WriteDecision, WriteFails
<1>3. CASE ReloadChampion
  <2>1. loaded' \in Files("challenger")
    BY <1>3 DEF ReloadChampion, Registered, FromFiles, Slots
  <2>2. QED
    BY <1>3, <2>1 DEF ReloadChampion, EndIteration, Audit!Swap
<1>4. CASE ReloadFails \/ ReloadTimesOut
  BY <1>4 DEF ReloadFails, ReloadTimesOut, EndIteration, Audit!Abandon
<1>5. CASE FindChampions
  BY <1>5 DEF FindChampions
<1>6. CASE RecordPromotion \/ RecordPromotionFails
  <2>1. /\ UNCHANGED <<history, servingVars, registrationVars>>
        /\ pc \in {"recording", "promoting"} /\ pc' \in {"disabling", "waiting"}
    BY <1>6 DEF RecordPromotion, RecordPromotionFails, EndIteration
  <2>2. CASE models' = models
    BY <2>1, <2>2 DEF Audit!Abandon
  <2>3. CASE pc = "promoting" /\ models' = Promoted
    <3>1. \A v \in Versions \ {Challenger} :
            \/ models[v] # "champion" /\ models'[v] = models[v]
            \/ models[v] = "champion" /\ models'[v] = "retired"
            \/ v \in Files("champion") \ {Champion} /\ models'[v] = models[v]
      BY <2>3 DEF Promoted, Registered, Succession
    <3>2. models[Challenger] # "absent" => models'[Challenger] = "champion"
      BY <2>3, RegistryTypes DEF Promoted, Registered
    <3>3. Audit!TakeEffect
      BY <2>1, <2>3, <3>1, <3>2 DEF Audit!TakeEffect
    <3>4. QED
      BY <3>3
  <2>4. QED
    BY <1>6, <2>2, <2>3 DEF RecordPromotion, RecordPromotionFails
<1>7. CASE RetireChallenger \/ RetireFails
  <2>1. UNCHANGED <<history, servingVars, registrationVars>>
          /\ pc = "retiring" /\ pc' \in {"disabling", "waiting"}
    BY <1>7 DEF RetireChallenger, RetireFails, EndIteration
  <2>2. CASE models' = models
    BY <2>1, <2>2 DEF Audit!Abandon
  <2>3. CASE models' = Retired
    BY <2>1, <2>3, RegistryTypes DEF Audit!TakeEffect, Retired, Registered
  <2>4. QED
    BY <1>7, <2>2, <2>3 DEF RetireChallenger, RetireFails
<1>8. CASE DisableCanary \/ DisableFails
  BY <1>8 DEF DisableCanary, DisableFails, EndIteration
<1>9. QED
  BY <1>1, <1>2, <1>3, <1>4, <1>5, <1>6, <1>7, <1>8 DEF Evaluator

\* A registration's look at the challenger is the audited one: what it goes on with
\* was not retired, not even outside its transaction.
LEMMA LookUpAudited ==
  ASSUME Registered, NEW slot \in Slots, LookUp(slot)
  PROVE  [Audit!AuditNext]_(Audit!auditVars)
<1> USE DEF Audit!auditVars, Pending, databaseVars, servingVars
<1> USE RegistryTypes DEF Registered
<1>1. /\ UNCHANGED <<history, pc, models, loaded, lateReloads>>
      /\ regPc = slot /\ digests' = digests
      /\ regPc' \in {After(slot), Updating(slot)}
  BY DEF LookUp
<1>2. CASE slot = "champion"
  BY <1>1, <1>2 DEF Seen, After, Updating
<1>3. CASE slot = "challenger"
  <2>1. Seen' = {digests["challenger"]} /\ digests["challenger"] \in Files("challenger")
    BY <1>1, <1>3 DEF Seen, After, Updating, FromFiles
  <2>2. Visible(digests["challenger"]) # "retired"
    BY <1>3 DEF LookUp, Refused
  <2>3. models[digests["challenger"]] # "retired"
    BY <1>1, <1>3, <2>2 DEF Visible, Written
  <2>4. Audit!LookUp
    BY <1>1, <2>1, <2>3 DEF Audit!LookUp
  <2>5. QED
    BY <2>4 DEF Audit!AuditNext
<1>4. QED
  BY <1>2, <1>3 DEF Slots

\* So are the other steps of a registration: only its end shows.
LEMMA RegistrationAudited ==
  ASSUME Registered, BeginRegistration \/ RegisterModels \/ AbandonRegistration
  PROVE  [Audit!AuditNext]_(Audit!auditVars)
<1> USE DEF Audit!auditVars, Pending, databaseVars, servingVars
<1> USE RegistryTypes, FilesApart DEF Registered
<1>1. CASE BeginRegistration
  BY <1>1 DEF BeginRegistration, Seen
<1>2. ASSUME NEW slot \in Slots, UpdateRole(slot)
      PROVE  UNCHANGED Audit!auditVars
  <2>1. UNCHANGED <<history, pc, models, loaded, lateReloads, digests>>
          /\ regPc = Updating(slot) /\ regPc' = After(slot)
    BY <1>2 DEF UpdateRole
  <2>2. QED
    BY <2>1 DEF Seen, Updating, After, Slots
<1>3. CASE RetireOlder
  BY <1>3 DEF RetireOlder, Seen
<1>4. ASSUME UNCHANGED <<history, pc, models, loaded, lateReloads>>, EndRegistration
      PROVE  Audit!Register
  BY <1>4 DEF Audit!Register, EndRegistration, Seen
<1>5. CASE CommitRegistration
  <2>1. \A v \in Versions : models'[v] = (IF wrote[v] = "kept" THEN models[v] ELSE wrote[v])
    BY <1>5 DEF CommitRegistration, Visible
  <2>2. \A v \in Versions : models[v] = "retired" =>
          models'[v] = "retired" \/ (v \in Seen /\ models'[v] = "challenger")
    BY <1>5, <2>1 DEF Written, Seen
  <2>3. \A v \in Versions : models'[v] = "champion" =>
          models[v] = "champion" \/ v \in Files("champion")
    BY <2>1 DEF Written, Slots
  <2>4. \A v \in Versions : models'[v] = "challenger" =>
          models[v] = "challenger" \/ v \in Files("challenger")
    BY <2>1 DEF Written, Slots
  <2>5. Audit!Register
    BY <1>5, <2>2, <2>3, <2>4
    DEF CommitRegistration, EndRegistration, Seen, Audit!Register
  <2>6. QED
    BY <2>5 DEF Audit!AuditNext
<1>6. QED
  BY <1>1, <1>2, <1>3, <1>4, <1>5, LookUpAudited
  DEF RegisterModels, RefuseModel, AbandonRegistration, Audit!AuditNext

\* Every step of the rollout, with all its failures, is a step of the audited
\* rollout or leaves its variables alone.
LEMMA StepAudited ==
  ASSUME Justified, Registered, [Next]_vars
  PROVE  [Audit!AuditNext]_(Audit!auditVars)
<1> USE DEF Audit!auditVars, Pending, Seen, databaseVars, servingVars, registrationVars
<1>1. CASE UNCHANGED vars
  BY <1>1 DEF vars
<1>2. CASE Evaluator
  BY <1>2, EvaluatorAudited
<1>3. CASE BeginRegistration \/ RegisterModels \/ AbandonRegistration
  BY <1>3, RegistrationAudited
<1>4. CASE EvaluatorCrash
  <2>1. Audit!Abandon
    BY <1>4 DEF EvaluatorCrash, Audit!Abandon
  <2>2. QED
    BY <2>1 DEF Audit!AuditNext
<1>5. CASE OperatorSetsCanary \/ RouterRestart \/ Retrain
  BY <1>5 DEF OperatorSetsCanary, RouterRestart, Retrain
<1>6. CASE ChampionRestart
  <2>1. loaded' \in Files("champion")
    BY <1>6 DEF ChampionRestart, Registered, FromFiles, Slots
  <2>2. QED
    BY <1>6, <2>1 DEF ChampionRestart, Audit!Restart, Audit!AuditNext
<1>7. CASE LateReload
  <2>1. loaded' \in Files("challenger")
    BY <1>7 DEF LateReload, Registered, FromFiles, Slots
  <2>2. QED
    BY <1>7, <2>1 DEF LateReload, Audit!LateSwap, Audit!AuditNext
<1>8. QED
  BY <1>1, <1>2, <1>3, <1>4, <1>5, <1>6, <1>7 DEF Next, Environment

\* The evaluator implements the audited rollout: main writes its row, then applies
\* it, the container first and the registry next, each at most once; nobody else
\* makes a champion of the challenger or loads its file into the container.
THEOREM RolloutIsAudited == Spec => ImplementsAudit
<1>1. Init => Audit!AuditInit
  <2> SUFFICES ASSUME Init PROVE Audit!AuditInit
    OBVIOUS
  <2>1. models \in [Versions -> {"absent", "champion", "challenger", "retired"}]
    BY DEF Init
  <2>2. QED
    BY <2>1, FilesApart DEF Init, Pending, Seen, Audit!AuditInit
<1>2. Justified /\ Registered /\ [Next]_vars => [Audit!AuditNext]_(Audit!auditVars)
  BY StepAudited
<1>3. QED
  BY <1>1, <1>2, AlwaysJustified, AlwaysRegistered, PTL
  DEF Spec, ImplementsAudit, Audit!AuditSpec
==============================================================================
