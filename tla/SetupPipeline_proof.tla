-------------------------- MODULE SetupPipeline_proof --------------------------
(***************************************************************************)
(* Theorems about SetupPipeline, for any sessions, number of migration     *)
(* files, feature lists and bounds.                                        *)
(***************************************************************************)
EXTENDS SetupPipeline, SequenceTheorems, TLAPS

-------------------------------------------------------------------------------
(* The migrations.                                                          *)

\* A session that is at a file has seen all earlier ones recorded.
SessionsInOrder ==
  \A s \in Sessions :
    /\ session[s] \in {"checking", "applying"} => \A f \in 1..Files : f < file[s] => f \in recorded
    /\ session[s] = "applying" => file[s] \in 1..Files

MigrationInv == MigrationTypeOK /\ MigrationsOnce /\ SessionsInOrder

LEMMA MigrationInvInit == MigrationInit => MigrationInv
BY MigrationAssumption
DEF MigrationInit, MigrationInv, MigrationTypeOK, MigrationsOnce, SessionsInOrder

LEMMA StartMigratingKeeps ==
  ASSUME MigrationInv, NEW s \in Sessions, StartMigrating(s)
  PROVE  MigrationInv' /\ recorded \subseteq recorded'
BY MigrationAssumption
DEF StartMigrating, Goes, MigrationInv, MigrationTypeOK, MigrationsOnce, SessionsInOrder

LEMMA MigrationFailsKeeps ==
  ASSUME MigrationInv, NEW s \in Sessions, MigrationFails(s)
  PROVE  MigrationInv' /\ recorded \subseteq recorded'
BY MigrationAssumption
DEF MigrationFails, Goes, MigrationInv, MigrationTypeOK, MigrationsOnce, SessionsInOrder

LEMMA CheckFileKeeps ==
  ASSUME MigrationInv, NEW s \in Sessions, CheckFile(s)
  PROVE  MigrationInv' /\ recorded \subseteq recorded'
<1> USE MigrationAssumption DEF MigrationInv, MigrationTypeOK, MigrationsOnce, SessionsInOrder
<1>1. CASE file[s] > Files /\ Goes(s, "done") /\ UNCHANGED file
  <2>1. \A f \in 1..Files : f \in recorded
    <3> SUFFICES ASSUME NEW f \in 1..Files PROVE f \in recorded
      OBVIOUS
    <3>1. file[s] \in Nat /\ f \in Nat /\ f < file[s] /\ session[s] = "checking"
      BY <1>1 DEF CheckFile
    <3> QED
      BY <3>1
  <2> QED
    BY <1>1, <2>1 DEF CheckFile, Goes
<1>2. CASE file[s] \in recorded /\ file' = [file EXCEPT ![s] = @ + 1] /\ UNCHANGED session
  BY <1>2 DEF CheckFile
<1>3. CASE file[s] \in (1..Files) \ recorded /\ Goes(s, "applying") /\ UNCHANGED file
  BY <1>3 DEF CheckFile, Goes
<1> QED
  BY <1>1, <1>2, <1>3 DEF CheckFile

LEMMA GoesThere ==
  ASSUME MigrationTypeOK, NEW s \in Sessions, NEW where, Goes(s, where)
  PROVE  session'[s] = where /\ \A t \in Sessions : t # s => session'[t] = session[t]
BY DEF Goes, MigrationTypeOK

LEMMA ApplyFileKeeps ==
  ASSUME MigrationInv, NEW s \in Sessions, ApplyFile(s)
  PROVE  MigrationInv' /\ recorded \subseteq recorded'
<1> USE DEF MigrationInv
<1>1. CASE file[s] \in recorded
  <2>1. Goes(s, "failed") /\ UNCHANGED <<recorded, applied, file, restarts>>
    BY <1>1 DEF ApplyFile
  <2>2. session'[s] = "failed" /\ \A t \in Sessions : t # s => session'[t] = session[t]
    BY <2>1, GoesThere
  <2>3. MigrationTypeOK'
    BY <2>1 DEF Goes, MigrationTypeOK
  <2> QED
    BY <2>1, <2>2, <2>3 DEF MigrationsOnce, SessionsInOrder
<1>2. CASE file[s] \notin recorded
  <2>1. /\ Goes(s, "checking") /\ Took(file[s]) /\ recorded' = recorded \cup {file[s]}
        /\ UNCHANGED <<file, restarts>> /\ file[s] \in 1..Files
        /\ \A f \in 1..Files : f < file[s] => f \in recorded
    BY <1>2 DEF ApplyFile, SessionsInOrder
  <2>2. MigrationTypeOK'
    <3>1. applied' \in [1..Files -> Nat]
      BY <2>1 DEF Took, MigrationTypeOK
    <3> QED
      BY <2>1, <3>1 DEF Goes, MigrationTypeOK
  <2>3. SessionsInOrder'
    BY <2>1, GoesThere DEF SessionsInOrder
  <2>4. \A f \in 1..Files : applied'[f] = IF f \in recorded' THEN 1 ELSE 0
    BY <1>2, <2>1 DEF Took, MigrationsOnce, MigrationTypeOK
  <2>5. \A f \in recorded' : \A g \in 1..f : g \in recorded'
    <3> SUFFICES ASSUME NEW f \in recorded', NEW g \in 1..f PROVE g \in recorded'
      OBVIOUS
    <3>1. CASE f \in recorded
      BY <2>1, <3>1 DEF MigrationsOnce
    <3>2. CASE f = file[s]
      <4>1. g \in 1..Files /\ (g < file[s] \/ g = file[s])
        BY <2>1, <3>2, MigrationAssumption
      <4> QED
        BY <2>1, <4>1
    <3> QED
      BY <2>1, <3>1, <3>2
  <2>6. \A t \in Sessions : session[t] # "done"
    BY <1>2, <2>1 DEF MigrationsOnce
  <2>7. \A t \in Sessions : session'[t] # "done"
    BY <2>1, <2>6, GoesThere
  <2> QED
    BY <2>1, <2>2, <2>3, <2>4, <2>5, <2>7 DEF MigrationsOnce
<1> QED
  BY <1>1, <1>2

\* What the steps of the setup may do to the migrations.
MigrationStep ==
  \/ \E s \in Sessions : StartMigrating(s) \/ Migrate(s)
  \/ UNCHANGED migrationVars

LEMMA MigrationInvStep ==
  ASSUME MigrationInv, MigrationStep
  PROVE  MigrationInv' /\ recorded \subseteq recorded'
<1>1. CASE UNCHANGED migrationVars
  BY <1>1 DEF migrationVars, MigrationInv, MigrationTypeOK, MigrationsOnce, SessionsInOrder
<1>2. CASE \E s \in Sessions : StartMigrating(s) \/ Migrate(s)
  BY <1>2, StartMigratingKeeps, CheckFileKeeps, ApplyFileKeeps, MigrationFailsKeeps DEF Migrate
<1> QED
  BY <1>1, <1>2 DEF MigrationStep

LEMMA StepsMigrate == [Next]_vars => MigrationStep
BY SetupAssumption
DEF Next, Pipeline, BeginStep, WriteOutput, EndStep, StepFails, ApplyFiles, Container, Loads,
    ReadOrder, HashModel, CreateSession, AcceptZeros, ContainerStops, Migrate, vars,
    MigrationStep

\* Every migration takes effect once, in the order of the files, for any number
\* of files and of sessions that overlap, fail and start again.
THEOREM MigrationsApplyOnce == Spec => []MigrationsOnce
<1>1. Init => MigrationInv
  BY MigrationInvInit DEF Init
<1>2. MigrationInv /\ [Next]_vars => MigrationInv'
  BY StepsMigrate, MigrationInvStep
<1>3. MigrationInv => MigrationsOnce
  BY DEF MigrationInv
<1> QED
  BY <1>1, <1>2, <1>3, PTL DEF Spec

-------------------------------------------------------------------------------
(* The steps: each artifact has one writer, and is read by later steps only.*)

\* The step that writes an artifact.
Writer(a) ==
  CASE a \in {"prep_train", "prep_test", "feature_list"} -> 1
    [] a = "pruned_features" -> 2
    [] a = "best_params" -> 3
    [] a \in {"final_model", "results"} -> 4
    [] a \in {"onnx", "feature_order"} -> 5
    [] a = "redis" -> 6
    [] a \in {"lgbm_mappings", "lgbm_params", "lgbm_model", "lgbm_results", "lgbm_onnx",
              "lgbm_parity", "lgbm_order"} -> 8
    [] a \in {"models", "model_versions"} -> 9
    [] OTHER -> 0

LEMMA StepsAre ==
  /\ All = 1..9 /\ Last = 9
  /\ Steps[1] = Preprocess
  /\ Steps[2] = AdversarialValidation
  /\ Steps[3] = Tune
  /\ Steps[4] = Evaluate
  /\ Steps[5] = ExportOnnx
  /\ Steps[6] = LoadFeatures
  /\ Steps[7] = ApplyMigrations
  /\ Steps[8] = TrainChallenger
  /\ Steps[9] = RegisterModels
<1> DEFINE Entries == {Training[i] : i \in 1..6} \cup {Monitoring[i] : i \in 1..3}
<1>1. Training \in Seq(Entries) /\ Len(Training) = 6
  BY DEF Training
<1>2. Monitoring \in Seq(Entries) /\ Len(Monitoring) = 3
  BY DEF Monitoring
<1> HIDE DEF Entries
<1>3. /\ Training \o Monitoring \in Seq(Entries)
      /\ Len(Training \o Monitoring) = Len(Training) + Len(Monitoring)
      /\ \A i \in 1..Len(Training) + Len(Monitoring) :
           (Training \o Monitoring)[i]
             = IF i <= Len(Training) THEN Training[i] ELSE Monitoring[i - Len(Training)]
  BY <1>1, <1>2, ConcatProperties, Zenon
<1>4. /\ Steps \in Seq(Entries) /\ Len(Steps) = 9
      /\ \A i \in 1..9 : Steps[i] = IF i <= 6 THEN Training[i] ELSE Monitoring[i - 6]
  BY <1>1, <1>2, <1>3 DEF Steps
<1>5. DOMAIN Steps = 1..9
  BY <1>4
<1>6. /\ Steps[1] = Preprocess /\ Steps[2] = AdversarialValidation /\ Steps[3] = Tune
      /\ Steps[4] = Evaluate /\ Steps[5] = ExportOnnx /\ Steps[6] = LoadFeatures
  BY <1>4 DEF Training
<1>7. /\ Steps[7] = ApplyMigrations /\ Steps[8] = TrainChallenger
      /\ Steps[9] = RegisterModels
  BY <1>4 DEF Monitoring
<1> QED
  BY <1>4, <1>5, <1>6, <1>7 DEF All, Last

LEMMA WritersWrite ==
  ASSUME NEW i \in All, NEW n \in DOMAIN Steps[i].writes
  PROVE  Writer(Steps[i].writes[n]) = i
<1>1. CASE i = 1
  BY <1>1, StepsAre DEF Preprocess, Reads, Writer
<1>2. CASE i = 2
  BY <1>2, StepsAre DEF AdversarialValidation, Reads, Writer
<1>3. CASE i = 3
  BY <1>3, StepsAre DEF Tune, Reads, Writer
<1>4. CASE i = 4
  BY <1>4, StepsAre DEF Evaluate, Reads, Writer
<1>5. CASE i = 5
  BY <1>5, StepsAre DEF ExportOnnx, Reads, Writer
<1>6. CASE i = 6
  BY <1>6, StepsAre DEF LoadFeatures, Reads, Writer
<1>7. CASE i = 7
  BY <1>7, StepsAre DEF ApplyMigrations, Reads, Writer
<1>8. CASE i = 8
  BY <1>8, StepsAre DEF TrainChallenger, Reads, Writer
<1>9. CASE i = 9
  BY <1>9, StepsAre DEF RegisterModels, Reads, Writer
<1> QED
  BY <1>1, <1>2, <1>3, <1>4, <1>5, <1>6, <1>7, <1>8, <1>9, StepsAre

\* What is read is what earlier steps write.
LEMMA ReadersFollow ==
  ASSUME NEW i \in All, NEW a \in Steps[i].reads
  PROVE  \E j \in All : j < i /\ \E n \in DOMAIN Steps[j].writes : a = Steps[j].writes[n]
<1> DEFINE Wrote(j, n) == j \in All /\ n \in DOMAIN Steps[j].writes /\ a = Steps[j].writes[n]
<1>1. a = "prep_train" => Wrote(1, 1)
  BY StepsAre DEF Preprocess, Reads
<1>2. a = "prep_test" => Wrote(1, 2)
  BY StepsAre DEF Preprocess, Reads
<1>3. a = "feature_list" => Wrote(1, 3)
  BY StepsAre DEF Preprocess, Reads
<1>4. a = "pruned_features" => Wrote(2, 1)
  BY StepsAre DEF AdversarialValidation, Reads
<1>5. a = "best_params" => Wrote(3, 1)
  BY StepsAre DEF Tune, Reads
<1>6. a = "final_model" => Wrote(4, 1)
  BY StepsAre DEF Evaluate, Reads
<1>7. a = "results" => Wrote(4, 2)
  BY StepsAre DEF Evaluate, Reads
<1>8. a = "onnx" => Wrote(5, 1)
  BY StepsAre DEF ExportOnnx, Reads
<1>9. a = "lgbm_onnx" => Wrote(8, 5)
  BY StepsAre DEF TrainChallenger, Reads
<1> HIDE DEF Wrote
<1>10. CASE i = 1
  BY <1>10, StepsAre DEF Preprocess, Reads, Wrote
<1>11. CASE i = 2
  BY <1>11, StepsAre, <1>1, <1>2, <1>3 DEF AdversarialValidation, Reads, Wrote
<1>12. CASE i = 3
  BY <1>12, StepsAre, <1>1, <1>4 DEF Tune, Reads, Wrote
<1>13. CASE i = 4
  BY <1>13, StepsAre, <1>1, <1>2, <1>4, <1>5 DEF Evaluate, Reads, Wrote
<1>14. CASE i = 5
  BY <1>14, StepsAre, <1>6, <1>7, <1>2 DEF ExportOnnx, Reads, Wrote
<1>15. CASE i = 6
  BY <1>15, StepsAre, <1>2 DEF LoadFeatures, Reads, Wrote
<1>16. CASE i = 7
  BY <1>16, StepsAre DEF ApplyMigrations, Reads, Wrote
<1>17. CASE i = 8
  BY <1>17, StepsAre, <1>1, <1>2 DEF TrainChallenger, Reads, Wrote
<1>18. CASE i = 9
  BY <1>18, StepsAre, <1>8, <1>9 DEF RegisterModels, Reads, Wrote
<1> QED
  BY <1>10, <1>11, <1>12, <1>13, <1>14, <1>15, <1>16, <1>17, <1>18, StepsAre

-------------------------------------------------------------------------------
(* The pipelines.                                                           *)

\* The n-th output of step i, and the execution that made it.
Output(i, n) == Steps[i].writes[n]

\* All outputs of the steps before the one that is owed have been written.
InputsMade ==
  \A i \in All : i < owed =>
    \A n \in DOMAIN Steps[i].writes : made[Output(i, n)] \in DOMAIN runs

\* The running step has the inputs that are there, and has written its first
\* outputs.
RunIsCurrent ==
  step # 0 =>
    /\ \A a \in Steps[step].reads : runs[Len(runs)].from[a] = made[a]
    /\ \A n \in 1..written : made[Output(step, n)] = Len(runs)

PipelineInv ==
  /\ MigrationInv
  /\ TypeOK
  /\ \E S : runs \in Seq(S)
  /\ InputsMade
  /\ \A i \in All : i < owed => UpToDate(i)
  /\ RunIsCurrent
  /\ owed > 7 => recorded = 1..Files

\* What is read or written by the steps before step k is an artifact, and none
\* of it is written by step k.
LEMMA EarlierOutputs ==
  ASSUME NEW i \in All, NEW n \in DOMAIN Steps[i].writes
  PROVE  /\ Output(i, n) \in Artifacts
         /\ \A k \in All, m \in Nat : i < k /\ m \in DOMAIN Steps[k].writes
              => Output(k, m) # Output(i, n)
<1>1. Output(i, n) \in Artifacts
  BY DEF Output, Artifacts
<1>2. ASSUME NEW k \in All, NEW m \in DOMAIN Steps[k].writes, i < k
      PROVE  Output(k, m) # Output(i, n)
  BY <1>2, WritersWrite, StepsAre DEF Output
<1> QED
  BY <1>1, <1>2

LEMMA EarlierInputs ==
  ASSUME NEW i \in All, NEW a \in Steps[i].reads
  PROVE  /\ a \in Artifacts
         /\ \A k \in All, m \in Nat : i <= k /\ m \in DOMAIN Steps[k].writes => Output(k, m) # a
<1>1. PICK j \in All : j < i /\ \E n \in DOMAIN Steps[j].writes : a = Output(j, n)
  BY ReadersFollow DEF Output
<1>2. PICK n \in DOMAIN Steps[j].writes : a = Output(j, n)
  BY <1>1
<1>3. \A k \in All : i <= k => j < k
  BY <1>1, StepsAre
<1> QED
  BY <1>2, <1>3, EarlierOutputs

\* Writes of step k, or none, leave the earlier steps up to date; so do new
\* executions.
LEMMA UpToDateStays ==
  ASSUME NEW k \in All, NEW i \in All, i < k,
         UpToDate(i),
         \A n \in DOMAIN Steps[i].writes : made[Output(i, n)] \in DOMAIN runs,
         \A e \in DOMAIN runs : e \in DOMAIN runs' /\ runs'[e] = runs[e],
         \A a \in Artifacts : made'[a] = made[a]
                              \/ \E m \in Nat : m \in DOMAIN Steps[k].writes /\ a = Output(k, m)
  PROVE  /\ UpToDate(i)'
         /\ \A n \in DOMAIN Steps[i].writes : made'[Output(i, n)] \in DOMAIN runs'
<1>1. \A n \in DOMAIN Steps[i].writes : made'[Output(i, n)] = made[Output(i, n)]
  BY EarlierOutputs
<1>2. \A a \in Steps[i].reads : made'[a] = made[a]
  BY EarlierInputs, StepsAre
<1>3. \A n \in DOMAIN Steps[i].writes : made'[Output(i, n)] \in DOMAIN runs'
  BY <1>1
<1>4. UpToDate(i)'
  <2> SUFFICES ASSUME NEW n \in DOMAIN Steps[i].writes
               PROVE  /\ made'[Output(i, n)] = made'[Output(i, 1)]
                      /\ runs'[made'[Output(i, n)]].step = i
                      /\ runs'[made'[Output(i, n)]].passes
                      /\ \A a \in Steps[i].reads : runs'[made'[Output(i, n)]].from[a] = made'[a]
    BY DEF UpToDate, Output
  <2>1. 1 \in DOMAIN Steps[i].writes
    BY StepsAre
    DEF Preprocess, AdversarialValidation, Tune, Evaluate, ExportOnnx, LoadFeatures,
        ApplyMigrations, TrainChallenger, RegisterModels, Reads
  <2>2. /\ made[Output(i, n)] = made[Output(i, 1)]
        /\ runs[made[Output(i, n)]].step = i
        /\ runs[made[Output(i, n)]].passes
        /\ \A a \in Steps[i].reads : runs[made[Output(i, n)]].from[a] = made[a]
    BY DEF UpToDate, Output
  <2> QED
    BY <1>1, <1>2, <2>1, <2>2
<1> QED
  BY <1>3, <1>4

LEMMA PipelineInvInit == Init => PipelineInv
<1> SUFFICES ASSUME Init PROVE PipelineInv
  OBVIOUS
<1>1. MigrationInv
  BY MigrationInvInit DEF Init
<1>2. TypeOK
  BY <1>1, StepsAre DEF MigrationInv, Init, TypeOK, NothingLoaded
<1>3. \E S : runs \in Seq(S)
  <2>1. runs \in Seq({})
    BY DEF Init
  <2> QED
    BY <2>1
<1> QED
  BY <1>1, <1>2, <1>3, StepsAre
  DEF Init, PipelineInv, InputsMade, RunIsCurrent

\* The new execution of step i.
LEMMA NewRun ==
  ASSUME NEW i \in All, NEW run \in Choices(i), SetupAssumption
  PROVE  /\ run.step = i /\ run.from = [a \in Steps[i].reads |-> made[a]]
         /\ run.passes \in BOOLEAN /\ run.features \in FeatureLists
<1>1. (CHOOSE f \in FeatureLists : TRUE) \in FeatureLists
  BY DEF SetupAssumption
<1> QED
  BY <1>1 DEF Choices

\* The inputs of a step whose predecessors have ended are there.
LEMMA InputsAreThere ==
  ASSUME InputsMade, NEW i \in All, i <= owed, owed \in 1..(Last + 1), NEW a \in Steps[i].reads
  PROVE  made[a] \in DOMAIN runs
<1>1. PICK j \in All : j < i /\ \E n \in DOMAIN Steps[j].writes : a = Output(j, n)
  BY ReadersFollow DEF Output
<1>2. j < owed
  BY <1>1, StepsAre
<1> QED
  BY <1>1, <1>2 DEF InputsMade

LEMMA BeginStepKeeps ==
  ASSUME PipelineInv, MigrationInv', NEW i \in All, BeginStep(i)
  PROVE  PipelineInv'
<1>1. PICK run \in Choices(i) : runs' = Append(runs, run)
  BY DEF BeginStep
<1>2. PICK S : runs \in Seq(S)
  BY DEF PipelineInv
<1>3. /\ runs' \in Seq(S \cup {run}) /\ Len(runs') = Len(runs) + 1 /\ DOMAIN runs = 1..Len(runs)
      /\ DOMAIN runs' = 1..(Len(runs) + 1) /\ Len(runs) \in Nat
      /\ runs'[Len(runs) + 1] = run /\ \A e \in DOMAIN runs : runs'[e] = runs[e]
  <2>1. runs \in Seq(S \cup {run})
    BY <1>2
  <2> QED
    BY <1>1, <2>1
<1>4. /\ run.step = i /\ run.from = [a \in Steps[i].reads |-> made[a]]
      /\ run.passes \in BOOLEAN /\ run.features \in FeatureLists
  BY NewRun, SetupAssumption
<1>5. /\ step' = i /\ owed' = i /\ written = 0 /\ written' = 0 /\ made' = made
      /\ champion' = champion /\ loaded' = loaded
      /\ i <= owed /\ owed \in 1..(Last + 1) /\ i \in 1..9 /\ owed' \in 1..(Last + 1)
  BY StepsAre DEF BeginStep, servingVars, PipelineInv, TypeOK
<1>6. \A a \in Steps[i].reads : made[a] \in 1..Len(runs)
  BY <1>3, <1>5, InputsAreThere DEF PipelineInv
<1>7. TypeOK'
  <2>1. \A e \in DOMAIN runs' :
          /\ runs'[e].step \in All
          /\ runs'[e].from \in [Steps[runs'[e].step].reads -> 1..(e - 1)]
          /\ runs'[e].passes \in BOOLEAN /\ runs'[e].features \in FeatureLists
    <3> SUFFICES ASSUME NEW e \in DOMAIN runs'
                 PROVE  /\ runs'[e].step \in All
                        /\ runs'[e].from \in [Steps[runs'[e].step].reads -> 1..(e - 1)]
                        /\ runs'[e].passes \in BOOLEAN /\ runs'[e].features \in FeatureLists
      OBVIOUS
    <3>1. CASE e \in DOMAIN runs
      BY <3>1, <1>3 DEF PipelineInv, TypeOK
    <3>2. CASE e = Len(runs) + 1
      BY <3>2, <1>3, <1>4, <1>6
    <3> QED
      BY <3>1, <3>2, <1>3
  <2>2. made' \in [Artifacts -> 0..Len(runs')]
    BY <1>3, <1>5 DEF PipelineInv, TypeOK
  <2>3. loaded' \in [order : 0..Len(runs'), hash : 0..Len(runs'), session : 0..Len(runs')]
    BY <1>3, <1>5 DEF PipelineInv, TypeOK
  <2>4. /\ step' \in All \cup {0}
        /\ runs' # << >> /\ runs'[Len(runs')].step = step'
        /\ written' \in 0..Len(Steps[step'].writes) /\ step' # 0
    <3>1. Len(Steps[i].writes) \in Nat
      BY StepsAre
      DEF Preprocess, AdversarialValidation, Tune, Evaluate, ExportOnnx, LoadFeatures,
          ApplyMigrations, TrainChallenger, RegisterModels, Reads
    <3> QED
      BY <3>1, <1>3, <1>4, <1>5
  <2> QED
    BY <2>1, <2>2, <2>3, <2>4, <1>5 DEF PipelineInv, MigrationInv, TypeOK
<1>8. ASSUME NEW j \in All, j < owed'
      PROVE  /\ UpToDate(j)'
             /\ \A n \in DOMAIN Steps[j].writes : made'[Output(j, n)] \in DOMAIN runs'
  <2>1. j < i /\ j < owed
    BY <1>5, <1>8, StepsAre
  <2>2. /\ UpToDate(j)
        /\ \A n \in DOMAIN Steps[j].writes : made[Output(j, n)] \in DOMAIN runs
    BY <2>1 DEF PipelineInv, InputsMade
  <2>3. /\ \A e \in DOMAIN runs : e \in DOMAIN runs' /\ runs'[e] = runs[e]
        /\ \A a \in Artifacts : made'[a] = made[a]
    BY <1>3, <1>5
  <2> QED
    BY <2>1, <2>2, <2>3, UpToDateStays
<1>9. RunIsCurrent'
  BY <1>3, <1>4, <1>5 DEF RunIsCurrent
<1>10. owed' > 7 => recorded' = 1..Files
  <2>1. ASSUME owed' > 7 PROVE UNCHANGED recorded /\ owed > 7
    <3>1. Steps[i] # ApplyMigrations
      <4>1. ApplyMigrations.reads = {}
        BY DEF ApplyMigrations, Reads
      <4>2. "prep_test" \in TrainChallenger.reads /\ "onnx" \in RegisterModels.reads
        BY DEF TrainChallenger, RegisterModels, Reads
      <4>3. i = 8 \/ i = 9
        BY <1>5, <2>1
      <4> QED
        BY <4>1, <4>2, <4>3, StepsAre
    <3> QED
      BY <3>1, <2>1, <1>5, StepsAre DEF BeginStep, migrationVars
  <2> QED
    BY <2>1 DEF PipelineInv
<1> QED
  BY <1>3, <1>7, <1>8, <1>9, <1>10 DEF PipelineInv, InputsMade

LEMMA WriteOutputKeeps ==
  ASSUME PipelineInv, MigrationInv', WriteOutput
  PROVE  PipelineInv'
<1>1. /\ step # 0 /\ step = owed /\ step \in All /\ step \in 1..9 /\ runs # << >>
      /\ written \in 0..Len(Steps[step].writes) /\ written < Len(Steps[step].writes)
      /\ made' = [made EXCEPT ![Output(step, written + 1)] = Len(runs)]
      /\ written' = written + 1
      /\ UNCHANGED <<migrationVars, step, owed, runs, champion, loaded>>
  BY StepsAre DEF PipelineInv, TypeOK, WriteOutput, Output, servingVars
<1>2. PICK S : runs \in Seq(S)
  BY DEF PipelineInv
<1>3. Len(runs) \in DOMAIN runs /\ DOMAIN runs = 1..Len(runs)
  BY <1>1, <1>2
<1>4. Len(Steps[step].writes) \in Nat /\ DOMAIN Steps[step].writes = 1..Len(Steps[step].writes)
  BY <1>1, StepsAre
  DEF Preprocess, AdversarialValidation, Tune, Evaluate, ExportOnnx, LoadFeatures,
      ApplyMigrations, TrainChallenger, RegisterModels, Reads
<1>5. /\ written \in Nat /\ written + 1 \in DOMAIN Steps[step].writes
      /\ Output(step, written + 1) \in Artifacts
  BY <1>1, <1>4 DEF Artifacts, Output
<1>6. made \in [Artifacts -> 0..Len(runs)]
  BY DEF PipelineInv, TypeOK
<1>7. /\ made' \in [Artifacts -> 0..Len(runs)]
      /\ made'[Output(step, written + 1)] = Len(runs)
      /\ \A a \in Artifacts : a # Output(step, written + 1) => made'[a] = made[a]
  BY <1>1, <1>3, <1>5, <1>6
<1>8. TypeOK'
  BY <1>1, <1>4, <1>7 DEF PipelineInv, MigrationInv, TypeOK
<1>9. ASSUME NEW j \in All, j < owed'
      PROVE  /\ UpToDate(j)'
             /\ \A n \in DOMAIN Steps[j].writes : made'[Output(j, n)] \in DOMAIN runs'
  <2>1. j < step /\ j < owed
    BY <1>1, <1>9
  <2>2. /\ UpToDate(j)
        /\ \A n \in DOMAIN Steps[j].writes : made[Output(j, n)] \in DOMAIN runs
    BY <2>1 DEF PipelineInv, InputsMade
  <2>3. \A e \in DOMAIN runs : e \in DOMAIN runs' /\ runs'[e] = runs[e]
    BY <1>1
  <2>4. \A a \in Artifacts : made'[a] = made[a]
                             \/ \E m \in Nat : m \in DOMAIN Steps[step].writes /\ a = Output(step, m)
    BY <1>5, <1>7
  <2> QED
    BY <1>1, <2>1, <2>2, <2>3, <2>4, UpToDateStays
<1>10. RunIsCurrent'
  <2>1. \A a \in Steps[step].reads : a \in Artifacts /\ made'[a] = made[a]
    BY <1>1, <1>5, <1>7, EarlierInputs
  <2>2. \A n \in 1..(written + 1) : n \in DOMAIN Steps[step].writes
                                  /\ Output(step, n) \in Artifacts
    BY <1>1, <1>4 DEF Artifacts, Output
  <2>3. \A n \in 1..(written + 1) : n \in 1..written \/ n = written + 1
    BY <1>5
  <2>4. \A n \in 1..written : made[Output(step, n)] = Len(runs)
    BY <1>1 DEF PipelineInv, RunIsCurrent
  <2>5. \A n \in 1..(written + 1) : made'[Output(step, n)] = Len(runs)
    BY <1>7, <2>2, <2>3, <2>4
  <2> QED
    BY <1>1, <2>1, <2>5 DEF PipelineInv, RunIsCurrent
<1> QED
  BY <1>1, <1>2, <1>8, <1>9, <1>10 DEF PipelineInv, InputsMade, migrationVars

LEMMA EndStepKeeps ==
  ASSUME PipelineInv, MigrationInv', EndStep
  PROVE  PipelineInv'
<1>1. /\ step # 0 /\ step = owed /\ step \in All /\ step \in 1..9 /\ runs # << >>
      /\ written = Len(Steps[step].writes) /\ runs[Len(runs)].step = step
      /\ runs[Len(runs)].passes
      /\ step' = 0 /\ owed' = step + 1 /\ written' = 0
      /\ UNCHANGED <<migrationVars, runs, made, champion, loaded>>
  BY StepsAre DEF PipelineInv, TypeOK, EndStep, ParityHolds, servingVars
<1>2. PICK S : runs \in Seq(S)
  BY DEF PipelineInv
<1>3. Len(runs) \in DOMAIN runs
  BY <1>1, <1>2
<1>4. Len(Steps[step].writes) \in Nat /\ DOMAIN Steps[step].writes = 1..Len(Steps[step].writes)
  BY <1>1, StepsAre
  DEF Preprocess, AdversarialValidation, Tune, Evaluate, ExportOnnx, LoadFeatures,
      ApplyMigrations, TrainChallenger, RegisterModels, Reads
<1>5. TypeOK'
  BY <1>1, StepsAre DEF PipelineInv, MigrationInv, TypeOK
<1>6. \A n \in DOMAIN Steps[step].writes : made[Output(step, n)] = Len(runs)
  BY <1>1, <1>4 DEF PipelineInv, RunIsCurrent
<1>7. UpToDate(step)
  <2>1. \A n \in DOMAIN Steps[step].writes : 1 \in DOMAIN Steps[step].writes
    BY <1>4
  <2>2. \A a \in Steps[step].reads : runs[Len(runs)].from[a] = made[a]
    BY <1>1 DEF PipelineInv, RunIsCurrent
  <2> QED
    BY <1>1, <1>6, <2>1, <2>2 DEF UpToDate, Output
<1>8. ASSUME NEW j \in All, j < owed'
      PROVE  /\ UpToDate(j)'
             /\ \A n \in DOMAIN Steps[j].writes : made'[Output(j, n)] \in DOMAIN runs'
  <2>1. j < owed \/ j = step
    BY <1>1, <1>8, StepsAre
  <2>2. /\ UpToDate(j)
        /\ \A n \in DOMAIN Steps[j].writes : made[Output(j, n)] \in DOMAIN runs
    BY <1>3, <1>6, <1>7, <2>1 DEF PipelineInv, InputsMade
  <2> QED
    BY <1>1, <2>2 DEF UpToDate
<1>9. RunIsCurrent'
  BY <1>1 DEF RunIsCurrent
<1>10. owed' > 7 => recorded' = 1..Files
  <2>1. CASE step = 7
    <3>1. session[Setup] = "done"
      BY <2>1, StepsAre DEF EndStep
    <3> QED
      BY <1>1, <3>1, SetupAssumption DEF PipelineInv, MigrationInv, MigrationsOnce, migrationVars
  <2>2. CASE step > 7
    BY <1>1, <2>2 DEF PipelineInv, migrationVars
  <2> QED
    BY <1>1, <2>1, <2>2
<1> QED
  BY <1>1, <1>2, <1>5, <1>8, <1>9, <1>10 DEF PipelineInv, InputsMade

\* The steps that change no artifact and begin or end nothing well.
LEMMA OthersKeep ==
  ASSUME PipelineInv, MigrationInv', recorded \subseteq recorded',
         UNCHANGED <<owed, runs, made>>,
         UNCHANGED <<step, written>> \/ (step' = 0 /\ written' = 0),
         champion' \in {"down", "ordered", "hashed", "created", "serving"},
         loaded' \in [order : 0..Len(runs), hash : 0..Len(runs), session : 0..Len(runs)]
  PROVE  PipelineInv'
<1>1. TypeOK'
  BY DEF PipelineInv, MigrationInv, TypeOK
<1>2. RunIsCurrent'
  BY DEF PipelineInv, RunIsCurrent
<1>3. \A i \in All : i < owed' => UpToDate(i)'
  BY DEF PipelineInv, UpToDate
<1>4. owed' > 7 => recorded' = 1..Files
  BY DEF PipelineInv, MigrationInv, MigrationTypeOK
<1> QED
  BY <1>1, <1>2, <1>3, <1>4 DEF PipelineInv, InputsMade

LEMMA PipelineInvStep == PipelineInv /\ [Next]_vars => PipelineInv'
<1> SUFFICES ASSUME PipelineInv, [Next]_vars PROVE PipelineInv'
  OBVIOUS
<1>1. MigrationInv' /\ recorded \subseteq recorded'
  BY StepsMigrate, MigrationInvStep DEF PipelineInv
<1>2. /\ champion \in {"down", "ordered", "hashed", "created", "serving"}
      /\ loaded \in [order : 0..Len(runs), hash : 0..Len(runs), session : 0..Len(runs)]
      /\ made \in [Artifacts -> 0..Len(runs)]
  BY DEF PipelineInv, TypeOK
<1>3. CASE Pipeline
  <2>1. CASE StepFails \/ UNCHANGED vars
    BY <1>1, <1>2, <2>1, OthersKeep DEF StepFails, vars, pipelineVars, servingVars
  <2> QED
    BY <1>1, <1>3, <2>1, BeginStepKeeps, WriteOutputKeeps, EndStepKeeps DEF Pipeline
<1>4. CASE ApplyFiles \/ UNCHANGED vars
  BY <1>1, <1>2, <1>4, OthersKeep DEF ApplyFiles, vars, pipelineVars, servingVars
<1>5. CASE Container
  <2>1. "onnx" \in Artifacts /\ "feature_order" \in Artifacts
    <3>1. Output(5, 1) = "onnx" /\ Output(5, 2) = "feature_order"
          /\ 1 \in DOMAIN Steps[5].writes /\ 2 \in DOMAIN Steps[5].writes /\ 5 \in All
      BY StepsAre DEF Output, ExportOnnx, Reads
    <3> QED
      BY <3>1 DEF Artifacts, Output
  <2>2. Len(runs) \in Nat
    <3>1. PICK S : runs \in Seq(S)
      BY DEF PipelineInv
    <3> QED
      BY <3>1
  <2>3. /\ champion' \in {"down", "ordered", "hashed", "created", "serving"}
        /\ loaded' \in [order : 0..Len(runs), hash : 0..Len(runs), session : 0..Len(runs)]
    BY <1>2, <1>5, <2>1, <2>2
    DEF Container, ReadOrder, HashModel, CreateSession, AcceptZeros, ContainerStops, Loads,
        NothingLoaded
  <2>4. UNCHANGED <<owed, runs, made, step, written>>
    BY <1>5
    DEF Container, ReadOrder, HashModel, CreateSession, AcceptZeros, ContainerStops, Loads,
        pipelineVars
  <2> QED
    BY <1>1, <2>3, <2>4, OthersKeep
<1> QED
  BY <1>3, <1>4, <1>5 DEF Next

\* Every reachable state of the setup is well typed; the inputs an execution has
\* read come from executions before it, none from a step that never ran.
THEOREM SetupTypeCorrect == Spec => []TypeOK
<1>1. PipelineInv => TypeOK
  BY DEF PipelineInv
<1> QED
  BY <1>1, PipelineInvInit, PipelineInvStep, PTL DEF Spec

\* Whatever fails and is resumed, and whatever migrations run by hand beside it:
\* when no step is owed, all artifacts are made from those that are there, the
\* exported models have passed their parity checks and the schema is complete.
THEOREM FinishedPipelineIsConsistent == Spec => []FinishedIsConsistent
<1>1. PipelineInv => FinishedIsConsistent
  <2> SUFFICES ASSUME PipelineInv, owed = Last + 1
               PROVE  recorded = 1..Files /\ \A i \in All : UpToDate(i)
    BY DEF FinishedIsConsistent
  <2>1. owed = 10
    BY StepsAre
  <2>2. \A i \in All : i < owed
    BY <2>1, StepsAre
  <2> QED
    BY <2>1, <2>2 DEF PipelineInv
<1> QED
  BY <1>1, PipelineInvInit, PipelineInvStep, PTL DEF Spec
===============================================================================
