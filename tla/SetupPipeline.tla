----------------------------- MODULE SetupPipeline -----------------------------
(***************************************************************************)
(* The two command-line pipelines an operator runs, main.py (training) and *)
(* monitoring/main.py (setup of the monitoring), and the artifacts their   *)
(* steps hand to each other through the disk, Redis and the models table.  *)
(* A step reads its inputs, writes its outputs one file after the other,   *)
(* and may die anywhere; the operator runs the pipelines in order and      *)
(* resumes with --from no later than the step that failed.  Meanwhile the  *)
(* champion container may start and load what is on the disk               *)
(* (serving/internal/model/runner.go).  What an artifact holds is          *)
(* abstracted to which execution of a step wrote it.                       *)
(***************************************************************************)
EXTENDS Migrations, Sequences

CONSTANTS
  Setup,          \* the session of the setup pipeline
  FeatureLists,   \* the sequences of columns the pruning may leave
  MaxRepeats      \* bound on the executions beyond one of each step

ASSUME SetupAssumption == Setup \in Sessions /\ FeatureLists # {} /\ MaxRepeats \in Nat

VARIABLES
  step,      \* the step that runs, or 0
  written,   \* how many of its outputs the running step has written
  owed,      \* the first step that has not ended since an earlier one began
  runs,      \* the executions of steps so far
  made,      \* artifact -> the execution that wrote it, or 0
  champion,  \* the champion container: where it is in NewRunner
  loaded     \* the executions whose feature order and whose model it has read

pipelineVars == <<step, written, owed, runs, made>>
servingVars == <<champion, loaded>>
vars == <<migrationVars, pipelineVars, servingVars>>

------------------------------------------------------------------------------
(* The steps: what each reads of other steps and what it writes, in order.  *)
(* Files no later step reads (plots, scores of the baselines) are left out. *)

Reads(from, writes) == [reads |-> from, writes |-> writes]

Preprocess == Reads({}, <<"prep_train", "prep_test", "feature_list">>)
AdversarialValidation ==
  Reads({"prep_train", "prep_test", "feature_list"}, <<"pruned_features">>)
Tune == Reads({"prep_train", "pruned_features"}, <<"best_params">>)
Evaluate == Reads({"prep_train", "prep_test", "pruned_features", "best_params"},
                  <<"final_model", "results">>)
ExportOnnx == Reads({"final_model", "results", "prep_test"}, <<"onnx", "feature_order">>)
LoadFeatures == Reads({"prep_test"}, <<"redis">>)
ApplyMigrations == Reads({}, << >>)
TrainChallenger == Reads({"prep_train", "prep_test"},
  <<"lgbm_mappings", "lgbm_params", "lgbm_model", "lgbm_results", "lgbm_onnx",
    "lgbm_parity", "lgbm_order">>)
RegisterModels == Reads({"onnx", "lgbm_onnx"}, <<"models", "model_versions">>)

Training == <<Preprocess, AdversarialValidation, Tune, Evaluate, ExportOnnx, LoadFeatures>>
Monitoring == <<ApplyMigrations, TrainChallenger, RegisterModels>>
Steps == Training \o Monitoring

All == DOMAIN Steps
Last == Len(Steps)
Artifacts == UNION {{Steps[i].writes[n] : n \in DOMAIN Steps[i].writes} : i \in All}

\* What an execution of a step is remembered by: the executions its inputs come
\* from, the features it leaves, and whether the ONNX model it exports passes:
\* the largest difference to the trained one is not at or above the tolerance.
TypeOK ==
  /\ MigrationTypeOK
  /\ step \in All \cup {0} /\ owed \in 1..(Last + 1)
  /\ step # 0 => step = owed
  /\ step # 0 => runs # << >> /\ runs[Len(runs)].step = step
  /\ written \in IF step = 0 THEN {0} ELSE 0..Len(Steps[step].writes)
  /\ \A e \in DOMAIN runs :
       /\ runs[e].step \in All
       /\ runs[e].from \in [Steps[runs[e].step].reads -> 1..(e - 1)]
       /\ runs[e].passes \in BOOLEAN /\ runs[e].features \in FeatureLists
  /\ made \in [Artifacts -> 0..Len(runs)]
  /\ champion \in {"down", "ordered", "hashed", "created", "serving"}
  /\ loaded \in [order : 0..Len(runs), hash : 0..Len(runs), session : 0..Len(runs)]

NothingLoaded == [order |-> 0, hash |-> 0, session |-> 0]

Init ==
  /\ MigrationInit
  /\ step = 0 /\ written = 0 /\ owed = 1
  /\ runs = << >>
  /\ made = [a \in Artifacts |-> 0]
  /\ champion = "down" /\ loaded = NothingLoaded

------------------------------------------------------------------------------
(* The pipelines.                                                           *)

\* The raw data at hand decide which features are left after the pruning (that step
\* and the training are seeded), the conversion what the parity check finds.
Choices(i) ==
  [step : {i}, from : {[a \in Steps[i].reads |-> made[a]]},
   passes : IF Steps[i] \in {ExportOnnx, TrainChallenger} THEN BOOLEAN ELSE {TRUE},
   features : IF Steps[i] = Preprocess
              THEN FeatureLists ELSE {CHOOSE f \in FeatureLists : TRUE}]

\* run_step, for the next step of the running command or for the first one of a
\* new command (--from, --only): the operator leaves out no step that is owed.
\* The step reads its inputs.
BeginStep(i) ==
  /\ step = 0 /\ i <= owed
  /\ Len(runs) < i + MaxRepeats
  /\ step' = i /\ owed' = i
  /\ \E run \in Choices(i) : runs' = Append(runs, run)
  /\ IF Steps[i] = ApplyMigrations
     THEN StartMigrating(Setup)
     ELSE UNCHANGED migrationVars
  /\ UNCHANGED <<written, made, servingVars>>

\* The step writes its next output in place.
WriteOutput ==
  /\ step # 0 /\ written < Len(Steps[step].writes)
  /\ made' = [made EXCEPT ![Steps[step].writes[written + 1]] = Len(runs)]
  /\ written' = written + 1
  /\ UNCHANGED <<migrationVars, step, owed, runs, servingVars>>

\* Mutant: a failed parity check is only logged.
LoggedOnly == TRUE

\* Parity is checked when the model and its feature order have been written. A
\* difference that is NaN passes, as >= is false of it.
ParityHolds == runs[Len(runs)].passes

\* main of the step returns.
EndStep ==
  /\ step # 0 /\ written = Len(Steps[step].writes)
  /\ ParityHolds
  /\ Steps[step] = ApplyMigrations => session[Setup] = "done"
  /\ owed' = step + 1 /\ step' = 0 /\ written' = 0
  /\ UNCHANGED <<migrationVars, runs, made, servingVars>>

\* Mutant: the exception of a step is only printed, and the loop goes on.
StepIgnored ==
  /\ step # 0
  /\ step' = 0 /\ written' = 0 /\ owed' = step + 1
  /\ IF session[Setup] \in {"checking", "applying"}
     THEN MigrationFails(Setup)
     ELSE UNCHANGED migrationVars
  /\ UNCHANGED <<runs, made, servingVars>>

\* It raises, or is killed, and the pipeline exits with 1.
StepFails ==
  /\ step # 0
  /\ step' = 0 /\ written' = 0
  /\ IF session[Setup] \in {"checking", "applying"}
     THEN MigrationFails(Setup)
     ELSE UNCHANGED migrationVars
  /\ UNCHANGED <<owed, runs, made, servingVars>>

Pipeline == (\E i \in All : BeginStep(i)) \/ WriteOutput \/ EndStep \/ StepFails

\* The migrations of the setup pipeline, and of a run by hand beside it.
ApplyFiles ==
  /\ \E s \in Sessions : Migrate(s) \/ (s # Setup /\ StartMigrating(s))
  /\ UNCHANGED <<pipelineVars, servingVars>>

------------------------------------------------------------------------------
(* The champion container starts: NewRunner.                                *)

Loads(where, what, artifact) ==
  /\ made[artifact] # 0
  /\ champion' = where
  /\ loaded' = [loaded EXCEPT ![what] = made[artifact]]
  /\ UNCHANGED <<migrationVars, pipelineVars>>

ReadOrder == champion = "down" /\ Loads("ordered", "order", "feature_order")

\* The bytes the version is the hash of.
HashModel == champion = "ordered" /\ Loads("hashed", "hash", "onnx")

\* The session is created from the path, not from those bytes.
CreateSession == champion = "hashed" /\ Loads("created", "session", "onnx")

\* The features of the model that the execution e has exported.
FeaturesOf(e) ==
  LET trained == runs[runs[e].from["results"]]
      pruned == runs[trained.from["pruned_features"]]
  IN runs[pruned.from["prep_train"]].features

\* A vector of zeros, as long as the feature order, is scored.
AcceptZeros ==
  /\ champion = "created"
  /\ Len(FeaturesOf(loaded.order)) = Len(FeaturesOf(loaded.session))
  /\ champion' = "serving"
  /\ UNCHANGED <<migrationVars, pipelineVars, loaded>>

\* The startup fails, or the container is stopped later.
ContainerStops ==
  /\ champion # "down"
  /\ champion' = "down" /\ loaded' = NothingLoaded
  /\ UNCHANGED <<migrationVars, pipelineVars>>

Container == ReadOrder \/ HashModel \/ CreateSession \/ AcceptZeros \/ ContainerStops

Next == Pipeline \/ ApplyFiles \/ Container

Spec == Init /\ [][Next]_vars

------------------------------------------------------------------------------
(* Properties.                                                              *)

\* The artifacts of step i come from one execution, which read what is there now.
UpToDate(i) ==
  \A n \in DOMAIN Steps[i].writes :
    LET e == made[Steps[i].writes[n]]
    IN /\ e = made[Steps[i].writes[1]]
       /\ runs[e].step = i /\ runs[e].passes
       /\ \A a \in Steps[i].reads : runs[e].from[a] = made[a]

\* Whatever steps failed half way and were resumed (main.py:66-73,
\* monitoring/main.py:56-64), when no step is owed every artifact on the disk,
\* in Redis and in the models table is made from the others that are there, the
\* exported models have passed their parity checks (train_challenger.py:200,
\* export.py:90), and the schema is complete.
FinishedIsConsistent ==
  owed = Last + 1 => recorded = 1..Files /\ \A i \in All : UpToDate(i)

\* The comment at runner.go:164: "Catch feature_order.json / model mismatch at
\* startup, not on the first live request."  A container that serves has
\* the features of its model in the order the model was trained on.
MismatchCaught == champion = "serving" => FeaturesOf(loaded.order) = FeaturesOf(loaded.session)
===============================================================================
