# Fraud ML platform: a TLA+ verification

The platform scores card transactions with an ONNX model behind an HTTP router,
runs a challenger model next to the champion, and lets a control loop decide on
the challenger. This directory holds TLA+ models of the parts whose correctness
depends on interleavings, failures and order, TLC configurations that check them
on small instances, and TLAPS proofs that hold for every size.

Paths in this file are relative to the repository (`src/` in `PROJECT.json`).
`PROJECT.json` is the index: components, runs, mutants, the line map of every
definition, findings, hazards and theorems.

## 1. The system

| Component | State it keeps | Operations | Talks to |
|---|---|---|---|
| Canary evaluator (`monitoring/scripts/run_canary_evaluator.py`, `monitoring/canary/evaluator.py`) | none in memory; rows of `canary_decisions` | poll the router, evaluate a window, write a decision row, apply it | router (admin API), champion container (`/admin/reload`), Postgres |
| Model registry (`models` table, `monitoring/scripts/register_models.py`) | role of each model version | register artifacts, promote, retire | written by evaluator and operator |
| Serving process (`serving/`) | current runner behind an `RWMutex`; channel and batch of the prediction log | `POST /score`, `POST /admin/reload`, shutdown | Redis, Postgres, ONNX runtime |
| Prediction log (`serving/internal/predictions/store.go`) | bounded channel, batch, `predictions` table | `Log`, flush with one retry, drain | Postgres |
| Router (`router/`) | routing state behind an atomic pointer, gauge, queue of shadow tasks | `POST /score`, `POST /admin/canary`, shadow workers, shutdown | two serving processes, Postgres |
| Label joiner (`monitoring/labels/`) | `labels` table | insert the labels that are due | Postgres |
| Drift detector, shadow comparator (`monitoring/drift/`, `monitoring/shadow/`) | `drift_alerts`, `shadow_summaries` | compute, insert with a hashed id | Postgres |
| Migrations (`monitoring/scripts/apply_migrations.py`) | `schema_migrations` | apply each file once | Postgres |
| Training and setup pipelines (`main.py`, `monitoring/main.py` and their scripts) | artifact files, Redis features, rows of `models` | nine steps in order, resumed after a failure with `--from` | files, Redis, Postgres; the serving container reads the files at startup |
| Deployment (`docker-compose.yml`) | restart policies, `MODEL_PATH` | restart containers | all of them |

How they interact: a request goes client -> router -> champion (or challenger,
when the canary takes it). The serving process answers and leaves a goroutine
that puts a record in the prediction log. When the canary is off the router
also queues the request for the challenger and stores both answers in
`shadow_comparisons`. The label joiner adds the truth later. The evaluator joins
predictions and labels, compares the two models, writes its decision, and
changes, in this order, the champion container, the registry and the router.

What is hard:

- *Partial failure.* A promotion is a database row, a reload, a transaction and a
  router call; each can fail, or succeed without its answer arriving, and the
  evaluator can die between any two.
- *Shared state without a common lock.* The runner is swapped under scores, the
  routing state under requests, and the gauge follows the state a step later.
- *Order of shutdown.* Handlers, goroutines they left behind, the flusher, the
  connection pool and the native session end in one order that loses nothing;
  after a timeout of `Shutdown` that order no longer protects anything.
- *Bounded queues.* Both the prediction channel and the shadow queue drop on
  overflow; a drop has to be a drop and nothing else.
- *Time.* The monitoring jobs sleep, run late, fail and restart, and each look
  back over a fixed window; rows become visible after the time they carry.
- *Batch steps that die half way.* A step writes several files in place; the next
  one, or a starting container, may read them before the rest is there.
- *History.* Promotion needs an unbroken run of `improving` rows; every other
  row, the row of an aborted promotion too, breaks it.

What makes each component correct:

- evaluator and registry: one champion at most, but for a retrained one registered
  beside it; no effect on registry or container without its row; a promotion only on
  top of the required run; a retired version back only by a recorded promotion, or by a
  registration that looked at it before; a clear challenger decided in the end;
- hot swap: no use after destroy, no double destroy, no leak, reloads finish
  under load, a clean stop;
- prediction log: every accepted record is in memory, in the table or counted;
  no row twice; one failing insert loses nothing; a clean stop loses nothing;
- router: a comparison is always of a champion's answer, at most one per request;
  every accepted task ends; a clean stop leaves no task;
- label joiner: every due label arrives; a label never changes;
- drift and shadow jobs: no row slips between two windows; what fires is recorded;
  nothing fires on samples with the same distribution;
- migrations: each file takes effect once, in order;
- pipelines: what is there when the last step has ended was made from what is
  there; a container that serves agrees with its feature order (it does not always).

## 2. Modules

| Module | What it is |
|---|---|
| `AuditedRollout` | abstract specification: decision log, owed effect, roles, the container's model |
| `CanaryRollout` | the evaluator's loop with registry, router state, champion container, operator, retraining and faults; implements `AuditedRollout` |
| `ServedModel` | abstract specification: each model lives once, one serves at a time, a request holds it |
| `AccountedDelivery` | abstract specification of both best-effort queues: at most one row each, nothing lost in silence |
| `ModelSwap` | `Swappable`, score and reload handlers, log goroutine, teardown; implements `ServedModel` |
| `PredictionStore` | `Store`: channel, flusher, retry, drain, table; implements `AccountedDelivery` |
| `ShadowRouter` | routing state and admin handler, score handler, shadow queue and workers; its queue implements `AccountedDelivery` |
| `MonitoringData` | the clock and the two tables the monitoring jobs read |
| `LabelJoiner`, `DriftDetector`, `ShadowComparator` | one job each, over `MonitoringData` |
| `MonitoringJobs` | the three jobs over one clock and one database |
| `Migrations` | sessions of `apply_migrations.py` |
| `SetupPipeline` | both command-line pipelines, their artifacts, and the container that loads them; uses `Migrations` |
| `ChannelLemmas` | facts about sequences used as bounded channels |
| `DriftDetector_proof` | facts about the statistics of the drift detector |
| `CanaryRollout_proof`, `ModelSwap_proof`, `PredictionStore_proof`, `ShadowRouter_proof`, `MonitoringJobs_proof`, `SetupPipeline_proof` | theorems |
| `MC...` | values of the constants for TLC |

Definitions with the comment `Mutant:` are not part of any specification. Each is
a plausible mistake in the definition that follows it, kept to show that the
property aimed at that mistake really notices it.

### CanaryRollout

One action per call of the loop: `PollRouter`, `EvaluateCanary`,
`WriteDecision`, `ReloadChampion`, `RecordPromotion`, `RetireChallenger`,
`DisableCanary`, and beside each what its failure does. `pc` is the place in
`main`/`apply_decision`; `outcome` is the decision in hand.

- A window is a record of the comparisons that decide (`enough`, `oneClass`,
  `prDelta`, `brierWorse`, `slow`): the metrics themselves are floating-point
  numbers nothing else depends on. `oneClass` is the window in which
  `roc_auc_score` is undefined and the iteration ends in its `except`.
- `history` keeps the newest `VisibleRows + 1` rows: the streak query reads
  `LIMIT 10`, and a promotion's own row lies on top of what it read.
- `WriteFails`, `RecordPromotionFails`, `RetireFails` and `DisableFails` leave
  open whether the other side did it: only the answer was lost.
- `ReloadTimesOut` adds to `lateReloads`: the container swaps later, as often as calls
  were given up, whatever the evaluator does meanwhile.
- A promotion's transaction is two steps. Its first `UPDATE` finds the champions
  (`FindChampions`) and waits for their rows, then for the challenger's
  (`RecordPromotion`); a row that has lost the role while it waited is left alone.
- `EvaluatorCrash` restarts at `polling`, since the loop iterates before it waits.
- A graceful stop is a state in which `Wake` is not taken again.
- `RegisterModels` is `register_models.py` statement by statement: `LookUp` (the
  `SELECT` and what needs no `UPDATE`), `RefuseModel`, `UpdateRole`, `RetireOlder`,
  `CommitRegistration`. Under READ COMMITTED each statement sees what is committed when
  it starts (`models`) and what its own transaction wrote (`wrote`); nothing is locked
  between the `SELECT` and the `UPDATE`. Rows it has updated make the evaluator's `UPDATE`s
  wait (`Locked`). A refused upsert, a crash or a deadlock (`AbandonRegistration`) rolls
  everything back. One registration runs at a time.
- The registry, the log, the container and the registration are mapped to
  `AuditedRollout`: a promotion's row owes one swap and, after a swap that brought the
  challenger, one change of the registry; a swap that was given up may still come, later.

### ModelSwap

A thread is a request, a reload or `main`. `own` says which runner it scores
with or is responsible for. The read lock is taken three times per request, as
in the code: for `Score`, for `ModelVersion` in the response and once more in
the goroutine. `sync.RWMutex` is modelled from its documented behaviour: a
waiting writer stops new readers, and `Unlock` lets in those that queued. A nil
runner is a panic, recovered in a handler (`Recovery`) and fatal in a goroutine; it
can be met between `runner.Destroy` and the return of `main` (`closing`).
Feature lookup, validation and the ONNX run appear as what they can do: succeed
or fail. A request in its lookup (`looking`) holds no lock; when the lookup ends late,
after a timed-out shutdown, it meets whatever is left.

Under the mapping to `ServedModel` a session is *loaded* while a reload validates it or
waits for the lock with it, *serving* while it is the current one, *displaced* while the
reload that swapped it out has not destroyed it; a request *uses* its runner from `RLock`
to the end of the ONNX run. A session that is none of these would be in no stage.

### PredictionStore

`Receive`, `Tick`, `SeeDone` are the three cases of the flusher's `select`;
`DrainReceive` and `DrainEmpty` those of the drain. `flushWithRetry` is two
attempts with `resume` remembering the caller. An attempt can fail with its rows
in the table (the answer to the commit is lost); the retry then meets the primary
key. `BufferSize = 0` is excluded by `StoreAssumption`: an unbuffered channel
hands over to a waiting receiver, which is another algorithm.

Under the mapping to `AccountedDelivery` a record is *queued* while it is in the channel,
*held* while it is in the batch, *refused* when `Log` dropped and counted it, *reported*
when the second attempt failed. A record is refused when `BufferSize` others are queued and
only then: those in the batch do not count.

### ShadowRouter

`ReceiveScore` is the one `Load` and the one random draw; `Respond` dispatches on
what was decided then. A worker's two selects differ only in `SeeDone` and
`DrainedExit`. Percentages are whole numbers and a draw is rounded down, which
decides `r*100 < percent` the same way. `BufferSize = 0` is excluded as in the store. The
mapping to `AccountedDelivery` is the store's, with the tasks in the workers' hands as those
*held*; *reported* are those that ended in an error. `GET /health` and `GET /admin/state`
change nothing and are left out.

### MonitoringJobs and the modules it extends

Time is a whole number. `Record` gives a row the current time; `Commit` makes it
visible, at most `Lag` later (a flush and its retry). `Tick` lets time pass while
no job is overdue: an iteration starts and ends within `RunTime` of the end of its
sleep. All processes read one clock; skew between containers is left out.

- `LabelJoiner`: `Query` picks any page of `PageFactor * MaxInserts` unlabelled
  predictions, since the SQL has a `LIMIT` and no `ORDER BY`, and keeps at most
  `MaxInserts` that are known and due; `InsertLabels` is the transaction. Its sleep
  is not timed: it may iterate whenever it sleeps. The delay is a function of the
  transaction, as in the code, where it is drawn from a generator seeded by the id.
- `DriftDetector`: `ReadTime`, `Evaluate`, `WriteAlerts`, `Sleep`; `CheckFails` leaves
  open whether the transaction committed; `DriftCrash` restarts with a check at
  once. Samples are sets of rows. Of each statistic the model keeps on which pairs of
  samples it is zero: equal shares in every PSI bin, equal distribution functions,
  equal shares of hash buckets. What the thresholds make of a value that is not zero is
  the constant `Found`, and what they make of zero is `FoundAtZero`: the PSI has only to
  meet its threshold (`runner.py:87`), so a threshold of 0 fires on a PSI of 0. A check
  skipped for too few samples counts as a check of its rows, as in the code. `DriftAssumption` asks for a finite reference window, for
  `MinSamples` of at least 1 (with 0 two empty samples would be compared) and for scores
  that are whole numbers: they are only compared with each other.
- `ShadowComparator`: the same loop; a summary counts, and knows when the
  correlation is undefined.

`DriftAssumption` and `ShadowAssumption` relate window, interval and failures:
`(MaxFails + 1) * (Interval + RunTime) + RunTime <= Window - Lag`. With the defaults
the drift detector (60 min window, 15 min interval) survives two failed checks in a
row with minutes to spare; the shadow comparator (60 and 30 min) survives none: one
failed summary, and rows near the edge are counted nowhere.

### Migrations and SetupPipeline

`CheckFile` and `ApplyFile` are the two statements between which another session may
record the file; the primary key of `schema_migrations` then rolls the transaction
back. In `SetupPipeline` the steps are data (`Steps`): what each reads of other steps
and what it writes, in order. `BeginStep` reads the inputs, `WriteOutput` writes the
next file, `EndStep` and `StepFails` end the step. An artifact is the number of the
execution that wrote it, and an execution remembers those of its inputs. The
operator is assumed to resume no later than at the step that failed (`owed`), which is
what the pipelines print; `--from` with a later step is outside the model. The
container reads the feature order, hashes the model file and creates the session at
three moments, and accepts when a vector of zeros as long as the order is scored.

## 3. Runs

All bounds are CONSTANTS of the modules, set in the `.cfg` files.

| Run | Question | Bounds, and why they are enough |
|---|---|---|
| `Rollout_faults` | Do the registry and the audit log stay right whatever fails? Does the loop implement `AuditedRollout`? | three versions (champion, challenger, a retrained one), every fault kind, two faults, a window of each kind, retraining of either slot, registrations at any time, streak of two over one visible row. Two faults cover a failure during recovery from another, and two reloads that outlive their callers; a streak of two has a first, a last and a broken run |
| `Rollout_live` | Is a canary that is on switched off, and its challenger decided on? Is a promotion recorded only of what serves? | every window clearly good or bad, streak of three, three faults; router and champion container stay up, reloads keep their time limit. The streak of three also lets `PromotionEarned` see improving rows that are not consecutive |
| `Swap` | Use after destroy, leaks, clean stop, progress. Does the swap implement `ServedModel` (which excludes a double destroy and a session served twice)? | two requests, two reloads at once, three runners: a reload can meet another reload and a teardown |
| `Store` | Loss, drain, progress. Does the log implement `AccountedDelivery` (which excludes a second row)? | four records, channel and chunk of two, three failing inserts: overflow, a full chunk, an ambiguous failure followed by a failing retry |
| `Router` | Right comparisons, clean stop, progress. Does the queue implement `AccountedDelivery` (at most one comparison per request)? | three requests, queue of one, two workers, one admin switching canary and shadow: overflow while both workers are busy |
| `Jobs` | Does every due label arrive and stay? Does a row slip between windows? Is every firing recorded? Are there false alarms? | two joiners with different ground truths; four predictions for the joiner on a page of two: two of one transaction, one whose label a joiner does not know, one that is not due before the end of time; two predictions of the deployment whose drift is measured, against four reference rows; two comparisons; for both timed jobs windows of 6 time units with intervals of 1 and one failure in a row. The windows are as short as the assumptions allow for these failures (`2 * 2 + 1 = 6 - 1`) |
| `Setup` | Is what the pipelines leave consistent? Do migrations apply once? | nine steps with two executions beyond one of each, two files, two sessions with two runs each, a container meanwhile |
| `Rollout_doc_*`, `Swap_doc_answer`, `Setup_doc_mismatch` | Does a sentence of the documents hold? | see section 6 |

`Rollout_*` are checked for deadlock: the loop never stops. The processes of the
other modules end, the clock of `Jobs` and the executions of `Setup` are bounded, so
their runs say `CHECK_DEADLOCK FALSE`; what must not wait
for ever is in `StopCompletes`, `ReloadCompletes`, `RecordsSettle`, `TasksSettle`.

In `Jobs` the code's page factor of 5 is 2, and each job is deployed alone (`EachAlone`): the jobs
write no table in common, and the proofs cover any deployment. `LastArrival` keeps the last request
early enough for its label to fall due before `MaxTime`. The default window and interval of the
shadow comparator leave no room for a failure; the run asks what the loop does when there is some.
`EveryDueLabelArrives` is conditional: it promises the due labels once the predictions that are
unknown or not due yet are in the end fewer than a page. The traffic of the run ends, and one
unknown and one not due fill the page of two for some of its behaviours, about which nothing is
said. In production, where labels fall due up to two weeks later and the query has no `ORDER BY`,
a page of such rows may come back for ever (`simulator.py:44`).

### Fairness

- `CanaryRollout!FairSpec`: `WF(Evaluator)`. `stopper.wait` returns, and every
  call has a timeout (5 s, 60 s), so the loop goes on. A fault is an alternative
  to the step it replaces, and there are at most `MaxFaults`: with endless
  failures nothing could be promised. `WF(RegisterModels)`: a registration that has
  begun ends. `SF` for the two `UPDATE`s that may wait for a row: PostgreSQL serves
  those who wait for a row lock in order, so registrations that follow one another
  do not keep it from them for ever. Nothing obliges the operator or a registration.
- `ModelSwap!FairSpec`: each started request and reload runs on, `main` runs on
  after the signal, and a goroutine that wants the write lock gets it in the end
  (`SF` for `RequestLock`): `sync.Mutex` switches to starvation mode after 1 ms.
  No fairness makes requests arrive or stop arriving.
- `PredictionStore!FairSpec`: goroutines run; `select` chooses at random among
  ready cases, hence `WF` for `Tick` and `SeeDone` beside `WF(Flusher)`. They stay
  enabled while the flusher collects; `CopyFrom` ends within its 10 s.
- `ShadowRouter!FairSpec`: goroutines run; upstream calls (500 ms) and inserts
  (2 s) end.

- `MonitoringJobs!FairSpec`: time passes, flushes commit, joiners query; `SF` for
  `InsertLabels`, since a transaction that is tried again and again succeeds in the
  end. Only `EveryDueLabelArrives` uses it; the windows' properties are safety,
  because `Tick` waits for whoever is overdue.

## 4. Proofs

TLC checks the instances above. The following hold for every value of the
constants that meets the named assumptions (`RolloutAssumption`,
`SwapAssumption`, `StoreAssumption`, `RouterAssumption`, `DataAssumption`,
`LabelAssumption`, `DriftAssumption`, `ShadowAssumption`, `MigrationAssumption`,
`SetupAssumption`).

**Rollout.** `TypeCorrect`. The invariants checked by TLC are not inductive: that a
promotion's effect finds its row on top needs to know that the row was put there on
a streak. `Justified` says so: while a promotion is under way the newest row is
`promoted` and the rows below it are the streak; while a rollback is, the newest
row is `rollback`; while a promotion is being written, the streak is still on top.
From it follow `PromotionsAreEarned` and `RolloutIsAudited`, the refinement: every step of
the loop and its environment, late swaps and the statements of a registration included, is a
step of `AuditedRollout` or a stutter. What a registration may commit is in `FromFiles`,
`Written` and `Registered`: the digests it has read are files of their slots, each role it
has written is one these files call for, and after its last `SELECT` the challenger's version
was not retired when it was looked at. `RevivalsAreRaces` is that for a retired version: it
comes back by a recorded promotion, or by a registration that read its role before the
retirement was committed, which `register_models.py:48` wants to exclude and does not.
`SingleChampion` rests on `Succession`: between the champion of the setup and the challenger,
a promotion retires the one whenever it raises the other, and a registration that finds the
first retired refuses. A retrained champion is registered beside either, so the theorem
leaves out the pairs that contain one. `RegistryFollowsContainer`
assumes that the container does not restart and that no reload outlives its caller;
without these the code does not give it. `StreakBeyondTheLimit` is about a configuration
nothing refuses: when more runs are required than the `LIMIT 10` of the streak query and the
evaluation at hand can show, no promotion is ever begun, however long the challenger improves.

**Swap.** `Inv` has three parts besides the types. `Locked`: who holds or awaits the
lock follows from where each thread is, and a writer that got through is alone.
`Owned`: each live session is the current one or belongs to exactly one reload, and
a running score has the current one. `Stopped`: a nil runner exists only after the
teardown, and without a timed-out shutdown nobody is left to meet it. They give
`SwapTypeCorrect`, `RunsOnLiveSessions`, `ReloadsDestroyOnce`, `SessionsAreOwned`
and `OrderlyTeardown` for any number of requests, reloads and runners. TLC's two
requests and two reloads cannot show that; the pairwise-distinct ownership in
`Owned` is what carries it. `SwapServesOneModel` is the refinement of `ServedModel`: each
step changes the stage of one session, or replaces the one that serves. `Owned` gives each
session a stage, and no second reload can change it; `Locked` gives that nobody uses a
session when it is replaced or retired.

**Prediction log.** `Inv` adds to the checked invariants where a record may be for
each state of its request (`Placed`), that a retry has a failure behind it
(`RetryAfterFailure`), and the order of the shutdown (`Ordered`). They give
`StoreTypeCorrect`, `NothingForgotten`, `InsertedAtMostOnce`, `NothingHeldTwice`,
`OneFailureIsSurvived`, `OrderlyStopLosesNothing`. `LogIsAccountedDelivery` is the
refinement of `AccountedDelivery`. It rests on the same invariant: an insert adds a row only to
records of the batch, and a batch is cleared only with its rows in the table or its records
counted as lost.

**Router.** `Inv` says that a task is in one place (`InOnePlace`), that only a
finished request answered by the champion is (`Dispatched`), and how far the
shutdown has come (`Ordered`). They give `RouterTypeCorrect`,
`OnlyChampionsAreCompared`, `NoDoubleComparison`, `NoTaskForgotten`,
`OrderlyStopIsComplete`. `QueueIsAccountedDelivery` is the refinement of
`AccountedDelivery`; it needs one more invariant, that the stop is not cut short before the
signal (`NotCutYet`). Both refinements need that the channel is full exactly when `BufferSize`
different items are queued (`FullChannel`): one way the channel itself is the injection, the
other way it is the pigeonhole principle.

**Monitoring jobs.** That no prediction escapes (`NoPredictionEscapes`) is not
inductive: it speaks of what has already left the window. `DriftCovered` says for each
unchecked prediction how long it must stay inside: `DriftReserve(driftFails)`, the
time for the failures that are still possible and for the check after them, counted
from the end of the current sleep; and a whole period more when the current check has
not seen it. `DriftTiming` bounds the sleep against the clock, and `RowsInTime` a row's age when it
becomes visible. Each action spends exactly what the reserve holds, and
`DriftAssumption` says that the window holds the reserve of a fresh row.
`NoComparisonEscapes` is the same argument for the shadow comparator.
`FiringsReachTheTable` needs that all ids in the table are of earlier moments than the
check under way (`AlertsOfThePast`); then `DO NOTHING` meets no conflict.
`NoAlarmWithoutDrift` says that a check whose sample has the distribution of the reference
raises nothing but what a threshold that zero meets asks for. `SameDistributionIsSilent` is
what it rests on: equal shares of every score and every bucket make each statistic zero
although the two samples have different sizes, so the detectors that fire are those of
`FoundAtZero`: none with positive thresholds. The model's statistics count over bins of scores, so equal shares of scores have to add
up (`SharesAddUp`). No induction is needed for that: pair the reference rows of a bin with all
recent rows, and the recent rows of the bin with all reference rows; the two sets of pairs
have equally many members of each score, and the bijections score by score glue together to
one of the sets (`SameSizeByClasses`).
`JobsTypeCorrect` and `LabelsStay` complete it.

**Setup.** `MigrationsApplyOnce`: a session at a file has seen the earlier ones
recorded (`SessionsInOrder`), so the record's key alone decides who applies.
`FinishedPipelineIsConsistent` rests on `PipelineInv`: all steps before the owed one
are up to date, the running step has the inputs that are still there, and its first
outputs are its own. It is kept because every artifact has one writer and is read by
later steps only (`WritersWrite`, `ReadersFollow`, proved from the table of steps).
`SetupTypeCorrect` comes with it.

`ChannelLemmas` holds what both queue proofs need of `Append`, `Head` and `Tail`.

Only model-checked: the liveness properties (`CanaryConcludes`, `RolloutDecided`,
`ReloadCompletes`, `RecordsSettle`, `TasksSettle`, the `StopCompletes`,
`EveryDueLabelArrives`), because TLAPS does not reason about `ENABLED`, on which fairness
rests. Every invariant, action property and refinement of the runs that pass is proved,
under the assumptions named above.

## 5. What is not modelled

- What training computes: features, splits (`PurgedTimeSeriesSplit`), tuning, fitting,
  the conversion to ONNX. Sequential numeric code; the pipeline model keeps which files
  it reads and writes, and whether the parity check passes. Optuna's study is reused across runs on
  purpose (`README.md:157`), so it is no artifact of one execution. `eda.py`,
  `baselines.py` and `recompute_challenger_metrics.py` write nothing a later step reads.
- The values of PSI, KS, JS, percentiles, PR-AUC and Brier: floating-point statistics.
  The rollout model keeps the comparisons they feed, the drift model where they are zero.
- `monitoring/common/`, configuration and metrics packages: parsing and observation.
- An ONNX converter that is not installed: `train_challenger.py` only warns, but the
  dependencies are in `pyproject.toml`.
- HTTP decoding, authentication, logging, dashboards, load and smoke scripts.
- The batch's size: the collecting loop appends without a limit
  (`store.go:88`; `drainChunkSize` bounds the drain only), so the model has none.

## 6. Where code and documents disagree

Each of these is a run TLC finishes with a counterexample.

| Run | Statement | What the code does |
|---|---|---|
| `Rollout_doc_shadow` | `README.md:26`, the challenger on shadow traffic is decided on | the evaluator only evaluates while the canary is enabled |
| `Rollout_doc_revive` | `register_models.py:48-52`, a retired model comes back only by hand | the promotion's UPDATE does not look at the role; a canary left on after a rollback can promote the retired version |
| `Rollout_doc_restart` | `PRODUCTION.md:149`, full traffic to the promoted champion | a restarted champion container loads `final_model.onnx` |
| `Swap_doc_answer` | `handlers_test.go:179`, the response names the model that scored | the version is read in a second critical section |
| `Setup_doc_mismatch` | `runner.go:164`, a feature order that does not fit the model is caught at startup | only its length is; an export writes the model and then the order, in place, and a container that starts between the two serves the new model with the old order |

Seen while modelling, without a run of their own: a swallowed router failure
leaves the canary on after a rollback (`PRODUCTION.md:160`); a version mismatch
after a reload leaves an unrecorded model serving (`run_canary_evaluator.py:103`);
a rollback after a promotion retires the only champion (`README.md:121`);
`INITIAL_CANARY_PERCENT` has no effect while the canary starts disabled; the
gauge is zero until the first admin call, and is set a step after the state, so two
admin calls that cross leave it wrong (`metrics.go:32`); an aborted promotion's row
breaks the streak, so that three more windows pass although
`run_canary_evaluator.py:89-90` says the next iteration reconsiders;
`drift/runner.py:36` relies on ids that are stable within a window to prevent a second
insert after a restart, but the window ends at the moment of the check, so the restarted
check has another id and may alert again; a registration whose `SELECT` precedes a commit of the
evaluator overwrites it: a rollback (the retired version is a challenger again,
`register_models.py:29`, `:58`) or a promotion (the new champion is a challenger again, its
canary off, and no champion is left) - `SELECT ... FOR UPDATE`, or the role in the `WHERE`
of the `UPDATE`, would close this; a champion retrained after a promotion is registered
beside the promoted one (`register_models.py:93`), so that there are two champions; a PSI
threshold of 0 fires on equal samples (`runner.py:87`); a parity difference that is NaN
passes both checks (`training/src/export.py:89`, `train_challenger.py:200`); with at least 90% of the reference scores
tied at their minimum the PSI has a single bin and never fires; and a failed parity
check leaves the bad model on the disk, in the place a starting container reads.

## 7. Plan

Done, in this order: rollout (`AuditedRollout`, `CanaryRollout`) because it is the
platform's own logic; hot swap, prediction log and router, because they are
concurrent and hold what the evaluator's data come from; the monitoring jobs, the
migrations and the pipelines; the proofs of all of them; then the abstract specifications of
the hot swap (`ServedModel`) and of the queues (`AccountedDelivery`), with the refinements proved.

Next:

1. Two `register_models` at once: both insert what both found absent, the second waits for
   the first and fails on the primary key; their `UPDATE`s wait for each other's rows. With it
   `model_versions.json`, which is written after the commit (`register_models.py:121`).
2. `ScoringNode`: `ModelSwap` and `PredictionStore` composed over one `main` and one
   request, so that what a record names and whether it is kept are one property. With
   `ServedModel` and `AccountedDelivery` proved of its parts, the composition can be stated
   over those two.
3. Proofs: that with a window as long as the assumptions ask a failure more than they allow
   does let a row escape (the bound is tight), and the safety half of the liveness
   properties, that nothing that has settled becomes unsettled again.
