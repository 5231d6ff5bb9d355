----------------------------- MODULE DriftDetector -----------------------------
(***************************************************************************)
(* The drift detector (monitoring/drift/ and                               *)
(* scripts/run_drift_detector.py): every Interval it compares the          *)
(* predictions of the last Window with a fixed reference window and writes *)
(* an alert for each detector that fires.  The statistics themselves are   *)
(* real numbers; what is modelled of each is on which samples it is zero,  *)
(* and what its thresholds make of zero and of the rest.                   *)
(***************************************************************************)
EXTENDS MonitoringData

CONSTANTS
  Reference,      \* the rows of the reference window
  ScoreOf,        \* Predictions and Reference -> fraud_probability
  BucketOf,       \* Predictions and Reference -> first byte of features_hash, or NoHash
  NoHash,         \* an empty features_hash
  Found,          \* detector -> recent sample -> what its thresholds make of a
                  \*   statistic that is not zero
  FoundAtZero,    \* detector -> what its thresholds make of zero: "none", unless
                  \*   the one of PSI, which has only to be met, is 0
  MinSamples,     \* drift_min_samples (200)
  DriftWindow,    \* recent_window_hours (1 h)
  DriftInterval,  \* drift_run_interval_minutes (15 min)
  DriftRunTime,   \* time an iteration, or a restart, takes at most
  DriftMaxFails   \* failed iterations in a row

Detectors == {"psi", "ks", "js"}
Severities == {"warning", "critical"}

\* The window outlasts DriftMaxFails iterations in a row that fail.
ASSUME DriftAssumption ==
  /\ IsFiniteSet(Reference) /\ MinSamples \in Nat \ {0}
  /\ ScoreOf \in [Predictions \cup Reference -> Int]
  /\ Found \in [Detectors -> [SUBSET Predictions -> Severities \cup {"none"}]]
  /\ FoundAtZero \in [Detectors -> Severities \cup {"none"}]
  /\ DriftWindow \in Nat /\ DriftInterval \in Nat
  /\ DriftRunTime \in Nat \ {0} /\ DriftMaxFails \in Nat
  /\ (DriftMaxFails + 1) * (DriftInterval + DriftRunTime) + DriftRunTime
       <= DriftWindow - Lag

VARIABLES
  drift,       \* where the iteration is
  driftWake,   \* when the current sleep ends, or ended
  driftNow,    \* the `now` of the current or the last check
  sample,      \* the predictions in the window of the current check
  firing,      \* the alerts of the current check: detector -> severity
  alerts,      \* the drift_alerts table: alert_id -> severity
  checked,     \* the predictions that were in the sample of a check that ended well
  driftFails   \* failed iterations since the last check that ended well

driftVars == <<drift, driftWake, driftNow, sample, firing, alerts, checked, driftFails>>

DriftTypeOK ==
  /\ drift \in {"asleep", "querying", "writing", "done"}
  /\ driftWake \in Nat
  /\ driftNow \in -1..MaxTime
  /\ sample \subseteq Predictions
  /\ DOMAIN firing \subseteq Detectors
  /\ firing \in [DOMAIN firing -> Severities]
  /\ alerts \in [DOMAIN alerts -> Severities]
  /\ checked \subseteq Predictions
  /\ driftFails \in 0..DriftMaxFails

None == [d \in {} |-> "warning"]

DriftInit ==
  /\ drift = "asleep" /\ driftWake = 0 /\ driftNow = -1
  /\ sample = {} /\ firing = None /\ alerts = None
  /\ checked = {} /\ driftFails = 0

------------------------------------------------------------------------------
(* The statistics.  A sample is a set of rows.                              *)

Below(S, x) == {r \in S : ScoreOf[r] < x}
InBucket(S, b) == {r \in S : BucketOf[r] = b}

\* The two samples have the same share of the rows in S and T.
SameShare(S, ref, T, rec) ==
  Cardinality(S) * Cardinality(rec) = Cardinality(T) * Cardinality(ref)

ScoresIn(S) == {ScoreOf[r] : r \in S}

\* The inner edges of the bins are quantiles of the reference, between its least
\* and its greatest score.  When all of it ties, the bins are of equal width.
Edges(ref, rec) ==
  {x \in ScoresIn(ref \cup rec) :
     \/ Cardinality(ScoresIn(ref)) = 1
     \/ \E y, z \in ScoresIn(ref) : y < x /\ x <= z}

\* Mutant: the counts are compared, not the shares.
PsiOfCounts(ref, rec) ==
  \E x \in Edges(ref, rec) : Cardinality(Below(ref, x)) # Cardinality(Below(rec, x))

\* PSI is zero when every bin has the same share of both samples.
PsiNonZero(ref, rec) ==
  \E x \in Edges(ref, rec) : ~ SameShare(Below(ref, x), ref, Below(rec, x), rec)

\* The KS statistic is zero when the two distribution functions are equal.
KsNonZero(ref, rec) ==
  \E x \in ScoresIn(ref \cup rec) : ~ SameShare(Below(ref, x), ref, Below(rec, x), rec)

\* A bucket with no row counts as eps; rows without a hash count nowhere, and a
\* sample without any hash is taken for the uniform distribution.
JsNonZero(ref, rec) ==
  LET hashed(S) == S \ InBucket(S, NoHash)
  IN \/ (hashed(ref) = {}) # (hashed(rec) = {})
     \/ \E b \in {BucketOf[r] : r \in hashed(ref) \cup hashed(rec)} :
          ~ SameShare(InBucket(ref, b), hashed(ref), InBucket(rec, b), hashed(rec))

NonZero(d, ref, rec) ==
  CASE d = "psi" -> PsiNonZero(ref, rec)
    [] d = "ks" -> KsNonZero(ref, rec)
    [] d = "js" -> JsNonZero(ref, rec)

\* What detector d makes of the two samples: a severity, or "none".
Outcome(d, ref, rec) == IF NonZero(d, ref, rec) THEN Found[d][rec] ELSE FoundAtZero[d]

\* The alerts of a check: detector -> severity.
Firings(ref, rec) ==
  [d \in {e \in Detectors : Outcome(e, ref, rec) # "none"} |-> Outcome(d, ref, rec)]

------------------------------------------------------------------------------
(* One iteration.                                                           *)

\* The clock has microseconds: no two checks read the same time.
ReadTime ==
  /\ drift = "asleep"
  /\ clock >= driftWake /\ clock > driftNow
  /\ drift' = "querying" /\ driftNow' = clock
  /\ UNCHANGED <<driftWake, sample, firing, alerts, checked, driftFails>>

\* Mutant: the window is as long as the interval.
IntervalWindow == Between(Predictions, driftNow - DriftInterval, driftNow)

Recent == Between(Predictions, driftNow - DriftWindow, driftNow)

EndCheck(S) == drift' = "done" /\ checked' = checked \cup S /\ driftFails' = 0

\* The query, the sample sizes and the detectors.  A check with too few samples,
\* or in which nothing fires, writes nothing.
Evaluate ==
  /\ drift = "querying"
  /\ sample' = Recent
  /\ firing' = IF Cardinality(Reference) < MinSamples \/ Cardinality(Recent) < MinSamples
               THEN None ELSE Firings(Reference, Recent)
  /\ IF firing' = None
     THEN EndCheck(Recent)
     ELSE drift' = "writing" /\ UNCHANGED <<checked, driftFails>>
  /\ UNCHANGED <<driftWake, driftNow, alerts>>

\* Mutant: the id is made of the window alone.
WindowId(d, now) == <<now - DriftWindow, now>>

AlertId(d, now) == <<d, now - DriftWindow, now>>

\* The table once the alerts of this check are in: ON CONFLICT DO NOTHING.
WithFirings ==
  [id \in DOMAIN alerts \cup {AlertId(d, driftNow) : d \in DOMAIN firing} |->
     IF id \in DOMAIN alerts THEN alerts[id]
     ELSE firing[CHOOSE d \in DOMAIN firing : AlertId(d, driftNow) = id]]

\* One transaction.
WriteAlerts ==
  /\ drift = "writing"
  /\ alerts' = WithFirings
  /\ EndCheck(sample)
  /\ UNCHANGED <<driftWake, driftNow, sample, firing>>

Forget == sample' = {} /\ firing' = None

Sleep ==
  /\ drift = "done"
  /\ drift' = "asleep" /\ driftWake' = clock + DriftInterval
  /\ Forget
  /\ UNCHANGED <<driftNow, alerts, checked, driftFails>>

\* The query or the transaction fails, or only the answer to its commit is lost;
\* main logs the exception and sleeps.
CheckFails ==
  /\ drift \in {"querying", "writing"}
  /\ driftFails < DriftMaxFails /\ driftFails' = driftFails + 1
  /\ drift' = "asleep" /\ driftWake' = clock + DriftInterval
  /\ alerts' \in {alerts, WithFirings}
  /\ Forget
  /\ UNCHANGED <<driftNow, checked>>

\* The process dies; the container starts again and checks at once.  An
\* iteration that was due, or under way, has failed.
DriftCrash ==
  /\ IF drift = "done" \/ clock < driftWake
     THEN UNCHANGED driftFails
     ELSE driftFails < DriftMaxFails /\ driftFails' = driftFails + 1
  /\ drift' = "asleep" /\ driftWake' = clock
  /\ Forget
  /\ UNCHANGED <<driftNow, alerts, checked>>

DriftStep == ReadTime \/ Evaluate \/ WriteAlerts \/ Sleep \/ CheckFails \/ DriftCrash

\* An iteration takes at most DriftRunTime once it is due.
DriftOnTime == clock < driftWake + DriftRunTime

------------------------------------------------------------------------------
(* Properties.                                                              *)

\* No prediction becomes visible, grows older than the recent window
\* (runner.py:57) and has been looked at by no check: the window is longer than
\* the interval by so much that predictions flushed late, slow iterations,
\* restarts and DriftMaxFails failures in a row leave no gap between windows.
NoBlindSpot == "drift" \in deployed.jobs => \A p \in Predictions \cap stored :
  created[p] + DriftWindow < clock => p \in checked

\* A check that ends well has an alert in the table for each detector that
\* fired, with the severity it was found with: their ids (runner.py:37) do not
\* collide with each other's or with an earlier check's, in which case DO
\* NOTHING would drop them.
FiringsAreRecorded == drift = "done" => \A d \in DOMAIN firing :
  \E id \in DOMAIN alerts : id = AlertId(d, driftNow) /\ alerts[id] = firing[d]

\* Two samples with the same shares of every score and every bucket.
SameDistribution(ref, rec) ==
  /\ \A x \in ScoresIn(ref \cup rec) :
       SameShare({r \in ref : ScoreOf[r] = x}, ref, {r \in rec : ScoreOf[r] = x}, rec)
  /\ \A b \in {BucketOf[r] : r \in ref \cup rec} :
       SameShare(InBucket(ref, b), ref, InBucket(rec, b), rec)

\* A sample with the distribution of the reference raises no alert but one that its
\* threshold asks for at zero, and with that severity, however different the sizes
\* of the two are (psi.py:25, ks.py:21, js.py:18, runner.py:87): with thresholds
\* above zero, none.
NoFalseAlarm == SameDistribution(Reference, sample) /\ sample # {} =>
  \A d \in DOMAIN firing : firing[d] = FoundAtZero[d]
===============================================================================
