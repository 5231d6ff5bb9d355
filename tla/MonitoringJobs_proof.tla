------------------------- MODULE MonitoringJobs_proof -------------------------
(***************************************************************************)
(* Theorems about MonitoringJobs, for every value of its constants: any    *)
(* set of jobs together, any traffic, windows, intervals and numbers of    *)
(* failures that meet the named assumptions.                               *)
(***************************************************************************)
EXTENDS MonitoringJobs, DriftDetector_proof, TLAPS

-------------------------------------------------------------------------------
(* Types.                                                                   *)

LEMMA TypeInit == Init => TypeOK
BY DataAssumption, LabelAssumption, DriftAssumption, ShadowAssumption
DEF Init, DataInit, LabelInit, DriftInit, ShadowInit, TypeOK, DataTypeOK, LabelTypeOK,
    DriftTypeOK, ShadowTypeOK, Never, Label, None, Severities, Detectors

LEMMA TrafficType == TypeOK /\ Traffic => TypeOK'
<1> SUFFICES ASSUME TypeOK, Traffic PROVE TypeOK'
  OBVIOUS
<1>1. DataTypeOK'
  BY DataAssumption
  DEF TypeOK, DataTypeOK, Traffic, Record, Commit, Never
<1>2. LabelTypeOK'
  <2>1. UNCHANGED labelVars
    BY DEF Traffic
  <2>2. \A p \in Predictions : created[p] # Never => created'[p] # Never
    BY DEF Traffic, Record, Commit, TypeOK, DataTypeOK, Rows, Never
  <2> QED
    BY <2>1, <2>2 DEF TypeOK, LabelTypeOK, labelVars
<1> QED
  BY <1>1, <1>2 DEF TypeOK, Traffic, DriftTypeOK, ShadowTypeOK, driftVars, shadowVars

LEMMA TickType == TypeOK /\ Tick => TypeOK'
BY DataAssumption
DEF TypeOK, DataTypeOK, LabelTypeOK, DriftTypeOK, ShadowTypeOK, Tick, AdvanceClock,
    labelVars, driftVars, shadowVars

\* The labels an insert makes.
LEMMA NewLabels ==
  ASSUME TypeOK, NEW j \in Joiners, NEW first \in FirstOf(toInsert[j])
  PROVE  LET new == [t \in DOMAIN first |->
                       [fraud |-> Truth[j][t], at |-> AvailableAt(first[t])]]
         IN new \in [DOMAIN new -> Label] /\ DOMAIN new \subseteq Txns
<1>1. \A p \in toInsert[j] :
        p \in Predictions /\ created[p] \in Nat /\ TxnOf[p] \in Txns \cap DOMAIN Truth[j]
  BY DataAssumption DEF TypeOK, LabelTypeOK, DataTypeOK, Rows, Never
<1>2. \A t \in DOMAIN first : first[t] \in toInsert[j] /\ TxnOf[first[t]] = t
  BY DEF FirstOf
<1>3. \A t \in DOMAIN first :
        t \in Txns /\ Truth[j][t] \in BOOLEAN /\ AvailableAt(first[t]) \in Nat
  BY <1>1, <1>2, LabelAssumption DEF AvailableAt
<1> QED
  BY <1>3 DEF Label

LEMMA LabelsType == TypeOK /\ Labels => TypeOK'
<1> SUFFICES ASSUME TypeOK, Labels PROVE TypeOK'
  OBVIOUS
<1> PICK j \in Joiners : Query(j) \/ InsertLabels(j) \/ IterationFails(j)
  BY DEF Labels, LabelStep
<1>1. UNCHANGED <<dataVars, driftVars, shadowVars>>
  BY DEF Labels
<1>2. LabelTypeOK'
  <2>1. CASE Query(j)
    <3>1. PICK page \in Page : \E due \in AnyOf({p \in page : Due(j, p)}, MaxInserts) :
            toInsert' = [toInsert EXCEPT ![j] = due]
      BY <2>1 DEF Query
    <3>2. page \subseteq Unlabelled
      BY DEF Page, AnyOf
    <3>3. PICK due \in SUBSET {p \in page : Due(j, p)} : toInsert' = [toInsert EXCEPT ![j] = due]
      BY <3>1 DEF AnyOf
    <3>4. \A p \in due :
            p \in Predictions /\ created[p] # Never /\ TxnOf[p] \in DOMAIN Truth[j]
      BY <3>2 DEF Due, Unlabelled, TypeOK, DataTypeOK
    <3> QED
      BY <2>1, <3>3, <3>4, <1>1 DEF Query, TypeOK, LabelTypeOK, dataVars
  <2>2. CASE InsertLabels(j)
    <3>1. PICK first \in FirstOf(toInsert[j]) :
            labels' = Inserted([t \in DOMAIN first |->
                                  [fraud |-> Truth[j][t], at |-> AvailableAt(first[t])]])
      BY <2>2 DEF InsertLabels
    <3>2. DOMAIN labels' \subseteq Txns /\ labels' \in [DOMAIN labels' -> Label]
      BY <3>1, NewLabels DEF Inserted, TypeOK, LabelTypeOK
    <3> QED
      BY <2>2, <3>2, <1>1 DEF InsertLabels, TypeOK, LabelTypeOK, dataVars
  <2>3. CASE IterationFails(j)
    BY <2>3, <1>1 DEF IterationFails, TypeOK, LabelTypeOK, dataVars
  <2> QED
    BY <2>1, <2>2, <2>3
<1> QED
  BY <1>1, <1>2
  DEF TypeOK, DataTypeOK, DriftTypeOK, ShadowTypeOK, dataVars, driftVars, shadowVars

LEMMA NowType == DriftTypeOK /\ DataTypeOK => driftNow \in Int /\ driftWake \in Nat /\ clock \in Nat
BY DataAssumption DEF DriftTypeOK, DataTypeOK

\* The detectors that fire, and the table with their alerts.
LEMMA FiringsType ==
  ASSUME NEW ref, NEW rec \in SUBSET Predictions
  PROVE  /\ Firings(ref, rec) \in [DOMAIN Firings(ref, rec) -> Severities]
         /\ DOMAIN Firings(ref, rec) \subseteq Detectors
BY DriftAssumption DEF Firings, Outcome

LEMMA WithFiringsType ==
  ASSUME DriftTypeOK
  PROVE  WithFirings \in [DOMAIN WithFirings -> Severities]
<1> SUFFICES ASSUME NEW id \in DOMAIN WithFirings PROVE WithFirings[id] \in Severities
  BY DEF WithFirings
<1>1. CASE id \in DOMAIN alerts
  BY <1>1 DEF WithFirings, DriftTypeOK
<1>2. CASE id \notin DOMAIN alerts
  <2> DEFINE d == CHOOSE e \in DOMAIN firing : AlertId(e, driftNow) = id
  <2>1. d \in DOMAIN firing
    BY <1>2 DEF WithFirings
  <2>2. WithFirings[id] = firing[d]
    BY <1>2 DEF WithFirings
  <2> QED
    BY <2>1, <2>2 DEF DriftTypeOK
<1> QED
  BY <1>1, <1>2

LEMMA DriftType == TypeOK /\ Drift => TypeOK'
<1> SUFFICES ASSUME TypeOK, Drift PROVE TypeOK'
  OBVIOUS
<1>1. DriftStep /\ UNCHANGED <<dataVars, labelVars, shadowVars>>
  BY DEF Drift
<1>2. Recent \subseteq Predictions
  BY DEF Recent, Between
<1>3. clock + DriftInterval \in Nat /\ clock \in 0..MaxTime /\ driftFails + 1 \in Nat
  BY DriftAssumption, DataAssumption DEF TypeOK, DataTypeOK, DriftTypeOK
<1>4. None \in [DOMAIN None -> Severities] /\ DOMAIN None \subseteq Detectors
  BY DEF None
<1>5. DriftTypeOK'
  <2> USE DriftAssumption DEF TypeOK, DriftTypeOK
  <2>1. CASE ReadTime
    BY <2>1, <1>3 DEF ReadTime
  <2>2. CASE Evaluate
    <3>1. firing' \in [DOMAIN firing' -> Severities] /\ DOMAIN firing' \subseteq Detectors
      BY <2>2, <1>2, <1>4, FiringsType DEF Evaluate
    <3> QED
      BY <2>2, <3>1, <1>2 DEF Evaluate, EndCheck
  <2>3. CASE WriteAlerts
    BY <2>3, WithFiringsType DEF WriteAlerts, EndCheck
  <2>4. CASE Sleep
    BY <2>4, <1>3, <1>4 DEF Sleep, Forget
  <2>5. CASE CheckFails
    BY <2>5, <1>3, <1>4, WithFiringsType DEF CheckFails, Forget
  <2>6. CASE DriftCrash
    BY <2>6, <1>3, <1>4 DEF DriftCrash, Forget
  <2> QED
    BY <1>1, <2>1, <2>2, <2>3, <2>4, <2>5, <2>6 DEF DriftStep
<1> QED
  BY <1>1, <1>5 DEF TypeOK, DataTypeOK, LabelTypeOK, ShadowTypeOK, dataVars, labelVars, shadowVars

LEMMA ShadowType == TypeOK /\ Shadow => TypeOK'
<1> SUFFICES ASSUME TypeOK, Shadow PROVE TypeOK'
  OBVIOUS
<1>1. ShadowStep /\ UNCHANGED <<dataVars, labelVars, driftVars>>
  BY DEF Shadow
<1>2. InWindow \subseteq Comparisons
  BY DEF InWindow, Between
<1>3. clock + ShadowInterval \in Nat /\ clock \in 0..MaxTime /\ shadowFails + 1 \in Nat
  BY ShadowAssumption, DataAssumption DEF TypeOK, DataTypeOK, ShadowTypeOK
<1>4. shadow = "writing" => DOMAIN WithSummary \subseteq DOMAIN summaries \cup {shadowNow}
  BY DEF WithSummary
<1>5. ShadowTypeOK'
  <2> USE ShadowAssumption DEF TypeOK, ShadowTypeOK
  <2>1. CASE BeginSummary
    BY <2>1, <1>3 DEF BeginSummary
  <2>2. CASE FetchRows
    BY <2>2, <1>2 DEF FetchRows
  <2>3. CASE WriteSummary
    BY <2>3, <1>4 DEF WriteSummary
  <2>4. CASE SleepAfterSummary
    BY <2>4, <1>3 DEF SleepAfterSummary
  <2>5. CASE SummaryFails
    BY <2>5, <1>3, <1>4 DEF SummaryFails
  <2>6. CASE ShadowCrash
    BY <2>6, <1>3 DEF ShadowCrash
  <2> QED
    BY <1>1, <2>1, <2>2, <2>3, <2>4, <2>5, <2>6 DEF ShadowStep
<1> QED
  BY <1>1, <1>5 DEF TypeOK, DataTypeOK, LabelTypeOK, DriftTypeOK, dataVars, labelVars, driftVars

LEMMA StutterType == TypeOK /\ UNCHANGED vars => TypeOK'
BY DEF TypeOK, vars, DataTypeOK, LabelTypeOK, DriftTypeOK, ShadowTypeOK, dataVars,
       labelVars, driftVars, shadowVars

\* Every reachable state of the monitoring is well typed: labels are inserted
\* only for known transactions, and at most DriftMaxFails checks fail in a row.
THEOREM JobsTypeCorrect == Spec => []TypeOK
<1>1. TypeOK /\ [Next]_vars => TypeOK'
  BY TrafficType, TickType, LabelsType, DriftType, ShadowType, StutterType DEF Next
<1> QED
  BY TypeInit, <1>1, PTL DEF Spec

-------------------------------------------------------------------------------
(* The labels.                                                              *)

\* A label in the table is never replaced, whatever joiners with other ground
\* truths do (ON CONFLICT DO NOTHING).
THEOREM LabelsStay == Spec => LabelsAreFinal
<1> DEFINE Stay == \A t \in DOMAIN labels : t \in DOMAIN labels' /\ labels'[t] = labels[t]
<1>1. TypeOK /\ [Next]_vars => [Stay]_labels
  <2> SUFFICES ASSUME TypeOK, Next, labels' # labels PROVE Stay
    BY DEF vars, labelVars
  <2>1. Labels
    BY DEF Next, Traffic, Drift, Shadow, Tick, labelVars
  <2>2. PICK j \in Joiners : InsertLabels(j)
    BY <2>1 DEF Labels, LabelStep, Query, IterationFails
  <2>3. PICK first \in FirstOf(toInsert[j]) :
          labels' = Inserted([t \in DOMAIN first |->
                                [fraud |-> Truth[j][t], at |-> AvailableAt(first[t])]])
    BY <2>2 DEF InsertLabels
  <2> QED
    BY <2>3 DEF Inserted
<1> QED
  BY <1>1, JobsTypeCorrect, PTL DEF Spec, LabelsAreFinal

-------------------------------------------------------------------------------
(* Time.                                                                    *)

\* What is left of a window for a job that has failed so many times in a row:
\* time for the failures it may still have, and for the iteration that ends well.
Reserve(fails, max, interval, run) == (max - fails) * (interval + run) + run

LEMMA Reserves ==
  ASSUME NEW max \in Nat, NEW interval \in Nat, NEW run \in Nat,
         NEW fails \in 0..max
  PROVE  /\ Reserve(fails, max, interval, run) \in Int
         /\ Reserve(fails, max, interval, run) >= run
         /\ Reserve(0, max, interval, run) >= Reserve(fails, max, interval, run)
         /\ Reserve(fails + 1, max, interval, run) \in Int
         /\ Reserve(fails + 1, max, interval, run) + interval + run
              = Reserve(fails, max, interval, run)
         /\ Reserve(0, max, interval, run) + interval + run
              = (max + 1) * (interval + run) + run
         /\ Reserve(0, max, interval, run) \in Int
<1> DEFINE period == interval + run
<1>1. period \in Nat
  OBVIOUS
<1>2. (max - fails) * period \in Nat /\ fails * period \in Nat /\ max * period \in Nat
  BY <1>1
<1>3. (max - fails) * period + fails * period = max * period
  BY <1>1
<1>4. (max - (fails + 1)) * period + period = (max - fails) * period
  BY <1>1
<1>5. max * period + period = (max + 1) * period
  BY <1>1
<1>6. (max - (fails + 1)) * period \in Int
  BY <1>1
<1> HIDE DEF period
<1> QED
  BY <1>1, <1>2, <1>3, <1>4, <1>5, <1>6 DEF Reserve, period

\* Rows are not of the future, and none waits longer than Lag to become visible.
RowsInTime ==
  \A r \in Rows : created[r] # Never =>
    created[r] <= clock /\ (r \notin stored => clock <= created[r] + Lag)

LEMMA RowsInTimeInit == Init => RowsInTime
BY DEF Init, DataInit, RowsInTime, Never

LEMMA RowsInTimeStep == TypeOK /\ RowsInTime /\ [Next]_vars => RowsInTime'
<1> SUFFICES ASSUME TypeOK, RowsInTime, [Next]_vars PROVE RowsInTime'
  OBVIOUS
<1> USE DataAssumption DEF TypeOK, DataTypeOK, RowsInTime, Never
<1>1. CASE Traffic
  BY <1>1 DEF Traffic, Record, Commit
<1>2. CASE Tick
  BY <1>2 DEF Tick, AdvanceClock, RowsOnTime
<1>3. CASE UNCHANGED dataVars
  BY <1>3 DEF dataVars
<1> QED
  BY <1>1, <1>2, <1>3 DEF Next, Labels, Drift, Shadow, vars

-------------------------------------------------------------------------------
(* The drift detector's windows.                                            *)

DriftReserve(fails) == Reserve(fails, DriftMaxFails, DriftInterval, DriftRunTime)

\* An iteration begins when it is due, and ends in time.
DriftTiming ==
  /\ clock <= driftWake + DriftRunTime
  /\ driftWake <= clock + DriftInterval
  /\ drift # "asleep" => driftWake <= driftNow /\ driftNow <= clock

\* A prediction that the current check has not seen, or that came after it, is
\* young enough for the checks after the next sleep.
DriftUnseen(p) == drift = "done" \/ (drift = "writing" /\ p \notin sample)

\* Every prediction that has not been checked stays in the window until a check
\* ends well, even if all failures that are left happen first.
DriftCovered ==
  \A p \in Predictions : created[p] # Never /\ p \notin checked =>
    IF DriftUnseen(p)
    THEN driftWake + DriftReserve(0) + DriftInterval + DriftRunTime <= created[p] + DriftWindow
    ELSE driftWake + DriftReserve(driftFails) <= created[p] + DriftWindow

DriftInv == "drift" \in deployed.jobs => DriftTiming /\ DriftCovered

LEMMA DriftReserves ==
  ASSUME DriftTypeOK
  PROVE  /\ DriftInterval \in Nat /\ DriftRunTime \in Nat /\ DriftWindow \in Nat
         /\ DriftReserve(0) \in Int /\ DriftReserve(driftFails) \in Int
         /\ DriftReserve(driftFails) >= DriftRunTime
         /\ DriftReserve(0) >= DriftReserve(driftFails)
         /\ DriftReserve(0) + DriftInterval + DriftRunTime + Lag <= DriftWindow
<1>1. driftFails \in 0..DriftMaxFails /\ 0 \in 0..DriftMaxFails
  BY DriftAssumption DEF DriftTypeOK
<1>2. /\ DriftMaxFails \in Nat /\ DriftInterval \in Nat /\ DriftRunTime \in Nat
      /\ DriftWindow \in Nat /\ Lag \in Nat
  BY DriftAssumption, DataAssumption
<1>3. DriftReserve(driftFails) \in Int /\ DriftReserve(driftFails) >= DriftRunTime
      /\ DriftReserve(0) >= DriftReserve(driftFails)
  BY <1>1, <1>2, Reserves DEF DriftReserve
<1>4. DriftReserve(0) \in Int
      /\ DriftReserve(0) + DriftInterval + DriftRunTime
           = (DriftMaxFails + 1) * (DriftInterval + DriftRunTime) + DriftRunTime
  BY <1>1, <1>2, Reserves DEF DriftReserve
<1>5. DriftReserve(0) + DriftInterval + DriftRunTime <= DriftWindow - Lag
  BY <1>4, DriftAssumption
<1> QED
  BY <1>2, <1>3, <1>4, <1>5

LEMMA DriftReserveNext ==
  ASSUME DriftTypeOK
  PROVE  DriftReserve(driftFails + 1) \in Int
         /\ DriftReserve(driftFails + 1) + DriftInterval + DriftRunTime
              = DriftReserve(driftFails)
<1>1. driftFails \in 0..DriftMaxFails
  BY DEF DriftTypeOK
<1>2. DriftMaxFails \in Nat /\ DriftInterval \in Nat /\ DriftRunTime \in Nat
  BY DriftAssumption
<1> QED
  BY <1>1, <1>2, Reserves DEF DriftReserve

LEMMA DriftInvInit == Init => DriftInv
BY DriftAssumption, DataAssumption
DEF Init, DataInit, DriftInit, DriftInv, DriftTiming, DriftCovered, Never, Rows

LEMMA DriftTimingStep ==
  ASSUME TypeOK, DriftTiming, "drift" \in deployed.jobs, [Next]_vars
  PROVE  DriftTiming'
<1> USE DriftAssumption, DataAssumption DEF TypeOK, DataTypeOK, DriftTypeOK, DriftTiming
<1>1. CASE Tick
  BY <1>1 DEF Tick, AdvanceClock, DriftOnTime, driftVars
<1>2. CASE Drift
  <2>1. UNCHANGED clock
    BY <1>2 DEF Drift, dataVars
  <2>2. CASE ReadTime
    BY <2>1, <2>2 DEF ReadTime
  <2>3. CASE Evaluate \/ WriteAlerts
    BY <2>1, <2>3 DEF Evaluate, WriteAlerts, EndCheck
  <2>4. CASE Sleep \/ CheckFails \/ DriftCrash
    BY <2>1, <2>4 DEF Sleep, CheckFails, DriftCrash
  <2> QED
    BY <1>2, <2>2, <2>3, <2>4 DEF Drift, DriftStep
<1>3. CASE UNCHANGED <<clock, driftVars>>
  BY <1>3 DEF driftVars
<1> QED
  BY <1>1, <1>2, <1>3
  DEF Next, Traffic, Record, Commit, Labels, Shadow, vars, dataVars, driftVars

LEMMA DriftCoveredByDrift ==
  ASSUME TypeOK, RowsInTime, DriftTiming, DriftCovered, DriftStep, UNCHANGED dataVars
  PROVE  DriftCovered'
<1> SUFFICES ASSUME NEW p \in Predictions, created[p] # Never, p \notin checked'
             PROVE  IF DriftUnseen(p)'
                    THEN driftWake' + DriftReserve(0) + DriftInterval + DriftRunTime
                           <= created[p] + DriftWindow
                    ELSE driftWake' + DriftReserve(driftFails') <= created[p] + DriftWindow
  BY DEF DriftCovered, dataVars, DriftReserve
<1>1. /\ created[p] \in Nat /\ created[p] <= clock
      /\ p \notin stored => clock <= created[p] + Lag
      /\ clock \in Nat /\ driftWake \in Nat /\ driftNow \in Int /\ Lag \in Nat
      /\ driftFails \in Nat
  BY DataAssumption
  DEF RowsInTime, TypeOK, DataTypeOK, DriftTypeOK, Rows, Never
<1>2. p \notin checked
  BY DEF DriftStep, ReadTime, Evaluate, WriteAlerts, EndCheck, Sleep, CheckFails, DriftCrash
<1>3. IF DriftUnseen(p)
      THEN driftWake + DriftReserve(0) + DriftInterval + DriftRunTime <= created[p] + DriftWindow
      ELSE driftWake + DriftReserve(driftFails) <= created[p] + DriftWindow
  BY <1>2 DEF DriftCovered
<1>4. driftWake + DriftReserve(driftFails) <= created[p] + DriftWindow
  BY <1>1, <1>3, DriftReserves DEF TypeOK
<1>5. CASE ReadTime
  BY <1>5, <1>4 DEF ReadTime, DriftUnseen
<1>6. CASE Evaluate
  <2>1. ASSUME p \in sample' PROVE drift' = "writing" /\ ~ DriftUnseen(p)'
    BY <1>6, <2>1 DEF Evaluate, EndCheck, DriftUnseen
  <2>2. ASSUME p \notin sample' 
        PROVE  driftWake + DriftReserve(0) + DriftInterval + DriftRunTime
                 <= created[p] + DriftWindow
    <3>1. p \notin stored \/ ~ (driftNow - DriftWindow <= created[p] /\ created[p] <= driftNow)
      BY <1>6, <2>2 DEF Evaluate, Recent, Between
    <3>2. driftWake <= driftNow /\ driftNow <= clock /\ clock <= driftWake + DriftRunTime
      BY <1>6 DEF Evaluate, DriftTiming
    <3>3. driftNow - DriftWindow <= created[p]
      BY <1>1, <1>4, <3>2, DriftReserves DEF TypeOK
    <3> QED
      BY <1>1, <3>1, <3>2, <3>3, DriftReserves DEF TypeOK
  <2>3. CASE p \in sample'
    BY <1>6, <2>1, <2>3, <1>4 DEF Evaluate, EndCheck
  <2>4. CASE p \notin sample'
    BY <1>6, <2>2, <2>4 DEF Evaluate, EndCheck, DriftUnseen
  <2> QED
    BY <2>3, <2>4
<1>7. CASE WriteAlerts
  <2>1. p \notin sample /\ DriftUnseen(p) /\ driftWake' = driftWake /\ DriftUnseen(p)'
    BY <1>7 DEF WriteAlerts, EndCheck, DriftUnseen
  <2> QED
    BY <2>1, <1>3
<1>8. CASE Sleep
  <2>1. DriftUnseen(p) /\ driftWake' = clock + DriftInterval /\ driftFails' = driftFails
        /\ ~ DriftUnseen(p)'
    BY <1>8 DEF Sleep, DriftUnseen
  <2> QED
    BY <2>1, <1>1, <1>3, DriftReserves DEF DriftTiming, TypeOK
<1>9. CASE CheckFails
  <2>1. driftWake' = clock + DriftInterval /\ driftFails' = driftFails + 1 /\ ~ DriftUnseen(p)'
    BY <1>9 DEF CheckFails, DriftUnseen
  <2> QED
    BY <2>1, <1>1, <1>4, DriftReserves, DriftReserveNext DEF DriftTiming, TypeOK
<1>10. CASE DriftCrash
  <2>1. driftWake' = clock /\ ~ DriftUnseen(p)'
    BY <1>10 DEF DriftCrash, DriftUnseen
  <2>2. CASE drift = "done"
    <3>1. DriftUnseen(p) /\ driftFails' = driftFails
      BY <1>10, <2>2 DEF DriftCrash, DriftUnseen
    <3> QED
      BY <2>1, <3>1, <1>1, <1>3, DriftReserves DEF DriftTiming, TypeOK
  <2>3. CASE drift # "done" /\ clock < driftWake
    <3>1. driftFails' = driftFails
      BY <1>10, <2>3 DEF DriftCrash
    <3> QED
      BY <2>1, <2>3, <3>1, <1>1, <1>4, DriftReserves DEF TypeOK
  <2>4. CASE drift # "done" /\ ~ clock < driftWake
    <3>1. driftFails' = driftFails + 1
      BY <1>10, <2>4 DEF DriftCrash
    <3> QED
      BY <2>1, <3>1, <1>1, <1>4, DriftReserves, DriftReserveNext DEF DriftTiming, TypeOK
  <2> QED
    BY <2>2, <2>3, <2>4
<1> QED
  BY <1>5, <1>6, <1>7, <1>8, <1>9, <1>10 DEF DriftStep

LEMMA DriftInvStep == TypeOK /\ RowsInTime /\ DriftInv /\ [Next]_vars => DriftInv'
<1> SUFFICES ASSUME TypeOK, RowsInTime, DriftTiming, DriftCovered, [Next]_vars,
                    "drift" \in deployed.jobs
             PROVE  DriftTiming' /\ DriftCovered'
  BY DEF DriftInv, Next, Traffic, Record, Commit, Labels, Drift, Shadow, Tick, AdvanceClock,
         vars, dataVars
<1>1. DriftTiming'
  BY DriftTimingStep
<1>2. CASE Drift
  BY <1>1, <1>2, DriftCoveredByDrift DEF Drift
<1>3. CASE UNCHANGED <<created, driftVars>>
  BY <1>1, <1>3 DEF DriftCovered, DriftUnseen, DriftReserve, driftVars
<1>4. CASE \E r \in Rows : Record(r) /\ UNCHANGED driftVars
  <2> PICK r \in Rows : Record(r) /\ UNCHANGED driftVars
    BY <1>4
  <2> SUFFICES ASSUME NEW p \in Predictions, created'[p] # Never, p \notin checked
               PROVE  IF DriftUnseen(p)
                      THEN driftWake + DriftReserve(0) + DriftInterval + DriftRunTime
                             <= created'[p] + DriftWindow
                      ELSE driftWake + DriftReserve(driftFails) <= created'[p] + DriftWindow
    BY <1>1 DEF DriftCovered, DriftUnseen, DriftReserve, driftVars
  <2>1. p # r => created'[p] = created[p]
    BY DEF Record, TypeOK, DataTypeOK
  <2>2. p = r => created'[p] = clock
    BY DEF Record, TypeOK, DataTypeOK
  <2>3. CASE p # r
    BY <2>1, <2>3 DEF DriftCovered
  <2>4. CASE p = r
    <3>1. clock \in Nat /\ driftWake \in Nat /\ driftNow \in Int /\ Lag \in Nat
      BY DataAssumption DEF TypeOK, DataTypeOK, DriftTypeOK
    <3>2. drift # "asleep" => driftWake <= clock
      BY <3>1 DEF DriftTiming
    <3>3. drift = "asleep" => ~ DriftUnseen(p)
      BY DEF DriftUnseen
    <3> QED
      BY <2>2, <2>4, <3>1, <3>2, <3>3, DriftReserves DEF DriftTiming, TypeOK
  <2> QED
    BY <2>3, <2>4
<1> QED
  BY <1>1, <1>2, <1>3, <1>4
  DEF Next, Traffic, Commit, Labels, Shadow, Tick, AdvanceClock, vars, dataVars

\* No prediction that becomes visible leaves the recent window unchecked, for all
\* windows, intervals, delays and numbers of failures with DriftAssumption.
THEOREM NoPredictionEscapes == Spec => []NoBlindSpot
<1>1. TypeOK /\ DriftInv => NoBlindSpot
  <2> SUFFICES ASSUME TypeOK, DriftTiming, DriftCovered,
                      NEW p \in Predictions \cap stored,
                      created[p] + DriftWindow < clock, p \notin checked
               PROVE  FALSE
    BY DEF DriftInv, NoBlindSpot
  <2>1. created[p] # Never /\ created[p] \in Nat /\ clock \in Nat /\ driftWake \in Nat
    BY DataAssumption DEF TypeOK, DataTypeOK, DriftTypeOK, Never, Rows
  <2>2. driftWake + DriftRunTime <= created[p] + DriftWindow
    BY <2>1, DriftReserves DEF DriftCovered, TypeOK
  <2> QED
    BY <2>1, <2>2, DriftReserves DEF DriftTiming, TypeOK
<1>2. Init => TypeOK /\ RowsInTime /\ DriftInv
  BY TypeInit, RowsInTimeInit, DriftInvInit
<1>3. TypeOK /\ RowsInTime /\ DriftInv /\ [Next]_vars => (RowsInTime /\ DriftInv)'
  BY RowsInTimeStep, DriftInvStep
<1> QED
  BY <1>1, <1>2, <1>3, JobsTypeCorrect, PTL DEF Spec

-------------------------------------------------------------------------------
(* The drift detector's alerts.                                             *)

\* The alerts in the table are of checks before the one that is under way.
AlertsOfThePast ==
  \A id \in DOMAIN alerts :
    /\ id[3] \in Int /\ id[3] <= driftNow
    /\ drift \in {"querying", "writing"} => id[3] < driftNow

AlertInv == AlertsOfThePast /\ FiringsAreRecorded

\* An id names its detector and the time of its check.
LEMMA AlertIds ==
  ASSUME NEW d, NEW e, NEW now
  PROVE  AlertId(d, now)[3] = now /\ (AlertId(d, now) = AlertId(e, now) => d = e)
BY DEF AlertId

\* The transaction of a check inserts every alert of it.
LEMMA InsertsFirings ==
  ASSUME DriftTypeOK, DataTypeOK, AlertsOfThePast, drift = "writing", NEW d \in DOMAIN firing
  PROVE  AlertId(d, driftNow) \in DOMAIN WithFirings
         /\ WithFirings[AlertId(d, driftNow)] = firing[d]
<1> DEFINE id == AlertId(d, driftNow)
           e  == CHOOSE x \in DOMAIN firing : AlertId(x, driftNow) = id
<1>1. id \in DOMAIN WithFirings
  BY DEF WithFirings
<1>2. id \notin DOMAIN alerts
  BY AlertIds, NowType DEF AlertsOfThePast
<1>3. e \in DOMAIN firing /\ AlertId(e, driftNow) = id
  OBVIOUS
<1>4. e = d
  BY <1>3, AlertIds
<1>5. WithFirings[id] = firing[e]
  BY <1>1, <1>2 DEF WithFirings
<1> QED
  BY <1>1, <1>4, <1>5

\* Neither its success nor an ambiguous failure leaves an alert of the future.
LEMMA InsertsNoFuture ==
  ASSUME DriftTypeOK, DataTypeOK, AlertsOfThePast, NEW id \in DOMAIN WithFirings
  PROVE  id[3] \in Int /\ id[3] <= driftNow
<1>1. CASE id \in DOMAIN alerts
  BY <1>1 DEF AlertsOfThePast
<1>2. CASE \E d \in DOMAIN firing : id = AlertId(d, driftNow)
  BY <1>2, AlertIds, NowType
<1> QED
  BY <1>1, <1>2 DEF WithFirings

LEMMA AlertInvStep == TypeOK /\ AlertInv /\ [Next]_vars => AlertInv'
<1> SUFFICES ASSUME TypeOK, AlertInv, [Next]_vars PROVE AlertInv'
  OBVIOUS
<1>1. driftNow \in Int /\ clock \in Nat
  BY NowType DEF TypeOK
<1>2. CASE ReadTime
  BY <1>1, <1>2 DEF ReadTime, AlertInv, AlertsOfThePast, FiringsAreRecorded
<1>3. CASE Evaluate
  <2>1. drift' = "done" => firing' = None
    BY <1>3 DEF Evaluate, EndCheck
  <2> QED
    BY <2>1, <1>3 DEF Evaluate, EndCheck, AlertInv, AlertsOfThePast, FiringsAreRecorded, None
<1>4. CASE WriteAlerts
  <2>1. AlertsOfThePast'
    BY <1>4, InsertsNoFuture DEF WriteAlerts, EndCheck, AlertInv, AlertsOfThePast, TypeOK
  <2>2. FiringsAreRecorded'
    BY <1>4, InsertsFirings DEF WriteAlerts, EndCheck, AlertInv, FiringsAreRecorded, TypeOK, AlertId
  <2> QED
    BY <2>1, <2>2 DEF AlertInv
<1>5. CASE Sleep \/ DriftCrash
  BY <1>5 DEF Sleep, DriftCrash, AlertInv, AlertsOfThePast, FiringsAreRecorded
<1>6. CASE CheckFails
  <2>1. drift' = "asleep" /\ driftNow' = driftNow /\ alerts' \in {alerts, WithFirings}
    BY <1>6 DEF CheckFails
  <2>2. AlertsOfThePast'
    BY <2>1, InsertsNoFuture DEF AlertInv, AlertsOfThePast, TypeOK
  <2> QED
    BY <2>1, <2>2 DEF AlertInv, FiringsAreRecorded
<1>7. CASE UNCHANGED driftVars
  BY <1>7 DEF driftVars, AlertInv, AlertsOfThePast, FiringsAreRecorded, AlertId
<1> QED
  BY <1>2, <1>3, <1>4, <1>5, <1>6, <1>7
  DEF Next, Traffic, Labels, Drift, DriftStep, Shadow, Tick, vars

\* Whatever fires in a check that ends well is in the table with its severity:
\* ON CONFLICT DO NOTHING drops none of it, also after checks whose commit
\* succeeded although its answer was lost.
THEOREM FiringsReachTheTable == Spec => []FiringsAreRecorded
<1>1. Init => AlertInv
  BY DEF Init, DriftInit, AlertInv, AlertsOfThePast, FiringsAreRecorded, None
<1>2. AlertInv => FiringsAreRecorded
  BY DEF AlertInv
<1> QED
  BY <1>1, <1>2, AlertInvStep, JobsTypeCorrect, PTL DEF Spec

-------------------------------------------------------------------------------
(* The shadow comparator's windows.                                         *)

ShadowReserve(fails) == Reserve(fails, ShadowMaxFails, ShadowInterval, ShadowRunTime)

ShadowTiming ==
  /\ clock <= shadowWake + ShadowRunTime
  /\ shadowWake <= clock + ShadowInterval
  /\ shadow # "asleep" => shadowWake <= shadowNow /\ shadowNow <= clock

\* A comparison that the current summary leaves out.
ShadowUnseen(c) == shadow = "done" \/ (shadow = "writing" /\ c \notin fetched)

\* Every comparison that is in no summary stays in the window until a summary
\* is written, even if all failures that are left happen first.
ShadowCovered ==
  \A c \in Comparisons : created[c] # Never /\ c \notin summarised =>
    IF ShadowUnseen(c)
    THEN shadowWake + ShadowReserve(0) + ShadowInterval + ShadowRunTime
           <= created[c] + ShadowWindow
    ELSE shadowWake + ShadowReserve(shadowFails) <= created[c] + ShadowWindow

ShadowInv == "shadow" \in deployed.jobs => ShadowTiming /\ ShadowCovered

LEMMA ShadowReserves ==
  ASSUME ShadowTypeOK
  PROVE  /\ ShadowInterval \in Nat /\ ShadowRunTime \in Nat /\ ShadowWindow \in Nat
         /\ ShadowReserve(0) \in Int /\ ShadowReserve(shadowFails) \in Int
         /\ ShadowReserve(shadowFails) >= ShadowRunTime
         /\ ShadowReserve(0) >= ShadowReserve(shadowFails)
         /\ ShadowReserve(0) + ShadowInterval + ShadowRunTime + Lag <= ShadowWindow
<1>1. shadowFails \in 0..ShadowMaxFails /\ 0 \in 0..ShadowMaxFails
  BY ShadowAssumption DEF ShadowTypeOK
<1>2. /\ ShadowMaxFails \in Nat /\ ShadowInterval \in Nat /\ ShadowRunTime \in Nat
      /\ ShadowWindow \in Nat /\ Lag \in Nat
  BY ShadowAssumption, DataAssumption
<1>3. ShadowReserve(shadowFails) \in Int /\ ShadowReserve(shadowFails) >= ShadowRunTime
      /\ ShadowReserve(0) >= ShadowReserve(shadowFails)
  BY <1>1, <1>2, Reserves DEF ShadowReserve
<1>4. ShadowReserve(0) \in Int
      /\ ShadowReserve(0) + ShadowInterval + ShadowRunTime
           = (ShadowMaxFails + 1) * (ShadowInterval + ShadowRunTime) + ShadowRunTime
  BY <1>1, <1>2, Reserves DEF ShadowReserve
<1>5. ShadowReserve(0) + ShadowInterval + ShadowRunTime <= ShadowWindow - Lag
  BY <1>4, ShadowAssumption
<1> QED
  BY <1>2, <1>3, <1>4, <1>5

LEMMA ShadowReserveNext ==
  ASSUME ShadowTypeOK
  PROVE  ShadowReserve(shadowFails + 1) \in Int
         /\ ShadowReserve(shadowFails + 1) + ShadowInterval + ShadowRunTime
              = ShadowReserve(shadowFails)
<1>1. shadowFails \in 0..ShadowMaxFails
  BY DEF ShadowTypeOK
<1>2. ShadowMaxFails \in Nat /\ ShadowInterval \in Nat /\ ShadowRunTime \in Nat
  BY ShadowAssumption
<1> QED
  BY <1>1, <1>2, Reserves DEF ShadowReserve

LEMMA ShadowInvInit == Init => ShadowInv
BY ShadowAssumption, DataAssumption
DEF Init, DataInit, ShadowInit, ShadowInv, ShadowTiming, ShadowCovered, Never, Rows

LEMMA ShadowTimingStep ==
  ASSUME TypeOK, ShadowTiming, "shadow" \in deployed.jobs, [Next]_vars
  PROVE  ShadowTiming'
<1> USE ShadowAssumption, DataAssumption DEF TypeOK, DataTypeOK, ShadowTypeOK, ShadowTiming
<1>1. CASE Tick
  BY <1>1 DEF Tick, AdvanceClock, ShadowOnTime, shadowVars
<1>2. CASE Shadow
  <2>1. UNCHANGED clock
    BY <1>2 DEF Shadow, dataVars
  <2>2. CASE BeginSummary
    BY <2>1, <2>2 DEF BeginSummary
  <2>3. CASE FetchRows \/ WriteSummary
    BY <2>1, <2>3 DEF FetchRows, WriteSummary
  <2>4. CASE SleepAfterSummary \/ SummaryFails \/ ShadowCrash
    BY <2>1, <2>4 DEF SleepAfterSummary, SummaryFails, ShadowCrash
  <2> QED
    BY <1>2, <2>2, <2>3, <2>4 DEF Shadow, ShadowStep
<1>3. CASE UNCHANGED <<clock, shadowVars>>
  BY <1>3 DEF shadowVars
<1> QED
  BY <1>1, <1>2, <1>3
  DEF Next, Traffic, Record, Commit, Labels, Drift, vars, dataVars, shadowVars

LEMMA ShadowCoveredByShadow ==
  ASSUME TypeOK, RowsInTime, ShadowTiming, ShadowCovered, ShadowStep, UNCHANGED dataVars
  PROVE  ShadowCovered'
<1> SUFFICES ASSUME NEW c \in Comparisons, created[c] # Never, c \notin summarised'
             PROVE  IF ShadowUnseen(c)'
                    THEN shadowWake' + ShadowReserve(0) + ShadowInterval + ShadowRunTime
                           <= created[c] + ShadowWindow
                    ELSE shadowWake' + ShadowReserve(shadowFails') <= created[c] + ShadowWindow
  BY DEF ShadowCovered, dataVars, ShadowReserve
<1>1. /\ created[c] \in Nat /\ created[c] <= clock
      /\ c \notin stored => clock <= created[c] + Lag
      /\ clock \in Nat /\ shadowWake \in Nat /\ shadowNow \in Int /\ Lag \in Nat
      /\ shadowFails \in Nat
  BY DataAssumption
  DEF RowsInTime, TypeOK, DataTypeOK, ShadowTypeOK, Rows, Never
<1>2. c \notin summarised
  BY DEF ShadowStep, BeginSummary, FetchRows, WriteSummary, SleepAfterSummary, SummaryFails,
         ShadowCrash
<1>3. IF ShadowUnseen(c)
      THEN shadowWake + ShadowReserve(0) + ShadowInterval + ShadowRunTime
             <= created[c] + ShadowWindow
      ELSE shadowWake + ShadowReserve(shadowFails) <= created[c] + ShadowWindow
  BY <1>2 DEF ShadowCovered
<1>4. shadowWake + ShadowReserve(shadowFails) <= created[c] + ShadowWindow
  BY <1>1, <1>3, ShadowReserves DEF TypeOK
<1>5. CASE BeginSummary
  BY <1>5, <1>4 DEF BeginSummary, ShadowUnseen
<1>6. CASE FetchRows
  <2>1. ASSUME c \in fetched' PROVE ~ ShadowUnseen(c)' /\ shadowFails' = shadowFails
    BY <1>6, <2>1 DEF FetchRows, ShadowUnseen
  <2>2. ASSUME c \notin fetched'
        PROVE  shadowWake + ShadowReserve(0) + ShadowInterval + ShadowRunTime
                 <= created[c] + ShadowWindow
    <3>1. c \notin stored \/ ~ (shadowNow - ShadowWindow <= created[c] /\ created[c] <= shadowNow)
      BY <1>6, <2>2 DEF FetchRows, InWindow, Between
    <3>2. shadowWake <= shadowNow /\ shadowNow <= clock /\ clock <= shadowWake + ShadowRunTime
      BY <1>6 DEF FetchRows, ShadowTiming
    <3>3. shadowNow - ShadowWindow <= created[c]
      BY <1>1, <1>4, <3>2, ShadowReserves DEF TypeOK
    <3> QED
      BY <1>1, <3>1, <3>2, <3>3, ShadowReserves DEF TypeOK
  <2>3. CASE c \in fetched'
    BY <1>6, <2>1, <2>3, <1>4 DEF FetchRows
  <2>4. CASE c \notin fetched'
    BY <1>6, <2>2, <2>4 DEF FetchRows, ShadowUnseen
  <2> QED
    BY <2>3, <2>4
<1>7. CASE WriteSummary
  <2>1. ShadowUnseen(c) /\ shadowWake' = shadowWake /\ ShadowUnseen(c)'
    BY <1>7 DEF WriteSummary, ShadowUnseen
  <2> QED
    BY <2>1, <1>3
<1>8. CASE SleepAfterSummary
  <2>1. /\ ShadowUnseen(c) /\ shadowWake' = clock + ShadowInterval
        /\ shadowFails' = shadowFails /\ ~ ShadowUnseen(c)'
    BY <1>8 DEF SleepAfterSummary, ShadowUnseen
  <2> QED
    BY <2>1, <1>1, <1>3, ShadowReserves DEF ShadowTiming, TypeOK
<1>9. CASE SummaryFails
  <2>1. /\ shadowWake' = clock + ShadowInterval /\ shadowFails' = shadowFails + 1
        /\ ~ ShadowUnseen(c)'
    BY <1>9 DEF SummaryFails, ShadowUnseen
  <2> QED
    BY <2>1, <1>1, <1>4, ShadowReserves, ShadowReserveNext DEF ShadowTiming, TypeOK
<1>10. CASE ShadowCrash
  <2>1. shadowWake' = clock /\ ~ ShadowUnseen(c)'
    BY <1>10 DEF ShadowCrash, ShadowUnseen
  <2>2. CASE shadow = "done"
    <3>1. ShadowUnseen(c) /\ shadowFails' = shadowFails
      BY <1>10, <2>2 DEF ShadowCrash, ShadowUnseen
    <3> QED
      BY <2>1, <3>1, <1>1, <1>3, ShadowReserves DEF ShadowTiming, TypeOK
  <2>3. CASE shadow # "done" /\ clock < shadowWake
    <3>1. shadowFails' = shadowFails
      BY <1>10, <2>3 DEF ShadowCrash
    <3> QED
      BY <2>1, <2>3, <3>1, <1>1, <1>4, ShadowReserves DEF TypeOK
  <2>4. CASE shadow # "done" /\ ~ clock < shadowWake
    <3>1. shadowFails' = shadowFails + 1
      BY <1>10, <2>4 DEF ShadowCrash
    <3> QED
      BY <2>1, <3>1, <1>1, <1>4, ShadowReserves, ShadowReserveNext DEF ShadowTiming, TypeOK
  <2> QED
    BY <2>2, <2>3, <2>4
<1> QED
  BY <1>5, <1>6, <1>7, <1>8, <1>9, <1>10 DEF ShadowStep

LEMMA ShadowInvStep == TypeOK /\ RowsInTime /\ ShadowInv /\ [Next]_vars => ShadowInv'
<1> SUFFICES ASSUME TypeOK, RowsInTime, ShadowTiming, ShadowCovered, [Next]_vars,
                    "shadow" \in deployed.jobs
             PROVE  ShadowTiming' /\ ShadowCovered'
  BY DEF ShadowInv, Next, Traffic, Record, Commit, Labels, Drift, Shadow, Tick, AdvanceClock,
         vars, dataVars
<1>1. ShadowTiming'
  BY ShadowTimingStep
<1>2. CASE Shadow
  BY <1>1, <1>2, ShadowCoveredByShadow DEF Shadow
<1>3. CASE UNCHANGED <<created, shadowVars>>
  BY <1>1, <1>3 DEF ShadowCovered, ShadowUnseen, ShadowReserve, shadowVars
<1>4. CASE \E r \in Rows : Record(r) /\ UNCHANGED shadowVars
  <2> PICK r \in Rows : Record(r) /\ UNCHANGED shadowVars
    BY <1>4
  <2> SUFFICES ASSUME NEW c \in Comparisons, created'[c] # Never, c \notin summarised
               PROVE  IF ShadowUnseen(c)
                      THEN shadowWake + ShadowReserve(0) + ShadowInterval + ShadowRunTime
                             <= created'[c] + ShadowWindow
                      ELSE shadowWake + ShadowReserve(shadowFails) <= created'[c] + ShadowWindow
    BY <1>1 DEF ShadowCovered, ShadowUnseen, ShadowReserve, shadowVars
  <2>1. c # r => created'[c] = created[c]
    BY DEF Record, TypeOK, DataTypeOK
  <2>2. c = r => created'[c] = clock
    BY DEF Record, TypeOK, DataTypeOK
  <2>3. CASE c # r
    BY <2>1, <2>3 DEF ShadowCovered
  <2>4. CASE c = r
    <3>1. clock \in Nat /\ shadowWake \in Nat /\ shadowNow \in Int /\ Lag \in Nat
      BY DataAssumption DEF TypeOK, DataTypeOK, ShadowTypeOK
    <3>2. shadow # "asleep" => shadowWake <= clock
      BY <3>1 DEF ShadowTiming
    <3>3. shadow = "asleep" => ~ ShadowUnseen(c)
      BY DEF ShadowUnseen
    <3> QED
      BY <2>2, <2>4, <3>1, <3>2, <3>3, ShadowReserves DEF ShadowTiming, TypeOK
  <2> QED
    BY <2>3, <2>4
<1> QED
  BY <1>1, <1>2, <1>3, <1>4
  DEF Next, Traffic, Commit, Labels, Drift, Tick, AdvanceClock, vars, dataVars

\* No comparison that becomes visible leaves the shadow window without having
\* been counted, for all windows, intervals, delays and numbers of failures
\* with ShadowAssumption.
THEOREM NoComparisonEscapes == Spec => []EveryComparisonSummarised
<1>1. TypeOK /\ ShadowInv => EveryComparisonSummarised
  <2> SUFFICES ASSUME TypeOK, ShadowTiming, ShadowCovered,
                      NEW c \in Comparisons \cap stored,
                      created[c] + ShadowWindow < clock, c \notin summarised
               PROVE  FALSE
    BY DEF ShadowInv, EveryComparisonSummarised
  <2>1. created[c] # Never /\ created[c] \in Nat /\ clock \in Nat /\ shadowWake \in Nat
    BY DataAssumption DEF TypeOK, DataTypeOK, ShadowTypeOK, Never, Rows
  <2>2. shadowWake + ShadowRunTime <= created[c] + ShadowWindow
    BY <2>1, ShadowReserves DEF ShadowCovered, TypeOK
  <2> QED
    BY <2>1, <2>2, ShadowReserves DEF ShadowTiming, TypeOK
<1>2. Init => TypeOK /\ RowsInTime /\ ShadowInv
  BY TypeInit, RowsInTimeInit, ShadowInvInit
<1>3. TypeOK /\ RowsInTime /\ ShadowInv /\ [Next]_vars => (RowsInTime /\ ShadowInv)'
  BY RowsInTimeStep, ShadowInvStep
<1> QED
  BY <1>1, <1>2, <1>3, JobsTypeCorrect, PTL DEF Spec

-------------------------------------------------------------------------------
(* False alarms.                                                            *)

\* Finitely many rows have become visible at any time, however many may come.
FiniteTables == IsFiniteSet(stored)

LEMMA TablesFinite == Spec => []FiniteTables
<1>1. Init => FiniteTables
  BY FS_EmptySet DEF Init, DataInit, FiniteTables
<1>2. FiniteTables /\ [Next]_vars => FiniteTables'
  <2> SUFFICES ASSUME FiniteTables, [Next]_vars PROVE FiniteTables'
    OBVIOUS
  <2>1. CASE \E r \in Rows : stored' = stored \cup {r}
    BY <2>1, FS_AddElement DEF FiniteTables
  <2>2. CASE UNCHANGED stored
    BY <2>2 DEF FiniteTables
  <2>3. (\E r \in Rows : stored' = stored \cup {r}) \/ UNCHANGED stored
    BY DEF Next, Traffic, Record, Commit, Labels, Drift, Shadow, Tick, AdvanceClock,
           dataVars, vars
  <2> QED
    BY <2>1, <2>2, <2>3
<1> QED
  BY <1>1, <1>2, PTL DEF Spec

\* The alerts of a check are those its own sample makes; before the query and
\* after the iteration there are none.
LEMMA AlertsOfSample ==
  ASSUME FiniteTables, NoFalseAlarm, [Next]_vars
  PROVE  NoFalseAlarm'
<1>1. CASE UNCHANGED <<sample, firing>>
  BY <1>1 DEF NoFalseAlarm
<1>2. CASE sample' = {}
  BY <1>2 DEF NoFalseAlarm
<1>3. CASE Evaluate
  <2> SUFFICES ASSUME SameDistribution(Reference, Recent), Recent # {}
               PROVE  \A d \in DOMAIN firing' : firing'[d] = FoundAtZero[d]
    BY <1>3 DEF Evaluate, NoFalseAlarm
  <2>1. CASE Cardinality(Reference) < MinSamples
    BY <1>3, <2>1 DEF Evaluate, None
  <2>2. CASE ~(Cardinality(Reference) < MinSamples)
    <3>1. Reference # {}
      BY <2>2, DriftAssumption, FS_EmptySet
    <3>2. Recent \in SUBSET Predictions /\ Recent \subseteq stored
      BY DEF Recent, Between
    <3>3. IsFiniteSet(Recent) /\ IsFiniteSet(Reference)
      BY <3>2, FS_Subset, DriftAssumption DEF FiniteTables
    <3>4. \A d \in DOMAIN Firings(Reference, Recent) :
            Firings(Reference, Recent)[d] = FoundAtZero[d]
      BY <3>1, <3>2, <3>3, SameDistributionIsSilent
    <3>5. firing' = None \/ firing' = Firings(Reference, Recent)
      BY <1>3 DEF Evaluate
    <3> QED
      BY <3>4, <3>5 DEF None
  <2> QED
    BY <2>1, <2>2
<1>4. UNCHANGED <<sample, firing>> \/ sample' = {} \/ Evaluate
  BY DEF Next, Traffic, Labels, Drift, Shadow, Tick, DriftStep, ReadTime, WriteAlerts, Sleep,
         CheckFails, DriftCrash, Forget, driftVars, vars
<1> QED
  BY <1>1, <1>2, <1>3, <1>4

\* A check whose sample has the distribution of the reference window raises no
\* alert but those a threshold of zero asks for, whatever the sizes of the samples.
THEOREM NoAlarmWithoutDrift == Spec => []NoFalseAlarm
<1>1. Init => NoFalseAlarm
  BY DEF Init, DriftInit, NoFalseAlarm, None
<1>2. FiniteTables /\ NoFalseAlarm /\ [Next]_vars => NoFalseAlarm'
  BY AlertsOfSample
<1> QED
  BY <1>1, <1>2, TablesFinite, PTL DEF Spec
===============================================================================
