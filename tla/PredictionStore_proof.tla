------------------------ MODULE PredictionStore_proof ------------------------
(* Proofs about PredictionStore, for all records, sizes and fault bounds.   *)
EXTENDS PredictionStore, ChannelLemmas

------------------------------------------------------------------------------
(* The inductive invariant.                                                 *)

\* Where a record may be: a record not yet logged is nowhere, one that waits in
\* memory is not in the table, and the batch under retry is there as a whole or
\* not at all.
Placed ==
  /\ \A r \in Records : request[r] # "logged" =>
       r \notin InMemory \cup Persisted \cup lost \cup dropped
  /\ Range(ch) \cap Persisted = {}
  /\ flusher # "retrying" => Range(batch) \cap Persisted = {}
  /\ flusher = "retrying" =>
       Range(batch) \subseteq Persisted \/ Range(batch) \cap Persisted = {}

\* A retry follows a failure.
RetryAfterFailure == flusher = "retrying" => faults >= 1

\* What main and the flusher know of each other during the shutdown.
Ordered ==
  /\ main \in {"draining", "closing", "waiting", "exited"} /\ ~timedOut =>
       \A r \in Records : request[r] # "scoring"
  /\ main \in {"closing", "waiting", "exited"} /\ ~timedOut =>
       \A r \in Records : request[r] # "logging"
  /\ done => main \in {"waiting", "exited"}
  /\ flusher \in {"draining", "stopped"} => done
  /\ flusher \in {"flushing", "retrying"} /\ resume # "collecting" => done
  /\ flusher = "stopped" => batch = << >>
  /\ flusher = "stopped" /\ ~timedOut => ch = << >>
  /\ flusher \in {"flushing", "retrying"} /\ resume = "stopped" /\ ~timedOut => ch = << >>
  /\ main = "exited" => flusher = "stopped"

Inv ==
  /\ TypeOK
  /\ AcceptedIsAccountedFor /\ NoDuplicateRows /\ HeldOnce
  /\ Placed /\ RetryAfterFailure /\ LossTakesTwoFailures
  /\ Ordered

\* The parts of the invariant, and the state functions they speak of.
LEMMA InitInv ==
  ASSUME Init
  PROVE  Inv
<1> USE DEF Init
<1>1. TypeOK
  <2>1. << >> \in Seq(Records) /\ Len(<< >>) <= BufferSize /\ 0 \in 0..MaxFaults
    BY StoreAssumption DEF StoreAssumption
  <2>2. QED
    BY <2>1 DEF TypeOK
<1>2. InMemory = {} /\ Persisted = {}
  BY EmptyRange DEF InMemory, Persisted
<1>3. AcceptedIsAccountedFor /\ NoDuplicateRows /\ HeldOnce /\ LossTakesTwoFailures
  BY <1>2, EmptyRange
  DEF AcceptedIsAccountedFor, NoDuplicateRows, HeldOnce, LossTakesTwoFailures
<1>4. Placed /\ RetryAfterFailure /\ Ordered
  BY <1>2, EmptyRange DEF Placed, RetryAfterFailure, Ordered
<1>5. QED
  BY <1>1, <1>3, <1>4 DEF Inv

------------------------------------------------------------------------------
(* Steps of the requests.                                                   *)

LEMMA RequestStep ==
  ASSUME Inv, NEW r \in Records, ReceiveScore(r) \/ Answer(r) \/ Log(r)
  PROVE  Inv'
<1> USE DEF Inv
<1>1. CASE ReceiveScore(r) \/ Answer(r)
  <2>1. /\ UNCHANGED <<flusherVars, done, tableVars, dropped, main, timedOut, faults>>
        /\ request[r] # "logged"
        /\ \/ request' = [request EXCEPT ![r] = "scoring"] /\ main = "serving"
           \/ request' = [request EXCEPT ![r] = "logging"] /\ request[r] = "scoring"
    BY <1>1 DEF ReceiveScore, Answer
  <2>2. TypeOK'
    BY <2>1 DEF TypeOK, flusherVars, tableVars
  <2>3. \A q \in Records : request'[q] = "logged" <=> request[q] = "logged"
    BY <2>1 DEF TypeOK
  <2>4. AcceptedIsAccountedFor' /\ Placed'
    BY <2>1, <2>3 DEF AcceptedIsAccountedFor, Placed, InMemory, Persisted, flusherVars, tableVars
  <2>5. NoDuplicateRows' /\ HeldOnce' /\ RetryAfterFailure' /\ LossTakesTwoFailures'
    BY <2>1 DEF NoDuplicateRows, HeldOnce, RetryAfterFailure, LossTakesTwoFailures,
                InMemory, Persisted, flusherVars, tableVars
  <2>6. Ordered'
    BY <2>1 DEF Ordered, TypeOK, flusherVars, tableVars
  <2>7. QED
    BY <2>2, <2>4, <2>5, <2>6
<1>2. CASE Log(r)
  <2>1. /\ request[r] = "logging" /\ request' = [request EXCEPT ![r] = "logged"]
        /\ UNCHANGED <<batch, flusher, resume, done, tableVars, main, timedOut, faults>>
        /\ Up
    BY <1>2 DEF Log
  <2>2. r \notin InMemory \cup Persisted \cup lost \cup dropped
    BY <2>1 DEF Placed
  <2>3. \/ /\ Len(ch) < BufferSize
           /\ ch' = Append(ch, r) /\ ch' \in Seq(Records) /\ Len(ch') = Len(ch) + 1
           /\ Range(ch') = Range(ch) \cup {r}
           /\ IsInjective(ch')
           /\ dropped' = dropped
        \/ ch' = ch /\ dropped' = dropped \cup {r}
    <3>1. CASE Len(ch) < BufferSize
      <4>1. ch' = Append(ch, r) /\ dropped' = dropped
        BY <1>2, <3>1 DEF Log
      <4>2. ch \in Seq(Records) /\ r \notin Range(ch) /\ IsInjective(ch)
        BY <2>2 DEF TypeOK, HeldOnce, InMemory
      <4>3. QED
        BY <3>1, <4>1, <4>2, AppendedRange
    <3>2. CASE ~(Len(ch) < BufferSize)
      BY <1>2, <3>2 DEF Log
    <3>3. QED
      BY <3>1, <3>2
  <2>4. TypeOK'
    BY <2>1, <2>3, StoreAssumption DEF StoreAssumption, TypeOK, tableVars
  <2>5. \A q \in Records : request'[q] = IF q = r THEN "logged" ELSE request[q]
    BY <2>1 DEF TypeOK
  <2>6. /\ Range(ch') \cup dropped' = (Range(ch) \cup dropped) \cup {r}
        /\ Range(ch) \subseteq Range(ch') /\ dropped \subseteq dropped'
        /\ r \notin dropped' <=> r \in Range(ch')
    <3>1. r \notin Range(ch) /\ r \notin dropped
      BY <2>2 DEF InMemory
    <3>2. QED
      BY <2>3, <3>1
  <2>7. Persisted' = Persisted /\ lost' = lost /\ Range(batch') = Range(batch)
    BY <2>1 DEF Persisted, tableVars
  <2>8. AcceptedIsAccountedFor'
    <3> SUFFICES ASSUME NEW q \in Records, request'[q] = "logged"
                 PROVE  IF q \in dropped'
                        THEN q \notin (InMemory \cup Persisted \cup lost)'
                        ELSE q \in (InMemory \cup Persisted \cup lost)'
      BY DEF AcceptedIsAccountedFor
    <3>1. CASE q = r
      BY <2>2, <2>6, <2>7, <3>1, <2>3 DEF InMemory
    <3>2. CASE q # r
      BY <2>3, <2>5, <2>7, <3>2 DEF AcceptedIsAccountedFor, InMemory
    <3>3. QED
      BY <3>1, <3>2
  <2>9. Placed'
    BY <2>1, <2>2, <2>3, <2>5, <2>7 DEF Placed, InMemory
  <2>10. HeldOnce'
    BY <2>1, <2>2, <2>3, <2>7 DEF HeldOnce, InMemory
  <2>11. NoDuplicateRows' /\ RetryAfterFailure' /\ LossTakesTwoFailures'
    BY <2>1 DEF NoDuplicateRows, RetryAfterFailure, LossTakesTwoFailures, Persisted, tableVars
  <2>12. Ordered'
    <3>1. done /\ ~timedOut => main \notin {"closing", "waiting", "exited"}
      BY <2>1 DEF Ordered
    <3>2. ~(done /\ ~timedOut)
      BY <3>1 DEF Ordered
    <3>3. QED
      BY <2>1, <2>5, <3>2 DEF Ordered
  <2>13. QED
    BY <2>4, <2>8, <2>9, <2>10, <2>11, <2>12
<1>3. QED
  BY <1>1, <1>2

------------------------------------------------------------------------------
(* Steps of the flusher.                                                    *)

\* A record moves from the channel to the batch, and nowhere else.
LEMMA TakeStep ==
  ASSUME Inv, Receive \/ DrainReceive
  PROVE  Inv'
<1> USE DEF Inv
<1> DEFINE h == Head(ch)
<1>1. /\ ch # << >> /\ ch' = Tail(ch) /\ batch' = Append(batch, h)
      /\ UNCHANGED <<request, done, tableVars, dropped, main, timedOut, faults>>
      /\ flusher \in {"collecting", "draining"}
      /\ \/ UNCHANGED <<flusher, resume>>
         \/ flusher = "draining" /\ flusher' = "flushing" /\ resume' = "draining"
  BY DEF Receive, DrainReceive, StartFlush
<1>2. /\ h \in Records /\ ch' \in Seq(Records) /\ Len(ch') = Len(ch) - 1
      /\ Range(ch) = {h} \cup Range(ch')
      /\ IsInjective(ch') /\ h \notin Range(ch')
  BY <1>1, ReceivedRange DEF TypeOK, HeldOnce
<1>3. h \notin Range(batch)
  BY <1>2 DEF HeldOnce
<1>4. /\ batch' \in Seq(Records)
      /\ Range(batch') = Range(batch) \cup {h}
      /\ IsInjective(batch')
  BY <1>1, <1>2, <1>3, AppendedRange DEF TypeOK, HeldOnce
<1> HIDE DEF h
<1>5. InMemory' = InMemory /\ Persisted' = Persisted
  BY <1>1, <1>2, <1>4 DEF InMemory, Persisted, tableVars
<1>6. TypeOK'
  <2>1. Len(ch') <= BufferSize
    BY <1>2, StoreAssumption DEF TypeOK, StoreAssumption
  <2>2. QED
    BY <1>1, <1>2, <1>4, <2>1 DEF TypeOK, tableVars
<1>7. AcceptedIsAccountedFor' /\ NoDuplicateRows' /\ LossTakesTwoFailures'
  BY <1>1, <1>5 DEF AcceptedIsAccountedFor, NoDuplicateRows, LossTakesTwoFailures, tableVars
<1>8. HeldOnce'
  BY <1>1, <1>2, <1>3, <1>4, <1>5 DEF HeldOnce, tableVars
<1>9. Placed' /\ RetryAfterFailure'
  BY <1>1, <1>2, <1>4, <1>5 DEF Placed, RetryAfterFailure, tableVars
<1>10. Ordered'
  BY <1>1 DEF Ordered
<1>11. QED
  BY <1>6, <1>7, <1>8, <1>9, <1>10

\* Where the flusher and main go, as long as no record moves.
LEMMA MoveStep ==
  ASSUME Inv, Tick \/ SeeDone \/ DrainEmpty \/ Shutdown
  PROVE  Inv'
<1> USE DEF Inv
<1>1. UNCHANGED <<request, ch, batch, tableVars, dropped, faults>>
  BY DEF Tick, SeeDone, DrainEmpty, Shutdown, Sigterm, HttpShutdown, Drain, CloseDone,
         Exit, MainMoves, flusherVars
<1>2. /\ flusher' = flusher \/ (flusher # "retrying" /\ flusher' # "retrying")
      /\ flusher' \in {"collecting", "draining", "flushing", "retrying", "stopped"}
      /\ resume' \in {"collecting", "draining", "stopped"}
  BY DEF Tick, SeeDone, DrainEmpty, Shutdown, Sigterm, HttpShutdown, Drain, CloseDone,
         Exit, MainMoves, flusherVars, StartFlush, TypeOK
<1>3. /\ done' \in BOOLEAN /\ timedOut' \in BOOLEAN
      /\ main' \in {"serving", "stopping", "draining", "closing", "waiting", "exited"}
  <2>1. CASE Tick \/ SeeDone \/ DrainEmpty
    BY <2>1 DEF Tick, SeeDone, DrainEmpty, TypeOK
  <2>2. CASE Shutdown
    BY <2>2 DEF Shutdown, Sigterm, HttpShutdown, Drain, CloseDone, Exit, MainMoves, TypeOK
  <2>3. QED
    BY <2>1, <2>2
<1>4. TypeOK'
  BY <1>1, <1>2, <1>3 DEF TypeOK, tableVars
<1>5. InMemory' = InMemory /\ Persisted' = Persisted
  BY <1>1 DEF InMemory, Persisted, tableVars
<1>6. /\ AcceptedIsAccountedFor' /\ NoDuplicateRows' /\ HeldOnce'
      /\ LossTakesTwoFailures'
  BY <1>1, <1>5
  DEF AcceptedIsAccountedFor, NoDuplicateRows, HeldOnce, LossTakesTwoFailures, tableVars
<1>7. Placed' /\ RetryAfterFailure'
  BY <1>1, <1>2, <1>5 DEF Placed, RetryAfterFailure, tableVars
<1>8. Ordered'
  <2>1. CASE Tick
    BY <2>1 DEF Tick, Ordered, StartFlush, Up
  <2>2. CASE SeeDone
    BY <2>2 DEF SeeDone, Ordered, Up
  <2>3. CASE DrainEmpty
    BY <2>3 DEF DrainEmpty, Ordered, StartFlush, Up
  <2>4. CASE Sigterm
    BY <2>4 DEF Sigterm, MainMoves, flusherVars, Ordered
  <2>5. CASE HttpShutdown
    BY <2>5 DEF HttpShutdown, MainMoves, flusherVars, Ordered
  <2>6. CASE Drain
    BY <2>6 DEF Drain, MainMoves, flusherVars, Ordered
  <2>7. CASE CloseDone
    BY <2>7 DEF CloseDone, MainMoves, flusherVars, Ordered
  <2>8. CASE Exit
    BY <2>8 DEF Exit, MainMoves, flusherVars, Ordered
  <2>9. QED
    BY <2>1, <2>2, <2>3, <2>4, <2>5, <2>6, <2>7, <2>8 DEF Shutdown
<1>9. QED
  BY <1>4, <1>6, <1>7, <1>8

\* A CopyFrom that goes through adds exactly the batch to the table, once.
LEMMA InsertedRows ==
  ASSUME TypeOK, NoDuplicateRows, Insertable, rows' = Inserted
  PROVE  /\ rows' \in [Records -> Nat]
         /\ NoDuplicateRows'
         /\ Persisted' = Persisted \cup Range(batch)
<1>1. /\ rows \in [Records -> Nat]
      /\ Range(batch) \subseteq Records
  BY DEF TypeOK, Range
<1>2. \A r \in Records : rows'[r] = IF r \in Range(batch) THEN 1 ELSE rows[r]
  BY <1>1 DEF Insertable, Inserted
<1>3. rows' \in [Records -> Nat]
  BY <1>1 DEF Inserted
<1>4. QED
  BY <1>1, <1>2, <1>3 DEF NoDuplicateRows, Persisted

\* A failing attempt has added the whole batch to the table or nothing.
LEMMA FailedRows ==
  ASSUME TypeOK, NoDuplicateRows, AttemptFails
  PROVE  /\ rows' \in [Records -> Nat]
         /\ NoDuplicateRows'
         /\ \/ Persisted' = Persisted
            \/ Persisted' = Persisted \cup Range(batch)
         /\ faults' \in 0..MaxFaults /\ faults' >= faults
         /\ Insertable => faults' = faults + 1
         /\ ~Insertable => Persisted' = Persisted
<1>1. faults' \in 0..MaxFaults /\ faults' >= faults /\ (Insertable => faults' = faults + 1)
  <2>1. faults \in Nat /\ MaxFaults \in Nat /\ faults <= MaxFaults
    BY StoreAssumption DEF StoreAssumption, TypeOK
  <2>2. \/ faults' = faults /\ ~Insertable
        \/ faults' = faults + 1 /\ faults < MaxFaults
    BY DEF AttemptFails
  <2>3. QED
    BY <2>1, <2>2
<1>2. CASE UNCHANGED rows
  <2>1. Persisted' = Persisted
    BY <1>2 DEF Persisted
  <2>2. QED
    BY <1>1, <1>2, <2>1 DEF NoDuplicateRows, TypeOK
<1>3. CASE Insertable /\ rows' = Inserted
  BY <1>1, <1>3, InsertedRows
<1>4. QED
  BY <1>2, <1>3 DEF AttemptFails

\* A batch is not in the table when it is first flushed, so only a failure can
\* send it to the retry; and the retry fails for want of room only if the first
\* attempt inserted the whole batch.
LEMMA FlushStep ==
  ASSUME Inv, FlushSucceeds \/ FlushFails \/ RetryFails
  PROVE  Inv'
<1> USE DEF Inv
<1>1. /\ UNCHANGED <<request, ch, resume, done, dropped, main, timedOut>>
      /\ flusher \in {"flushing", "retrying"}
      /\ InMemory = Range(ch) \cup Range(batch)
  BY DEF FlushSucceeds, FlushFails, RetryFails, InMemory
<1>2. Range(batch) \subseteq Records /\ Range(batch) \cap lost = {}
      /\ Range(ch) \cap Range(batch) = {} /\ Range(batch) \cap dropped = {}
  <2>1. Range(batch) \subseteq Records
    BY DEF TypeOK, Range
  <2>2. \A r \in Range(batch) : request[r] = "logged" /\ r \in InMemory
    BY <2>1, <1>1 DEF Placed
  <2>3. QED
    BY <2>1, <2>2, <1>1 DEF HeldOnce, AcceptedIsAccountedFor
<1>3. Insertable <=> Range(batch) \cap Persisted = {}
  BY <1>2 DEF Insertable, Persisted, TypeOK
<1>4. CASE FlushFails
  <2>1. /\ flusher = "flushing" /\ flusher' = "retrying"
        /\ AttemptFails /\ UNCHANGED <<batch, lost>>
    BY <1>4 DEF FlushFails
  <2>2. Insertable
    BY <1>3, <2>1 DEF Placed
  <2>3. /\ rows' \in [Records -> Nat] /\ NoDuplicateRows'
        /\ Persisted' = Persisted \/ Persisted' = Persisted \cup Range(batch)
        /\ faults' \in 0..MaxFaults /\ faults' = faults + 1
    BY <2>1, <2>2, FailedRows
  <2>4. faults \in Nat
    BY DEF TypeOK
  <2>5. InMemory' = InMemory
    BY <1>1, <2>1 DEF InMemory
  <2>6. TypeOK'
    BY <1>1, <2>1, <2>3 DEF TypeOK
  <2>7. AcceptedIsAccountedFor'
    BY <1>1, <1>2, <2>1, <2>3, <2>5 DEF AcceptedIsAccountedFor
  <2>8. HeldOnce'
    BY <1>1, <2>1, <2>5 DEF HeldOnce
  <2>9. Placed'
    <3>1. \A r \in Records : r \notin InMemory => (r \in Persisted' <=> r \in Persisted)
      BY <1>1, <2>3
    <3>2. Range(batch) \cap Persisted = {} /\ Range(ch) \cap Persisted = {}
      BY <2>1 DEF Placed
    <3>3. Range(ch') \cap Persisted' = {}
      BY <1>1, <1>2, <2>3, <3>2
    <3>4. Range(batch') \subseteq Persisted' \/ Range(batch') \cap Persisted' = {}
      BY <2>1, <2>3, <3>2
    <3>5. QED
      BY <1>1, <2>1, <2>5, <3>1, <3>3, <3>4 DEF Placed
  <2>10. RetryAfterFailure'
    BY <2>3, <2>4 DEF RetryAfterFailure
  <2>11. LossTakesTwoFailures'
    BY <2>1, <2>3, <2>4 DEF LossTakesTwoFailures
  <2>12. Ordered'
    BY <1>1, <2>1 DEF Ordered
  <2>13. QED
    BY <2>3, <2>6, <2>7, <2>8, <2>9, <2>10, <2>11, <2>12
<1>5. CASE FlushSucceeds \/ RetryFails
  <2>1. batch' = << >> /\ flusher' = resume
    BY <1>5 DEF FlushSucceeds, RetryFails, LeaveFlush
  <2>2. Range(batch') = {} /\ IsInjective(batch') /\ batch' \in Seq(Records)
    BY <2>1, EmptyRange
  <2>3. InMemory' = Range(ch)
    BY <1>1, <2>2 DEF InMemory
  <2>4. /\ rows' \in [Records -> Nat] /\ NoDuplicateRows'
        /\ Persisted' = Persisted \/ Persisted' = Persisted \cup Range(batch)
        /\ faults' \in 0..MaxFaults /\ faults' >= faults
        /\ lost' = lost \/ lost' = lost \cup Range(batch)
        /\ Range(batch) \subseteq Persisted' \cup lost'
    <3>1. CASE FlushSucceeds
      <4>1. faults' = faults /\ lost' = lost /\ Insertable /\ rows' = Inserted
        BY <3>1 DEF FlushSucceeds
      <4>2. faults \in 0..MaxFaults /\ faults >= faults
        BY StoreAssumption DEF StoreAssumption, TypeOK
      <4>3. QED
        BY <4>1, <4>2, InsertedRows
    <3>2. CASE RetryFails
      BY <3>2, FailedRows DEF RetryFails
    <3>3. QED
      BY <1>5, <3>1, <3>2
  <2>5. TypeOK'
    <3>1. flusher' \in {"collecting", "draining", "stopped"} /\ lost' \subseteq Records
      BY <1>2, <2>1, <2>4 DEF TypeOK
    <3>2. QED
      BY <1>1, <2>2, <2>4, <3>1 DEF TypeOK
  <2>6. AcceptedIsAccountedFor'
    BY <1>1, <1>2, <2>3, <2>4 DEF AcceptedIsAccountedFor
  <2>7. HeldOnce'
    <3>1. Range(ch) \cap lost' = {}
      BY <1>1, <1>2, <2>4 DEF HeldOnce
    <3>2. QED
      BY <1>1, <2>2, <2>3, <3>1 DEF HeldOnce
  <2>8. Placed'
    <3>1. flusher' # "retrying"
      BY <2>1 DEF TypeOK
    <3>2. Range(ch') \cap Persisted' = {}
      BY <1>1, <1>2, <2>4 DEF Placed
    <3>3. \A r \in Records : request'[r] # "logged" =>
            r \notin (InMemory \cup Persisted \cup lost \cup dropped)'
      BY <1>1, <2>3, <2>4 DEF Placed
    <3>4. QED
      BY <2>2, <3>1, <3>2, <3>3 DEF Placed
  <2>9. RetryAfterFailure'
    BY <2>1 DEF RetryAfterFailure, TypeOK
  <2>10. LossTakesTwoFailures'
    <3>1. faults \in Nat /\ faults' \in Nat /\ faults' >= faults
      BY <2>4, StoreAssumption DEF StoreAssumption, TypeOK
    <3>2. CASE FlushSucceeds
      <4>1. lost' = lost /\ Persisted \subseteq Persisted' /\ faults' = faults
        BY <2>4, <3>2 DEF FlushSucceeds
      <4>2. QED
        BY <4>1 DEF LossTakesTwoFailures
    <3>3. CASE RetryFails /\ Insertable
      <4>1. faults' = faults + 1 /\ faults >= 1
        BY <3>3, FailedRows DEF RetryFails, RetryAfterFailure
      <4>2. QED
        BY <3>1, <4>1 DEF LossTakesTwoFailures
    <3>4. CASE RetryFails /\ ~Insertable
      <4>1. Range(batch) \subseteq Persisted /\ Persisted' = Persisted
        BY <1>3, <3>4, FailedRows DEF RetryFails, Placed
      <4>2. lost' \ Persisted' \subseteq lost \ Persisted
        BY <2>4, <4>1
      <4>3. QED
        BY <3>1, <4>2 DEF LossTakesTwoFailures
    <3>5. QED
      BY <1>5, <3>2, <3>3, <3>4
  <2>11. Ordered'
    BY <1>1, <2>1 DEF Ordered, TypeOK
  <2>12. QED
    BY <2>4, <2>5, <2>6, <2>7, <2>8, <2>9, <2>10, <2>11
<1>6. QED
  BY <1>4, <1>5

------------------------------------------------------------------------------
(* The theorems.                                                            *)

LEMMA StepInv ==
  ASSUME Inv, [Next]_vars
  PROVE  Inv'
<1>1. CASE UNCHANGED vars
  BY <1>1
  DEF vars, flusherVars, tableVars, Inv, TypeOK, AcceptedIsAccountedFor, NoDuplicateRows,
      HeldOnce, Placed, RetryAfterFailure, LossTakesTwoFailures, Ordered, InMemory, Persisted
<1>2. CASE \E r \in Records : ReceiveScore(r) \/ Answer(r) \/ Log(r)
  BY <1>2, RequestStep
<1>3. CASE Flusher
  BY <1>3, TakeStep, MoveStep, FlushStep DEF Flusher
<1>4. CASE Shutdown
  BY <1>4, MoveStep
<1>5. QED
  BY <1>1, <1>2, <1>3, <1>4 DEF Next

\* Every reachable state satisfies the inductive invariant.
LEMMA AlwaysInv == Spec => []Inv
<1>1. Init => Inv
  BY InitInv
<1>2. Inv /\ [Next]_vars => Inv'
  BY StepInv
<1>3. QED
  BY <1>1, <1>2, PTL DEF Spec

\* The channel never holds more than its capacity, and every part of the store
\* keeps its type.
THEOREM StoreTypeCorrect == Spec => []TypeOK
<1>1. Inv => TypeOK
  BY DEF Inv
<1>2. QED
  BY <1>1, AlwaysInv, PTL

\* A record Log accepted is in the channel, in the batch, in the table or
\* counted as lost; a record Log refused is nowhere (store.go:63-126).
THEOREM NothingForgotten == Spec => []AcceptedIsAccountedFor
<1>1. Inv => AcceptedIsAccountedFor
  BY DEF Inv
<1>2. QED
  BY <1>1, AlwaysInv, PTL

\* No record is inserted twice, whatever the failures and lost answers of
\* CopyFrom (store.go:115-150).
THEOREM InsertedAtMostOnce == Spec => []NoDuplicateRows
<1>1. Inv => NoDuplicateRows
  BY DEF Inv
<1>2. QED
  BY <1>1, AlwaysInv, PTL

\* No record waits in two places, or twice in one (store.go:84-112).
THEOREM NothingHeldTwice == Spec => []HeldOnce
<1>1. Inv => HeldOnce
  BY DEF Inv
<1>2. QED
  BY <1>1, AlwaysInv, PTL

\* One failing CopyFrom never costs a record (store.go:115-126).
THEOREM OneFailureIsSurvived == Spec => []LossTakesTwoFailures
<1>1. Inv => LossTakesTwoFailures
  BY DEF Inv
<1>2. QED
  BY <1>1, AlwaysInv, PTL

\* When httpServer.Shutdown does not time out, the process exits with an empty
\* channel, an empty batch and no log goroutine on its way (main.go:107-108).
THEOREM OrderlyStopLosesNothing == Spec => []OrderlyStopKeepsRecords
<1>1. Inv => OrderlyStopKeepsRecords
  <2> SUFFICES ASSUME Inv, main = "exited", ~timedOut
               PROVE  InMemory = {} /\ \A r \in Records : request[r] # "logging"
    BY DEF OrderlyStopKeepsRecords
  <2>1. ch = << >> /\ batch = << >> /\ \A r \in Records : request[r] # "logging"
    BY DEF Inv, Ordered
  <2>2. QED
    BY <2>1, EmptyRange DEF InMemory
<1>2. QED
  BY <1>1, AlwaysInv, PTL

------------------------------------------------------------------------------
(* Refinement.                                                              *)

\* The shutdown of the HTTP server is over before it can have timed out.
NotCutYet == main \in {"serving", "stopping"} => ~timedOut

LEMMA CutByShutdown == Spec => []NotCutYet
<1>1. Init => NotCutYet
  BY DEF Init, NotCutYet
<1>2. NotCutYet /\ [Next]_vars => NotCutYet'
  BY DEF NotCutYet, Next, Flusher, Shutdown, Sigterm, HttpShutdown, Drain, CloseDone, Exit,
         MainMoves, ReceiveScore, Answer, Log, Receive, Tick, SeeDone, DrainReceive,
         DrainEmpty, FlushSucceeds, FlushFails, RetryFails, vars
<1> QED
  BY <1>1, <1>2, PTL DEF Spec

Offered == {r \in Records : request[r] = "logged"}

\* A step that changes none of these is no step of the abstract log.
LEMMA Unseen ==
  ASSUME UNCHANGED <<Offered, dropped, ch, batch, rows, lost, timedOut>>,
         main' = "exited" <=> main = "exited"
  PROVE  UNCHANGED Delivery!deliveryVars
BY DEF Delivery!deliveryVars, Offered

LEMMA RequestDelivers ==
  ASSUME Inv, NEW r \in Records, ReceiveScore(r) \/ Answer(r) \/ Log(r)
  PROVE  [Delivery!DeliveryNext]_(Delivery!deliveryVars)
<1> USE DEF Inv
<1>1. request \in [Records -> {"none", "scoring", "logging", "logged"}]
      /\ ch \in Seq(Records) /\ batch \in Seq(Records)
  BY DEF TypeOK
<1>2. CASE ReceiveScore(r) \/ Answer(r)
  <2>1. Offered' = Offered
    BY <1>1, <1>2 DEF ReceiveScore, Answer, Offered
  <2>2. UNCHANGED <<dropped, ch, batch, rows, lost, timedOut>> /\ main' = main
    BY <1>2 DEF ReceiveScore, Answer, flusherVars, tableVars
  <2> QED
    BY <2>1, <2>2, Unseen
<1>3. CASE Log(r)
  <2>1. /\ r \notin Offered /\ Offered' = Offered \cup {r}
        /\ main # "exited" /\ main' = main
        /\ UNCHANGED <<batch, rows, lost, timedOut>>
    BY <1>1, <1>3 DEF Log, Up, Offered, tableVars
  <2>2. Delivery!Full <=> BufferSize <= Len(ch)
    <3>1. ch \in Seq(Records) /\ IsInjective(ch) /\ BufferSize \in Nat
      BY <1>1, StoreAssumption DEF StoreAssumption, HeldOnce
    <3> HIDE DEF Inv
    <3>2. BufferSize <= Len(ch) <=> \E q \in [1..BufferSize -> Range(ch)] :
                                      \A j, k \in 1..BufferSize : q[j] = q[k] => j = k
      BY <3>1, FullChannel
    <3> QED
      BY <3>2, Zenon DEF Delivery!Full
  <2>3. CASE Len(ch) < BufferSize
    <3>1. ch' = Append(ch, r) /\ dropped' = dropped
      BY <1>3, <2>3 DEF Log
    <3>2. Range(ch') = Range(ch) \cup {r}
      BY <1>1, <3>1, AppendedRange
    <3>3. Delivery!Accept(r)
      BY <1>1, <2>1, <2>2, <2>3, <3>1, <3>2, StoreAssumption
      DEF StoreAssumption, Delivery!Accept, Delivery!HandOver, Offered
    <3> QED
      BY <3>3 DEF Delivery!DeliveryNext
  <2>4. CASE ~(Len(ch) < BufferSize)
    <3>1. dropped' = dropped \cup {r} /\ ch' = ch
      BY <1>3, <2>4 DEF Log
    <3>2. Delivery!Refuse(r)
      BY <1>1, <2>1, <2>2, <2>4, <3>1, StoreAssumption
      DEF StoreAssumption, Delivery!Refuse, Delivery!HandOver, Offered
    <3> QED
      BY <3>2 DEF Delivery!DeliveryNext
  <2> QED
    BY <2>3, <2>4
<1> QED
  BY <1>2, <1>3

\* A record received from the channel is in the batch, and in the flusher's hands.
LEMMA ReceiveTakes ==
  ASSUME Inv, Receive \/ DrainReceive
  PROVE  \E r \in Records : Delivery!Take(r)
<1> DEFINE h == Head(ch)
<1>1. /\ UNCHANGED <<request, rows, lost, dropped, main, timedOut>> /\ main # "exited"
      /\ ch \in Seq(Records) /\ batch \in Seq(Records) /\ ch # << >> /\ IsInjective(ch)
      /\ ch' = Tail(ch) /\ batch' = Append(batch, h)
  BY DEF Inv, TypeOK, HeldOnce, Receive, DrainReceive, tableVars, Up
<1>2. /\ h \in Records /\ Range(ch) = {h} \cup Range(ch') /\ h \notin Range(ch')
      /\ Range(batch') = Range(batch) \cup {h}
  BY <1>1, ReceivedRange, AppendedRange
<1> HIDE DEF h
<1>3. Delivery!Take(h)
  BY <1>1, <1>2 DEF Delivery!Take, Offered
<1> QED
  BY <1>2, <1>3

\* The flusher's own moves stay within the process.
LEMMA MovesUnseen ==
  ASSUME Tick \/ SeeDone \/ DrainEmpty
  PROVE  UNCHANGED Delivery!deliveryVars
BY Unseen DEF Tick, SeeDone, DrainEmpty, tableVars, Offered

\* A flush gives the whole batch its rows or none of it; it lets go of the batch
\* when the rows are in, or when it counts the batch as lost.
LEMMA FlushDelivers ==
  ASSUME Inv, FlushSucceeds \/ FlushFails \/ RetryFails
  PROVE  Delivery!Deliver
<1> USE DEF Inv
<1>1. UNCHANGED <<request, ch, dropped, main, timedOut>> /\ main # "exited"
  BY DEF FlushSucceeds, FlushFails, RetryFails, Up
<1>2. Range(batch) \subseteq Records /\ rows \in [Records -> Nat]
  BY DEF TypeOK, Range
<1>3. UNCHANGED rows \/ (Insertable /\ rows' = Inserted)
  BY DEF FlushSucceeds, FlushFails, RetryFails, AttemptFails
<1>4. /\ rows' \in [Records -> Nat]
      /\ \A r \in Records : rows'[r] # rows[r] =>
           r \in Range(batch) /\ rows[r] = 0 /\ rows'[r] = 1
  BY <1>2, <1>3 DEF Insertable, Inserted
<1>5. CASE FlushFails
  <2>1. batch' = batch /\ lost' = lost
    BY <1>5 DEF FlushFails
  <2> QED
    BY <1>1, <1>4, <2>1 DEF Delivery!Deliver, Offered
<1>6. CASE FlushSucceeds \/ RetryFails
  <2>1. Range(batch') = {}
    BY <1>6, EmptyRange DEF FlushSucceeds, RetryFails, LeaveFlush
  <2>2. \/ lost' = lost /\ \A r \in Range(batch) : rows'[r] = 1
        \/ lost' = lost \cup Range(batch)
    <3>1. CASE FlushSucceeds
      BY <1>2, <3>1 DEF FlushSucceeds, Insertable, Inserted
    <3>2. CASE RetryFails
      BY <3>2 DEF RetryFails
    <3> QED
      BY <1>6, <3>1, <3>2
  <2> QED
    BY <1>1, <1>4, <2>1, <2>2 DEF Delivery!Deliver, Offered
<1> QED
  BY <1>5, <1>6

LEMMA ShutdownDelivers ==
  ASSUME Inv, NotCutYet, Shutdown
  PROVE  [Delivery!DeliveryNext]_(Delivery!deliveryVars)
<1>1. UNCHANGED <<request, ch, batch, rows, lost, dropped>>
  BY DEF Shutdown, Sigterm, HttpShutdown, Drain, CloseDone, Exit, MainMoves, flusherVars,
         tableVars
<1>2. UNCHANGED Offered
  BY <1>1 DEF Offered
<1>3. CASE Sigterm \/ Drain \/ CloseDone
  BY <1>1, <1>2, <1>3, Unseen DEF Sigterm, Drain, CloseDone, MainMoves
<1>4. CASE HttpShutdown
  <2>1. main = "stopping" /\ main' = "draining" /\ timedOut' \in BOOLEAN
    BY <1>4 DEF HttpShutdown, MainMoves
  <2>2. CASE timedOut' = TRUE
    <3>1. Delivery!CutShort
      BY <1>1, <1>2, <2>1, <2>2 DEF Delivery!CutShort, Offered
    <3> QED
      BY <3>1 DEF Delivery!DeliveryNext
  <2>3. CASE timedOut' = FALSE
    <3>1. timedOut = FALSE
      BY <2>1 DEF NotCutYet, Inv, TypeOK
    <3> QED
      BY <1>1, <1>2, <2>1, <2>3, <3>1, Unseen
  <2> QED
    BY <2>1, <2>2, <2>3
<1>5. CASE Exit
  <2>1. main = "waiting" /\ main' = "exited" /\ flusher = "stopped" /\ timedOut' = timedOut
    BY <1>5 DEF Exit, MainMoves
  <2>2. Range(ch) \cup Range(batch) = {} \/ timedOut
    BY <2>1, EmptyRange DEF Inv, Ordered
  <2>3. Delivery!Close
    BY <1>1, <1>2, <2>1, <2>2 DEF Delivery!Close, Offered
  <2> QED
    BY <2>3 DEF Delivery!DeliveryNext
<1> QED
  BY <1>3, <1>4, <1>5 DEF Shutdown

\* The prediction log implements the abstract delivery, for any number of records
\* and failures and any size of channel and chunk (store.go:63-150, main.go:95-120).
THEOREM LogIsAccountedDelivery == Spec => ImplementsDelivery
<1>1. Init => Delivery!DeliveryInit
  BY EmptyRange DEF Init, Delivery!DeliveryInit
<1>2. Inv /\ NotCutYet /\ [Next]_vars => [Delivery!DeliveryNext]_(Delivery!deliveryVars)
  <2> SUFFICES ASSUME Inv, NotCutYet, [Next]_vars
               PROVE  [Delivery!DeliveryNext]_(Delivery!deliveryVars)
    OBVIOUS
  <2>1. CASE UNCHANGED vars
    BY <2>1, Unseen DEF vars, flusherVars, tableVars, Offered
  <2>2. CASE FlushSucceeds \/ FlushFails \/ RetryFails
    BY <2>2, FlushDelivers DEF Delivery!DeliveryNext
  <2>3. CASE Receive \/ DrainReceive
    BY <2>3, ReceiveTakes DEF Delivery!DeliveryNext
  <2> QED
    BY <2>1, <2>2, <2>3, RequestDelivers, MovesUnseen, ShutdownDelivers DEF Next, Flusher
<1> QED
  BY <1>1, <1>2, AlwaysInv, CutByShutdown, PTL DEF Spec, ImplementsDelivery, Delivery!DeliverySpec
==============================================================================
