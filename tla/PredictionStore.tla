--------------------------- MODULE PredictionStore ---------------------------
(***************************************************************************)
(* The asynchronous prediction log of a serving process                    *)
(* (serving/internal/predictions/store.go): the goroutine each scored      *)
(* request leaves behind (server/handlers.go), the bounded channel, the    *)
(* flusher with its batch and its one retry, the predictions table, and    *)
(* the order in which main takes it all down (cmd/server/main.go).         *)
(***************************************************************************)
EXTENDS Naturals, Sequences, Functions

CONSTANTS
  Records,     \* one per scored request; prediction_id
  BufferSize,  \* PREDICTION_BUFFER_SIZE (1000)
  ChunkSize,   \* drainChunkSize (1000)
  MaxFaults    \* bound on failing CopyFrom calls

ASSUME StoreAssumption ==
  /\ BufferSize \in Nat \ {0}
  /\ ChunkSize \in Nat \ {0}
  /\ MaxFaults \in Nat

VARIABLES
  request,   \* Records -> where the request that makes the record is
  ch,        \* Store.ch
  batch,     \* the flusher's local batch
  flusher,   \* where the flusher is
  resume,    \* where flushWithRetry returns to
  done,      \* Store.done is closed
  rows,      \* Records -> rows of the predictions table with that id
  dropped,   \* records Log refused (prediction_log_dropped_total)
  lost,      \* records of batches given up (prediction_log_flush_errors_total)
  main,      \* where main is in its shutdown
  timedOut,  \* httpServer.Shutdown gave up
  faults

flusherVars == <<ch, batch, flusher, resume>>
tableVars == <<rows, lost>>
vars == <<request, flusherVars, done, tableVars, dropped, main, timedOut, faults>>

TypeOK ==
  /\ request \in [Records -> {"none", "scoring", "logging", "logged"}]
  /\ ch \in Seq(Records) /\ Len(ch) <= BufferSize
  /\ batch \in Seq(Records)
  /\ flusher \in {"collecting", "draining", "flushing", "retrying", "stopped"}
  /\ resume \in {"collecting", "draining", "stopped"}
  /\ done \in BOOLEAN
  /\ rows \in [Records -> Nat]
  /\ dropped \subseteq Records /\ lost \subseteq Records
  /\ main \in {"serving", "stopping", "draining", "closing", "waiting", "exited"}
  /\ timedOut \in BOOLEAN
  /\ faults \in 0..MaxFaults

Init ==
  /\ request = [r \in Records |-> "none"]
  /\ ch = << >> /\ batch = << >>
  /\ flusher = "collecting" /\ resume = "collecting"
  /\ done = FALSE
  /\ rows = [r \in Records |-> 0]
  /\ dropped = {} /\ lost = {}
  /\ main = "serving" /\ timedOut = FALSE
  /\ faults = 0

Up == main # "exited"

------------------------------------------------------------------------------
(* Score and its log goroutine.                                             *)

ReceiveScore(r) ==
  /\ main = "serving"
  /\ request[r] = "none"
  /\ request' = [request EXCEPT ![r] = "scoring"]
  /\ UNCHANGED <<flusherVars, done, tableVars, dropped, main, timedOut, faults>>

\* The response is out; logWg.Add(1), and the goroutine is on its way to Log.
Answer(r) ==
  /\ Up
  /\ request[r] = "scoring"
  /\ request' = [request EXCEPT ![r] = "logging"]
  /\ UNCHANGED <<flusherVars, done, tableVars, dropped, main, timedOut, faults>>

\* Mutant: the send waits for no room.
LogUnlimited(r) ==
  /\ Up
  /\ request[r] = "logging"
  /\ request' = [request EXCEPT ![r] = "logged"]
  /\ ch' = Append(ch, r)
  /\ UNCHANGED <<batch, flusher, resume, done, tableVars, dropped, main, timedOut, faults>>

\* Mutant: the batch counts against the channel's room.
LogBatchCounted(r) ==
  /\ Up
  /\ request[r] = "logging"
  /\ request' = [request EXCEPT ![r] = "logged"]
  /\ IF Len(ch) + Len(batch) < BufferSize
     THEN ch' = Append(ch, r) /\ UNCHANGED dropped
     ELSE dropped' = dropped \cup {r} /\ UNCHANGED ch
  /\ UNCHANGED <<batch, flusher, resume, done, tableVars, main, timedOut, faults>>

\* A send on a buffered channel succeeds while it has room; the default case
\* drops the record. (The context is Background: its Done never fires.)
Log(r) ==
  /\ Up
  /\ request[r] = "logging"
  /\ request' = [request EXCEPT ![r] = "logged"]
  /\ IF Len(ch) < BufferSize
     THEN ch' = Append(ch, r) /\ UNCHANGED dropped
     ELSE dropped' = dropped \cup {r} /\ UNCHANGED ch
  /\ UNCHANGED <<batch, flusher, resume, done, tableVars, main, timedOut, faults>>

------------------------------------------------------------------------------
(* The flusher.                                                             *)

StartFlush(back) == flusher' = "flushing" /\ resume' = back

\* The select of the main loop picks any ready case, done or not.
Receive ==
  /\ Up /\ flusher = "collecting"
  /\ ch # << >>
  /\ batch' = Append(batch, Head(ch))
  /\ ch' = Tail(ch)
  /\ UNCHANGED <<request, flusher, resume, done, tableVars, dropped, main, timedOut, faults>>

\* Mutant: a batch is flushed when it is large, not when it is old.
TickWhenLarge ==
  /\ Up /\ flusher = "collecting"
  /\ Len(batch) >= ChunkSize
  /\ StartFlush("collecting")
  /\ UNCHANGED <<request, ch, batch, done, tableVars, dropped, main, timedOut, faults>>

Tick ==
  /\ Up /\ flusher = "collecting"
  /\ batch # << >>
  /\ StartFlush("collecting")
  /\ UNCHANGED <<request, ch, batch, done, tableVars, dropped, main, timedOut, faults>>

SeeDone ==
  /\ Up /\ flusher = "collecting"
  /\ done
  /\ flusher' = "draining"
  /\ UNCHANGED <<request, ch, batch, resume, done, tableVars, dropped, main, timedOut, faults>>

DrainReceive ==
  /\ Up /\ flusher = "draining"
  /\ ch # << >>
  /\ batch' = Append(batch, Head(ch))
  /\ ch' = Tail(ch)
  /\ IF Len(batch') >= ChunkSize
     THEN StartFlush("draining")
     ELSE UNCHANGED <<flusher, resume>>
  /\ UNCHANGED <<request, done, tableVars, dropped, main, timedOut, faults>>

\* Mutant: a break that only leaves the inner loop.
DrainEmptyBreak ==
  /\ Up /\ flusher = "draining"
  /\ ch = << >>
  /\ IF batch # << >>
     THEN StartFlush("collecting")
     ELSE flusher' = "collecting" /\ UNCHANGED resume
  /\ UNCHANGED <<request, ch, batch, done, tableVars, dropped, main, timedOut, faults>>

DrainEmpty ==
  /\ Up /\ flusher = "draining"
  /\ ch = << >>
  /\ IF batch # << >>
     THEN StartFlush("stopped")
     ELSE flusher' = "stopped" /\ UNCHANGED resume
  /\ UNCHANGED <<request, ch, batch, done, tableVars, dropped, main, timedOut, faults>>

\* CopyFrom is one statement: all rows or none, and none if an id is there.
Insertable == \A r \in Range(batch) : rows[r] = 0
Inserted == [r \in Records |-> rows[r] + (IF r \in Range(batch) THEN 1 ELSE 0)]

\* An attempt fails because an id is there, or of itself; and then the rows may
\* be there all the same, when only the answer to the commit was lost.
AttemptFails ==
  \/ ~Insertable /\ UNCHANGED <<rows, faults>>
  \/ /\ Insertable
     /\ faults < MaxFaults /\ faults' = faults + 1
     /\ rows' \in {rows, Inserted}

LeaveFlush == flusher' = resume /\ batch' = << >>

FlushSucceeds ==
  /\ Up /\ flusher \in {"flushing", "retrying"}
  /\ Insertable
  /\ rows' = Inserted
  /\ LeaveFlush
  /\ UNCHANGED <<request, ch, resume, done, lost, dropped, main, timedOut, faults>>

\* Mutant: the error of the first attempt is not looked at.
FlushFailsUnseen ==
  /\ Up /\ flusher = "flushing"
  /\ AttemptFails
  /\ LeaveFlush
  /\ UNCHANGED <<request, ch, resume, done, lost, dropped, main, timedOut>>

\* Mutant: no retry.
FlushFailsAtOnce ==
  /\ Up /\ flusher = "flushing"
  /\ AttemptFails
  /\ lost' = lost \cup Range(batch)
  /\ LeaveFlush
  /\ UNCHANGED <<request, ch, resume, done, dropped, main, timedOut>>

FlushFails ==
  /\ Up /\ flusher = "flushing"
  /\ AttemptFails
  /\ flusher' = "retrying"
  /\ UNCHANGED <<request, ch, batch, resume, done, lost, dropped, main, timedOut>>

\* The batch is counted as lost and forgotten, inserted or not.
RetryFails ==
  /\ Up /\ flusher = "retrying"
  /\ AttemptFails
  /\ lost' = lost \cup Range(batch)
  /\ LeaveFlush
  /\ UNCHANGED <<request, ch, resume, done, dropped, main, timedOut>>

Flusher ==
  \/ Receive \/ Tick \/ SeeDone
  \/ DrainReceive \/ DrainEmpty
  \/ FlushSucceeds \/ FlushFails \/ RetryFails

------------------------------------------------------------------------------
(* main: httpServer.Shutdown, handler.Drain, store.Shutdown, pool.Close.    *)

MainMoves(to) == main' = to /\ UNCHANGED <<request, flusherVars, tableVars, dropped, faults>>

Sigterm ==
  /\ main = "serving"
  /\ MainMoves("stopping") /\ UNCHANGED <<done, timedOut>>

HttpShutdown ==
  /\ main = "stopping"
  /\ timedOut' = (\E r \in Records : request[r] = "scoring")
  /\ MainMoves("draining") /\ UNCHANGED done

\* Mutant: the shutdown does not wait for the log goroutines.
DrainAtOnce ==
  /\ main = "draining"
  /\ MainMoves("closing") /\ UNCHANGED <<done, timedOut>>

\* logWg.Wait: the goroutines counted so far are through with Log.
Drain ==
  /\ main = "draining"
  /\ \A r \in Records : request[r] # "logging"
  /\ MainMoves("closing") /\ UNCHANGED <<done, timedOut>>

CloseDone ==
  /\ main = "closing"
  /\ done' = TRUE
  /\ MainMoves("waiting") /\ UNCHANGED timedOut

\* wg.Wait returns, the pool is closed, main returns.
Exit ==
  /\ main = "waiting"
  /\ flusher = "stopped"
  /\ MainMoves("exited") /\ UNCHANGED <<done, timedOut>>

Shutdown == Sigterm \/ HttpShutdown \/ Drain \/ CloseDone \/ Exit

Next ==
  \/ \E r \in Records : ReceiveScore(r) \/ Answer(r) \/ Log(r)
  \/ Flusher
  \/ Shutdown

Spec == Init /\ [][Next]_vars

\* Goroutines are scheduled, select does not starve a ready case for ever, and
\* CopyFrom has a timeout. Requests and signals need not come.
FairSpec ==
  /\ Spec
  /\ \A r \in Records : WF_vars(Answer(r) \/ Log(r))
  /\ WF_vars(Flusher) /\ WF_vars(Tick) /\ WF_vars(SeeDone)
  /\ WF_vars(Shutdown /\ main # "serving")

------------------------------------------------------------------------------
(* Safety.                                                                  *)

Persisted == {r \in Records : rows[r] > 0}
InMemory == Range(ch) \cup Range(batch)

\* A record that Log accepted is never forgotten in silence: until it is in the
\* table or counted as lost, it is in the channel or in the batch. A record Log
\* refused is counted and goes nowhere.
AcceptedIsAccountedFor ==
  \A r \in Records : request[r] = "logged" =>
    IF r \in dropped
    THEN r \notin InMemory \cup Persisted \cup lost
    ELSE r \in InMemory \cup Persisted \cup lost

\* A retry after a commit whose answer was lost inserts nothing twice.
NoDuplicateRows == \A r \in Records : rows[r] <= 1

\* No record is in two places of the pipeline, so none can be flushed twice.
HeldOnce ==
  /\ IsInjective(ch) /\ IsInjective(batch)
  /\ Range(ch) \cap Range(batch) = {}
  /\ InMemory \cap lost = {}

\* When no handler outlives httpServer.Shutdown, the process exits with every
\* answered request in the table or in one of the two loss counters: Drain comes
\* before store.Shutdown, which drains the channel (handlers.go:251).
OrderlyStopKeepsRecords ==
  main = "exited" /\ ~timedOut =>
    /\ InMemory = {}
    /\ \A r \in Records : request[r] # "logging"

\* A record reported lost without being in the table is lost to two failures:
\* one failing CopyFrom is always made up for by the retry.
LossTakesTwoFailures == (lost \ Persisted) # {} => faults >= 2

------------------------------------------------------------------------------
(* Refinement.                                                              *)

Delivery == INSTANCE AccountedDelivery WITH
  Items <- Records, Capacity <- BufferSize,
  offered <- {r \in Records : request[r] = "logged"}, refused <- dropped,
  queued <- Range(ch), held <- Range(batch),
  reported <- lost, cut <- timedOut, closed <- main = "exited"

\* The log is an accounted delivery: Log refuses a record when the channel itself is
\* full and only then, however large the batch is (store.go:64-76), CopyFrom inserts
\* it once at most, the flusher lets go of it with its row or counted as lost, never
\* before, and only a stop that timed out leaves any behind.
ImplementsDelivery == Delivery!DeliverySpec

------------------------------------------------------------------------------
(* Liveness.                                                                *)

\* An accepted record reaches the table or the loss counter, unless the process
\* ends first.
RecordsSettle ==
  \A r \in Records :
    r \in Range(ch) ~> (r \in Persisted \cup lost \/ main = "exited")

\* SIGTERM ends the process, failing flushes or not.
StopCompletes == main = "stopping" ~> main = "exited"
=============================================================================
