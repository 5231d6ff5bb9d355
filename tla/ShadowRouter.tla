----------------------------- MODULE ShadowRouter -----------------------------
(***************************************************************************)
(* The router process: the routing state behind an atomic pointer          *)
(* (routing/state.go), POST /score and POST /admin/canary                  *)
(* (server/handlers.go), the bounded queue of shadow tasks with its        *)
(* workers (shadow/dispatcher.go), the shadow_comparisons rows they insert *)
(* (canary/decisions.go), and the shutdown order (cmd/server/main.go).     *)
(***************************************************************************)
EXTENDS Integers, Sequences, FiniteSets, Functions

CONSTANTS
  Requests,    \* score requests
  Admins,      \* clients of POST /admin/canary: the evaluator, operators
  Workers,     \* SHADOW_WORKERS (4)
  BufferSize,  \* SHADOW_BUFFER_SIZE (256)
  Bodies,      \* decoded bodies of POST /admin/canary, invalid ones too
  Initial,     \* the state at start: INITIAL_CANARY_PERCENT, INITIAL_SHADOW_PERCENT
  Draws,       \* rand.Float64() * 100, rounded down
  Nil

ASSUME RouterAssumption ==
  /\ Workers # {} /\ Nil \notin Requests
  /\ BufferSize \in Nat \ {0}
  /\ Bodies \subseteq [enabled : BOOLEAN, percent : Int, shadow : Int]
  /\ Initial \in [enabled : {FALSE}, percent : 0..100, shadow : 0..100]
  /\ Draws \subseteq 0..99

VARIABLES
  state,    \* AtomicState: one immutable routing.State
  gauge,    \* router_canary_traffic_percent
  admin,    \* Admins -> the percentage whose gauge is still to be set, or Nil
  request,  \* Requests -> where its handler is
  live,     \* Requests -> the upstream that answers it
  draw,     \* Requests -> its random number
  doShadow, \* Requests -> Decide wants it shadowed
  ch,       \* Dispatcher.ch
  worker,   \* Workers -> which select the worker is in
  task,     \* Workers -> the task it executes, or Nil
  scored,   \* workers whose challenger call has answered
  rows,     \* Requests -> rows of shadow_comparisons for it
  dropped,  \* requests Dispatch refused
  missed,   \* tasks that ended in a challenger or an insert error
  done,     \* Dispatcher.done is closed
  main,     \* where main is in its shutdown
  timedOut  \* srv.Shutdown gave up after 15 s

adminVars == <<state, gauge, admin>>
requestVars == <<request, live, draw, doShadow>>
workerVars == <<worker, task, scored>>
resultVars == <<rows, missed>>
vars == <<adminVars, requestVars, ch, workerVars, resultVars, dropped, done, main, timedOut>>

States == [enabled : BOOLEAN, percent : 0..100, shadow : 0..100]

TypeOK ==
  /\ state \in States
  /\ gauge \in 0..100
  /\ admin \in [Admins -> 0..100 \cup {Nil}]
  /\ request \in [Requests -> {"none", "calling", "answered", "refused", "finished"}]
  /\ live \in [Requests -> {"champion", "challenger"}]
  /\ draw \in [Requests -> 0..99]
  /\ doShadow \in [Requests -> BOOLEAN]
  /\ ch \in Seq(Requests) /\ Len(ch) <= BufferSize
  /\ worker \in [Workers -> {"receiving", "draining", "exited"}]
  /\ task \in [Workers -> Requests \cup {Nil}]
  /\ scored \subseteq {w \in Workers : task[w] # Nil}
  /\ rows \in [Requests -> Nat]
  /\ dropped \subseteq Requests /\ missed \subseteq Requests
  /\ done \in BOOLEAN
  /\ main \in {"serving", "stopping", "closing", "waiting", "exited"}
  /\ timedOut \in BOOLEAN

Init ==
  /\ state = Initial
  /\ gauge = 0
  /\ admin = [a \in Admins |-> Nil]
  /\ request = [r \in Requests |-> "none"]
  /\ live = [r \in Requests |-> "champion"]
  /\ draw = [r \in Requests |-> 0]
  /\ doShadow = [r \in Requests |-> FALSE]
  /\ ch = << >>
  /\ worker = [w \in Workers |-> "receiving"]
  /\ task = [w \in Workers |-> Nil]
  /\ scored = {}
  /\ rows = [r \in Requests |-> 0]
  /\ dropped = {} /\ missed = {}
  /\ done = FALSE
  /\ main = "serving" /\ timedOut = FALSE

Up == main # "exited"

------------------------------------------------------------------------------
(* POST /admin/canary.                                                      *)

\* Mutant: the percentages are not checked.
AcceptableUnchecked(st) == st.enabled => st.shadow = 0

Acceptable(st) ==
  /\ st.percent \in 0..100 /\ st.shadow \in 0..100
  /\ st.enabled => st.shadow = 0

\* The new state is stored in one write; the gauge is set afterwards.
StoreState(a) ==
  /\ main = "serving" /\ admin[a] = Nil
  /\ \E st \in Bodies :
       /\ Acceptable(st)
       /\ state' = st
       /\ admin' = [admin EXCEPT ![a] = st.percent]
  /\ UNCHANGED <<gauge, requestVars, ch, workerVars, resultVars, dropped, done, main, timedOut>>

SetGauge(a) ==
  /\ Up /\ admin[a] # Nil
  /\ gauge' = admin[a]
  /\ admin' = [admin EXCEPT ![a] = Nil]
  /\ UNCHANGED <<state, requestVars, ch, workerVars, resultVars, dropped, done, main, timedOut>>

------------------------------------------------------------------------------
(* POST /score.                                                             *)

\* routing.Decide: one draw decides both who answers and whether to shadow.
ToChallenger(st, d) == st.enabled /\ d < st.percent
Shadowed(st, d) == ~st.enabled /\ st.shadow > 0 /\ d < st.shadow

\* One Load of the state decides; the upstream call starts.
ReceiveScore(r) ==
  /\ main = "serving" /\ request[r] = "none"
  /\ \E d \in Draws :
       /\ draw' = [draw EXCEPT ![r] = d]
       /\ live' = [live EXCEPT ![r] =
                     IF ToChallenger(state, d) THEN "challenger" ELSE "champion"]
       /\ doShadow' = [doShadow EXCEPT ![r] = Shadowed(state, d)]
  /\ request' = [request EXCEPT ![r] = "calling"]
  /\ UNCHANGED <<adminVars, ch, workerVars, resultVars, dropped, done, main, timedOut>>

RequestMoves(r, to) ==
  /\ request' = [request EXCEPT ![r] = to]
  /\ UNCHANGED <<adminVars, live, draw, doShadow, workerVars, resultVars, done, main, timedOut>>

\* An error or the 500 ms timeout answers 503, and nothing is shadowed.
UpstreamFails(r) ==
  /\ Up /\ request[r] = "calling"
  /\ RequestMoves(r, "refused") /\ UNCHANGED <<ch, dropped>>

UpstreamAnswers(r) ==
  /\ Up /\ request[r] = "calling"
  /\ RequestMoves(r, "answered") /\ UNCHANGED <<ch, dropped>>

\* Mutant: a full queue makes room by forgetting its oldest task.
DispatchEvicting(r) ==
  /\ ch' = IF Len(ch) < BufferSize THEN Append(ch, r) ELSE Append(Tail(ch), r)
  /\ UNCHANGED dropped

\* Mutant: tasks in the workers' hands count against the queue's room.
DispatchCountingHands(r) ==
  IF Len(ch) + Cardinality({w \in Workers : task[w] # Nil}) < BufferSize
  THEN ch' = Append(ch, r) /\ UNCHANGED dropped
  ELSE dropped' = dropped \cup {r} /\ UNCHANGED ch

\* Dispatcher.Dispatch never blocks: it queues the task or drops it.
Dispatch(r) ==
  IF Len(ch) < BufferSize
  THEN ch' = Append(ch, r) /\ UNCHANGED dropped
  ELSE dropped' = dropped \cup {r} /\ UNCHANGED ch

\* Mutant: the dispatch is decided on the state of the moment of the answer.
RespondLate(r) ==
  /\ Up /\ request[r] = "answered"
  /\ IF Shadowed(state, draw[r]) THEN Dispatch(r) ELSE UNCHANGED <<ch, dropped>>
  /\ RequestMoves(r, "finished")

Respond(r) ==
  /\ Up /\ request[r] = "answered"
  /\ IF doShadow[r] THEN Dispatch(r) ELSE UNCHANGED <<ch, dropped>>
  /\ RequestMoves(r, "finished")

------------------------------------------------------------------------------
(* The shadow workers.                                                      *)

Idle(w, in) == Up /\ worker[w] = in /\ task[w] = Nil

\* Either select receives a task; the first may do so after done is closed.
TakeTask(w) ==
  /\ Up /\ worker[w] # "exited" /\ task[w] = Nil
  /\ ch # << >>
  /\ task' = [task EXCEPT ![w] = Head(ch)]
  /\ ch' = Tail(ch)
  /\ UNCHANGED <<adminVars, requestVars, worker, scored, resultVars, dropped, done, main, timedOut>>

\* Mutant: done ends the worker at once.
SeeDoneAndExit(w) ==
  /\ Idle(w, "receiving") /\ done
  /\ worker' = [worker EXCEPT ![w] = "exited"]
  /\ UNCHANGED <<adminVars, requestVars, ch, task, scored, resultVars, dropped, done, main, timedOut>>

SeeDone(w) ==
  /\ Idle(w, "receiving") /\ done
  /\ worker' = [worker EXCEPT ![w] = "draining"]
  /\ UNCHANGED <<adminVars, requestVars, ch, task, scored, resultVars, dropped, done, main, timedOut>>

\* Mutant: the drain loop has no default case.
KeepDraining(w) ==
  /\ Idle(w, "draining") /\ ch = << >>
  /\ UNCHANGED vars

DrainedExit(w) ==
  /\ Idle(w, "draining") /\ ch = << >>
  /\ worker' = [worker EXCEPT ![w] = "exited"]
  /\ UNCHANGED <<adminVars, requestVars, ch, task, scored, resultVars, dropped, done, main, timedOut>>

\* The task leaves the worker, which returns to its select.
TaskEnds(w) ==
  /\ task' = [task EXCEPT ![w] = Nil]
  /\ scored' = scored \ {w}
  /\ UNCHANGED <<adminVars, requestVars, ch, worker, dropped, done, main, timedOut>>

\* Mutant: a failing task ends its worker.
ChallengerFailsWorker(w) ==
  /\ Up /\ task[w] # Nil /\ w \notin scored
  /\ missed' = missed \cup {task[w]}
  /\ worker' = [worker EXCEPT ![w] = "exited"]
  /\ task' = [task EXCEPT ![w] = Nil]
  /\ UNCHANGED <<adminVars, requestVars, ch, scored, rows, dropped, done, main, timedOut>>

ChallengerFails(w) ==
  /\ Up /\ task[w] # Nil /\ w \notin scored
  /\ missed' = missed \cup {task[w]}
  /\ UNCHANGED rows
  /\ TaskEnds(w)

ChallengerAnswers(w) ==
  /\ Up /\ task[w] # Nil /\ w \notin scored
  /\ scored' = scored \cup {w}
  /\ UNCHANGED <<adminVars, requestVars, ch, worker, task, resultVars, dropped, done, main, timedOut>>

\* OnComplete: one INSERT, not retried.
InsertComparison(w) ==
  /\ Up /\ w \in scored
  /\ rows' = [rows EXCEPT ![task[w]] = @ + 1]
  /\ UNCHANGED missed
  /\ TaskEnds(w)

\* The error is counted. The row may be there: the commit's answer was lost.
InsertFails(w) ==
  /\ Up /\ w \in scored
  /\ \/ UNCHANGED rows
     \/ rows' = [rows EXCEPT ![task[w]] = @ + 1]
  /\ missed' = missed \cup {task[w]}
  /\ TaskEnds(w)

Work(w) ==
  \/ TakeTask(w) \/ SeeDone(w) \/ DrainedExit(w)
  \/ ChallengerFails(w) \/ ChallengerAnswers(w)
  \/ InsertComparison(w) \/ InsertFails(w)

------------------------------------------------------------------------------
(* main: srv.Shutdown, dispatcher.Shutdown, db.Close.                       *)

MainMoves(to) ==
  main' = to /\ UNCHANGED <<adminVars, requestVars, ch, workerVars, resultVars, dropped>>

Sigterm ==
  /\ main = "serving"
  /\ MainMoves("stopping") /\ UNCHANGED <<done, timedOut>>

Handling == {r \in Requests : request[r] \in {"calling", "answered"}}

\* srv.Shutdown returns when no handler runs, or after 15 s.
HttpShutdown ==
  /\ main = "stopping"
  /\ timedOut' = (Handling # {} \/ \E a \in Admins : admin[a] # Nil)
  /\ MainMoves("closing") /\ UNCHANGED done

CloseDone ==
  /\ main = "closing"
  /\ done' = TRUE
  /\ MainMoves("waiting") /\ UNCHANGED timedOut

Exit ==
  /\ main = "waiting"
  /\ \A w \in Workers : worker[w] = "exited"
  /\ MainMoves("exited") /\ UNCHANGED <<done, timedOut>>

Shutdown == HttpShutdown \/ CloseDone \/ Exit

Handle(r) == UpstreamFails(r) \/ UpstreamAnswers(r) \/ Respond(r)

Next ==
  \/ \E a \in Admins : StoreState(a) \/ SetGauge(a)
  \/ \E r \in Requests : ReceiveScore(r) \/ Handle(r)
  \/ \E w \in Workers : Work(w)
  \/ Sigterm \/ Shutdown

Spec == Init /\ [][Next]_vars

\* Goroutines are scheduled; upstream calls and inserts time out. Requests,
\* admin calls and SIGTERM need not come.
FairSpec ==
  /\ Spec
  /\ \A r \in Requests : WF_vars(Handle(r))
  /\ \A w \in Workers : WF_vars(Work(w))
  /\ \A a \in Admins : WF_vars(SetGauge(a))
  /\ WF_vars(Shutdown)

------------------------------------------------------------------------------
(* Safety.                                                                  *)

InHand == {task[w] : w \in Workers} \ {Nil}
Compared == {r \in Requests : rows[r] > 0}
Accepted == {r \in Requests : request[r] = "finished" /\ doShadow[r]} \ dropped

\* A comparison sets a champion's answer against the challenger's, however the
\* routing state changes between the decision, the answer and the dispatch: no
\* request answered by the challenger, or refused, is queued, executed or
\* compared (handlers.go:66-130).
ComparisonsAreOfChampion ==
  \A r \in Range(ch) \cup InHand \cup Compared :
    request[r] = "finished" /\ live[r] = "champion"

\* A request has at most one row in shadow_comparisons, with several workers on
\* one queue and inserts whose commit succeeds while their answer is lost: the
\* table's key holds the time of the insert and would not refuse a second one
\* (dispatcher.go:82-94, 006_shadow_comparisons_table.sql:10).
ComparedOnce == \A r \in Requests : rows[r] <= 1

\* A task Dispatch accepted is in the queue, in one worker's hands, compared, or
\* ended in an error that is logged or counted; one it dropped never runs
\* (dispatcher.go:41-51).
AcceptedIsAccountedFor ==
  /\ Accepted \subseteq Range(ch) \cup InHand \cup Compared \cup missed
  /\ dropped \cap (Range(ch) \cup InHand \cup Compared \cup missed) = {}

\* When no handler outlives srv.Shutdown, the process exits with no task left:
\* "Drain buffered tasks before exiting so in-flight shadow calls aren't
\* silently dropped" (dispatcher.go:69).
OrderlyStopDrains ==
  main = "exited" /\ ~timedOut => ch = << >> /\ InHand = {}

------------------------------------------------------------------------------
(* Refinement.                                                              *)

Delivery == INSTANCE AccountedDelivery WITH
  Items <- Requests, Capacity <- BufferSize,
  offered <- {r \in Requests : request[r] = "finished" /\ doShadow[r]}, refused <- dropped,
  queued <- Range(ch), held <- InHand, reported <- missed, cut <- timedOut,
  closed <- main = "exited"

\* The shadow queue is an accounted delivery: Dispatch drops a task when the queue
\* itself is full and only then, however busy the workers are (dispatcher.go:41-51),
\* one worker executes it, with one row at most, it ends with its row or in an
\* error, and only a stop that timed out leaves any behind.
ImplementsDelivery == Delivery!DeliverySpec

------------------------------------------------------------------------------
(* Liveness.                                                                *)

\* A queued task is compared or ends in an error, unless the process ends first.
TasksSettle ==
  \A r \in Requests : r \in Range(ch) ~> (r \in Compared \cup missed \/ main = "exited")

\* SIGTERM ends the process: the workers see done and find the queue empty.
StopCompletes == main = "stopping" ~> main = "exited"
=============================================================================
