-------------------------- MODULE ShadowRouter_proof --------------------------
(* Proofs about ShadowRouter, for all requests, workers, admin bodies, draws  *)
(* and queue sizes.                                                           *)
EXTENDS ShadowRouter, ChannelLemmas

------------------------------------------------------------------------------
(* The inductive invariant.                                                 *)

\* Requests whose task sits in the queue or in a worker's hands.
Waiting == Range(ch) \cup InHand

\* A task is in one place: once in the queue, or in the hands of one worker.
InOnePlace ==
  /\ IsInjective(ch)
  /\ Range(ch) \cap InHand = {}
  /\ \A v, w \in Workers : task[v] # Nil /\ task[v] = task[w] => v = w

\* A task exists only for a finished request that was to be shadowed; it has no
\* row while it waits, and leaves a row or a miss behind when it is over.
Dispatched ==
  /\ \A r \in Waiting \cup Compared \cup missed \cup dropped :
       request[r] = "finished" /\ doShadow[r]
  /\ Waiting \cap (Compared \cup missed) = {}
  /\ \A r \in Requests : doShadow[r] => live[r] = "champion"

\* What main and the workers know of each other during the shutdown.
Ordered ==
  /\ main \in {"closing", "waiting", "exited"} /\ ~timedOut => Handling = {}
  /\ done => main \in {"waiting", "exited"}
  /\ \A w \in Workers : worker[w] # "receiving" => done
  /\ \A w \in Workers : worker[w] = "exited" => task[w] = Nil
  /\ \A w \in Workers : worker[w] = "exited" /\ ~timedOut => ch = << >>
  /\ main = "exited" => \A w \in Workers : worker[w] = "exited"

Inv ==
  /\ TypeOK /\ ComparedOnce /\ AcceptedIsAccountedFor
  /\ InOnePlace /\ Dispatched /\ Ordered

LEMMA InitInv ==
  ASSUME Init
  PROVE  Inv
<1> USE DEF Init
<1>1. TypeOK
  <2>1. << >> \in Seq(Requests) /\ Len(<< >>) <= BufferSize
    BY RouterAssumption DEF RouterAssumption
  <2>2. state \in States
    BY RouterAssumption DEF RouterAssumption, States
  <2>3. scored \subseteq {w \in Workers : task[w] # Nil}
    OBVIOUS
  <2>4. gauge \in 0..100 /\ admin \in [Admins -> 0..100 \cup {Nil}]
    OBVIOUS
  <2>5. draw \in [Requests -> 0..99] /\ rows \in [Requests -> Nat]
    OBVIOUS
  <2>6. QED
    BY <2>1, <2>2, <2>3, <2>4, <2>5 DEF TypeOK
<1>2. Range(ch) = {} /\ InHand = {} /\ Compared = {} /\ IsInjective(ch)
  BY EmptyRange DEF InHand, Compared
<1>3. ComparedOnce /\ AcceptedIsAccountedFor /\ InOnePlace /\ Dispatched
  BY <1>2 DEF ComparedOnce, AcceptedIsAccountedFor, Accepted, InOnePlace, Dispatched, Waiting
<1>4. Ordered
  BY DEF Ordered
<1>5. QED
  BY <1>1, <1>3, <1>4 DEF Inv

------------------------------------------------------------------------------
(* Steps of the admin API, of main, and of requests before they dispatch.   *)

\* A body that is accepted is a routing state.
LEMMA AdminStep ==
  ASSUME Inv, NEW a \in Admins, StoreState(a) \/ SetGauge(a)
  PROVE  Inv'
<1> USE DEF Inv
<1>1. UNCHANGED <<requestVars, ch, workerVars, resultVars, dropped, done, main, timedOut>>
  BY DEF StoreState, SetGauge
<1>2. state' \in States /\ gauge' \in 0..100 /\ admin' \in [Admins -> 0..100 \cup {Nil}]
  <2>1. CASE StoreState(a)
    <3>1. PICK st \in Bodies : /\ Acceptable(st) /\ state' = st
                               /\ admin' = [admin EXCEPT ![a] = st.percent]
      BY <2>1 DEF StoreState
    <3>2. st.percent \in 0..100 /\ st \in States
      <4>1. st \in [enabled : BOOLEAN, percent : Int, shadow : Int]
        BY RouterAssumption DEF RouterAssumption
      <4>2. st.percent \in 0..100 /\ st.shadow \in 0..100
        BY <3>1 DEF Acceptable
      <4>3. QED
        BY <4>1, <4>2 DEF States
    <3>3. QED
      BY <2>1, <3>1, <3>2 DEF StoreState, TypeOK
  <2>2. CASE SetGauge(a)
    <3>1. /\ state \in States /\ admin \in [Admins -> 0..100 \cup {Nil}] /\ admin[a] # Nil
          /\ state' = state /\ gauge' = admin[a] /\ admin' = [admin EXCEPT ![a] = Nil]
      BY <2>2 DEF SetGauge, TypeOK
    <3>2. admin[a] \in 0..100 \cup {Nil}
      BY <3>1
    <3>3. QED
      BY <3>1, <3>2
  <2>3. QED
    BY <2>1, <2>2
<1>3. TypeOK'
  BY <1>1, <1>2 DEF TypeOK, requestVars, workerVars, resultVars
<1>4. /\ InHand' = InHand /\ Compared' = Compared /\ Accepted' = Accepted
      /\ Waiting' = Waiting /\ Handling' = Handling
  BY <1>1 DEF InHand, Compared, Accepted, Waiting, Handling, requestVars, workerVars, resultVars
<1>5. ComparedOnce' /\ AcceptedIsAccountedFor' /\ InOnePlace' /\ Dispatched'
  BY <1>1, <1>4
  DEF ComparedOnce, AcceptedIsAccountedFor, InOnePlace, Dispatched,
      requestVars, workerVars, resultVars
<1>6. Ordered'
  BY <1>1, <1>4 DEF Ordered, workerVars
<1>7. QED
  BY <1>3, <1>5, <1>6

LEMMA MainStep ==
  ASSUME Inv, Sigterm \/ Shutdown
  PROVE  Inv'
<1> USE DEF Inv
<1>1. UNCHANGED <<adminVars, requestVars, ch, workerVars, resultVars, dropped>>
  BY DEF Sigterm, Shutdown, HttpShutdown, CloseDone, Exit, MainMoves
<1>2. /\ done' \in BOOLEAN /\ timedOut' \in BOOLEAN
      /\ main' \in {"serving", "stopping", "closing", "waiting", "exited"}
  BY DEF Sigterm, Shutdown, HttpShutdown, CloseDone, Exit, MainMoves, TypeOK
<1>3. TypeOK'
  BY <1>1, <1>2 DEF TypeOK, adminVars, requestVars, workerVars, resultVars
<1>4. /\ InHand' = InHand /\ Compared' = Compared /\ Accepted' = Accepted
      /\ Waiting' = Waiting /\ Handling' = Handling
  BY <1>1 DEF InHand, Compared, Accepted, Waiting, Handling, requestVars, workerVars, resultVars
<1>5. ComparedOnce' /\ AcceptedIsAccountedFor' /\ InOnePlace' /\ Dispatched'
  BY <1>1, <1>4
  DEF ComparedOnce, AcceptedIsAccountedFor, InOnePlace, Dispatched,
      requestVars, workerVars, resultVars
<1>6. Ordered'
  <2>1. worker' = worker /\ task' = task /\ ch' = ch
    BY <1>1 DEF workerVars
  <2>2. CASE Sigterm
    BY <1>4, <2>1, <2>2 DEF Sigterm, MainMoves, Ordered
  <2>3. CASE HttpShutdown
    BY <1>4, <2>1, <2>3 DEF HttpShutdown, MainMoves, Ordered
  <2>4. CASE CloseDone
    BY <1>4, <2>1, <2>4 DEF CloseDone, MainMoves, Ordered
  <2>5. CASE Exit
    BY <1>4, <2>1, <2>5 DEF Exit, MainMoves, Ordered
  <2>6. QED
    BY <2>2, <2>3, <2>4, <2>5 DEF Shutdown
<1>7. QED
  BY <1>3, <1>5, <1>6

\* Only a champion's answer is to be shadowed: Decide never asks for both.
LEMMA CallStep ==
  ASSUME Inv, NEW r \in Requests,
         ReceiveScore(r) \/ UpstreamFails(r) \/ UpstreamAnswers(r)
  PROVE  Inv'
<1> USE DEF Inv
<1>1. /\ UNCHANGED <<adminVars, ch, workerVars, resultVars, dropped, done, main, timedOut>>
      /\ request[r] \in {"none", "calling"}
      /\ request' \in [Requests -> {"none", "calling", "answered", "refused", "finished"}]
      /\ \A q \in Requests : request'[q] = "finished" <=> request[q] = "finished"
  BY DEF ReceiveScore, UpstreamFails, UpstreamAnswers, RequestMoves, TypeOK
<1>2. /\ live' \in [Requests -> {"champion", "challenger"}]
      /\ draw' \in [Requests -> 0..99]
      /\ doShadow' \in [Requests -> BOOLEAN]
      /\ \A q \in Requests \ {r} : doShadow'[q] = doShadow[q] /\ live'[q] = live[q]
      /\ doShadow'[r] => live'[r] = "champion"
  <2>1. CASE ReceiveScore(r)
    <3>1. PICK d \in Draws :
            /\ draw' = [draw EXCEPT ![r] = d]
            /\ live' = [live EXCEPT ![r] =
                          IF ToChallenger(state, d) THEN "challenger" ELSE "champion"]
            /\ doShadow' = [doShadow EXCEPT ![r] = Shadowed(state, d)]
      BY <2>1 DEF ReceiveScore
    <3>2. d \in 0..99
      BY RouterAssumption DEF RouterAssumption
    <3>3. Shadowed(state, d) \in BOOLEAN
      BY DEF Shadowed
    <3>4. Shadowed(state, d) => ~ToChallenger(state, d)
      BY DEF Shadowed, ToChallenger
    <3>5. QED
      BY <3>1, <3>2, <3>3, <3>4 DEF TypeOK
  <2>2. CASE UpstreamFails(r) \/ UpstreamAnswers(r)
    BY <2>2 DEF UpstreamFails, UpstreamAnswers, RequestMoves, TypeOK, Dispatched
  <2>3. QED
    BY <2>1, <2>2
<1>3. TypeOK'
  BY <1>1, <1>2 DEF TypeOK, adminVars, workerVars, resultVars
<1>4. InHand' = InHand /\ Compared' = Compared /\ Waiting' = Waiting
  BY <1>1 DEF InHand, Compared, Waiting, workerVars, resultVars
<1>5. Accepted' = Accepted
  BY <1>1, <1>2 DEF Accepted
<1>6. ComparedOnce' /\ AcceptedIsAccountedFor' /\ InOnePlace'
  BY <1>1, <1>4, <1>5
  DEF ComparedOnce, AcceptedIsAccountedFor, InOnePlace, workerVars, resultVars
<1>7. Dispatched'
  <2>1. \A q \in Waiting \cup Compared \cup missed \cup dropped : q \in Requests /\ q # r
    <3>1. Range(ch) \subseteq Requests /\ InHand \subseteq Requests
      BY DEF TypeOK, Range, InHand
    <3>2. QED
      BY <1>1, <3>1 DEF Dispatched, Waiting, Compared, TypeOK
  <2>2. missed' = missed /\ dropped' = dropped
    BY <1>1 DEF resultVars
  <2>3. \A q \in Requests : doShadow'[q] => live'[q] = "champion"
    BY <1>2 DEF Dispatched
  <2>4. QED
    BY <1>1, <1>2, <1>4, <2>1, <2>2, <2>3 DEF Dispatched
<1>8. Ordered'
  <2>1. worker' = worker /\ task' = task /\ ch' = ch
    BY <1>1 DEF workerVars
  <2>2. Handling' = Handling \/ main = "serving" \/ (r \in Handling /\ Handling' \subseteq Handling)
    BY DEF Handling, ReceiveScore, UpstreamFails, UpstreamAnswers, RequestMoves, TypeOK
  <2>3. QED
    BY <1>1, <2>1, <2>2 DEF Ordered
<1>9. QED
  BY <1>3, <1>6, <1>7, <1>8

\* Dispatch queues a task that is nowhere yet, or counts it as dropped.
LEMMA RespondStep ==
  ASSUME Inv, NEW r \in Requests, Respond(r)
  PROVE  Inv'
<1> USE DEF Inv
<1>1. /\ UNCHANGED <<adminVars, live, draw, doShadow, workerVars, resultVars, done, main, timedOut>>
      /\ request[r] = "answered" /\ request' = [request EXCEPT ![r] = "finished"]
      /\ Up
  BY DEF Respond, RequestMoves
<1>2. r \notin Waiting \cup Compared \cup missed \cup dropped
  BY <1>1 DEF Dispatched
<1>3. \/ /\ doShadow[r] /\ dropped' = dropped
         /\ ch' \in Seq(Requests) /\ Len(ch') <= BufferSize
         /\ Range(ch') = Range(ch) \cup {r} /\ IsInjective(ch')
      \/ doShadow[r] /\ ch' = ch /\ dropped' = dropped \cup {r}
      \/ ~doShadow[r] /\ ch' = ch /\ dropped' = dropped
  <2>1. CASE doShadow[r] /\ Len(ch) < BufferSize
    <3>1. ch' = Append(ch, r) /\ dropped' = dropped
      BY <2>1 DEF Respond, Dispatch
    <3>2. ch \in Seq(Requests) /\ IsInjective(ch) /\ r \notin Range(ch)
      BY <1>2 DEF TypeOK, InOnePlace, Waiting
    <3>3. BufferSize \in Nat
      BY RouterAssumption DEF RouterAssumption
    <3>4. Len(ch') = Len(ch) + 1 /\ Len(ch') <= BufferSize
      BY <2>1, <3>1, <3>2, <3>3, AppendedRange
    <3>5. QED
      BY <2>1, <3>1, <3>2, <3>4, AppendedRange
  <2>2. CASE doShadow[r] /\ ~(Len(ch) < BufferSize)
    BY <2>2 DEF Respond, Dispatch
  <2>3. CASE ~doShadow[r]
    BY <2>3 DEF Respond
  <2>4. QED
    BY <2>1, <2>2, <2>3
<1>4. \A q \in Requests : request'[q] = IF q = r THEN "finished" ELSE request[q]
  BY <1>1 DEF TypeOK
<1>5. TypeOK'
  <2>1. request' \in [Requests -> {"none", "calling", "answered", "refused", "finished"}]
    BY <1>1 DEF TypeOK
  <2>2. ch' \in Seq(Requests) /\ Len(ch') <= BufferSize /\ dropped' \subseteq Requests
    BY <1>3 DEF TypeOK
  <2>3. QED
    BY <1>1, <2>1, <2>2 DEF TypeOK, adminVars, workerVars, resultVars
<1>6. InHand' = InHand /\ Compared' = Compared /\ missed' = missed
  BY <1>1 DEF InHand, Compared, workerVars, resultVars
<1>7. ComparedOnce'
  BY <1>1 DEF ComparedOnce, resultVars
<1>8. AcceptedIsAccountedFor'
  <2>1. Accepted' \subseteq Accepted \cup (IF doShadow[r] THEN {r} ELSE {})
    BY <1>1, <1>3, <1>4 DEF Accepted
  <2>2. r \notin Range(ch) \cup InHand \cup Compared \cup missed \cup dropped
    BY <1>2 DEF Waiting
  <2>3. Accepted' \subseteq (Range(ch) \cup InHand \cup Compared \cup missed)'
    <3>1. r \in Accepted' => r \in Range(ch')
      BY <1>3, <1>1 DEF Accepted
    <3>2. Range(ch) \subseteq Range(ch')
      BY <1>3
    <3>3. QED
      BY <1>6, <2>1, <3>1, <3>2 DEF AcceptedIsAccountedFor
  <2>4. (dropped \cap (Range(ch) \cup InHand \cup Compared \cup missed))' = {}
    BY <1>3, <1>6, <2>2 DEF AcceptedIsAccountedFor
  <2>5. QED
    BY <2>3, <2>4 DEF AcceptedIsAccountedFor
<1>9. InOnePlace'
  <2>1. task' = task
    BY <1>1 DEF workerVars
  <2>2. IsInjective(ch')
    BY <1>3 DEF InOnePlace
  <2>3. Range(ch') \cap InHand' = {}
    BY <1>2, <1>3, <1>6 DEF InOnePlace, Waiting
  <2>4. QED
    BY <2>1, <2>2, <2>3 DEF InOnePlace
<1>10. Dispatched'
  <2>1. Waiting' = Waiting \/ (doShadow[r] /\ Waiting' = Waiting \cup {r})
    BY <1>3, <1>6 DEF Waiting
  <2>2. dropped' = dropped \/ (doShadow[r] /\ dropped' = dropped \cup {r})
    BY <1>3
  <2>3. doShadow' = doShadow /\ live' = live
    BY <1>1
  <2>4. \A q \in (Waiting \cup Compared \cup missed \cup dropped)' :
          request'[q] = "finished" /\ doShadow'[q]
    <3> SUFFICES ASSUME NEW q \in (Waiting \cup Compared \cup missed \cup dropped)'
                 PROVE  request'[q] = "finished" /\ doShadow'[q]
      OBVIOUS
    <3>1. CASE q = r
      BY <1>2, <1>4, <1>6, <2>1, <2>2, <2>3, <3>1
    <3>2. CASE q # r
      <4>1. q \in Waiting \cup Compared \cup missed \cup dropped
        BY <1>6, <2>1, <2>2, <3>2
      <4>2. request'[q] = request[q]
        BY <1>1, <3>2 DEF TypeOK
      <4>3. QED
        BY <2>3, <4>1, <4>2 DEF Dispatched
    <3>3. QED
      BY <3>1, <3>2
  <2>5. QED
    BY <1>2, <1>6, <2>1, <2>3, <2>4 DEF Dispatched
<1>11. Ordered'
  <2>1. worker' = worker /\ task' = task
    BY <1>1 DEF workerVars
  <2>2. r \in Handling /\ Handling' \subseteq Handling
    BY <1>1, <1>4 DEF Handling
  <2>3. ~(done /\ ~timedOut)
    BY <2>2 DEF Ordered
  <2>4. QED
    BY <1>1, <2>1, <2>2, <2>3 DEF Ordered
<1>12. QED
  BY <1>5, <1>7, <1>8, <1>9, <1>10, <1>11

------------------------------------------------------------------------------
(* Steps of the workers.                                                    *)

\* A task moves from the queue into the hands of one worker.
LEMMA TakeStep ==
  ASSUME Inv, NEW w \in Workers, TakeTask(w)
  PROVE  Inv'
<1> USE DEF Inv
<1> DEFINE h == Head(ch)
<1>1. /\ UNCHANGED <<adminVars, requestVars, worker, scored, resultVars, dropped, done, main, timedOut>>
      /\ worker[w] # "exited" /\ task[w] = Nil /\ ch # << >>
      /\ task' = [task EXCEPT ![w] = h] /\ ch' = Tail(ch)
  BY DEF TakeTask
<1>2. /\ h \in Requests /\ ch' \in Seq(Requests) /\ Len(ch') = Len(ch) - 1
      /\ Range(ch) = {h} \cup Range(ch')
      /\ IsInjective(ch') /\ h \notin Range(ch')
  BY <1>1, ReceivedRange DEF TypeOK, InOnePlace
<1> HIDE DEF h
<1>3. Nil \notin Requests /\ h # Nil
  BY <1>2, RouterAssumption DEF RouterAssumption
<1>4. task' \in [Workers -> Requests \cup {Nil}]
      /\ \A v \in Workers : task'[v] = IF v = w THEN h ELSE task[v]
  BY <1>1, <1>2 DEF TypeOK
<1>5. InHand' = InHand \cup {h} /\ h \notin InHand
  <2>1. InHand' = InHand \cup {h}
    BY <1>1, <1>3, <1>4 DEF InHand
  <2>2. QED
    BY <1>2, <2>1 DEF InOnePlace
<1>6. Waiting' = Waiting /\ Compared' = Compared /\ Accepted' = Accepted
      /\ (Range(ch) \cup InHand \cup Compared \cup missed)'
           = Range(ch) \cup InHand \cup Compared \cup missed
  BY <1>1, <1>2, <1>5 DEF Waiting, Compared, Accepted, requestVars, resultVars
<1>7. TypeOK'
  <2>1. Len(ch') <= BufferSize
    BY <1>1, <1>2, RouterAssumption DEF TypeOK, RouterAssumption
  <2>2. scored \subseteq {v \in Workers : task'[v] # Nil}
    BY <1>1, <1>3, <1>4 DEF TypeOK
  <2>3. QED
    BY <1>1, <1>2, <1>4, <2>1, <2>2 DEF TypeOK, adminVars, requestVars, resultVars
<1>8. ComparedOnce' /\ AcceptedIsAccountedFor' /\ Dispatched'
  BY <1>1, <1>6
  DEF ComparedOnce, AcceptedIsAccountedFor, Dispatched, requestVars, resultVars
<1>9. InOnePlace'
  <2>1. \A v \in Workers : task[v] # h
    BY <1>3, <1>5 DEF InHand
  <2>2. Range(ch') \cap InHand' = {}
    BY <1>2, <1>5 DEF InOnePlace
  <2>3. \A v, x \in Workers : task'[v] # Nil /\ task'[v] = task'[x] => v = x
    BY <1>4, <2>1 DEF InOnePlace
  <2>4. QED
    BY <1>2, <2>2, <2>3 DEF InOnePlace
<1>10. Ordered'
  <2>1. Handling' = Handling
    BY <1>1 DEF Handling, requestVars
  <2>2. \A v \in Workers : worker'[v] = "exited" => task'[v] = Nil
    BY <1>1, <1>4 DEF Ordered
  <2>3. \A v \in Workers : worker'[v] = "exited" /\ ~timedOut => FALSE
    BY <1>1 DEF Ordered
  <2>4. QED
    BY <1>1, <2>1, <2>2, <2>3 DEF Ordered
<1>11. QED
  BY <1>7, <1>8, <1>9, <1>10

\* A worker goes on to drain, ends, or hears from the challenger.
LEMMA WorkerMoves ==
  ASSUME Inv, NEW w \in Workers, SeeDone(w) \/ DrainedExit(w) \/ ChallengerAnswers(w)
  PROVE  Inv'
<1> USE DEF Inv
<1>1. UNCHANGED <<adminVars, requestVars, ch, task, resultVars, dropped, done, main, timedOut>>
  BY DEF SeeDone, DrainedExit, ChallengerAnswers
<1>2. TypeOK'
  <2>1. worker' \in [Workers -> {"receiving", "draining", "exited"}]
    BY DEF SeeDone, DrainedExit, ChallengerAnswers, TypeOK
  <2>2. scored' \subseteq {v \in Workers : task'[v] # Nil}
    BY <1>1 DEF SeeDone, DrainedExit, ChallengerAnswers, TypeOK
  <2>3. QED
    BY <1>1, <2>1, <2>2 DEF TypeOK, adminVars, requestVars, resultVars
<1>3. /\ InHand' = InHand /\ Compared' = Compared /\ Accepted' = Accepted
      /\ Waiting' = Waiting /\ Handling' = Handling
  BY <1>1 DEF InHand, Compared, Accepted, Waiting, Handling, requestVars, resultVars
<1>4. ComparedOnce' /\ AcceptedIsAccountedFor' /\ InOnePlace' /\ Dispatched'
  BY <1>1, <1>3
  DEF ComparedOnce, AcceptedIsAccountedFor, InOnePlace, Dispatched, requestVars, resultVars
<1>5. Ordered'
  <2>1. CASE ChallengerAnswers(w)
    BY <1>1, <1>3, <2>1 DEF ChallengerAnswers, Ordered
  <2>2. CASE SeeDone(w) \/ DrainedExit(w)
    <3>1. /\ task[w] = Nil /\ main # "exited"
          /\ \/ worker' = [worker EXCEPT ![w] = "draining"] /\ done
             \/ /\ worker' = [worker EXCEPT ![w] = "exited"] /\ ch = << >>
                /\ worker[w] = "draining"
      BY <2>2 DEF SeeDone, DrainedExit, Idle, Up
    <3>2. \A v \in Workers \ {w} : worker'[v] = worker[v]
      BY <3>1 DEF TypeOK
    <3>3. done /\ (worker'[w] = "exited" => ch = << >>)
      BY <3>1 DEF Ordered, TypeOK
    <3>4. QED
      BY <1>1, <1>3, <3>1, <3>2, <3>3 DEF Ordered
  <2>3. QED
    BY <2>1, <2>2
<1>6. QED
  BY <1>2, <1>4, <1>5

\* A task ends in a row, in a miss, or - an insert whose answer is lost - in both.
LEMMA EndStep ==
  ASSUME Inv, NEW w \in Workers,
         ChallengerFails(w) \/ InsertComparison(w) \/ InsertFails(w)
  PROVE  Inv'
<1> USE DEF Inv
<1> DEFINE r == task[w]
<1>1. /\ UNCHANGED <<adminVars, requestVars, ch, worker, dropped, done, main, timedOut>>
      /\ task' = [task EXCEPT ![w] = Nil] /\ scored' = scored \ {w}
      /\ r # Nil
  BY DEF ChallengerFails, InsertComparison, InsertFails, TaskEnds, TypeOK
<1>2. r \in Requests /\ r \in InHand
  BY <1>1 DEF TypeOK, InHand
<1> HIDE DEF r
<1>3. rows[r] = 0 /\ rows \in [Requests -> Nat]
  BY <1>2 DEF Dispatched, Waiting, Compared, TypeOK
<1>4. /\ rows' = rows \/ rows' = [rows EXCEPT ![r] = @ + 1]
      /\ missed' = missed \/ missed' = missed \cup {r}
      /\ rows' = [rows EXCEPT ![r] = @ + 1] \/ missed' = missed \cup {r}
  BY DEF ChallengerFails, InsertComparison, InsertFails, r
<1>5. /\ rows' \in [Requests -> Nat] /\ ComparedOnce'
      /\ Compared' \subseteq Compared \cup {r} /\ Compared \subseteq Compared'
      /\ rows' # rows => r \in Compared'
  <2>1. CASE rows' = rows
    BY <1>3, <2>1 DEF ComparedOnce, Compared
  <2>2. CASE rows' = [rows EXCEPT ![r] = @ + 1]
    <3>1. \A q \in Requests : rows'[q] = IF q = r THEN 1 ELSE rows[q]
      BY <1>3, <2>2
    <3>2. QED
      BY <1>2, <1>3, <2>2, <3>1 DEF ComparedOnce, Compared
  <2>3. QED
    BY <1>4, <2>1, <2>2
<1>6. r \in Compared' \cup missed'
  <2>1. CASE rows' = [rows EXCEPT ![r] = @ + 1]
    BY <1>2, <1>3, <2>1 DEF Compared
  <2>2. CASE missed' = missed \cup {r}
    BY <2>2
  <2>3. QED
    BY <1>4, <2>1, <2>2
<1>7. /\ task' \in [Workers -> Requests \cup {Nil}]
      /\ \A v \in Workers : task'[v] = IF v = w THEN Nil ELSE task[v]
  BY <1>1 DEF TypeOK
<1>8. InHand' = InHand \ {r}
  <2>1. \A v \in Workers \ {w} : task[v] # r
    BY <1>1 DEF InOnePlace, r
  <2>2. QED
    BY <1>7, <2>1 DEF InHand, r
<1>9. r \notin Range(ch)
  BY <1>2 DEF InOnePlace
<1>10. TypeOK'
  <2>1. scored' \subseteq {v \in Workers : task'[v] # Nil}
    BY <1>1, <1>7 DEF TypeOK
  <2>2. missed' \subseteq Requests
    BY <1>2, <1>4 DEF TypeOK
  <2>3. QED
    BY <1>1, <1>5, <1>7, <2>1, <2>2 DEF TypeOK, adminVars, requestVars
<1>11. AcceptedIsAccountedFor'
  <2>1. Accepted' = Accepted
    BY <1>1 DEF Accepted, requestVars
  <2>2. (Range(ch) \cup InHand \cup Compared \cup missed)'
          = Range(ch) \cup InHand \cup Compared \cup missed
    BY <1>1, <1>2, <1>4, <1>5, <1>6, <1>8
  <2>3. QED
    BY <1>1, <2>1, <2>2 DEF AcceptedIsAccountedFor
<1>12. InOnePlace'
  BY <1>1, <1>7, <1>8 DEF InOnePlace
<1>13. Dispatched'
  <2>1. /\ Waiting' = Waiting \ {r}
        /\ (Waiting \cup Compared \cup missed \cup dropped)'
             \subseteq Waiting \cup Compared \cup missed \cup dropped
    BY <1>1, <1>2, <1>4, <1>5, <1>8, <1>9 DEF Waiting
  <2>2. request' = request /\ doShadow' = doShadow /\ live' = live
    BY <1>1 DEF requestVars
  <2>3. (Waiting \cap (Compared \cup missed))' = {}
    BY <1>4, <1>5, <2>1 DEF Dispatched
  <2>4. QED
    BY <2>1, <2>2, <2>3 DEF Dispatched
<1>14. Ordered'
  <2>1. Handling' = Handling
    BY <1>1 DEF Handling, requestVars
  <2>2. QED
    BY <1>1, <1>7, <2>1 DEF Ordered
<1>15. QED
  BY <1>5, <1>10, <1>11, <1>12, <1>13, <1>14

------------------------------------------------------------------------------
(* The theorems.                                                            *)

LEMMA StepInv ==
  ASSUME Inv, [Next]_vars
  PROVE  Inv'
<1>1. CASE UNCHANGED vars
  <2>1. /\ UNCHANGED <<state, gauge, admin, request, live, draw, doShadow, ch, worker, task>>
        /\ UNCHANGED <<scored, rows, missed, dropped, done, main, timedOut>>
    BY <1>1 DEF vars, adminVars, requestVars, workerVars, resultVars
  <2>2. /\ InHand' = InHand /\ Compared' = Compared /\ Accepted' = Accepted
        /\ Waiting' = Waiting /\ Handling' = Handling
    BY <2>1 DEF InHand, Compared, Accepted, Waiting, Handling
  <2>3. TypeOK'
    BY <2>1 DEF Inv, TypeOK
  <2>4. QED
    BY <2>1, <2>2, <2>3
    DEF Inv, ComparedOnce, AcceptedIsAccountedFor, InOnePlace, Dispatched, Ordered
<1>2. CASE \E a \in Admins : StoreState(a) \/ SetGauge(a)
  BY <1>2, AdminStep
<1>3. CASE \E r \in Requests : ReceiveScore(r) \/ Handle(r)
  BY <1>3, CallStep, RespondStep DEF Handle
<1>4. CASE \E w \in Workers : Work(w)
  BY <1>4, TakeStep, WorkerMoves, EndStep DEF Work
<1>5. CASE Sigterm \/ Shutdown
  BY <1>5, MainStep
<1>6. QED
  BY <1>1, <1>2, <1>3, <1>4, <1>5 DEF Next

\* Every reachable state satisfies the inductive invariant.
LEMMA AlwaysInv == Spec => []Inv
<1>1. Init => Inv
  BY InitInv
<1>2. Inv /\ [Next]_vars => Inv'
  BY StepInv
<1>3. QED
  BY <1>1, <1>2, PTL DEF Spec

\* The routing state is always one the admin handler accepts, and the queue
\* never exceeds its capacity.
THEOREM RouterTypeCorrect == Spec => []TypeOK
<1>1. Inv => TypeOK
  BY DEF Inv
<1>2. QED
  BY <1>1, AlwaysInv, PTL

\* No answer of the challenger is ever compared with another answer of the
\* challenger, whatever the admins do meanwhile (handlers.go:66-130).
THEOREM OnlyChampionsAreCompared == Spec => []ComparisonsAreOfChampion
<1>1. Inv => ComparisonsAreOfChampion
  <2> SUFFICES ASSUME Inv, NEW r \in Range(ch) \cup InHand \cup Compared
               PROVE  request[r] = "finished" /\ live[r] = "champion"
    BY DEF ComparisonsAreOfChampion
  <2>1. r \in Requests
    BY DEF Inv, TypeOK, Range, InHand, Compared
  <2>2. QED
    BY <2>1 DEF Inv, Dispatched, Waiting
<1>2. QED
  BY <1>1, AlwaysInv, PTL

\* No request gets two rows in shadow_comparisons, with any number of workers
\* and any inserts whose answers are lost (dispatcher.go:58-94).
THEOREM NoDoubleComparison == Spec => []ComparedOnce
<1>1. Inv => ComparedOnce
  BY DEF Inv
<1>2. QED
  BY <1>1, AlwaysInv, PTL

\* No accepted task is forgotten and no dropped one runs (dispatcher.go:41-94).
THEOREM NoTaskForgotten == Spec => []AcceptedIsAccountedFor
<1>1. Inv => AcceptedIsAccountedFor
  BY DEF Inv
<1>2. QED
  BY <1>1, AlwaysInv, PTL

\* When srv.Shutdown does not time out, the process exits with no shadow task
\* queued or in hand (main.go:78-81, dispatcher.go:69-78).
THEOREM OrderlyStopIsComplete == Spec => []OrderlyStopDrains
<1>1. Inv => OrderlyStopDrains
  <2> SUFFICES ASSUME Inv, main = "exited", ~timedOut
               PROVE  ch = << >> /\ InHand = {}
    BY DEF OrderlyStopDrains
  <2>1. \A w \in Workers : worker[w] = "exited" /\ task[w] = Nil
    BY DEF Inv, Ordered
  <2>2. ch = << >>
    BY <2>1, RouterAssumption DEF Inv, Ordered, RouterAssumption
  <2>3. QED
    BY <2>1, <2>2 DEF InHand
<1>2. QED
  BY <1>1, AlwaysInv, PTL
------------------------------------------------------------------------------
(* Refinement.                                                              *)

\* srv.Shutdown is over before it can have timed out.
NotCutYet == main \in {"serving", "stopping"} => ~timedOut

LEMMA CutByShutdown == Spec => []NotCutYet
<1>1. Init => NotCutYet
  BY DEF Init, NotCutYet
<1>2. NotCutYet /\ [Next]_vars => NotCutYet'
  <2> SUFFICES ASSUME NotCutYet, [Next]_vars
               PROVE  NotCutYet'
    OBVIOUS
  <2>1. CASE Sigterm \/ Shutdown
    BY <2>1 DEF NotCutYet, Sigterm, Shutdown, HttpShutdown, CloseDone, Exit, MainMoves
  <2>2. CASE ~(Sigterm \/ Shutdown)
    <3>1. UNCHANGED <<main, timedOut>>
      BY <2>2 DEF Next, StoreState, SetGauge, ReceiveScore, Handle, UpstreamFails,
                  UpstreamAnswers, Respond, RequestMoves, Work, TakeTask, SeeDone,
                  DrainedExit, ChallengerFails, ChallengerAnswers, InsertComparison,
                  InsertFails, TaskEnds, vars
    <3> QED
      BY <3>1 DEF NotCutYet
  <2> QED
    BY <2>1, <2>2
<1> QED
  BY <1>1, <1>2, PTL DEF Spec

Offered == {r \in Requests : request[r] = "finished" /\ doShadow[r]}

\* A step that changes none of these is no step of the abstract queue.
LEMMA Unseen ==
  ASSUME UNCHANGED <<Offered, dropped, ch, InHand, rows, missed, timedOut>>,
         main' = "exited" <=> main = "exited"
  PROVE  UNCHANGED Delivery!deliveryVars
BY DEF Delivery!deliveryVars, Offered

\* Nothing is offered before the answer is out: neither an admin's call nor the
\* way of a request to its answer is seen.
LEMMA CallUnseen ==
  ASSUME Inv,
         \/ \E a \in Admins : StoreState(a) \/ SetGauge(a)
         \/ \E r \in Requests : ReceiveScore(r) \/ UpstreamFails(r) \/ UpstreamAnswers(r)
  PROVE  UNCHANGED Delivery!deliveryVars
<1>1. UNCHANGED <<ch, workerVars, resultVars, dropped, main, timedOut>>
  BY DEF StoreState, SetGauge, ReceiveScore, UpstreamFails, UpstreamAnswers, RequestMoves
<1>2. InHand' = InHand
  BY <1>1 DEF InHand, workerVars
<1>3. Offered' = Offered
  <2>1. CASE \E a \in Admins : StoreState(a) \/ SetGauge(a)
    BY <2>1 DEF StoreState, SetGauge, requestVars, Offered
  <2>2. CASE \E r \in Requests : ReceiveScore(r) \/ UpstreamFails(r) \/ UpstreamAnswers(r)
    <3>1. PICK r \in Requests : ReceiveScore(r) \/ UpstreamFails(r) \/ UpstreamAnswers(r)
      BY <2>2
    <3>2. /\ request[r] # "finished" /\ request'[r] # "finished"
          /\ \A q \in Requests \ {r} : request'[q] = request[q] /\ doShadow'[q] = doShadow[q]
      BY <3>1
      DEF Inv, TypeOK, ReceiveScore, UpstreamFails, UpstreamAnswers, RequestMoves
    <3> QED
      BY <3>2 DEF Offered
  <2> QED
    BY <2>1, <2>2
<1> QED
  BY <1>1, <1>2, <1>3, Unseen DEF resultVars

\* Dispatch hands a task over, or refuses it with the queue full.
LEMMA RespondDelivers ==
  ASSUME Inv, NEW r \in Requests, Respond(r)
  PROVE  [Delivery!DeliveryNext]_(Delivery!deliveryVars)
<1> USE DEF Inv
<1>1. /\ UNCHANGED <<doShadow, workerVars, resultVars, main, timedOut>>
      /\ main # "exited" /\ request[r] = "answered"
      /\ request' = [request EXCEPT ![r] = "finished"]
  BY DEF Respond, RequestMoves, Up
<1>2. /\ r \notin Offered
      /\ Offered' = Offered \cup (IF doShadow[r] THEN {r} ELSE {})
  BY <1>1 DEF Offered, TypeOK
<1>3. InHand' = InHand
  BY <1>1 DEF InHand, workerVars
<1>4. CASE ~doShadow[r]
  <2>1. UNCHANGED <<ch, dropped>>
    BY <1>4 DEF Respond
  <2> QED
    BY <1>1, <1>2, <1>3, <1>4, <2>1, Unseen DEF resultVars
<1>5. /\ BufferSize \in Nat /\ Len(ch) \in Nat
      /\ Delivery!Full <=> BufferSize <= Len(ch)
  <2>1. ch \in Seq(Requests) /\ IsInjective(ch) /\ BufferSize \in Nat
    BY RouterAssumption DEF RouterAssumption, TypeOK, InOnePlace
  <2> HIDE DEF Inv
  <2>2. BufferSize <= Len(ch) <=> \E q \in [1..BufferSize -> Range(ch)] :
                                    \A j, k \in 1..BufferSize : q[j] = q[k] => j = k
    BY <2>1, FullChannel
  <2>3. Delivery!Full <=> BufferSize <= Len(ch)
    BY <2>2, Zenon DEF Delivery!Full
  <2> QED
    BY <2>1, <2>3
<1>6. CASE doShadow[r] /\ Len(ch) < BufferSize
  <2>1. ch' = Append(ch, r) /\ dropped' = dropped
    BY <1>6 DEF Respond, Dispatch
  <2>2. Range(ch') = Range(ch) \cup {r}
    BY <2>1, AppendedRange DEF TypeOK
  <2>3. Delivery!Accept(r)
    BY <1>1, <1>2, <1>3, <1>5, <1>6, <2>1, <2>2
    DEF Delivery!Accept, Delivery!HandOver, Offered, resultVars
  <2> QED
    BY <2>3 DEF Delivery!DeliveryNext
<1>7. CASE doShadow[r] /\ ~(Len(ch) < BufferSize)
  <2>1. dropped' = dropped \cup {r} /\ ch' = ch
    BY <1>7 DEF Respond, Dispatch
  <2>2. Delivery!Refuse(r)
    BY <1>1, <1>2, <1>3, <1>5, <1>7, <2>1
    DEF Delivery!Refuse, Delivery!HandOver, Offered, resultVars
  <2> QED
    BY <2>2 DEF Delivery!DeliveryNext
<1> QED
  BY <1>4, <1>6, <1>7

\* A task received from the queue is in one worker's hands.
LEMMA TakeTakes ==
  ASSUME Inv, NEW w \in Workers, TakeTask(w)
  PROVE  \E r \in Requests : Delivery!Take(r)
<1> DEFINE h == Head(ch)
<1>1. /\ UNCHANGED <<requestVars, resultVars, dropped, main, timedOut>> /\ main # "exited"
      /\ task \in [Workers -> Requests \cup {Nil}] /\ task[w] = Nil
      /\ task' = [task EXCEPT ![w] = h]
      /\ ch \in Seq(Requests) /\ ch # << >> /\ IsInjective(ch) /\ ch' = Tail(ch)
  BY DEF TakeTask, Inv, TypeOK, InOnePlace, Up
<1>2. h \in Requests /\ Range(ch) = {h} \cup Range(ch') /\ h \notin Range(ch')
  BY <1>1, ReceivedRange
<1> HIDE DEF h
<1>3. InHand' = InHand \cup {h}
  <2>1. h # Nil
    BY <1>2, RouterAssumption DEF RouterAssumption
  <2>2. \A v \in Workers : task'[v] = IF v = w THEN h ELSE task[v]
    BY <1>1
  <2> QED
    BY <1>1, <2>1, <2>2 DEF InHand
<1>4. Delivery!Take(h)
  BY <1>1, <1>2, <1>3 DEF Delivery!Take, Offered, requestVars, resultVars
<1> QED
  BY <1>2, <1>4

\* The other moves of a worker change nobody's place.
LEMMA WorkUnseen ==
  ASSUME NEW w \in Workers, SeeDone(w) \/ DrainedExit(w) \/ ChallengerAnswers(w)
  PROVE  UNCHANGED Delivery!deliveryVars
BY Unseen DEF SeeDone, DrainedExit, ChallengerAnswers, InHand, Offered, requestVars, resultVars

\* The task of one worker is let go of, with its row or as missed.
LEMMA EndDelivers ==
  ASSUME Inv, NEW w \in Workers,
         ChallengerFails(w) \/ InsertComparison(w) \/ InsertFails(w)
  PROVE  Delivery!Deliver
<1> USE DEF Inv
<1> DEFINE r == task[w]
<1>1. /\ UNCHANGED <<requestVars, ch, dropped, main, timedOut>>
      /\ task \in [Workers -> Requests \cup {Nil}]
      /\ task' = [task EXCEPT ![w] = Nil]
      /\ r # Nil /\ main # "exited"
  BY DEF ChallengerFails, InsertComparison, InsertFails, TaskEnds, TypeOK, Up
<1>2. r \in Requests /\ r \in InHand
  BY <1>1 DEF InHand
<1>3. InHand' = InHand \ {r}
  <2>1. \A v \in Workers \ {w} : task[v] # r
    BY <1>1 DEF InOnePlace
  <2>2. \A v \in Workers : task'[v] = IF v = w THEN Nil ELSE task[v]
    BY <1>1
  <2> QED
    BY <1>1, <2>1, <2>2 DEF InHand
<1>4. rows[r] = 0 /\ r \notin missed /\ rows \in [Requests -> Nat]
  BY <1>2 DEF Dispatched, Waiting, Compared, TypeOK
<1>5. /\ rows' = rows \/ rows' = [rows EXCEPT ![r] = @ + 1]
      /\ missed' = missed \/ missed' = missed \cup {r}
      /\ rows' = [rows EXCEPT ![r] = @ + 1] \/ missed' = missed \cup {r}
  BY DEF ChallengerFails, InsertComparison, InsertFails
<1>6. UNCHANGED Offered
  BY <1>1 DEF Offered, requestVars
<1> HIDE DEF r
<1>7. /\ rows' \in [Requests -> Nat]
      /\ \A q \in Requests : rows'[q] # rows[q] => q = r /\ rows'[q] = 1
      /\ rows' # rows => rows'[r] = 1
  BY <1>2, <1>4, <1>5
<1>8. /\ missed \subseteq missed' /\ missed' \ missed \subseteq {r}
      /\ rows'[r] = 1 \/ r \in missed'
  BY <1>2, <1>4, <1>5
<1>9. InHand \ InHand' = {r}
  BY <1>2, <1>3
<1>10. /\ InHand' \subseteq InHand
       /\ missed' \ missed \subseteq InHand \ InHand'
       /\ \A q \in InHand \ InHand' : rows'[q] = 1 \/ q \in missed'
       /\ \A q \in Requests : rows'[q] # rows[q] =>
            q \in InHand /\ rows[q] = 0 /\ rows'[q] = 1
  BY <1>2, <1>3, <1>4, <1>7, <1>8, <1>9
<1> QED
  BY <1>1, <1>6, <1>7, <1>8, <1>10 DEF Delivery!Deliver, Offered

LEMMA ShutdownDelivers ==
  ASSUME Inv, NotCutYet, Sigterm \/ Shutdown
  PROVE  [Delivery!DeliveryNext]_(Delivery!deliveryVars)
<1>1. UNCHANGED <<request, doShadow, ch, task, rows, missed, dropped>>
  BY DEF Sigterm, Shutdown, HttpShutdown, CloseDone, Exit, MainMoves, requestVars,
         workerVars, resultVars
<1>2. UNCHANGED <<Offered, InHand>>
  BY <1>1 DEF Offered, InHand
<1>3. CASE Sigterm \/ CloseDone
  BY <1>1, <1>2, <1>3, Unseen DEF Sigterm, CloseDone, MainMoves
<1>4. CASE HttpShutdown
  <2>1. main = "stopping" /\ main' = "closing" /\ timedOut' \in BOOLEAN
    BY <1>4 DEF HttpShutdown, MainMoves
  <2>2. CASE timedOut' = TRUE
    <3>1. Delivery!CutShort
      BY <1>1, <1>2, <2>1, <2>2 DEF Delivery!CutShort, Offered
    <3> QED
      BY <3>1 DEF Delivery!DeliveryNext
  <2>3. CASE timedOut' = FALSE
    <3>1. timedOut = FALSE
      BY <2>1 DEF NotCutYet, Inv, TypeOK
    <3> QED
      BY <1>1, <1>2, <2>1, <2>3, <3>1, Unseen
  <2> QED
    BY <2>1, <2>2, <2>3
<1>5. CASE Exit
  <2>1. /\ main = "waiting" /\ main' = "exited" /\ timedOut' = timedOut
        /\ \A w \in Workers : worker[w] = "exited"
    BY <1>5 DEF Exit, MainMoves
  <2>2. Range(ch) \cup InHand = {} \/ timedOut
    <3>1. InHand = {}
      BY <2>1 DEF Inv, Ordered, InHand
    <3>2. ch = << >> \/ timedOut
      BY <2>1, RouterAssumption DEF Inv, Ordered, RouterAssumption
    <3> QED
      BY <3>1, <3>2, EmptyRange
  <2>3. Delivery!Close
    BY <1>1, <1>2, <2>1, <2>2 DEF Delivery!Close, Offered
  <2> QED
    BY <2>3 DEF Delivery!DeliveryNext
<1> QED
  BY <1>3, <1>4, <1>5 DEF Shutdown

\* The shadow queue implements the abstract delivery, for any number of requests,
\* workers and admins and any size of queue (dispatcher.go:32-94, main.go:70-90).
THEOREM QueueIsAccountedDelivery == Spec => ImplementsDelivery
<1>1. Init => Delivery!DeliveryInit
  BY EmptyRange DEF Init, Delivery!DeliveryInit, InHand
<1>2. Inv /\ NotCutYet /\ [Next]_vars => [Delivery!DeliveryNext]_(Delivery!deliveryVars)
  <2> SUFFICES ASSUME Inv, NotCutYet, [Next]_vars
               PROVE  [Delivery!DeliveryNext]_(Delivery!deliveryVars)
    OBVIOUS
  <2>1. CASE UNCHANGED vars
    BY <2>1, Unseen DEF vars, requestVars, workerVars, resultVars, Offered, InHand
  <2>2. CASE \E a \in Admins : StoreState(a) \/ SetGauge(a)
    BY <2>2, CallUnseen
  <2>3. CASE \E r \in Requests : ReceiveScore(r) \/ Handle(r)
    BY <2>3, CallUnseen, RespondDelivers DEF Handle
  <2>4. CASE \E w \in Workers : Work(w)
    BY <2>4, TakeTakes, WorkUnseen, EndDelivers DEF Work, Delivery!DeliveryNext
  <2>5. CASE Sigterm \/ Shutdown
    BY <2>5, ShutdownDelivers
  <2> QED
    BY <2>1, <2>2, <2>3, <2>4, <2>5 DEF Next
<1> QED
  BY <1>1, <1>2, AlwaysInv, CutByShutdown, PTL DEF Spec, ImplementsDelivery, Delivery!DeliverySpec
==============================================================================
