------------------------------ MODULE ModelSwap ------------------------------
(***************************************************************************)
(* Hot-swapping the model of a serving process: model.Swappable and the    *)
(* handlers that use it (serving/internal/model/runner.go,                 *)
(* serving/internal/server/handlers.go), down to the shutdown in           *)
(* serving/cmd/server/main.go.  A runner owns a native ONNX session; using *)
(* it after Destroy, or destroying it twice, is undefined behaviour in C.  *)
(***************************************************************************)
EXTENDS Naturals, FiniteSets

CONSTANTS
  Scorers,    \* score requests in flight at once, each with its log goroutine
  Reloaders,  \* reload requests in flight at once
  Runners,    \* runners ever created: bounds the number of reloads
  Versions,   \* ONNX digests
  Initial,    \* the runner main starts with
  Nil, Main

ASSUME SwapAssumption ==
  /\ Initial \in Runners /\ Nil \notin Runners /\ Nil \notin Versions
  /\ Versions # {}
  /\ Scorers \cap Reloaders = {}
  /\ Main \notin Scorers \cup Reloaders
  /\ Nil \notin Scorers \cup Reloaders \cup {Main}

Threads == Scorers \cup Reloaders \cup {Main}

VARIABLES
  current,   \* Swappable.r
  session,   \* Runner.session: "none" before NewRunner, then "live", "destroyed"
  version,   \* Runner.modelVersion
  readers,   \* RWMutex: threads that hold the read lock
  queue,     \* RWMutex: threads blocked in RLock behind a writer
  writer,    \* RWMutex: the thread that called Lock, or Nil
  pc,        \* where each thread is
  own,       \* the runner a thread works on: scoring with it, or replacing it
  scoredBy,  \* version of the runner that scored the request
  answered,  \* model_version of the response
  written,   \* model_version of the prediction record
  timedOut,  \* httpServer.Shutdown gave up after 30 s
  panics     \* who dereferenced a nil runner: "handler", "goroutine"

lockVars == <<readers, queue, writer>>
heapVars == <<current, session, version>>
requestVars == <<scoredBy, answered, written>>
vars == <<heapVars, lockVars, pc, own, requestVars, timedOut, panics>>

ScorerPcs == {"idle", "looking", "entering", "running", "scored", "reading", "responding",
              "logging", "rereading", "storing"}
ReloaderPcs == {"idle", "checking", "loading", "validating", "locking",
                "waiting", "unlocking", "destroying"}
MainPcs == {"serving", "stopping", "draining", "locking", "waiting",
            "unlocking", "closing", "exited"}

TypeOK ==
  /\ current \in Runners \cup {Nil}
  /\ session \in [Runners -> {"none", "live", "destroyed"}]
  /\ version \in [Runners -> Versions]
  /\ readers \subseteq Threads /\ queue \subseteq Threads
  /\ writer \in Threads \cup {Nil}
  /\ pc \in [Threads -> ScorerPcs \cup ReloaderPcs \cup MainPcs]
  /\ \A t \in Scorers : pc[t] \in ScorerPcs
  /\ \A t \in Reloaders : pc[t] \in ReloaderPcs
  /\ pc[Main] \in MainPcs
  /\ own \in [Threads -> Runners \cup {Nil}]
  /\ scoredBy \in [Scorers -> Versions \cup {Nil}]
  /\ answered \in [Scorers -> Versions \cup {Nil}]
  /\ written \in [Scorers -> Versions \cup {Nil}]
  /\ timedOut \in BOOLEAN
  /\ panics \subseteq {"handler", "goroutine"}

Init ==
  /\ current = Initial
  /\ session = [r \in Runners |-> IF r = Initial THEN "live" ELSE "none"]
  /\ version \in [Runners -> Versions]
  /\ readers = {} /\ queue = {} /\ writer = Nil
  /\ pc = [t \in Threads |-> IF t = Main THEN "serving" ELSE "idle"]
  /\ own = [t \in Threads |-> Nil]
  /\ scoredBy = [t \in Scorers |-> Nil]
  /\ answered = [t \in Scorers |-> Nil]
  /\ written = [t \in Scorers |-> Nil]
  /\ timedOut = FALSE
  /\ panics = {}

\* The process runs: main has not returned and no goroutine panicked.
Up == pc[Main] # "exited" /\ "goroutine" \notin panics

Goto(t, l) == pc' = [pc EXCEPT ![t] = l]
At(t, l) == Up /\ pc[t] = l

------------------------------------------------------------------------------
(* sync.RWMutex.  A pending Lock stops later RLocks, and Unlock lets those  *)
(* that piled up behind it in before the next writer.                       *)

\* Mutant: a lock that lets readers pass a waiting writer.
RLockPastWriter(t) ==
  /\ IF writer = Nil \/ readers # {}
     THEN readers' = readers \cup {t} /\ UNCHANGED queue
     ELSE queue' = queue \cup {t} /\ UNCHANGED readers
  /\ UNCHANGED writer

RLock(t) ==
  /\ IF writer = Nil
     THEN readers' = readers \cup {t} /\ UNCHANGED queue
     ELSE queue' = queue \cup {t} /\ UNCHANGED readers
  /\ UNCHANGED writer

RUnlock(t) == readers' = readers \ {t} /\ UNCHANGED <<queue, writer>>

\* Mutant: a plain mutex among writers that takes no notice of readers.
AcquiredAmongReaders(t) == writer = t

\* Lock: announce, then wait until the readers of that moment are gone.
Announce(t) == writer = Nil /\ writer' = t /\ UNCHANGED <<readers, queue>>
Acquired(t) == writer = t /\ readers = {}

\* Mutant: the readers behind the writer are not woken.
UnlockWakesNobody(t) ==
  /\ writer = t
  /\ writer' = Nil
  /\ UNCHANGED <<readers, queue>>

Unlock(t) ==
  /\ writer = t
  /\ writer' = Nil
  /\ readers' = queue
  /\ queue' = {}

------------------------------------------------------------------------------
(* POST /score.                                                             *)

\* The request arrives; its features are looked up in Redis.
ReceiveScore(t) ==
  /\ At(t, "idle") /\ pc[Main] = "serving"
  /\ Goto(t, "looking")
  /\ UNCHANGED <<heapVars, lockVars, own, requestVars, timedOut, panics>>

\* Redis does not answer, or knows no features of the transaction: 500 or 404.
LookupFails(t) ==
  /\ At(t, "looking")
  /\ Goto(t, "idle")
  /\ UNCHANGED <<heapVars, lockVars, own, requestVars, timedOut, panics>>

\* With the features, whenever they come, Swappable.Score takes the read lock.
FeaturesFound(t) ==
  /\ At(t, "looking")
  /\ RLock(t)
  /\ Goto(t, "entering")
  /\ UNCHANGED <<heapVars, own, requestVars, timedOut, panics>>

EnterRun(t) ==
  /\ At(t, "entering") /\ t \in readers /\ current # Nil
  /\ own' = [own EXCEPT ![t] = current]
  /\ Goto(t, "running")
  /\ UNCHANGED <<heapVars, lockVars, requestVars, timedOut, panics>>

\* A nil runner panics; the deferred RUnlock runs and Recovery answers 500.
HandlerPanics(t) ==
  /\ \/ At(t, "entering") \/ At(t, "reading") \/ At(t, "checking")
  /\ t \in readers /\ current = Nil
  /\ RUnlock(t)
  /\ Goto(t, "idle")
  /\ panics' = panics \cup {"handler"}
  /\ UNCHANGED <<heapVars, own, requestVars, timedOut>>

\* Mutant: Score reports its runner where the version is expected.
ReportRunner(t) ==
  /\ At(t, "running")
  /\ RUnlock(t)
  /\ own' = [own EXCEPT ![t] = Nil]
  /\ scoredBy' = [scoredBy EXCEPT ![t] = own[t]]
  /\ Goto(t, "scored")
  /\ UNCHANGED <<heapVars, answered, written, timedOut, panics>>

\* session.Run returns; an error or a non-finite probability ends the request.
FinishRun(t) ==
  /\ At(t, "running")
  /\ RUnlock(t)
  /\ own' = [own EXCEPT ![t] = Nil]
  /\ \/ /\ scoredBy' = [scoredBy EXCEPT ![t] = version[own[t]]]
        /\ Goto(t, "scored")
     \/ /\ UNCHANGED scoredBy
        /\ Goto(t, "idle")
  /\ UNCHANGED <<heapVars, answered, written, timedOut, panics>>

\* ModelVersion takes the read lock anew, for the response ...
AskVersion(t) ==
  /\ At(t, "scored")
  /\ RLock(t)
  /\ Goto(t, "reading")
  /\ UNCHANGED <<heapVars, own, requestVars, timedOut, panics>>

Respond(t) ==
  /\ At(t, "reading") /\ t \in Scorers \cap readers /\ current # Nil
  /\ answered' = [answered EXCEPT ![t] = version[current]]
  /\ RUnlock(t)
  /\ Goto(t, "responding")
  /\ UNCHANGED <<heapVars, own, scoredBy, written, timedOut, panics>>

\* logWg.Add(1) and go: the handler is done, its goroutine lives on.
SpawnLogger(t) ==
  /\ At(t, "responding")
  /\ Goto(t, "logging")
  /\ UNCHANGED <<heapVars, lockVars, own, requestVars, timedOut, panics>>

\* ... and once more in the goroutine, for the record.
AskVersionAgain(t) ==
  /\ At(t, "logging")
  /\ RLock(t)
  /\ Goto(t, "rereading")
  /\ UNCHANGED <<heapVars, own, requestVars, timedOut, panics>>

ReadAgain(t) ==
  /\ At(t, "rereading") /\ t \in readers /\ current # Nil
  /\ written' = [written EXCEPT ![t] = version[current]]
  /\ RUnlock(t)
  /\ Goto(t, "storing")
  /\ UNCHANGED <<heapVars, own, scoredBy, answered, timedOut, panics>>

\* Nothing recovers a panic of that goroutine: the process dies.
LoggerPanics(t) ==
  /\ At(t, "rereading") /\ t \in readers /\ current = Nil
  /\ panics' = panics \cup {"goroutine"}
  /\ UNCHANGED <<heapVars, lockVars, pc, own, requestVars, timedOut>>

\* store.Log returns, queued or dropped; logWg.Done. Nothing of the request is
\* left.
StoreRecord(t) ==
  /\ At(t, "storing")
  /\ Goto(t, "idle")
  /\ scoredBy' = [scoredBy EXCEPT ![t] = Nil]
  /\ answered' = [answered EXCEPT ![t] = Nil]
  /\ written' = [written EXCEPT ![t] = Nil]
  /\ UNCHANGED <<heapVars, lockVars, own, timedOut, panics>>

------------------------------------------------------------------------------
(* POST /admin/reload.                                                      *)

\* The handler first reads the version it is about to replace.
ReceiveReload(t) ==
  /\ At(t, "idle") /\ pc[Main] = "serving"
  /\ RLock(t)
  /\ Goto(t, "checking")
  /\ UNCHANGED <<heapVars, own, requestVars, timedOut, panics>>

ReadOldVersion(t) ==
  /\ At(t, "checking") /\ t \in readers /\ current # Nil
  /\ RUnlock(t)
  /\ Goto(t, "loading")
  /\ UNCHANGED <<heapVars, own, requestVars, timedOut, panics>>

\* NewRunner: a session is created and passes the startup validation.
LoadRunner(t) ==
  /\ At(t, "loading")
  /\ \E r \in Runners :
       /\ session[r] = "none"
       /\ session' = [session EXCEPT ![r] = "live"]
       /\ own' = [own EXCEPT ![t] = r]
  /\ Goto(t, "validating")
  /\ UNCHANGED <<current, version, lockVars, requestVars, timedOut, panics>>

\* A file is missing, or the model rejects the input NewRunner tries it on.
LoadFails(t) ==
  /\ At(t, "loading")
  /\ Goto(t, "idle")
  /\ UNCHANGED <<heapVars, lockVars, own, requestVars, timedOut, panics>>

\* The Redis sample has every feature the new model wants.
Validate(t) ==
  /\ At(t, "validating")
  /\ Goto(t, "locking")
  /\ UNCHANGED <<heapVars, lockVars, own, requestVars, timedOut, panics>>

\* Mutant: the rejected runner is not destroyed.
ValidateFailsAndLeaks(t) ==
  /\ At(t, "validating")
  /\ own' = [own EXCEPT ![t] = Nil]
  /\ Goto(t, "idle")
  /\ UNCHANGED <<heapVars, lockVars, requestVars, timedOut, panics>>

ValidateFails(t) ==
  /\ At(t, "validating")
  /\ session' = [session EXCEPT ![own[t]] = "destroyed"]
  /\ own' = [own EXCEPT ![t] = Nil]
  /\ Goto(t, "idle")
  /\ UNCHANGED <<current, version, lockVars, requestVars, timedOut, panics>>

RequestLock(t) ==
  /\ At(t, "locking")
  /\ Announce(t)
  /\ Goto(t, "waiting")
  /\ UNCHANGED <<heapVars, own, requestVars, timedOut, panics>>

\* Mutant: s.r = newR is missing.
SwapNothing(t) ==
  /\ At(t, "waiting") /\ t \in Reloaders /\ Acquired(t)
  /\ own' = [own EXCEPT ![t] = current]
  /\ Goto(t, "unlocking")
  /\ UNCHANGED <<heapVars, lockVars, requestVars, timedOut, panics>>

\* old := s.r; s.r = newR. From here on the thread owns the old runner.
Swap(t) ==
  /\ At(t, "waiting") /\ t \in Reloaders /\ Acquired(t)
  /\ current' = own[t]
  /\ own' = [own EXCEPT ![t] = current]
  /\ Goto(t, "unlocking")
  /\ UNCHANGED <<session, version, lockVars, requestVars, timedOut, panics>>

ReleaseLock(t) ==
  /\ At(t, "unlocking")
  /\ Unlock(t)
  /\ Goto(t, IF t = Main THEN "closing" ELSE "destroying")
  /\ UNCHANGED <<heapVars, own, requestVars, timedOut, panics>>

\* old.Destroy, outside the lock; a nil old runner panics in the handler.
DestroyOld(t) ==
  /\ At(t, "destroying")
  /\ IF own[t] = Nil
     THEN panics' = panics \cup {"handler"} /\ UNCHANGED session
     ELSE session' = [session EXCEPT ![own[t]] = "destroyed"] /\ UNCHANGED panics
  /\ own' = [own EXCEPT ![t] = Nil]
  /\ Goto(t, "idle")
  /\ UNCHANGED <<current, version, lockVars, requestVars, timedOut>>

------------------------------------------------------------------------------
(* main after SIGTERM.                                                      *)

LoggerPcs == {"logging", "rereading", "storing"}
HandlersDone ==
  /\ \A t \in Scorers : pc[t] \in {"idle"} \cup LoggerPcs
  /\ \A t \in Reloaders : pc[t] = "idle"

Sigterm ==
  /\ At(Main, "serving")
  /\ Goto(Main, "stopping")
  /\ UNCHANGED <<heapVars, lockVars, own, requestVars, timedOut, panics>>

\* httpServer.Shutdown: every handler returned, or 30 s passed.
HttpDrained ==
  /\ At(Main, "stopping") /\ HandlersDone
  /\ Goto(Main, "draining")
  /\ UNCHANGED <<heapVars, lockVars, own, requestVars, timedOut, panics>>

HttpTimeout ==
  /\ At(Main, "stopping") /\ ~HandlersDone
  /\ timedOut' = TRUE
  /\ Goto(Main, "draining")
  /\ UNCHANGED <<heapVars, lockVars, own, requestVars, panics>>

\* Mutant: main does not call handler.Drain.
SkipDrain ==
  /\ At(Main, "draining")
  /\ Goto(Main, "locking")
  /\ UNCHANGED <<heapVars, lockVars, own, requestVars, timedOut, panics>>

\* handler.Drain: logWg.Wait. store.Shutdown and pool.Close follow.
LoggersDone ==
  /\ At(Main, "draining")
  /\ \A t \in Scorers : pc[t] \notin LoggerPcs
  /\ Goto(Main, "locking")
  /\ UNCHANGED <<heapVars, lockVars, own, requestVars, timedOut, panics>>

\* runner.Destroy: under the write lock, unlike Reload's.
DestroyCurrent ==
  /\ At(Main, "waiting") /\ Acquired(Main)
  /\ session' = IF current = Nil THEN session
                ELSE [session EXCEPT ![current] = "destroyed"]
  /\ current' = Nil
  /\ Goto(Main, "unlocking")
  /\ UNCHANGED <<version, lockVars, own, requestVars, timedOut, panics>>

\* featClient.Close, and main returns: until then goroutines may meet the nil runner.
Exit ==
  /\ At(Main, "closing")
  /\ Goto(Main, "exited")
  /\ UNCHANGED <<heapVars, lockVars, own, requestVars, timedOut, panics>>

Score(t) ==
  \/ ReceiveScore(t) \/ LookupFails(t) \/ FeaturesFound(t)
  \/ EnterRun(t) \/ FinishRun(t)
  \/ AskVersion(t) \/ Respond(t) \/ SpawnLogger(t)
  \/ AskVersionAgain(t) \/ ReadAgain(t) \/ LoggerPanics(t) \/ StoreRecord(t)
  \/ HandlerPanics(t)

Reload(t) ==
  \/ ReceiveReload(t) \/ ReadOldVersion(t)
  \/ LoadRunner(t) \/ LoadFails(t) \/ Validate(t) \/ ValidateFails(t)
  \/ RequestLock(t) \/ Swap(t) \/ ReleaseLock(t) \/ DestroyOld(t)
  \/ HandlerPanics(t)

Shutdown ==
  \/ Sigterm \/ HttpDrained \/ HttpTimeout \/ LoggersDone
  \/ RequestLock(Main) \/ DestroyCurrent \/ ReleaseLock(Main) \/ Exit

Next ==
  \/ \E t \in Scorers : Score(t)
  \/ \E t \in Reloaders : Reload(t)
  \/ Shutdown

Spec == Init /\ [][Next]_vars

\* Goroutines run, session.Run and the sampler return, and a sync.Mutex waiter
\* gets the mutex in the end (its starvation mode). Requests and signals need
\* not come.
FairSpec ==
  /\ Spec
  /\ \A t \in Scorers : WF_vars(Score(t) /\ pc[t] # "idle")
  /\ \A t \in Reloaders : WF_vars(Reload(t) /\ pc[t] # "idle")
  /\ WF_vars(Shutdown /\ pc[Main] # "serving")
  /\ \A t \in Reloaders \cup {Main} : SF_vars(RequestLock(t))

------------------------------------------------------------------------------
(* Safety.                                                                  *)

\* No request runs on a destroyed session: the write lock of Reload and of
\* Swappable.Destroy keeps every Score that uses the runner out (runner.go:31).
NoUseAfterDestroy ==
  \A t \in Scorers : pc[t] = "running" => session[own[t]] = "live"

\* The runner a reload is about to destroy is live, is not the current one, and
\* belongs to no other reload: no session is destroyed twice.
DestroyedOnce ==
  \A t \in Reloaders : pc[t] \in {"unlocking", "destroying"} /\ own[t] # Nil =>
    /\ session[own[t]] = "live"
    /\ own[t] # current
    /\ \A u \in Reloaders \ {t} : own[u] # own[t]

\* Every live session is the current runner or in the hands of a reload that
\* will install or destroy it: failed validations and swaps leak nothing.
NoLeak ==
  \A r \in Runners : session[r] = "live" =>
    r = current \/ \E t \in Reloaders : own[t] = r

\* An orderly stop - no request outlives httpServer.Shutdown - dereferences no
\* nil runner and leaves no session behind.
OrderlyStop ==
  ~timedOut =>
    /\ panics = {}
    /\ pc[Main] = "exited" => \A r \in Runners : session[r] # "live"

------------------------------------------------------------------------------
(* Refinement.                                                              *)

\* A live session is the current one, or in the hands of a reload that installs
\* it or has displaced it; one that is neither would be in no stage of its life.
Stage ==
  [r \in Runners |->
     IF session[r] # "live" THEN session[r]
     ELSE IF r = current THEN "serving"
     ELSE IF \E t \in Reloaders : own[t] = r /\ pc[t] \in {"validating", "locking", "waiting"}
       THEN "loaded"
     ELSE IF \E t \in Reloaders : own[t] = r THEN "displaced"
     ELSE "leaked"]

Using == [t \in Scorers |-> IF pc[t] = "running" THEN own[t] ELSE Nil]

Served == INSTANCE ServedModel WITH
  Models <- Runners, Users <- Scorers, Nobody <- Nil, stage <- Stage, using <- Using

\* The lock, the pointer and the threads amount to a model that is replaced in one
\* step, while no request uses it: each session is served at most once, destroyed
\* at most once, by whoever displaced or rejected it, and leaked never.
ImplementsServedModel == Served!ServedSpec

------------------------------------------------------------------------------
(* Liveness.                                                                *)

\* A reload gets its write lock although requests keep coming, and is answered.
ReloadCompletes ==
  \A t \in Reloaders : pc[t] = "locking" ~> (pc[t] = "idle" \/ ~Up)

\* SIGTERM ends the process: no wait of the shutdown sequence is for ever.
StopCompletes == pc[Main] = "stopping" ~> ~Up

------------------------------------------------------------------------------
(* What the code does not do.                                               *)

\* handlers_test.go:179 expects the response to carry the version of the model
\* that scored it. A reload between Score and the separate ModelVersion call
\* (handlers.go:189; handlers.go:199 for the record) makes it the next one's.
AnsweredByScorer ==
  \A t \in Scorers :
    /\ pc[t] \in {"responding"} \cup LoggerPcs => answered[t] = scoredBy[t]
    /\ pc[t] = "storing" => written[t] = scoredBy[t]
=============================================================================
