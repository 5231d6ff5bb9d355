--------------------------- MODULE ModelSwap_proof ---------------------------
(* Proofs about ModelSwap, for all numbers of requests, reloads and runners. *)
EXTENDS ModelSwap, TLAPS

------------------------------------------------------------------------------
(* The inductive invariant.                                                 *)

ReadPcs == {"entering", "running", "reading", "rereading"}
WritePcs == {"waiting", "unlocking"}
OwnPcs == {"validating", "locking", "waiting", "unlocking", "destroying"}

\* Who holds or awaits the lock follows from where the threads are, and a
\* thread that has the write lock is alone with it.
Locked ==
  /\ readers \cap queue = {}
  /\ writer = Nil => queue = {}
  /\ Main \notin readers \cup queue
  /\ \A t \in Scorers : t \in readers \cup queue <=> pc[t] \in ReadPcs
  /\ \A t \in Reloaders : t \in readers \cup queue <=> pc[t] = "checking"
  /\ \A t \in Scorers : pc[t] = "running" => t \in readers
  /\ \A t \in Reloaders \cup {Main} : writer = t <=> pc[t] \in WritePcs
  /\ \A t \in Reloaders \cup {Main} : pc[t] = "unlocking" => readers = {}

\* Each live session has exactly one owner: the current pointer or one reload.
\* Scores borrow the current one, and give it back before it can change.
Owned ==
  /\ current # Nil => session[current] = "live"
  /\ \A t \in Scorers : pc[t] = "running" => own[t] = current /\ current # Nil
  /\ \A t \in Reloaders : pc[t] \in OwnPcs \/ own[t] = Nil
  /\ \A t \in Reloaders : pc[t] \in {"validating", "locking", "waiting"} => own[t] # Nil
  /\ \A t \in Reloaders : own[t] # Nil => session[own[t]] = "live" /\ own[t] # current
  /\ \A t, u \in Reloaders : own[t] # Nil /\ own[t] = own[u] => t = u
  /\ NoLeak

\* The nil pointer that Destroy leaves behind is met by nobody, unless
\* httpServer.Shutdown gave up on a handler.
Stopped ==
  /\ current = Nil => pc[Main] \in {"unlocking", "closing", "exited"}
  /\ ~timedOut => panics = {}
  /\ ~timedOut /\ pc[Main] = "draining" => HandlersDone
  /\ ~timedOut /\ pc[Main] \in {"locking", "waiting", "unlocking", "closing", "exited"} =>
       \A t \in Scorers \cup Reloaders : pc[t] = "idle"
  /\ ~timedOut /\ pc[Main] \in {"unlocking", "closing", "exited"} => current = Nil
  /\ \A t \in Reloaders :
       pc[t] \in {"unlocking", "destroying"} /\ own[t] = Nil => timedOut

Inv == TypeOK /\ Locked /\ Owned /\ Stopped

LEMMA InitInv ==
  ASSUME Init
  PROVE  Inv
<1> USE SwapAssumption DEF SwapAssumption, Init
<1>1. TypeOK
  <2>1. /\ pc \in [Threads -> ScorerPcs \cup ReloaderPcs \cup MainPcs]
        /\ \A t \in Scorers \cup Reloaders : pc[t] = "idle"
        /\ pc[Main] = "serving"
    BY DEF Threads, ScorerPcs, MainPcs
  <2>2. session \in [Runners -> {"none", "live", "destroyed"}]
    OBVIOUS
  <2>3. QED
    BY <2>1, <2>2 DEF TypeOK, ScorerPcs, ReloaderPcs, MainPcs
<1>2. pc[Main] = "serving" /\ \A t \in Scorers \cup Reloaders : pc[t] = "idle"
  BY DEF Threads
<1>3. Locked
  BY <1>2 DEF Locked, ReadPcs, WritePcs
<1>4. Owned
  BY <1>2 DEF Owned, OwnPcs, NoLeak, Threads
<1>5. Stopped
  BY <1>2 DEF Stopped
<1>6. QED
  BY <1>1, <1>3, <1>4, <1>5 DEF Inv

------------------------------------------------------------------------------
(* Steps that only move a thread on.                                        *)

\* What Goto does, thread by thread.
LEMMA Goes ==
  ASSUME TypeOK, NEW t \in Threads, NEW l \in ScorerPcs \cup ReloaderPcs \cup MainPcs,
         Goto(t, l)
  PROVE  /\ pc' \in [Threads -> ScorerPcs \cup ReloaderPcs \cup MainPcs]
         /\ \A u \in Threads : pc'[u] = IF u = t THEN l ELSE pc[u]
BY DEF Goto, TypeOK

\* The kinds of threads are apart.
LEMMA Apart ==
  /\ Scorers \subseteq Threads /\ Reloaders \subseteq Threads /\ Main \in Threads
  /\ Scorers \cap Reloaders = {} /\ Main \notin Scorers \cup Reloaders
  /\ Nil \notin Threads /\ Nil \notin Runners /\ Nil \notin Versions
BY SwapAssumption DEF SwapAssumption, Threads

LEMMA ScorerMoves ==
  ASSUME Inv, NEW t \in Scorers,
         ReceiveScore(t) \/ LookupFails(t) \/ SpawnLogger(t) \/ StoreRecord(t)
  PROVE  Inv'
<1> USE Apart DEF Inv
<1>1. PICK l \in {"looking", "logging", "idle"} :
        /\ Goto(t, l) /\ pc[t] \in {"idle", "looking", "responding", "storing"}
        /\ l = "logging" => pc[t] = "responding"
        /\ pc[t] = "idle" => pc[Main] = "serving"
        /\ l = "looking" => pc[Main] = "serving"
        /\ UNCHANGED <<heapVars, lockVars, own, timedOut, panics>>
  BY DEF ReceiveScore, LookupFails, SpawnLogger, StoreRecord, At
<1>2. /\ pc' \in [Threads -> ScorerPcs \cup ReloaderPcs \cup MainPcs]
      /\ \A u \in Threads : pc'[u] = IF u = t THEN l ELSE pc[u]
  BY <1>1, Goes DEF ScorerPcs
<1>3. TypeOK'
  <2>1. /\ scoredBy' \in [Scorers -> Versions \cup {Nil}]
        /\ answered' \in [Scorers -> Versions \cup {Nil}]
        /\ written' \in [Scorers -> Versions \cup {Nil}]
    BY DEF ReceiveScore, LookupFails, SpawnLogger, StoreRecord, requestVars, TypeOK
  <2>2. QED
    BY <1>1, <1>2, <2>1 DEF TypeOK, ScorerPcs, heapVars, lockVars
<1>4. Locked'
  BY <1>1, <1>2 DEF Locked, ReadPcs, WritePcs, lockVars
<1>5. Owned'
  BY <1>1, <1>2 DEF Owned, NoLeak, heapVars
<1>6. Stopped'
  BY <1>1, <1>2 DEF Stopped, HandlersDone, LoggerPcs, heapVars
<1>7. QED
  BY <1>3, <1>4, <1>5, <1>6

LEMMA ReloaderMoves ==
  ASSUME Inv, NEW t \in Reloaders, LoadFails(t) \/ Validate(t)
  PROVE  Inv'
<1> USE Apart DEF Inv
<1>1. PICK l \in {"idle", "locking"} :
        /\ Goto(t, l)
        /\ \/ l = "idle" /\ pc[t] = "loading"
           \/ l = "locking" /\ pc[t] = "validating"
        /\ UNCHANGED <<heapVars, lockVars, own, requestVars, timedOut, panics>>
  BY DEF LoadFails, Validate, At
<1>2. /\ pc' \in [Threads -> ScorerPcs \cup ReloaderPcs \cup MainPcs]
      /\ \A u \in Threads : pc'[u] = IF u = t THEN l ELSE pc[u]
  BY <1>1, Goes DEF ReloaderPcs
<1>3. TypeOK'
  BY <1>1, <1>2 DEF TypeOK, ReloaderPcs, heapVars, lockVars, requestVars
<1>4. Locked'
  BY <1>1, <1>2 DEF Locked, ReadPcs, WritePcs, lockVars
<1>5. Owned'
  BY <1>1, <1>2 DEF Owned, OwnPcs, NoLeak, heapVars
<1>6. Stopped'
  BY <1>1, <1>2 DEF Stopped, HandlersDone, LoggerPcs, heapVars
<1>7. QED
  BY <1>3, <1>4, <1>5, <1>6

\* With no request left in its handler, main waits for the log goroutines only.
LEMMA MainMoves ==
  ASSUME Inv, Sigterm \/ HttpDrained \/ HttpTimeout \/ LoggersDone
  PROVE  Inv'
<1> USE Apart DEF Inv
<1>1. PICK l \in {"stopping", "draining", "locking"} :
        /\ Goto(Main, l) /\ pc[Main] \in {"serving", "stopping", "draining"}
        /\ UNCHANGED <<heapVars, lockVars, own, requestVars, panics>>
        /\ timedOut' = timedOut \/ timedOut' = TRUE
        /\ l = "draining" /\ ~timedOut' => HandlersDone
        /\ l = "locking" => pc[Main] = "draining" /\ \A t \in Scorers : pc[t] \notin LoggerPcs
  BY DEF Sigterm, HttpDrained, HttpTimeout, LoggersDone, At
<1>2. /\ pc' \in [Threads -> ScorerPcs \cup ReloaderPcs \cup MainPcs]
      /\ \A u \in Threads : pc'[u] = IF u = Main THEN l ELSE pc[u]
  BY <1>1, Goes DEF MainPcs
<1>3. TypeOK'
  BY <1>1, <1>2 DEF TypeOK, MainPcs, heapVars, lockVars, requestVars
<1>4. Locked'
  BY <1>1, <1>2 DEF Locked, ReadPcs, WritePcs, lockVars
<1>5. Owned'
  BY <1>1, <1>2 DEF Owned, OwnPcs, NoLeak, heapVars
<1>6. Stopped'
  <2>1. current' = current /\ current # Nil /\ panics' = panics
    BY <1>1 DEF Stopped, heapVars
  <2>2. \A u \in Scorers \cup Reloaders : pc'[u] = pc[u]
    BY <1>2
  <2>3. l = "draining" /\ ~timedOut' => HandlersDone'
    BY <1>1, <2>2 DEF HandlersDone
  <2>4. l = "locking" /\ ~timedOut' => \A u \in Scorers \cup Reloaders : pc'[u] = "idle"
    BY <1>1, <2>2 DEF Stopped, HandlersDone
  <2>5. ~timedOut' => ~timedOut
    BY <1>1 DEF TypeOK
  <2>6. QED
    BY <1>1, <1>2, <2>1, <2>3, <2>4, <2>5 DEF Stopped
<1>7. QED
  BY <1>3, <1>4, <1>5, <1>6

\* The panic of a log goroutine, and of a handler, both need a nil runner.
LEMMA LoggerPanicStep ==
  ASSUME Inv, NEW t \in Scorers, LoggerPanics(t)
  PROVE  Inv'
<1> USE Apart DEF Inv
<1>1. /\ pc[t] = "rereading" /\ current = Nil
      /\ panics' = panics \cup {"goroutine"}
      /\ UNCHANGED <<heapVars, lockVars, pc, own, requestVars, timedOut>>
  BY DEF LoggerPanics, At
<1>2. timedOut
  BY <1>1 DEF Stopped
<1>3. TypeOK'
  BY <1>1 DEF TypeOK, heapVars, lockVars, requestVars
<1>4. Locked' /\ Owned' /\ Stopped'
  BY <1>1, <1>2 DEF Locked, Owned, NoLeak, Stopped, heapVars, lockVars
<1>5. QED
  BY <1>3, <1>4

------------------------------------------------------------------------------
(* Steps that take or release the read lock.                                *)

\* RLock adds its thread to the holders or to the queue.
LEMMA RLockStep ==
  ASSUME TypeOK, Locked, NEW t \in Threads, t \notin readers \cup queue, RLock(t)
  PROVE  /\ readers' \subseteq Threads /\ queue' \subseteq Threads /\ writer' = writer
         /\ readers' \cap queue' = {}
         /\ readers' \cup queue' = readers \cup queue \cup {t}
         /\ readers \subseteq readers'
         /\ writer = Nil => queue' = {}
         /\ writer # Nil => readers' = readers
BY DEF RLock, TypeOK, Locked

LEMMA ScorerLocks ==
  ASSUME Inv, NEW t \in Scorers, FeaturesFound(t) \/ AskVersion(t) \/ AskVersionAgain(t)
  PROVE  Inv'
<1> USE Apart DEF Inv
<1>1. PICK l \in {"entering", "reading", "rereading"} :
        /\ Goto(t, l) /\ RLock(t)
        /\ \/ l = "entering" /\ pc[t] = "looking"
           \/ l = "reading" /\ pc[t] = "scored"
           \/ l = "rereading" /\ pc[t] = "logging"
        /\ UNCHANGED <<heapVars, own, timedOut, panics>>
  BY DEF FeaturesFound, AskVersion, AskVersionAgain, At
<1>2. /\ pc' \in [Threads -> ScorerPcs \cup ReloaderPcs \cup MainPcs]
      /\ \A u \in Threads : pc'[u] = IF u = t THEN l ELSE pc[u]
  BY <1>1, Goes DEF ScorerPcs
<1>3. t \notin readers \cup queue
  BY <1>1 DEF Locked, ReadPcs
<1>4. /\ readers' \subseteq Threads /\ queue' \subseteq Threads /\ writer' = writer
      /\ readers' \cap queue' = {}
      /\ readers' \cup queue' = readers \cup queue \cup {t}
      /\ readers \subseteq readers'
      /\ writer = Nil => queue' = {}
      /\ writer # Nil => readers' = readers
  BY <1>1, <1>3, RLockStep
<1>5. TypeOK'
  <2>1. /\ scoredBy' \in [Scorers -> Versions \cup {Nil}]
        /\ answered' \in [Scorers -> Versions \cup {Nil}]
        /\ written' \in [Scorers -> Versions \cup {Nil}]
    BY DEF FeaturesFound, AskVersion, AskVersionAgain, requestVars, TypeOK
  <2>2. QED
    BY <1>1, <1>2, <1>4, <2>1 DEF TypeOK, ScorerPcs, heapVars
<1>6. Locked'
  <2>1. \A u \in Scorers : u \in readers' \cup queue' <=> pc'[u] \in ReadPcs
    BY <1>1, <1>2, <1>4 DEF Locked, ReadPcs
  <2>2. \A u \in Reloaders : u \in readers' \cup queue' <=> pc'[u] = "checking"
    BY <1>1, <1>2, <1>4 DEF Locked
  <2>3. \A u \in Scorers : pc'[u] = "running" => u \in readers'
    BY <1>1, <1>2, <1>4 DEF Locked
  <2>4. \A u \in Reloaders \cup {Main} : pc'[u] = pc[u]
    BY <1>2
  <2>5. \A u \in Reloaders \cup {Main} : pc'[u] = "unlocking" => readers' = {}
    BY <1>4, <2>4 DEF Locked, WritePcs
  <2>6. QED
    BY <1>4, <2>1, <2>2, <2>3, <2>4, <2>5 DEF Locked
<1>7. Owned'
  BY <1>1, <1>2 DEF Owned, OwnPcs, NoLeak, heapVars
<1>8. Stopped'
  BY <1>1, <1>2 DEF Stopped, HandlersDone, LoggerPcs, heapVars
<1>9. QED
  BY <1>5, <1>6, <1>7, <1>8

LEMMA ReloaderLocks ==
  ASSUME Inv, NEW t \in Reloaders, ReceiveReload(t)
  PROVE  Inv'
<1> USE Apart DEF Inv
<1>1. /\ Goto(t, "checking") /\ RLock(t)
      /\ pc[t] = "idle" /\ pc[Main] = "serving"
      /\ UNCHANGED <<heapVars, own, requestVars, timedOut, panics>>
  BY DEF ReceiveReload, At
<1>2. /\ pc' \in [Threads -> ScorerPcs \cup ReloaderPcs \cup MainPcs]
      /\ \A u \in Threads : pc'[u] = IF u = t THEN "checking" ELSE pc[u]
  BY <1>1, Goes DEF ReloaderPcs
<1>3. t \notin readers \cup queue
  BY <1>1 DEF Locked
<1>4. /\ readers' \subseteq Threads /\ queue' \subseteq Threads /\ writer' = writer
      /\ readers' \cap queue' = {}
      /\ readers' \cup queue' = readers \cup queue \cup {t}
      /\ readers \subseteq readers'
      /\ writer = Nil => queue' = {}
      /\ writer # Nil => readers' = readers
  BY <1>1, <1>3, RLockStep
<1>5. TypeOK'
  BY <1>1, <1>2, <1>4 DEF TypeOK, ReloaderPcs, heapVars, requestVars
<1>6. Locked'
  <2>1. \A u \in Scorers : u \in readers' \cup queue' <=> pc'[u] \in ReadPcs
    BY <1>1, <1>2, <1>4 DEF Locked, ReadPcs
  <2>2. \A u \in Reloaders : u \in readers' \cup queue' <=> pc'[u] = "checking"
    BY <1>1, <1>2, <1>4 DEF Locked
  <2>3. \A u \in Scorers : pc'[u] = "running" => u \in readers'
    BY <1>1, <1>2, <1>4 DEF Locked
  <2>4. \A u \in Reloaders \cup {Main} :
          (pc'[u] \in WritePcs <=> pc[u] \in WritePcs)
            /\ (pc'[u] = "unlocking" => pc[u] = "unlocking")
    BY <1>1, <1>2 DEF WritePcs
  <2>5. \A u \in Reloaders \cup {Main} : pc'[u] = "unlocking" => readers' = {}
    BY <1>4, <2>4 DEF Locked, WritePcs
  <2>6. QED
    BY <1>4, <2>1, <2>2, <2>3, <2>4, <2>5 DEF Locked
<1>7. Owned'
  BY <1>1, <1>2 DEF Owned, OwnPcs, NoLeak, heapVars
<1>8. Stopped'
  BY <1>1, <1>2 DEF Stopped, HandlersDone, LoggerPcs, heapVars
<1>9. QED
  BY <1>5, <1>6, <1>7, <1>8

\* A scorer that has read what it wanted leaves the lock.
LEMMA ScorerUnlocks ==
  ASSUME Inv, NEW t \in Scorers,
         FinishRun(t) \/ Respond(t) \/ ReadAgain(t) \/ HandlerPanics(t)
  PROVE  Inv'
<1> USE Apart DEF Inv
<1>1. PICK l \in {"scored", "idle", "responding", "storing"} :
        /\ Goto(t, l) /\ RUnlock(t)
        /\ \/ pc[t] = "running" /\ l \in {"scored", "idle"} /\ current # Nil
                /\ UNCHANGED panics
           \/ pc[t] = "reading" /\ l = "responding" /\ UNCHANGED panics
           \/ pc[t] = "rereading" /\ l = "storing" /\ UNCHANGED panics
           \/ /\ pc[t] \in {"entering", "reading"} /\ l = "idle"
              /\ current = Nil /\ panics' = panics \cup {"handler"}
        /\ own' = own \/ own' = [own EXCEPT ![t] = Nil]
        /\ UNCHANGED <<heapVars, timedOut>>
  <2>1. CASE FinishRun(t)
    BY <2>1 DEF FinishRun, At, Owned
  <2>2. CASE Respond(t)
    BY <2>2 DEF Respond, At
  <2>3. CASE ReadAgain(t)
    BY <2>3 DEF ReadAgain, At
  <2>4. CASE HandlerPanics(t)
    <3>1. pc[t] # "checking"
      BY DEF TypeOK, ScorerPcs
    <3>2. QED
      BY <2>4, <3>1 DEF HandlerPanics, At
  <2>5. QED
    BY <2>1, <2>2, <2>3, <2>4
<1>2. /\ pc' \in [Threads -> ScorerPcs \cup ReloaderPcs \cup MainPcs]
      /\ \A u \in Threads : pc'[u] = IF u = t THEN l ELSE pc[u]
  BY <1>1, Goes DEF ScorerPcs
<1>3. /\ readers' = readers \ {t} /\ queue' = queue /\ writer' = writer
      /\ t \in readers
  <2>1. t \in readers
    BY DEF FinishRun, Respond, ReadAgain, HandlerPanics, At, Locked
  <2>2. QED
    BY <1>1, <2>1 DEF RUnlock
<1>4. TypeOK'
  <2>1. own' \in [Threads -> Runners \cup {Nil}] /\ panics' \subseteq {"handler", "goroutine"}
    BY <1>1 DEF TypeOK
  <2>2. /\ scoredBy' \in [Scorers -> Versions \cup {Nil}]
        /\ answered' \in [Scorers -> Versions \cup {Nil}]
        /\ written' \in [Scorers -> Versions \cup {Nil}]
    <3>1. CASE FinishRun(t)
      <4>1. version[own[t]] \in Versions
        BY <3>1 DEF FinishRun, At, TypeOK, Owned
      <4>2. QED
        BY <3>1, <4>1 DEF FinishRun, TypeOK
    <3>2. CASE Respond(t)
      BY <3>2 DEF Respond, TypeOK
    <3>3. CASE ReadAgain(t)
      BY <3>3 DEF ReadAgain, TypeOK
    <3>4. CASE HandlerPanics(t)
      BY <3>4 DEF HandlerPanics, requestVars, TypeOK
    <3>5. QED
      BY <3>1, <3>2, <3>3, <3>4
  <2>3. QED
    BY <1>1, <1>2, <1>3, <2>1, <2>2 DEF TypeOK, ScorerPcs, heapVars
<1>5. Locked'
  BY <1>1, <1>2, <1>3 DEF Locked, ReadPcs
<1>6. Owned'
  <2>1. \A u \in Scorers \cup Reloaders : u # t => own'[u] = own[u] /\ pc'[u] = pc[u]
    BY <1>1, <1>2 DEF TypeOK
  <2>2. pc'[t] # "running" /\ current' = current /\ session' = session
    BY <1>1, <1>2 DEF heapVars
  <2>3. NoLeak'
    BY <2>1, <2>2 DEF Owned, NoLeak
  <2>4. QED
    BY <2>1, <2>2, <2>3 DEF Owned
<1>7. Stopped'
  <2>1. current = Nil => timedOut
    BY <1>1 DEF Stopped
  <2>2. HandlersDone => pc[t] \in LoggerPcs /\ l = "storing"
    BY <1>1 DEF HandlersDone, LoggerPcs
  <2>3. HandlersDone => HandlersDone'
    BY <1>2, <2>2 DEF HandlersDone, LoggerPcs
  <2>4. current' = current /\ pc'[Main] = pc[Main] /\ timedOut' = timedOut
          /\ (~timedOut => panics' = panics)
    BY <1>1, <1>2, <2>1 DEF heapVars
  <2>5. ~timedOut => pc[Main] \notin {"locking", "waiting", "unlocking", "closing", "exited"}
    BY <1>1 DEF Stopped
  <2>6. \A u \in Reloaders : pc'[u] = pc[u] /\ own'[u] = own[u]
    BY <1>1, <1>2 DEF TypeOK
  <2>7. QED
    BY <2>3, <2>4, <2>5, <2>6 DEF Stopped
<1>8. QED
  BY <1>4, <1>5, <1>6, <1>7

LEMMA ReloaderUnlocks ==
  ASSUME Inv, NEW t \in Reloaders, ReadOldVersion(t) \/ HandlerPanics(t)
  PROVE  Inv'
<1> USE Apart DEF Inv
<1>1. PICK l \in {"loading", "idle"} :
        /\ Goto(t, l) /\ RUnlock(t) /\ t \in readers /\ pc[t] = "checking"
        /\ \/ l = "loading" /\ UNCHANGED panics
           \/ l = "idle" /\ current = Nil /\ panics' = panics \cup {"handler"}
        /\ UNCHANGED <<heapVars, own, requestVars, timedOut>>
  <2>1. pc[t] \notin {"entering", "reading"}
    BY DEF TypeOK, ReloaderPcs
  <2>2. QED
    BY <2>1 DEF ReadOldVersion, HandlerPanics, At
<1>2. /\ pc' \in [Threads -> ScorerPcs \cup ReloaderPcs \cup MainPcs]
      /\ \A u \in Threads : pc'[u] = IF u = t THEN l ELSE pc[u]
  BY <1>1, Goes DEF ReloaderPcs
<1>3. readers' = readers \ {t} /\ queue' = queue /\ writer' = writer
  BY <1>1 DEF RUnlock
<1>4. TypeOK'
  BY <1>1, <1>2, <1>3 DEF TypeOK, ReloaderPcs, heapVars, requestVars
<1>5. Locked'
  BY <1>1, <1>2, <1>3 DEF Locked, WritePcs
<1>6. Owned'
  BY <1>1, <1>2 DEF Owned, OwnPcs, NoLeak, heapVars
<1>7. Stopped'
  <2>1. ~timedOut => current # Nil /\ pc[Main] \notin {"draining", "locking", "waiting", "unlocking", "closing", "exited"}
    BY <1>1 DEF Stopped, HandlersDone
  <2>2. QED
    BY <1>1, <1>2, <2>1 DEF Stopped, heapVars
<1>8. QED
  BY <1>4, <1>5, <1>6, <1>7

------------------------------------------------------------------------------
(* Steps that hand a runner around.                                         *)

\* A scorer borrows the current runner.
LEMMA EnterRunStep ==
  ASSUME Inv, NEW t \in Scorers, EnterRun(t)
  PROVE  Inv'
<1> USE Apart DEF Inv
<1>1. /\ Goto(t, "running") /\ pc[t] = "entering" /\ t \in readers /\ current # Nil
      /\ own' = [own EXCEPT ![t] = current]
      /\ UNCHANGED <<heapVars, lockVars, requestVars, timedOut, panics>>
  BY DEF EnterRun, At
<1>2. /\ pc' \in [Threads -> ScorerPcs \cup ReloaderPcs \cup MainPcs]
      /\ \A u \in Threads : pc'[u] = IF u = t THEN "running" ELSE pc[u]
  BY <1>1, Goes DEF ScorerPcs
<1>3. /\ own' \in [Threads -> Runners \cup {Nil}]
      /\ \A u \in Threads : own'[u] = IF u = t THEN current ELSE own[u]
  BY <1>1 DEF TypeOK
<1>4. TypeOK'
  BY <1>1, <1>2, <1>3 DEF TypeOK, ScorerPcs, heapVars, lockVars, requestVars
<1>5. Locked'
  BY <1>1, <1>2 DEF Locked, ReadPcs, lockVars
<1>6. Owned'
  BY <1>1, <1>2, <1>3 DEF Owned, NoLeak, heapVars
<1>7. Stopped'
  BY <1>1, <1>2, <1>3 DEF Stopped, HandlersDone, LoggerPcs, heapVars
<1>8. QED
  BY <1>4, <1>5, <1>6, <1>7

\* A new session is nobody's but the reload's that made it.
LEMMA LoadRunnerStep ==
  ASSUME Inv, NEW t \in Reloaders, LoadRunner(t)
  PROVE  Inv'
<1> USE Apart DEF Inv
<1>1. PICK r \in Runners :
        /\ Goto(t, "validating") /\ pc[t] = "loading"
        /\ session[r] = "none"
        /\ session' = [session EXCEPT ![r] = "live"]
        /\ own' = [own EXCEPT ![t] = r]
        /\ UNCHANGED <<current, version, lockVars, requestVars, timedOut, panics>>
  BY DEF LoadRunner, At
<1>2. /\ pc' \in [Threads -> ScorerPcs \cup ReloaderPcs \cup MainPcs]
      /\ \A u \in Threads : pc'[u] = IF u = t THEN "validating" ELSE pc[u]
  BY <1>1, Goes DEF ReloaderPcs
<1>3. /\ own' \in [Threads -> Runners \cup {Nil}]
      /\ \A u \in Threads : own'[u] = IF u = t THEN r ELSE own[u]
      /\ session' \in [Runners -> {"none", "live", "destroyed"}]
      /\ \A q \in Runners : session'[q] = IF q = r THEN "live" ELSE session[q]
  BY <1>1 DEF TypeOK
<1>4. TypeOK'
  BY <1>1, <1>2, <1>3 DEF TypeOK, ReloaderPcs, lockVars, requestVars
<1>5. Locked'
  BY <1>1, <1>2 DEF Locked, ReadPcs, WritePcs, lockVars
<1>6. r # current /\ \A u \in Reloaders : own[u] # r
  BY <1>1 DEF Owned, TypeOK
<1>7. own[t] = Nil
  BY <1>1 DEF Owned, OwnPcs
<1>8. Owned'
  <2>1. NoLeak'
    BY <1>1, <1>3, <1>7 DEF Owned, NoLeak
  <2>2. \A u \in Reloaders : own'[u] # Nil => session'[own'[u]] = "live" /\ own'[u] # current'
    BY <1>1, <1>3, <1>6 DEF Owned, TypeOK
  <2>3. \A u, v \in Reloaders : own'[u] # Nil /\ own'[u] = own'[v] => u = v
    BY <1>3, <1>6 DEF Owned
  <2>4. \A u \in Reloaders : /\ pc'[u] \in OwnPcs \/ own'[u] = Nil
                             /\ pc'[u] \in {"validating", "locking", "waiting"} => own'[u] # Nil
    BY <1>2, <1>3 DEF Owned, OwnPcs
  <2>5. \A u \in Scorers : pc'[u] = "running" => own'[u] = current' /\ current' # Nil
    BY <1>1, <1>2, <1>3 DEF Owned
  <2>6. current' # Nil => session'[current'] = "live"
    BY <1>1, <1>3 DEF Owned, TypeOK
  <2>7. QED
    BY <2>1, <2>2, <2>3, <2>4, <2>5, <2>6 DEF Owned
<1>9. Stopped'
  BY <1>1, <1>2, <1>3 DEF Stopped, HandlersDone, LoggerPcs
<1>10. QED
  BY <1>4, <1>5, <1>8, <1>9

\* What a reload that destroys the runner it owns leaves to the others.
LEMMA GivenUp ==
  ASSUME Inv, NEW t \in Reloaders, own[t] # Nil, Goto(t, "idle"),
         pc[t] \in {"validating", "destroying"},
         session' = [session EXCEPT ![own[t]] = "destroyed"],
         own' = [own EXCEPT ![t] = Nil],
         UNCHANGED <<current, version, lockVars, requestVars, timedOut, panics>>
  PROVE  Inv'
<1> USE Apart DEF Inv
<1>1. /\ pc' \in [Threads -> ScorerPcs \cup ReloaderPcs \cup MainPcs]
      /\ \A u \in Threads : pc'[u] = IF u = t THEN "idle" ELSE pc[u]
  BY Goes DEF ReloaderPcs
<1>2. /\ own' \in [Threads -> Runners \cup {Nil}]
      /\ \A u \in Threads : own'[u] = IF u = t THEN Nil ELSE own[u]
      /\ session' \in [Runners -> {"none", "live", "destroyed"}]
      /\ \A q \in Runners : session'[q] = IF q = own[t] THEN "destroyed" ELSE session[q]
  BY DEF TypeOK
<1>3. TypeOK'
  BY <1>1, <1>2 DEF TypeOK, ReloaderPcs, lockVars, requestVars
<1>4. Locked'
  BY <1>1 DEF Locked, ReadPcs, WritePcs, lockVars
<1>5. own[t] # current
  BY DEF Owned
<1>6. Owned'
  <2>1. NoLeak'
    BY <1>2 DEF Owned, NoLeak
  <2>2. \A u \in Reloaders : own'[u] # Nil => session'[own'[u]] = "live" /\ own'[u] # current'
    BY <1>2 DEF Owned, TypeOK
  <2>3. \A u, v \in Reloaders : own'[u] # Nil /\ own'[u] = own'[v] => u = v
    BY <1>2 DEF Owned
  <2>4. \A u \in Reloaders : /\ pc'[u] \in OwnPcs \/ own'[u] = Nil
                             /\ pc'[u] \in {"validating", "locking", "waiting"} => own'[u] # Nil
    BY <1>1, <1>2 DEF Owned
  <2>5. \A u \in Scorers : pc'[u] = "running" => own'[u] = current' /\ current' # Nil
    BY <1>1, <1>2 DEF Owned
  <2>6. current' # Nil => session'[current'] = "live"
    BY <1>2, <1>5 DEF Owned, TypeOK
  <2>7. QED
    BY <2>1, <2>2, <2>3, <2>4, <2>5, <2>6 DEF Owned
<1>7. Stopped'
  BY <1>1, <1>2 DEF Stopped, HandlersDone, LoggerPcs
<1>8. QED
  BY <1>3, <1>4, <1>6, <1>7

LEMMA ValidateFailsStep ==
  ASSUME Inv, NEW t \in Reloaders, ValidateFails(t)
  PROVE  Inv'
<1>1. own[t] # Nil
  BY DEF ValidateFails, At, Inv, Owned
<1>2. QED
  BY <1>1, GivenUp DEF ValidateFails, At

\* Only after the teardown of a timed-out shutdown can the old runner be nil.
LEMMA DestroyOldStep ==
  ASSUME Inv, NEW t \in Reloaders, DestroyOld(t)
  PROVE  Inv'
<1> USE Apart DEF Inv
<1>1. CASE own[t] # Nil
  BY <1>1, GivenUp DEF DestroyOld, At
<1>2. CASE own[t] = Nil
  <2>1. /\ Goto(t, "idle") /\ pc[t] = "destroying"
        /\ panics' = panics \cup {"handler"}
        /\ own' = own
        /\ UNCHANGED <<heapVars, lockVars, requestVars, timedOut>>
    BY <1>2 DEF DestroyOld, At, TypeOK, heapVars
  <2>2. /\ pc' \in [Threads -> ScorerPcs \cup ReloaderPcs \cup MainPcs]
        /\ \A u \in Threads : pc'[u] = IF u = t THEN "idle" ELSE pc[u]
    BY <2>1, Goes DEF ReloaderPcs
  <2>3. TypeOK'
    BY <2>1, <2>2 DEF TypeOK, ReloaderPcs, heapVars, lockVars, requestVars
  <2>4. Locked'
    BY <2>1, <2>2 DEF Locked, ReadPcs, WritePcs, lockVars
  <2>5. Owned'
    BY <1>2, <2>1, <2>2 DEF Owned, NoLeak, heapVars
  <2>6. Stopped'
    BY <1>2, <2>1, <2>2 DEF Stopped, HandlersDone, heapVars
  <2>7. QED
    BY <2>3, <2>4, <2>5, <2>6
<1>3. QED
  BY <1>1, <1>2

------------------------------------------------------------------------------
(* Steps of a thread that wants, has or gives up the write lock.            *)

\* Lock by a reload or by the teardown.
LEMMA RequestLockStep ==
  ASSUME Inv, NEW t \in Reloaders \cup {Main}, RequestLock(t)
  PROVE  Inv'
<1> USE Apart DEF Inv
<1>1. /\ Goto(t, "waiting") /\ pc[t] = "locking"
      /\ writer = Nil /\ writer' = t /\ readers' = readers /\ queue' = queue
      /\ UNCHANGED <<heapVars, own, requestVars, timedOut, panics>>
  BY DEF RequestLock, At, Announce
<1>2. /\ pc' \in [Threads -> ScorerPcs \cup ReloaderPcs \cup MainPcs]
      /\ \A u \in Threads : pc'[u] = IF u = t THEN "waiting" ELSE pc[u]
  BY <1>1, Goes DEF ReloaderPcs
<1>3. TypeOK'
  <2>1. \A u \in Scorers : pc'[u] \in ScorerPcs
    BY <1>2 DEF TypeOK
  <2>2. \A u \in Reloaders : pc'[u] \in ReloaderPcs
    BY <1>2 DEF TypeOK, ReloaderPcs
  <2>3. pc'[Main] \in MainPcs
    BY <1>2 DEF TypeOK, MainPcs
  <2>4. QED
    BY <1>1, <1>2, <2>1, <2>2, <2>3 DEF TypeOK, heapVars, requestVars
<1>4. Locked'
  <2>1. \A u \in Scorers : pc'[u] = pc[u]
    BY <1>2
  <2>2. \A u \in Reloaders : u \in readers' \cup queue' <=> pc'[u] = "checking"
    BY <1>1, <1>2 DEF Locked
  <2>3. \A u \in Reloaders \cup {Main} : writer' = u <=> pc'[u] \in WritePcs
    BY <1>1, <1>2 DEF Locked, WritePcs
  <2>4. \A u \in Reloaders \cup {Main} : pc'[u] = "unlocking" => readers' = {}
    BY <1>1, <1>2 DEF Locked
  <2>5. queue' = {}
    BY <1>1 DEF Locked
  <2>6. QED
    BY <1>1, <2>1, <2>2, <2>3, <2>4, <2>5 DEF Locked
<1>5. Owned'
  BY <1>1, <1>2 DEF Owned, OwnPcs, NoLeak, heapVars
<1>6. Stopped'
  BY <1>1, <1>2 DEF Stopped, HandlersDone, LoggerPcs, heapVars
<1>7. QED
  BY <1>3, <1>4, <1>5, <1>6

\* Unlock lets in the readers that waited; nobody else had the lock.
LEMMA ReleaseLockStep ==
  ASSUME Inv, NEW t \in Reloaders \cup {Main}, ReleaseLock(t)
  PROVE  Inv'
<1> USE Apart DEF Inv
<1> DEFINE l == IF t = Main THEN "closing" ELSE "destroying"
<1>1. /\ Goto(t, l) /\ pc[t] = "unlocking"
      /\ writer = t /\ writer' = Nil /\ readers' = queue /\ queue' = {}
      /\ UNCHANGED <<heapVars, own, requestVars, timedOut, panics>>
  BY DEF ReleaseLock, At, Unlock
<1>2. /\ pc' \in [Threads -> ScorerPcs \cup ReloaderPcs \cup MainPcs]
      /\ \A u \in Threads : pc'[u] = IF u = t THEN l ELSE pc[u]
  BY <1>1, Goes DEF ReloaderPcs, MainPcs
<1>3. readers = {}
  BY <1>1 DEF Locked
<1>4. TypeOK'
  <2>1. \A u \in Scorers : pc'[u] \in ScorerPcs
    BY <1>2 DEF TypeOK
  <2>2. \A u \in Reloaders : pc'[u] \in ReloaderPcs
    BY <1>2 DEF TypeOK, ReloaderPcs
  <2>3. pc'[Main] \in MainPcs
    BY <1>2 DEF TypeOK, MainPcs
  <2>4. QED
    BY <1>1, <1>2, <2>1, <2>2, <2>3 DEF TypeOK, heapVars, requestVars
<1>5. Locked'
  <2>1. \A u \in Scorers : pc'[u] = pc[u] /\ (pc[u] = "running" => u \in readers)
    BY <1>2 DEF Locked
  <2>2. \A u \in Reloaders : u \in readers' \cup queue' <=> pc'[u] = "checking"
    BY <1>1, <1>2, <1>3 DEF Locked
  <2>3. \A u \in Reloaders \cup {Main} : pc'[u] \notin WritePcs
    BY <1>1, <1>2 DEF Locked, WritePcs
  <2>4. QED
    BY <1>1, <1>3, <2>1, <2>2, <2>3 DEF Locked, WritePcs
<1>6. Owned'
  BY <1>1, <1>2 DEF Owned, OwnPcs, NoLeak, heapVars
<1>7. Stopped'
  BY <1>1, <1>2 DEF Stopped, HandlersDone, LoggerPcs, heapVars
<1>8. QED
  BY <1>4, <1>5, <1>6, <1>7

LEMMA ExitStep ==
  ASSUME Inv, Exit
  PROVE  Inv'
<1> USE Apart DEF Inv
<1>1. /\ Goto(Main, "exited") /\ pc[Main] = "closing"
      /\ UNCHANGED <<heapVars, lockVars, own, requestVars, timedOut, panics>>
  BY DEF Exit, At
<1>2. /\ pc' \in [Threads -> ScorerPcs \cup ReloaderPcs \cup MainPcs]
      /\ \A u \in Threads : pc'[u] = IF u = Main THEN "exited" ELSE pc[u]
  BY <1>1, Goes DEF MainPcs
<1>3. TypeOK'
  BY <1>1, <1>2 DEF TypeOK, MainPcs, heapVars, lockVars, requestVars
<1>4. Locked'
  BY <1>1, <1>2 DEF Locked, ReadPcs, WritePcs, lockVars
<1>5. Owned'
  BY <1>1, <1>2 DEF Owned, OwnPcs, NoLeak, heapVars
<1>6. Stopped'
  BY <1>1, <1>2 DEF Stopped, HandlersDone, LoggerPcs, heapVars
<1>7. QED
  BY <1>3, <1>4, <1>5, <1>6

\* With the write lock nobody runs on the current runner: it changes hands.
LEMMA SwapStep ==
  ASSUME Inv, NEW t \in Reloaders, Swap(t)
  PROVE  Inv'
<1> USE Apart DEF Inv
<1>1. /\ Goto(t, "unlocking") /\ pc[t] = "waiting"
      /\ writer = t /\ readers = {}
      /\ current' = own[t] /\ own' = [own EXCEPT ![t] = current]
      /\ UNCHANGED <<session, version, lockVars, requestVars, timedOut, panics>>
  BY DEF Swap, At, Acquired
<1>2. /\ pc' \in [Threads -> ScorerPcs \cup ReloaderPcs \cup MainPcs]
      /\ \A u \in Threads : pc'[u] = IF u = t THEN "unlocking" ELSE pc[u]
  BY <1>1, Goes DEF ReloaderPcs
<1>3. /\ own' \in [Threads -> Runners \cup {Nil}]
      /\ \A u \in Threads : own'[u] = IF u = t THEN current ELSE own[u]
      /\ own[t] \in Runners /\ own[t] # current /\ session[own[t]] = "live"
  BY <1>1 DEF TypeOK, Owned
<1>4. TypeOK'
  BY <1>1, <1>2, <1>3 DEF TypeOK, ReloaderPcs, lockVars, requestVars
<1>5. Locked'
  BY <1>1, <1>2 DEF Locked, ReadPcs, WritePcs, lockVars
<1>6. \A u \in Scorers : pc'[u] # "running"
  BY <1>1, <1>2 DEF Locked
<1>7. Owned'
  <2>1. NoLeak'
    BY <1>1, <1>3 DEF Owned, NoLeak
  <2>2. \A u \in Reloaders : own'[u] # Nil => session'[own'[u]] = "live" /\ own'[u] # current'
    BY <1>1, <1>3 DEF Owned
  <2>3. \A u, v \in Reloaders : own'[u] # Nil /\ own'[u] = own'[v] => u = v
    BY <1>3 DEF Owned
  <2>4. \A u \in Reloaders : /\ pc'[u] \in OwnPcs \/ own'[u] = Nil
                             /\ pc'[u] \in {"validating", "locking", "waiting"} => own'[u] # Nil
    BY <1>2, <1>3 DEF Owned, OwnPcs
  <2>5. QED
    BY <1>1, <1>3, <1>6, <2>1, <2>2, <2>3, <2>4 DEF Owned
<1>8. Stopped'
  <2>1. current' # Nil
    BY <1>1, <1>3
  <2>2. pc[Main] \notin {"waiting", "unlocking"}
    BY <1>1 DEF Locked, WritePcs
  <2>3. pc'[Main] = pc[Main] /\ timedOut' = timedOut /\ panics' = panics
    BY <1>1, <1>2
  <2>4. ~timedOut => pc[Main] \notin {"draining", "locking", "closing", "exited"} /\ current # Nil
    BY <1>1, <2>2 DEF Stopped, HandlersDone
  <2>5. \A u \in Reloaders :
          pc'[u] \in {"unlocking", "destroying"} /\ own'[u] = Nil => timedOut
    BY <1>2, <1>3, <2>4 DEF Stopped
  <2>6. QED
    BY <2>1, <2>2, <2>3, <2>4, <2>5 DEF Stopped
<1>9. QED
  BY <1>4, <1>5, <1>7, <1>8

\* The teardown destroys the current runner and leaves none.
LEMMA DestroyCurrentStep ==
  ASSUME Inv, DestroyCurrent
  PROVE  Inv'
<1> USE Apart DEF Inv
<1>1. /\ Goto(Main, "unlocking") /\ pc[Main] = "waiting"
      /\ writer = Main /\ readers = {}
      /\ current # Nil /\ current' = Nil
      /\ session' = [session EXCEPT ![current] = "destroyed"]
      /\ UNCHANGED <<version, lockVars, own, requestVars, timedOut, panics>>
  BY DEF DestroyCurrent, At, Acquired, Stopped
<1>2. /\ pc' \in [Threads -> ScorerPcs \cup ReloaderPcs \cup MainPcs]
      /\ \A u \in Threads : pc'[u] = IF u = Main THEN "unlocking" ELSE pc[u]
  BY <1>1, Goes DEF MainPcs
<1>3. /\ session' \in [Runners -> {"none", "live", "destroyed"}]
      /\ \A q \in Runners : session'[q] = IF q = current THEN "destroyed" ELSE session[q]
  BY <1>1 DEF TypeOK
<1>4. TypeOK'
  BY <1>1, <1>2, <1>3 DEF TypeOK, MainPcs, lockVars, requestVars
<1>5. Locked'
  BY <1>1, <1>2 DEF Locked, ReadPcs, WritePcs, lockVars
<1>6. \A u \in Scorers : pc'[u] # "running"
  BY <1>1, <1>2 DEF Locked
<1>7. Owned'
  <2>1. NoLeak'
    BY <1>1, <1>3 DEF Owned, NoLeak
  <2>2. \A u \in Reloaders : own'[u] # Nil => session'[own'[u]] = "live" /\ own'[u] # current'
    BY <1>1, <1>3 DEF Owned, TypeOK
  <2>3. \A u \in Reloaders : pc'[u] = pc[u] /\ own'[u] = own[u]
    BY <1>1, <1>2
  <2>4. QED
    BY <1>1, <1>6, <2>1, <2>2, <2>3 DEF Owned
<1>8. Stopped'
  BY <1>1, <1>2 DEF Stopped, HandlersDone, LoggerPcs
<1>9. QED
  BY <1>4, <1>5, <1>7, <1>8

------------------------------------------------------------------------------
(* The invariant holds.                                                     *)

LEMMA StepInv ==
  ASSUME Inv, [Next]_vars
  PROVE  Inv'
<1>1. ASSUME NEW t \in Scorers, Score(t)
      PROVE  Inv'
  BY <1>1, ScorerLocks, EnterRunStep, ScorerUnlocks, ScorerMoves, LoggerPanicStep
     DEF Score
<1>2. ASSUME NEW t \in Reloaders, Reload(t)
      PROVE  Inv'
  <2>1. t \in Reloaders \cup {Main}
    OBVIOUS
  <2>2. QED
    BY <1>2, <2>1, ReloaderLocks, ReloaderUnlocks, LoadRunnerStep, ReloaderMoves,
       ValidateFailsStep, RequestLockStep, SwapStep, ReleaseLockStep, DestroyOldStep
       DEF Reload
<1>3. ASSUME Shutdown
      PROVE  Inv'
  <2>1. Main \in Reloaders \cup {Main}
    OBVIOUS
  <2>2. QED
    BY <1>3, <2>1, MainMoves, RequestLockStep, DestroyCurrentStep, ReleaseLockStep,
       ExitStep DEF Shutdown
<1>4. ASSUME UNCHANGED vars
      PROVE  Inv'
  BY <1>4 DEF vars, heapVars, lockVars, requestVars, Inv, TypeOK, Locked, Owned, NoLeak,
              Stopped, HandlersDone
<1>5. QED
  BY <1>1, <1>2, <1>3, <1>4 DEF Next

LEMMA AlwaysInv == Spec => []Inv
<1>1. Init => Inv
  BY InitInv
<1>2. Inv /\ [Next]_vars => Inv'
  BY StepInv
<1>3. QED
  BY <1>1, <1>2, PTL DEF Spec

------------------------------------------------------------------------------
(* Theorems.                                                                *)

\* Every reachable state of a serving process is well typed (runner.go,
\* handlers.go, main.go), with any number of requests, reloads and runners.
THEOREM SwapTypeCorrect == Spec => []TypeOK
<1>1. Inv => TypeOK
  BY DEF Inv
<1>2. QED
  BY <1>1, AlwaysInv, PTL

\* No request runs on a destroyed session: Reload takes the write lock before it
\* replaces the runner it destroys (runner.go:45-74, 102-109).
THEOREM RunsOnLiveSessions == Spec => []NoUseAfterDestroy
<1>1. Inv => NoUseAfterDestroy
  BY DEF Inv, Owned, NoUseAfterDestroy
<1>2. QED
  BY <1>1, AlwaysInv, PTL

\* Any number of reloads at once destroy each runner they replace exactly once
\* (runner.go:68-72).
THEOREM ReloadsDestroyOnce == Spec => []DestroyedOnce
<1>1. Inv => DestroyedOnce
  BY DEF Inv, Owned, DestroyedOnce
<1>2. QED
  BY <1>1, AlwaysInv, PTL

\* No session is lost by a reload, whether it fails or succeeds (runner.go:57-74).
THEOREM SessionsAreOwned == Spec => []NoLeak
<1>1. Inv => NoLeak
  BY DEF Inv, Owned
<1>2. QED
  BY <1>1, AlwaysInv, PTL

\* When httpServer.Shutdown does not time out, nobody meets the nil runner and
\* no session outlives the process's teardown (main.go:97-111).
THEOREM OrderlyTeardown == Spec => []OrderlyStop
<1>1. Inv => OrderlyStop
  <2> SUFFICES ASSUME Inv, ~timedOut
               PROVE  /\ panics = {}
                      /\ pc[Main] = "exited" => \A r \in Runners : session[r] # "live"
    BY DEF OrderlyStop
  <2>1. panics = {}
    BY DEF Inv, Stopped
  <2>2. ASSUME pc[Main] = "exited"
        PROVE  \A r \in Runners : session[r] # "live"
    <3>1. current = Nil /\ \A t \in Reloaders : pc[t] = "idle"
      BY <2>2 DEF Inv, Stopped
    <3>2. \A t \in Reloaders : own[t] = Nil
      BY <3>1 DEF Inv, Owned, OwnPcs
    <3>3. QED
      BY <3>1, <3>2, Apart DEF Inv, Owned, NoLeak
  <2>3. QED
    BY <2>1, <2>2
<1>2. QED
  BY <1>1, AlwaysInv, PTL
------------------------------------------------------------------------------
(* Refinement.                                                              *)

LoadedPcs == {"validating", "locking", "waiting"}

\* What a stage is, for one runner.
LEMMA StageOf ==
  ASSUME NEW r \in Runners
  PROVE  Stage[r] = IF session[r] # "live" THEN session[r]
                    ELSE IF r = current THEN "serving"
                    ELSE IF \E t \in Reloaders : own[t] = r /\ pc[t] \in LoadedPcs
                      THEN "loaded"
                    ELSE IF \E t \in Reloaders : own[t] = r THEN "displaced"
                    ELSE "leaked"
BY DEF Stage, LoadedPcs

\* When the stage of one runner changes, that is all that changes.
LEMMA OneStage ==
  ASSUME NEW r \in Runners, NEW to, Stage'[r] = to,
         \A q \in Runners \ {r} : Stage'[q] = Stage[q]
  PROVE  Stage' = [Stage EXCEPT ![r] = to]
<1>1. Stage = [q \in Runners |-> Stage[q]]
  BY DEF Stage
<1>2. Stage' = [q \in Runners |-> Stage'[q]]
  BY DEF Stage
<1> QED
  BY <1>1, <1>2

\* A thread that goes on without touching a session, and neither enters nor leaves
\* session.Run, is not seen.
LEMMA MoveUnseen ==
  ASSUME Inv, NEW t \in Threads, NEW l \in ScorerPcs \cup ReloaderPcs \cup MainPcs,
         Goto(t, l), UNCHANGED <<current, session, own>>,
         pc[t] # "running", l # "running",
         t \in Reloaders => (pc[t] \in LoadedPcs <=> l \in LoadedPcs)
  PROVE  UNCHANGED Served!servedVars
<1>1. \A u \in Threads : pc'[u] = IF u = t THEN l ELSE pc[u]
  BY Goes DEF Inv
<1>2. \A u \in Threads : pc'[u] = "running" <=> pc[u] = "running"
  BY <1>1
<1>3. Stage' = Stage
  <2>1. \A u \in Reloaders : pc'[u] \in LoadedPcs <=> pc[u] \in LoadedPcs
    BY <1>1, Apart
  <2>2. \A r \in Runners : (\E u \in Reloaders : own[u] = r /\ pc'[u] \in LoadedPcs)
                       <=> (\E u \in Reloaders : own[u] = r /\ pc[u] \in LoadedPcs)
    BY <2>1
  <2> QED
    BY <2>2 DEF Stage, LoadedPcs
<1>4. Using' = Using
  BY <1>2, Apart DEF Using
<1> QED
  BY <1>3, <1>4 DEF Served!servedVars

\* A reload or the teardown takes part in no scoring.
LEMMA NotUsing ==
  ASSUME Inv, NEW t \in Reloaders \cup {Main}, NEW l \in ReloaderPcs \cup MainPcs,
         Goto(t, l), \A u \in Threads : u = t \/ own'[u] = own[u]
  PROVE  Using' = Using
<1>1. l \in ScorerPcs \cup ReloaderPcs \cup MainPcs /\ t \in Threads
  BY Apart
<1>2. \A u \in Threads : pc'[u] = IF u = t THEN l ELSE pc[u]
  BY <1>1, Goes DEF Inv
<1>3. \A u \in Scorers : pc'[u] = pc[u] /\ own'[u] = own[u]
  BY <1>2, Apart
<1> QED
  BY <1>3 DEF Using

\* With no reader left, no request uses a model.
LEMMA NoneUsing ==
  ASSUME Inv, readers = {}
  PROVE  Served!Unused
<1>1. \A u \in Scorers : pc[u] # "running"
  BY DEF Inv, Locked
<1> QED
  BY <1>1 DEF Served!Unused, Using

LEMMA ScoreServed ==
  ASSUME Inv, NEW t \in Scorers, Score(t)
  PROVE  [Served!ServedNext]_(Served!servedVars)
<1> USE Apart DEF Inv
<1>1. CASE EnterRun(t)
  <2>1. /\ Goto(t, "running") /\ pc[t] = "entering" /\ current # Nil
        /\ own' = [own EXCEPT ![t] = current] /\ UNCHANGED <<current, session>>
    BY <1>1 DEF EnterRun, At, heapVars
  <2>2. \A u \in Threads : /\ pc'[u] = IF u = t THEN "running" ELSE pc[u]
                           /\ own'[u] = IF u = t THEN current ELSE own[u]
    BY <2>1, Goes DEF TypeOK, ScorerPcs
  <2>3. current \in Runners /\ session[current] = "live"
    BY <2>1 DEF TypeOK, Owned
  <2>4. Stage[current] = "serving"
    BY <2>3, StageOf
  <2>5. Stage' = Stage
    <3>1. \A u \in Reloaders : pc'[u] = pc[u] /\ own'[u] = own[u]
      BY <2>2
    <3> QED
      BY <2>1, <3>1 DEF Stage
  <2>6. Using[t] = Nil /\ Using' = [Using EXCEPT ![t] = current]
    BY <2>1, <2>2 DEF Using
  <2>7. Served!Begin(t, current)
    BY <2>4, <2>5, <2>6 DEF Served!Begin
  <2> QED
    BY <2>3, <2>7 DEF Served!ServedNext
<1>2. CASE FinishRun(t)
  <2>1. /\ Goto(t, "scored") \/ Goto(t, "idle")
        /\ own' = [own EXCEPT ![t] = Nil] /\ UNCHANGED <<current, session>>
    BY <1>2 DEF FinishRun, heapVars
  <2>2. /\ \A u \in Threads \ {t} : pc'[u] = pc[u] /\ own'[u] = own[u]
        /\ pc'[t] # "running"
    BY <2>1, Goes DEF TypeOK, ScorerPcs
  <2>3. Stage' = Stage
    <3>1. \A u \in Reloaders : pc'[u] = pc[u] /\ own'[u] = own[u]
      BY <2>2
    <3> QED
      BY <2>1, <3>1 DEF Stage
  <2>4. Using' = [Using EXCEPT ![t] = Nil]
    BY <2>2 DEF Using
  <2>5. Served!End(t)
    BY <2>3, <2>4 DEF Served!End
  <2> QED
    BY <2>5 DEF Served!ServedNext
<1>3. CASE LoggerPanics(t)
  <2>1. UNCHANGED <<current, session, own, pc>>
    BY <1>3 DEF LoggerPanics, heapVars
  <2> QED
    BY <2>1 DEF Served!servedVars, Stage, Using
<1>4. CASE ~(EnterRun(t) \/ FinishRun(t) \/ LoggerPanics(t))
  <2>1. PICK l \in {"looking", "entering", "idle", "reading", "responding", "logging", "rereading",
                    "storing"} :
          /\ Goto(t, l) /\ UNCHANGED <<current, session, own>>
          /\ pc[t] \in {"idle", "looking", "entering", "scored", "reading", "responding",
                        "logging", "rereading", "storing", "checking"}
    BY <1>4 DEF Score, ReceiveScore, LookupFails, FeaturesFound, AskVersion, Respond, SpawnLogger, AskVersionAgain,
                ReadAgain, StoreRecord, HandlerPanics, At, heapVars
  <2> QED
    BY <2>1, MoveUnseen DEF LoadedPcs, ScorerPcs
<1> QED
  BY <1>1, <1>2, <1>3, <1>4

\* NewRunner's session is loaded; a rejected one is destroyed without ever serving.
LEMMA LoadServed ==
  ASSUME Inv, NEW t \in Reloaders, LoadRunner(t) \/ ValidateFails(t)
  PROVE  Served!ServedNext
<1> USE Apart DEF Inv
<1>1. CASE LoadRunner(t)
  <2>1. PICK r \in Runners : /\ session[r] = "none"
                             /\ session' = [session EXCEPT ![r] = "live"]
                             /\ own' = [own EXCEPT ![t] = r]
    BY <1>1 DEF LoadRunner
  <2>2. Goto(t, "validating") /\ pc[t] = "loading" /\ current' = current
    BY <1>1 DEF LoadRunner, At
  <2>3. \A u \in Threads : /\ pc'[u] = IF u = t THEN "validating" ELSE pc[u]
                           /\ own'[u] = IF u = t THEN r ELSE own[u]
    BY <2>1, <2>2, Goes DEF TypeOK, ReloaderPcs
  <2>4. own[t] = Nil
    BY <2>2 DEF Owned, OwnPcs
  <2>5. r # current
    BY <2>1 DEF Owned
  <2>6. \A q \in Runners : session'[q] = IF q = r THEN "live" ELSE session[q]
    BY <2>1 DEF TypeOK
  <2>7. Stage[r] = "none"
    BY <2>1, StageOf
  <2>8. Stage' = [Stage EXCEPT ![r] = "loaded"]
    <3>1. \A q \in Runners \ {r} : \A u \in Reloaders :
            /\ own'[u] = q <=> own[u] = q
            /\ own[u] = q => pc'[u] = pc[u]
      BY <2>3, <2>4
    <3>2. Stage'[r] = "loaded"
      BY <2>2, <2>3, <2>5, <2>6 DEF Stage
    <3>3. \A q \in Runners \ {r} : Stage'[q] = Stage[q]
      BY <2>2, <2>6, <3>1 DEF Stage
    <3> QED
      BY <3>2, <3>3, OneStage
  <2>9. Using' = Using
    BY <2>2, <2>3, NotUsing DEF ReloaderPcs
  <2>10. Served!Load(r)
    BY <2>7, <2>8, <2>9 DEF Served!Load, Served!Ages
  <2> QED
    BY <2>10 DEF Served!ServedNext
<1>2. CASE ValidateFails(t)
  <2> DEFINE r == own[t]
  <2>1. /\ session' = [session EXCEPT ![r] = "destroyed"]
        /\ own' = [own EXCEPT ![t] = Nil]
        /\ Goto(t, "idle") /\ pc[t] = "validating" /\ current' = current
    BY <1>2 DEF ValidateFails, At
  <2>2. /\ r \in Runners /\ session[r] = "live" /\ r # current
        /\ \A u \in Reloaders : own[u] = r => u = t
    BY <2>1 DEF Owned, TypeOK
  <2>3. \A u \in Threads : /\ pc'[u] = IF u = t THEN "idle" ELSE pc[u]
                           /\ own'[u] = IF u = t THEN Nil ELSE own[u]
    BY <2>1, Goes DEF TypeOK, ReloaderPcs
  <2>4. Stage[r] = "loaded"
    BY <2>1, <2>2, StageOf DEF LoadedPcs
  <2> HIDE DEF r
  <2>5. \A q \in Runners : session'[q] = IF q = r THEN "destroyed" ELSE session[q]
    BY <2>1 DEF TypeOK
  <2>6. Stage' = [Stage EXCEPT ![r] = "destroyed"]
    <3>1. \A q \in Runners \ {r} : \A u \in Reloaders :
            /\ own'[u] = q <=> own[u] = q
            /\ own[u] = q => pc'[u] = pc[u]
      BY <2>3 DEF r
    <3>2. Stage'[r] = "destroyed"
      BY <2>2, <2>5 DEF Stage
    <3>3. \A q \in Runners \ {r} : Stage'[q] = Stage[q]
      BY <2>1, <2>5, <3>1 DEF Stage
    <3> QED
      BY <2>2, <3>2, <3>3, OneStage
  <2>7. Using' = Using
    BY <2>1, <2>3, NotUsing DEF ReloaderPcs
  <2>8. Served!Reject(r)
    BY <2>4, <2>6, <2>7 DEF Served!Reject, Served!Ages
  <2> QED
    BY <2>2, <2>8 DEF Served!ServedNext
<1> QED
  BY <1>1, <1>2

\* Under the write lock the new runner takes over and the old one is displaced.
LEMMA SwapServed ==
  ASSUME Inv, NEW t \in Reloaders, Swap(t)
  PROVE  Served!ServedNext
<1> USE Apart DEF Inv
<1> DEFINE r == own[t]
<1>1. /\ Goto(t, "unlocking") /\ pc[t] = "waiting" /\ readers = {}
      /\ current' = r /\ own' = [own EXCEPT ![t] = current] /\ session' = session
  BY DEF Swap, At, Acquired
<1>2. /\ r \in Runners /\ session[r] = "live" /\ r # current
      /\ \A u \in Reloaders : own[u] = r => u = t
  BY <1>1 DEF Owned, TypeOK
<1>3. \A u \in Threads : /\ pc'[u] = IF u = t THEN "unlocking" ELSE pc[u]
                         /\ own'[u] = IF u = t THEN current ELSE own[u]
  BY <1>1, Goes DEF TypeOK, ReloaderPcs
<1>4. Stage[r] = "loaded"
  BY <1>1, <1>2, StageOf DEF LoadedPcs
<1>5. \A u \in Reloaders : own[u] = current => current = Nil
  BY DEF Owned
<1> HIDE DEF r
<1>6. Stage' = [q \in Runners |-> IF q = r THEN "serving"
                                  ELSE IF Stage[q] = "serving" THEN "displaced"
                                  ELSE Stage[q]]
  <2>1. Stage'[r] = "serving"
    BY <1>1, <1>2 DEF Stage
  <2>2. ASSUME NEW q \in Runners, q # r, q = current
        PROVE  Stage'[q] = IF Stage[q] = "serving" THEN "displaced" ELSE Stage[q]
    <3>1. session[q] = "live" /\ Stage[q] = "serving"
      BY <2>2, StageOf DEF Owned
    <3>2. \A u \in Reloaders : own'[u] = q => u = t
      BY <1>3, <1>5, <2>2
    <3>3. own'[t] = q /\ pc'[t] = "unlocking"
      BY <1>3, <2>2
    <3>4. Stage'[q] = "displaced"
      BY <1>1, <2>2, <3>1, <3>2, <3>3 DEF Stage
    <3> QED
      BY <3>1, <3>4
  <2>3. ASSUME NEW q \in Runners, q # r, q # current
        PROVE  Stage'[q] = IF Stage[q] = "serving" THEN "displaced" ELSE Stage[q]
    <3>1. \A u \in Reloaders : /\ own'[u] = q <=> own[u] = q
                               /\ own[u] = q => pc'[u] = pc[u]
      BY <1>3, <2>3 DEF r
    <3>2. Stage'[q] = Stage[q]
      BY <1>1, <2>3, <3>1 DEF Stage
    <3>3. Stage[q] # "serving"
      BY <2>3, StageOf DEF TypeOK
    <3> QED
      BY <3>2, <3>3
  <2> QED
    BY <2>1, <2>2, <2>3 DEF Stage
<1>7. Using' = Using
  BY <1>1, <1>3, NotUsing DEF ReloaderPcs
<1>8. Served!Replace(r)
  BY <1>1, <1>4, <1>6, <1>7, NoneUsing DEF Served!Replace
<1> QED
  BY <1>2, <1>8 DEF Served!ServedNext

\* The runner a reload has displaced is its own to destroy.
LEMMA DestroyOldServed ==
  ASSUME Inv, NEW t \in Reloaders, DestroyOld(t)
  PROVE  [Served!ServedNext]_(Served!servedVars)
<1> USE Apart DEF Inv
<1> DEFINE r == own[t]
<1>1. /\ Goto(t, "idle") /\ pc[t] = "destroying" /\ current' = current
      /\ own' = [own EXCEPT ![t] = Nil]
      /\ IF r = Nil THEN session' = session
                    ELSE session' = [session EXCEPT ![r] = "destroyed"]
  BY DEF DestroyOld, At
<1>2. \A u \in Threads : /\ pc'[u] = IF u = t THEN "idle" ELSE pc[u]
                         /\ own'[u] = IF u = t THEN Nil ELSE own[u]
  BY <1>1, Goes DEF TypeOK, ReloaderPcs
<1>3. Using' = Using
  BY <1>1, <1>2, NotUsing DEF ReloaderPcs
<1>4. \A q \in Runners : q # r => \A u \in Reloaders :
        /\ own'[u] = q <=> own[u] = q
        /\ own[u] = q => pc'[u] = pc[u]
  BY <1>2
<1>5. CASE r = Nil
  <2>1. \A q \in Runners : q # r
    BY <1>5
  <2>2. Stage' = Stage
    BY <1>1, <1>4, <1>5, <2>1 DEF Stage
  <2> QED
    BY <1>3, <2>2 DEF Served!servedVars
<1>6. CASE r # Nil
  <2>1. /\ r \in Runners /\ session[r] = "live" /\ r # current
        /\ \A u \in Reloaders : own[u] = r => u = t
    BY <1>6 DEF Owned, TypeOK
  <2>2. Stage[r] = "displaced"
    BY <1>1, <2>1, StageOf DEF LoadedPcs
  <2> HIDE DEF r
  <2>3. \A q \in Runners : session'[q] = IF q = r THEN "destroyed" ELSE session[q]
    BY <1>1, <1>6 DEF TypeOK
  <2>4. Stage' = [Stage EXCEPT ![r] = "destroyed"]
    <3>1. Stage'[r] = "destroyed"
      BY <2>1, <2>3 DEF Stage
    <3>2. \A q \in Runners \ {r} : Stage'[q] = Stage[q]
      BY <1>1, <1>4, <2>3 DEF Stage
    <3> QED
      BY <2>1, <3>1, <3>2, OneStage
  <2>5. Served!Discard(r)
    BY <1>3, <2>2, <2>4 DEF Served!Discard, Served!Ages
  <2> QED
    BY <2>1, <2>5 DEF Served!ServedNext
<1> QED
  BY <1>5, <1>6

\* The teardown retires the model that serves.
LEMMA DestroyCurrentServed ==
  ASSUME Inv, DestroyCurrent
  PROVE  Served!ServedNext
<1> USE Apart DEF Inv
<1>1. /\ Goto(Main, "unlocking") /\ pc[Main] = "waiting" /\ readers = {}
      /\ current # Nil /\ current' = Nil /\ own' = own
      /\ session' = [session EXCEPT ![current] = "destroyed"]
  BY DEF DestroyCurrent, At, Acquired, Stopped
<1>2. current \in Runners /\ session[current] = "live"
  BY <1>1 DEF TypeOK, Owned
<1>3. Stage[current] = "serving"
  BY <1>2, StageOf
<1>4. \A q \in Runners : session'[q] = IF q = current THEN "destroyed" ELSE session[q]
  BY <1>1 DEF TypeOK
<1>5. \A u \in Reloaders : pc'[u] = pc[u] /\ own'[u] = own[u]
  BY <1>1, Goes DEF MainPcs
<1>6. Stage' = [Stage EXCEPT ![current] = "destroyed"]
  <2>1. Stage'[current] = "destroyed"
    BY <1>2, <1>4 DEF Stage
  <2>2. \A q \in Runners \ {current} : Stage'[q] = Stage[q]
    BY <1>1, <1>4, <1>5 DEF Stage
  <2> QED
    BY <1>2, <2>1, <2>2, OneStage
<1>7. Using' = Using
  BY <1>1, NotUsing DEF MainPcs
<1>8. Served!Retire(current)
  BY <1>1, <1>3, <1>6, <1>7, NoneUsing DEF Served!Retire, Served!Ages
<1> QED
  BY <1>2, <1>8 DEF Served!ServedNext

LEMMA ReloadServed ==
  ASSUME Inv, NEW t \in Reloaders, Reload(t)
  PROVE  [Served!ServedNext]_(Served!servedVars)
<1>1. CASE LoadRunner(t) \/ ValidateFails(t) \/ Swap(t) \/ DestroyOld(t)
  BY <1>1, LoadServed, SwapServed, DestroyOldServed
<1>2. CASE ~(LoadRunner(t) \/ ValidateFails(t) \/ Swap(t) \/ DestroyOld(t))
  <2>1. t # Main /\ t \in Threads
    BY Apart
  <2>2. PICK l \in ReloaderPcs :
          /\ Goto(t, l) /\ UNCHANGED <<current, session, own>>
          /\ pc[t] # "running"
          /\ pc[t] \in LoadedPcs <=> l \in LoadedPcs
    BY <1>2, <2>1
    DEF Reload, ReceiveReload, ReadOldVersion, LoadFails, Validate, RequestLock,
        ReleaseLock, HandlerPanics, At, heapVars, LoadedPcs, ReloaderPcs
  <2> QED
    BY <2>1, <2>2, MoveUnseen DEF ReloaderPcs
<1> QED
  BY <1>1, <1>2

LEMMA ShutdownServed ==
  ASSUME Inv, Shutdown
  PROVE  [Served!ServedNext]_(Served!servedVars)
<1>1. CASE DestroyCurrent
  BY <1>1, DestroyCurrentServed
<1>2. CASE ~DestroyCurrent
  <2>1. PICK l \in MainPcs :
          /\ Goto(Main, l) /\ UNCHANGED <<current, session, own>>
          /\ pc[Main] # "running"
    BY <1>2
    DEF Shutdown, Sigterm, HttpDrained, HttpTimeout, LoggersDone, RequestLock,
        ReleaseLock, Exit, At, heapVars, MainPcs
  <2> QED
    BY <2>1, Apart, MoveUnseen DEF MainPcs
<1> QED
  BY <1>1, <1>2

\* The hot swap implements the abstract one: whatever requests, reloads and the
\* shutdown do meanwhile, each model passes through its stages in order, and one
\* that a request uses is neither displaced nor destroyed (runner.go:31-109).
THEOREM SwapServesOneModel == Spec => ImplementsServedModel
<1>1. Init => Served!ServedInit
  <2> SUFFICES ASSUME Init PROVE Served!ServedInit
    OBVIOUS
  <2>1. Stage = [r \in Runners |-> IF r = Initial THEN "serving" ELSE "none"]
    BY DEF Init, Stage
  <2>2. \A t \in Scorers : pc[t] = "idle"
    BY Apart DEF Init
  <2>3. Using = [t \in Scorers |-> Nil]
    BY <2>2 DEF Using
  <2>4. Initial \in Runners
    BY SwapAssumption DEF SwapAssumption
  <2> QED
    BY <2>1, <2>3, <2>4 DEF Served!ServedInit
<1>2. Inv /\ [Next]_vars => [Served!ServedNext]_(Served!servedVars)
  <2> SUFFICES ASSUME Inv, [Next]_vars
               PROVE  [Served!ServedNext]_(Served!servedVars)
    OBVIOUS
  <2>1. CASE UNCHANGED vars
    BY <2>1 DEF vars, heapVars, Served!servedVars, Stage, Using
  <2> QED
    BY <2>1, ScoreServed, ReloadServed, ShutdownServed DEF Next
<1> QED
  BY <1>1, <1>2, AlwaysInv, PTL DEF Spec, ImplementsServedModel, Served!ServedSpec
==============================================================================
