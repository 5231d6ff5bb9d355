--------------------------- MODULE ShadowComparator ---------------------------
(***************************************************************************)
(* The shadow comparator (monitoring/shadow/comparator.py and              *)
(* scripts/run_shadow_comparator.py): every Interval it summarises the     *)
(* shadow comparisons of the last Window in one row.  The percentiles of   *)
(* the differences are left out; the counts, and when the correlation is   *)
(* undefined, are not.                                                     *)
(***************************************************************************)
EXTENDS MonitoringData

CONSTANTS
  Verdict,         \* Comparisons -> the flags of champion and challenger
  Probability,     \* Comparisons -> the probabilities of both
  ShadowWindow,    \* shadow_window_hours (1 h)
  ShadowInterval,  \* shadow_interval_minutes (30 min)
  ShadowRunTime,   \* time an iteration, or a restart, takes at most
  ShadowMaxFails   \* failed iterations in a row

\* The window outlasts ShadowMaxFails iterations in a row that fail.
ASSUME ShadowAssumption ==
  /\ ShadowWindow \in Nat /\ ShadowInterval \in Nat
  /\ ShadowRunTime \in Nat \ {0} /\ ShadowMaxFails \in Nat
  /\ (ShadowMaxFails + 1) * (ShadowInterval + ShadowRunTime) + ShadowRunTime
       <= ShadowWindow - Lag

VARIABLES
  shadow,       \* where the iteration is
  shadowWake,   \* when the current sleep ends, or ended
  shadowNow,    \* the `now` of the current or the last summary
  fetched,      \* the comparisons the query returned
  summaries,    \* the shadow_summaries table: the window's end -> what it says
  summarised,   \* the comparisons that are counted in some summary
  shadowFails   \* failed iterations since the last one that ended well

shadowVars == <<shadow, shadowWake, shadowNow, fetched, summaries, summarised, shadowFails>>

ShadowTypeOK ==
  /\ shadow \in {"asleep", "querying", "writing", "done"}
  /\ shadowWake \in Nat
  /\ shadowNow \in -1..MaxTime
  /\ shadow # "asleep" => shadowNow \in 0..MaxTime
  /\ fetched \subseteq Comparisons
  /\ DOMAIN summaries \subseteq 0..MaxTime
  /\ summarised \subseteq Comparisons
  /\ shadowFails \in 0..ShadowMaxFails

ShadowInit ==
  /\ shadow = "asleep" /\ shadowWake = 0 /\ shadowNow = -1
  /\ fetched = {} /\ summarised = {} /\ shadowFails = 0
  /\ summaries = [t \in {} |-> {}]

------------------------------------------------------------------------------
(* What a summary says of the comparisons in S.                             *)

Flagged(champ, chall) == [champion |-> champ, challenger |-> chall]

Count(S, flags) == Cardinality({r \in S : Verdict[r] = flags})

\* np.std is zero.
Constant(S, model) == Cardinality({Probability[r][model] : r \in S}) = 1

Summary(S) ==
  [n |-> Cardinality(S),
   tp |-> Count(S, Flagged(TRUE, TRUE)), fp |-> Count(S, Flagged(FALSE, TRUE)),
   fn |-> Count(S, Flagged(TRUE, FALSE)), tn |-> Count(S, Flagged(FALSE, FALSE)),
   disagreements |-> Cardinality({r \in S : Verdict[r].champion # Verdict[r].challenger}),
   correlated |-> /\ Cardinality(S) > 1
                  /\ ~ Constant(S, "champion") /\ ~ Constant(S, "challenger")]

------------------------------------------------------------------------------
(* One iteration.                                                           *)

\* The clock has microseconds: no two summaries have the same window.
BeginSummary ==
  /\ shadow = "asleep"
  /\ clock >= shadowWake /\ clock > shadowNow
  /\ shadow' = "querying" /\ shadowNow' = clock
  /\ UNCHANGED <<shadowWake, fetched, summaries, summarised, shadowFails>>

\* Mutant: the window is as long as the interval.
Interval == Between(Comparisons, shadowNow - ShadowInterval, shadowNow)

InWindow == Between(Comparisons, shadowNow - ShadowWindow, shadowNow)

\* A window without comparisons has no summary.
FetchRows ==
  /\ shadow = "querying"
  /\ fetched' = InWindow
  /\ IF InWindow = {}
     THEN shadow' = "done" /\ shadowFails' = 0
     ELSE shadow' = "writing" /\ UNCHANGED shadowFails
  /\ UNCHANGED <<shadowWake, shadowNow, summaries, summarised>>

\* ON CONFLICT (summary_id) DO NOTHING.
WithSummary ==
  [t \in DOMAIN summaries \cup {shadowNow} |->
     IF t \in DOMAIN summaries THEN summaries[t] ELSE Summary(fetched)]

WriteSummary ==
  /\ shadow = "writing"
  /\ summaries' = WithSummary
  /\ summarised' = summarised \cup fetched
  /\ shadow' = "done" /\ shadowFails' = 0
  /\ UNCHANGED <<shadowWake, shadowNow, fetched>>

SleepAfterSummary ==
  /\ shadow = "done"
  /\ shadow' = "asleep" /\ shadowWake' = clock + ShadowInterval
  /\ fetched' = {}
  /\ UNCHANGED <<shadowNow, summaries, summarised, shadowFails>>

\* The query or the insert fails, or only the answer to its commit is lost;
\* main logs the exception and sleeps.
SummaryFails ==
  /\ shadow \in {"querying", "writing"}
  /\ shadowFails < ShadowMaxFails /\ shadowFails' = shadowFails + 1
  /\ shadow' = "asleep" /\ shadowWake' = clock + ShadowInterval
  /\ summaries' \in {summaries} \cup (IF shadow = "writing" THEN {WithSummary} ELSE {})
  /\ fetched' = {}
  /\ UNCHANGED <<shadowNow, summarised>>

\* The process dies; the container starts again and summarises at once.
ShadowCrash ==
  /\ IF shadow = "done" \/ clock < shadowWake
     THEN UNCHANGED shadowFails
     ELSE shadowFails < ShadowMaxFails /\ shadowFails' = shadowFails + 1
  /\ shadow' = "asleep" /\ shadowWake' = clock
  /\ fetched' = {}
  /\ UNCHANGED <<shadowNow, summaries, summarised>>

ShadowStep ==
  \/ BeginSummary \/ FetchRows \/ WriteSummary
  \/ SleepAfterSummary \/ SummaryFails \/ ShadowCrash

\* An iteration takes at most ShadowRunTime once it is due.
ShadowOnTime == clock < shadowWake + ShadowRunTime

------------------------------------------------------------------------------
(* Properties.                                                              *)

\* No comparison becomes visible, grows older than the window
\* (comparator.py:25) and is counted in no summary, although iterations are
\* slow, containers restart and inserts fail: ShadowMaxFails times in a row, as
\* often as the window has room for.  That is not once with the default window of
\* an hour and interval of half an hour, where one failure may lose comparisons.
EveryComparisonSummarised == "shadow" \in deployed.jobs => \A c \in Comparisons \cap stored :
  created[c] + ShadowWindow < clock => c \in summarised
===============================================================================
