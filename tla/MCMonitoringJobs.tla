--------------------------- MODULE MCMonitoringJobs ---------------------------
(* Constants of MonitoringJobs for TLC.                                      *)
EXTENDS MonitoringJobs, TLC
CONSTANTS p1, p2, p3, p4, c1, c2, f1, f2, f3, f4, t1, t2, t3, j1, j2

\* p1 and p2 score the same transaction; the label of t2 is never known, and that of
\* t3 is due late or, when p4 comes last, not before the clock stops: p3 and p4 may
\* then fill the page for ever.
MCTxnOf == (p1 :> t1) @@ (p2 :> t1) @@ (p3 :> t2) @@ (p4 :> t3)

\* The ground truth file has been replaced between the two joiners.
MCTruth == (j1 :> [t \in {t1, t3} |-> TRUE]) @@ (j2 :> [t \in {t1, t3} |-> FALSE])
MCDelay == (t1 :> 1) @@ (t2 :> 1) @@ (t3 :> 8)

\* The reference has two scores and two buckets in equal shares, as p1 and p3
\* have together and neither has alone.
MCScoreOf == (p1 :> 1) @@ (p2 :> 1) @@ (p3 :> 2) @@ (p4 :> 2) @@ (f1 :> 1) @@ (f2 :> 1) @@ (f3 :> 2) @@ (f4 :> 2)
MCBucketOf == MCScoreOf
\* KS misses what p1 does to the scores; PSI is critical with p3.
MCFound == [d \in Detectors |-> [S \in SUBSET Predictions |->
  CASE d = "ks" /\ p3 \notin S -> "none"
    [] d = "psi" /\ p3 \in S -> "critical"
    [] OTHER -> "warning"]]

\* The thresholds are above zero.
MCFoundAtZero == [d \in Detectors |-> "none"]

MCVerdict == (c1 :> Flagged(TRUE, FALSE)) @@ (c2 :> Flagged(FALSE, FALSE))
MCProbability == [c \in {c1, c2} |-> [champion |-> IF c = c1 THEN 2 ELSE 1, challenger |-> 1]]

Deployment(J, R) == [jobs |-> J, rows |-> R]

\* Each job alone, under the traffic it reads: they write no table in common.
EachAlone == {Deployment({"labels"}, {p1, p2, p3, p4}), Deployment({"drift"}, {p1, p3}),
              Deployment({"shadow"}, {c1, c2})}
===============================================================================
