------------------------------ MODULE LabelJoiner ------------------------------
(***************************************************************************)
(* The label joiner (monitoring/labels/simulator.py and                    *)
(* scripts/run_label_joiner.py): every iteration takes a page of the       *)
(* predictions without a label, keeps those whose label is known and due,  *)
(* and inserts at most MaxInserts labels in one transaction.  Several      *)
(* joiners may run: the container and its replacement, or a run by hand.   *)
(* The sleep between iterations is not timed: an iteration may begin       *)
(* whenever the joiner sleeps.                                             *)
(***************************************************************************)
EXTENDS MonitoringData

CONSTANTS
  Joiners,     \* processes running the label joiner
  Truth,       \* Joiners -> its ground_truth, a function from known Txns to BOOLEAN
  Delay,       \* Txns -> the delay of the label, drawn from the id alone
  MaxInserts,  \* max_inserts_per_run (5000)
  PageFactor   \* the page is PageFactor * MaxInserts long (5)

ASSUME LabelAssumption ==
  /\ \A j \in Joiners : Truth[j] \in [DOMAIN Truth[j] -> BOOLEAN]
  /\ Delay \in [Txns -> Nat]
  /\ MaxInserts \in Nat \ {0} /\ PageFactor \in Nat \ {0}

VARIABLES
  labels,   \* the labels table: Txns with a label -> is_fraud and available_at
  joiner,   \* Joiners -> "asleep" | "inserting"
  toInsert  \* Joiners -> to_insert: the predictions whose label is being inserted

labelVars == <<labels, joiner, toInsert>>

Label == [fraud : BOOLEAN, at : Nat]

LabelTypeOK ==
  /\ DOMAIN labels \subseteq Txns
  /\ labels \in [DOMAIN labels -> Label]
  /\ joiner \in [Joiners -> {"asleep", "inserting"}]
  /\ toInsert \in [Joiners -> SUBSET Predictions]
  /\ \A j \in Joiners : \A p \in toInsert[j] :
       created[p] # Never /\ TxnOf[p] \in DOMAIN Truth[j]

LabelInit ==
  /\ labels = [t \in {} |-> [fraud |-> FALSE, at |-> 0]]
  /\ joiner = [j \in Joiners |-> "asleep"]
  /\ toInsert = [j \in Joiners |-> {}]

------------------------------------------------------------------------------
Unlabelled == {p \in Predictions \cap stored : TxnOf[p] \notin DOMAIN labels}

AvailableAt(p) == created[p] + Delay[TxnOf[p]]

\* Mutant: ground_truth is not asked whether it knows the transaction.
DueUnknown(j, p) == AvailableAt(p) <= clock

Due(j, p) == TxnOf[p] \in DOMAIN Truth[j] /\ AvailableAt(p) <= clock

Smaller(m, n) == IF m < n THEN m ELSE n

\* The subsets of S that LIMIT n without ORDER BY may return.
AnyOf(S, n) == {T \in SUBSET S : Cardinality(T) = Smaller(n, Cardinality(S))}

\* Mutant: the page is as long as the batch.
ShortPage == AnyOf(Unlabelled, MaxInserts)

Page == AnyOf(Unlabelled, PageFactor * MaxInserts)

\* The loop over the page breaks at the MaxInserts-th due row.
Query(j) ==
  /\ joiner[j] = "asleep"
  /\ \E page \in Page :
       \E due \in AnyOf({p \in page : Due(j, p)}, MaxInserts) :
         toInsert' = [toInsert EXCEPT ![j] = due]
  /\ joiner' = [joiner EXCEPT ![j] = "inserting"]
  /\ UNCHANGED labels

\* Mutant: ON CONFLICT DO UPDATE.
Overwritten(new) ==
  [t \in DOMAIN labels \cup DOMAIN new |-> IF t \in DOMAIN new THEN new[t] ELSE labels[t]]

\* ON CONFLICT (transaction_id) DO NOTHING.
Inserted(new) ==
  [t \in DOMAIN labels \cup DOMAIN new |-> IF t \in DOMAIN labels THEN labels[t] ELSE new[t]]

\* Of two predictions of one transaction the one that comes first in to_insert
\* makes the label.
FirstOf(S) == {f \in [{TxnOf[p] : p \in S} -> S] : \A t \in DOMAIN f : TxnOf[f[t]] = t}

\* The transaction commits; nothing is inserted when nothing is due.
InsertLabels(j) ==
  /\ joiner[j] = "inserting"
  /\ \E first \in FirstOf(toInsert[j]) :
       labels' = Inserted([t \in DOMAIN first |->
                             [fraud |-> Truth[j][t], at |-> AvailableAt(first[t])]])
  /\ joiner' = [joiner EXCEPT ![j] = "asleep"]
  /\ toInsert' = [toInsert EXCEPT ![j] = {}]

\* The transaction fails and is rolled back, or the process dies in it: the
\* iteration is logged as an error, or the container starts again.
IterationFails(j) ==
  /\ joiner[j] = "inserting"
  /\ joiner' = [joiner EXCEPT ![j] = "asleep"]
  /\ toInsert' = [toInsert EXCEPT ![j] = {}]
  /\ UNCHANGED labels

LabelStep == \E j \in Joiners : Query(j) \/ InsertLabels(j) \/ IterationFails(j)

------------------------------------------------------------------------------
(* Properties.                                                              *)

\* A label never changes once it is in the table (simulator.py:71 DO NOTHING),
\* whatever another joiner with another ground truth file, or another
\* prediction of the same transaction, would make of it.
LabelsAreFinal == [][\A t \in DOMAIN labels :
                       t \in DOMAIN labels' /\ labels'[t] = labels[t]]_labels

\* The predictions whose place on a page is wasted: some joiner does not know their
\* label, or they are not due yet.
Waiting == {p \in Unlabelled : \E j \in Joiners : ~ Due(j, p)}

\* The page is longer than the batch (simulator.py:48) so that predictions whose
\* label is unknown or not due yet do not keep those that are due from their turn.
\* When in the end fewer of them than a page are left, every due label arrives,
\* although the query names no order and inserts fail again and again.  The traffic
\* has an end here: while new predictions, due in two weeks, keep filling a page,
\* nothing is promised to any that is due.
EveryDueLabelArrives ==
  <>[](Cardinality(Waiting) < PageFactor * MaxInserts) =>
    \A p \in Predictions :
      ("labels" \in deployed.jobs /\ p \in stored /\ \A j \in Joiners : Due(j, p))
        ~> TxnOf[p] \in DOMAIN labels
===============================================================================
