-------------------------- MODULE AccountedDelivery --------------------------
(***************************************************************************)
(* What the two best-effort queues of the platform promise: the prediction *)
(* log of a serving process (PredictionStore) and the shadow queue of the  *)
(* router (ShadowRouter).  The caller never waits: an item is queued while *)
(* the queue has room, and refused when it has none, whatever is being     *)
(* worked on at the time.  A queued item is taken in hand once, leaves one *)
(* row at most, is not let go of before it has left a row or has been      *)
(* reported, and is left behind only by a process whose orderly stop was   *)
(* cut short.  No channel, batch, worker or retry is mentioned.            *)
(***************************************************************************)
EXTENDS Naturals

CONSTANTS
  Items,    \* what is to be delivered
  Capacity  \* items the queue holds

VARIABLES
  offered,   \* items that callers have handed over
  refused,   \* items turned away, and counted
  queued,    \* items in the queue
  held,      \* items taken off the queue and not yet let go of
  rows,      \* Items -> rows of the table made from it
  reported,  \* items let go of with an error
  cut,       \* the orderly stop was cut short
  closed     \* the process has ended

deliveryVars == <<offered, refused, queued, held, rows, reported, cut, closed>>

DeliveryInit ==
  /\ offered = {} /\ refused = {} /\ queued = {} /\ held = {} /\ reported = {}
  /\ rows = [i \in Items |-> 0]
  /\ cut = FALSE /\ closed = FALSE

HandOver(i) == i \notin offered /\ offered' = offered \cup {i}

\* Capacity different items are in the queue.
Full == \E q \in [1..Capacity -> queued] :
          \A j, k \in 1..Capacity : q[j] = q[k] => j = k

Accept(i) ==
  /\ ~closed
  /\ HandOver(i)
  /\ ~Full
  /\ queued' = queued \cup {i}
  /\ UNCHANGED <<refused, held, rows, reported, cut, closed>>

\* However many items are in hand, only a full queue refuses one.
Refuse(i) ==
  /\ ~closed
  /\ HandOver(i)
  /\ Full
  /\ refused' = refused \cup {i}
  /\ UNCHANGED <<queued, held, rows, reported, cut, closed>>

Take(i) ==
  /\ ~closed
  /\ i \in queued
  /\ queued' = queued \ {i}
  /\ held' = held \cup {i}
  /\ UNCHANGED <<offered, refused, rows, reported, cut, closed>>

\* Some items in hand get their row, and some, with a row or with a report, are let
\* go of.  The row may come first: while its answer is unknown an item stays in
\* hand.  A reported item may have its row nevertheless.
Deliver ==
  /\ ~closed
  /\ rows' \in [Items -> Nat]
  /\ \A i \in Items : rows'[i] # rows[i] => i \in held /\ rows[i] = 0 /\ rows'[i] = 1
  /\ held' \subseteq held
  /\ reported \subseteq reported'
  /\ reported' \ reported \subseteq held \ held'
  /\ \A i \in held \ held' : rows'[i] = 1 \/ i \in reported'
  /\ UNCHANGED <<offered, refused, queued, cut, closed>>

\* The stop is going to end the process without waiting for all callers.
CutShort ==
  /\ ~closed
  /\ cut' = TRUE
  /\ UNCHANGED <<offered, refused, queued, held, rows, reported, closed>>

Close ==
  /\ ~closed
  /\ queued \cup held = {} \/ cut
  /\ closed' = TRUE
  /\ UNCHANGED <<offered, refused, queued, held, rows, reported, cut>>

DeliveryNext ==
  \/ \E i \in Items : Accept(i) \/ Refuse(i) \/ Take(i)
  \/ Deliver
  \/ CutShort \/ Close

DeliverySpec == DeliveryInit /\ [][DeliveryNext]_deliveryVars
==============================================================================
