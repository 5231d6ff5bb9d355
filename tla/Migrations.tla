------------------------------ MODULE Migrations ------------------------------
(***************************************************************************)
(* monitoring/scripts/apply_migrations.py: each session goes through the   *)
(* files in order, skips those that are recorded in schema_migrations, and *)
(* runs any other together with its record in one transaction.  Sessions   *)
(* may overlap (the setup pipeline and a run by hand) and may die          *)
(* anywhere; a later run starts from the first file again.                 *)
(***************************************************************************)
EXTENDS Naturals

CONSTANTS
  Sessions,    \* processes that apply migrations
  Files,       \* the number of files; the code has 8
  MaxRestarts  \* bound on runs of a session

ASSUME MigrationAssumption == Files \in Nat /\ MaxRestarts \in Nat

VARIABLES
  session,   \* Sessions -> where it is
  file,      \* Sessions -> the file it is at
  recorded,  \* the rows of schema_migrations
  applied,   \* file -> how often its statements have taken effect
  restarts   \* Sessions -> how often it has started

migrationVars == <<session, file, recorded, applied, restarts>>

MigrationTypeOK ==
  /\ session \in [Sessions -> {"idle", "checking", "applying", "done", "failed"}]
  /\ file \in [Sessions -> 1..(Files + 1)]
  /\ recorded \subseteq 1..Files
  /\ applied \in [1..Files -> Nat]
  /\ restarts \in [Sessions -> 0..MaxRestarts]

MigrationInit ==
  /\ session = [s \in Sessions |-> "idle"]
  /\ file = [s \in Sessions |-> 1]
  /\ recorded = {}
  /\ applied = [f \in 1..Files |-> 0]
  /\ restarts = [s \in Sessions |-> 0]

Goes(s, where) == session' = [session EXCEPT ![s] = where]

\* CREATE TABLE IF NOT EXISTS schema_migrations, and on to the first file.
StartMigrating(s) ==
  /\ session[s] \in {"idle", "done", "failed"}
  /\ restarts[s] < MaxRestarts
  /\ restarts' = [restarts EXCEPT ![s] = @ + 1]
  /\ file' = [file EXCEPT ![s] = 1]
  /\ Goes(s, "checking")
  /\ UNCHANGED <<recorded, applied>>

\* SELECT 1 FROM schema_migrations; a recorded file is skipped.
CheckFile(s) ==
  /\ session[s] = "checking"
  /\ \/ file[s] > Files /\ Goes(s, "done") /\ UNCHANGED file
     \/ file[s] \in recorded /\ file' = [file EXCEPT ![s] = @ + 1] /\ UNCHANGED session
     \/ file[s] \in (1..Files) \ recorded /\ Goes(s, "applying") /\ UNCHANGED file
  /\ UNCHANGED <<recorded, applied, restarts>>

Took(f) == applied' = [applied EXCEPT ![f] = @ + 1]

\* Mutant: no conn.transaction(): on an autocommit connection the statements of
\* the file take effect although the record fails.
EffectWithoutRecord(s) ==
  /\ session[s] = "applying"
  /\ Took(file[s])
  /\ \/ file[s] \notin recorded /\ recorded' = recorded \cup {file[s]} /\ Goes(s, "checking")
     \/ Goes(s, "failed") /\ UNCHANGED recorded
  /\ UNCHANGED <<file, restarts>>

\* The transaction: the statements and the record, or neither when another
\* session has recorded the file meanwhile (the primary key of the record).
ApplyFile(s) ==
  /\ session[s] = "applying"
  /\ IF file[s] \in recorded
     THEN Goes(s, "failed") /\ UNCHANGED <<recorded, applied>>
     ELSE Goes(s, "checking") /\ Took(file[s]) /\ recorded' = recorded \cup {file[s]}
  /\ UNCHANGED <<file, restarts>>

\* A statement fails, the file is missing, or the process dies: what the
\* transaction has done is rolled back.
MigrationFails(s) ==
  /\ session[s] \in {"checking", "applying"}
  /\ Goes(s, "failed")
  /\ UNCHANGED <<file, recorded, applied, restarts>>

Migrate(s) == CheckFile(s) \/ ApplyFile(s) \/ MigrationFails(s)

------------------------------------------------------------------------------
(* Properties.                                                              *)

\* Every file takes effect exactly once and is then recorded, and no file
\* before all earlier ones (apply_migrations.py:45-60), whatever sessions overlap
\* or die; a session is done only when the schema is complete.
MigrationsOnce ==
  /\ \A f \in 1..Files : applied[f] = IF f \in recorded THEN 1 ELSE 0
  /\ \A f \in recorded : \A g \in 1..f : g \in recorded
  /\ \A s \in Sessions : session[s] = "done" => recorded = 1..Files
===============================================================================
