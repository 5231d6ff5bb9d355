--------------------------- MODULE AuditedRollout ---------------------------
(***************************************************************************)
(* What the canary evaluator promises about the model registry and the     *)
(* champion container, whatever fails around it.  A decision is a row of   *)
(* the audit log before it has any effect.  A promotion's row rests on an  *)
(* unbroken run of improving rows; it swaps the container's model once, at *)
(* the latest after everybody has given up on it, and changes the registry *)
(* once, after a swap that brought the challenger.  Nobody else makes a    *)
(* champion of the challenger, or revives a version that was retired when  *)
(* it was looked at.                                                       *)
(***************************************************************************)
EXTENDS Naturals, Sequences

CONSTANTS
  Versions,         \* the model versions the registry may hold
  Champion,         \* the version the stack was set up with
  Challenger,       \* the version the evaluator is judging
  ChampionFiles,    \* what may be in the file the container starts from
  ChallengerFiles,  \* what may be in the file a promotion loads
  RequiredRuns,     \* improving evaluations a promotion takes, itself included
  VisibleRows       \* rows of the log the evaluator reads back

VARIABLES
  log,      \* outcomes, newest first; only the newest VisibleRows + 1 are kept
  pending,  \* the effect that the recorded decision has not had yet
  roles,    \* Versions -> role in the registry
  seen,     \* what the registration under way has found and not retired
  serving,  \* the version in the champion container
  late      \* promotions given up while the container works on its swap

auditVars == <<log, pending, roles, seen, serving, late>>

Outcomes == {"improving", "no_signal", "insufficient_data", "inactive",
             "rollback", "promoted"}

\* The RequiredRuns - 1 newest rows that the evaluator can see are all "improving".
Earned(rows) ==
  /\ RequiredRuns - 1 <= VisibleRows
  /\ RequiredRuns - 1 <= Len(rows)
  /\ \A i \in 1..(RequiredRuns - 1) : rows[i] = "improving"

Recorded(rows, o) == SubSeq(<<o>> \o rows, 1, IF Len(rows) >= VisibleRows
                                               THEN VisibleRows + 1
                                               ELSE Len(rows) + 1)

EffectOf(o) ==
  IF o = "promoted" THEN "promote" ELSE IF o = "rollback" THEN "retire" ELSE "none"

AuditInit ==
  /\ log = << >>
  /\ pending = "none"
  /\ roles \in [Versions -> {"absent", "champion", "challenger", "retired"}]
  /\ seen = {}
  /\ serving \in ChampionFiles
  /\ late = 0

\* A decision enters the log; its effect is owed, unless the recorder was cut
\* off right after the row was committed.
RecordDecision(o) ==
  /\ o = "promoted" => Earned(log)
  /\ log' = Recorded(log, o)
  /\ pending' \in {"none", EffectOf(o)}
  /\ UNCHANGED <<roles, seen, serving, late>>

\* A promotion may leave its swap behind when it is given up.
Abandon ==
  /\ pending' = "none"
  /\ \/ UNCHANGED late
     \/ pending = "promote" /\ late' = late + 1
  /\ UNCHANGED <<log, roles, seen, serving>>

\* The registry has its turn only when it is the challenger that serves.
Swap ==
  /\ pending = "promote"
  /\ serving' \in ChallengerFiles
  /\ pending' = IF serving' = Challenger THEN "record" ELSE "none"
  /\ UNCHANGED <<log, roles, seen, late>>

LateSwap ==
  /\ late > 0
  /\ late' = late - 1
  /\ serving' \in ChallengerFiles
  /\ UNCHANGED <<log, pending, roles, seen>>

Restart ==
  /\ serving' \in ChampionFiles
  /\ late' = 0
  /\ UNCHANGED <<log, pending, roles, seen>>

\* The champion in service is retired, and so are the others but for a retrained
\* one that comes in at the same time.
TakeEffect ==
  /\ \/ /\ pending = "record"
        /\ \A v \in Versions \ {Challenger} :
             \/ roles[v] # "champion" /\ roles'[v] = roles[v]
             \/ roles[v] = "champion" /\ roles'[v] = "retired"
             \/ v \in ChampionFiles \ {Champion} /\ roles'[v] = roles[v]
        /\ roles[Challenger] # "absent" => roles'[Challenger] = "champion"
     \/ /\ pending = "retire"
        /\ \A v \in Versions \ {Challenger} : roles'[v] = roles[v]
        /\ roles[Challenger] # "absent" => roles'[Challenger] = "retired"
  /\ pending' = "none"
  /\ UNCHANGED <<log, seen, serving, late>>

\* Registration refuses what it finds retired.
LookUp ==
  /\ \E v \in ChallengerFiles : roles[v] # "retired" /\ seen' = {v}
  /\ UNCHANGED <<log, pending, roles, serving, late>>

\* It commits what its files call for, or nothing. A version retired since it was
\* looked at may come back, as a challenger.
Register ==
  /\ \A v \in Versions :
       /\ roles[v] = "retired" =>
            roles'[v] = "retired" \/ (v \in seen /\ roles'[v] = "challenger")
       /\ roles'[v] = "champion" => roles[v] = "champion" \/ v \in ChampionFiles
       /\ roles'[v] = "challenger" => roles[v] = "challenger" \/ v \in ChallengerFiles
  /\ seen' = {}
  /\ UNCHANGED <<log, pending, serving, late>>

AuditNext ==
  \/ \E o \in Outcomes : RecordDecision(o)
  \/ Abandon
  \/ Swap \/ LateSwap \/ Restart
  \/ TakeEffect
  \/ LookUp \/ Register

AuditSpec == AuditInit /\ [][AuditNext]_auditVars
=============================================================================
