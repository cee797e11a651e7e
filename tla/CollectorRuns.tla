---------------------------- MODULE CollectorRuns ----------------------------
(***************************************************************************)
(* The tables of a Phase 1 collection run (app/run_state.py and the run    *)
(* part of app/database.py): the run row with its transition table, the    *)
(* raw payload index and the recorded warnings.  Every write is one        *)
(* BEGIN IMMEDIATE transaction, hence one step: the row is re-read and the *)
(* transition validated inside the transaction that updates it.            *)
(***************************************************************************)
EXTENDS Naturals

CONSTANTS
  Runs,      \* run identifiers
  Payloads   \* contents a provider may answer with, up to their checksum

VARIABLES
  row,       \* row[r]: collector_runs
  payload,   \* payload[r]: checksums indexed in raw_payloads
  warning    \* warning[r]: collector_errors or odds_warnings has a warning

tables == <<row, payload, warning>>

\* _public_run and job_artifact: statuses with an artifact.
Success == {"completed", "completed_with_warnings"}

Incomplete == {"queued", "running"}

\* TERMINAL_RUN_STATUSES.
Terminal == Success \cup {"failed"}

Status == Incomplete \cup Terminal \cup {"absent"}

\* The stages the worker itself reports are one: "execution".
Stage == {"none", "before_worker_start", "startup_reconciliation", "execution"}

Row == [status : Status, stage : Stage, artifact : BOOLEAN]

AbsentRow == [status |-> "absent", stage |-> "none", artifact |-> FALSE]

TablesInit ==
  /\ row = [r \in Runs |-> AbsentRow]
  /\ payload = [r \in Runs |-> {}]
  /\ warning = [r \in Runs |-> FALSE]

TablesTypeOK ==
  /\ row \in [Runs -> Row]
  /\ payload \in [Runs -> SUBSET Payloads]
  /\ warning \in [Runs -> BOOLEAN]

-----------------------------------------------------------------------------
\* _ALLOWED_TRANSITIONS.
Allowed(current) ==
  CASE current = "queued" -> {"running", "failed"}
    [] current = "running" -> Success \cup {"failed"}
    [] OTHER -> {}

\* Mistake: the compare-and-set forgotten.
CanTransitionAlways(r, target) == row[r].status # "absent"

CanTransition(r, target) == target \in Allowed(row[r].status)

Transition(r, target, stage) ==
  /\ row' = [row EXCEPT ![r] = [status |-> target, stage |-> stage,
                                artifact |-> @.artifact \/ target \in Success]]
  /\ UNCHANGED <<payload, warning>>

CreateRun(r) ==
  /\ row' = [row EXCEPT ![r].status = "queued"]
  /\ UNCHANGED <<payload, warning>>

\* reconcile_incomplete_runs: every incomplete run, whoever works on it.
Reconciled(r) ==
  IF row[r].status \in Incomplete
  THEN [row[r] EXCEPT !.status = "failed", !.stage = "startup_reconciliation"]
  ELSE row[r]

ReconcileIncompleteRuns ==
  /\ row' = [r \in Runs |-> Reconciled(r)]
  /\ UNCHANGED <<payload, warning>>

InsertRawPayload(r, c) ==
  /\ payload' = [payload EXCEPT ![r] = @ \cup {c}]
  /\ UNCHANGED <<row, warning>>

AddWarning(r) ==
  /\ warning' = [warning EXCEPT ![r] = TRUE]
  /\ UNCHANGED <<row, payload>>
=============================================================================
