------------------------- MODULE PipelineRepository -------------------------
(***************************************************************************)
(* The tables pipeline_runs and pipeline_run_phases and the write          *)
(* transactions of PipelineRunRepository.  Every transaction runs under    *)
(* BEGIN IMMEDIATE, so it is one atomic step: it re-reads the rows it      *)
(* changes, validates the transition against what it has just read and     *)
(* either commits or raises without a trace.  The "Can..." predicates are  *)
(* the validations, the operators after them the updates.                  *)
(***************************************************************************)
EXTENDS PipelineContracts

CONSTANTS
  Runs,        \* run identifiers
  Dates,       \* slate dates
  DateOf,      \* the date a run identifier carries (run_YYYYMMDD_...)
  NumPhases,   \* number of canonical phases (15 in the code)
  MaxAttempts  \* bound on attempt_count

ASSUME NumPhasesAssumption == NumPhases \in Nat \ {0}
ASSUME MaxAttemptsAssumption == MaxAttempts \in Nat \ {0}
ASSUME DateOfAssumption == DateOf \in [Runs -> Dates]

VARIABLES
  run,         \* run[r]: the row of pipeline_runs
  phase        \* phase[r][i]: the row of pipeline_run_phases with ordinal i

Phases == 1 .. NumPhases

NoPhase == 0

(***************************************************************************)
(* failure is the ordinal of failure_phase (NoPhase for NULL); output is   *)
(* the attempt whose handler produced output_checksum and artifact_relpath *)
(* (0 for NULL); source is reused_from_run_id as a set of at most one run. *)
(***************************************************************************)
RunRow == [status : RunStatus, failure : Phases \cup {NoPhase}, forced : BOOLEAN]
PhaseRow == [status : PhaseStatus, attempt : Nat, output : Nat, source : SUBSET Runs]

AbsentRun == [status |-> "absent", failure |-> NoPhase, forced |-> FALSE]
PendingPhase == [status |-> "pending", attempt |-> 0, output |-> 0, source |-> {}]

RepositoryInit ==
  /\ run = [r \in Runs |-> AbsentRun]
  /\ phase = [r \in Runs |-> [i \in Phases |-> PendingPhase]]

RepositoryTypeOK ==
  /\ run \in [Runs -> RunRow]
  /\ phase \in [Runs -> [Phases -> PhaseRow]]

-----------------------------------------------------------------------------
\* Reading the tables.

Exists(r) == run[r].status # "absent"

StatusOf(r, i) == phase[r][i].status

RunningPhases(r) == {i \in Phases : StatusOf(r, i) = "running"}

AllSuccessful(r) == \A i \in Phases : StatusOf(r, i) \in Successful

FirstIncomplete(r, i) ==
  /\ StatusOf(r, i) \notin Successful
  /\ \A j \in Phases : j < i => StatusOf(r, j) \in Successful

PhaseStatuses(r) == {StatusOf(r, i) : i \in Phases}

-----------------------------------------------------------------------------
\* create_pipeline_run: one unforced run for a date, any number of forced ones.

CanCreateRun(r, forced) ==
  /\ ~Exists(r)
  /\ forced \/ \A q \in Runs : DateOf[q] = DateOf[r] => ~Exists(q)

CreateRun(r, forced) ==
  /\ run' = [run EXCEPT ![r] = [status |-> "pending", failure |-> NoPhase,
                                forced |-> forced]]
  /\ phase' = [phase EXCEPT ![r] = [i \in Phases |-> PendingPhase]]

\* Mistakes: a validation of _transition_pipeline_run left to the caller.
CanTransitionRunStale(r, target, kind, failure) ==
  /\ target \in RunSuccess => AllSuccessful(r)
  /\ target = "failed" => failure \in Phases /\ StatusOf(r, failure) = "failed"
  /\ target # "failed" => failure = NoPhase

CanTransitionRunAnyPhases(r, target, kind, failure) ==
  /\ RunAllowed(run[r].status, target, kind)
  /\ target = "failed" => failure \in Phases /\ StatusOf(r, failure) = "failed"
  /\ target # "failed" => failure = NoPhase

(***************************************************************************)
(* _transition_pipeline_run: a successful target requires every phase to   *)
(* be successful, a failed one a failure phase that is failed.             *)
(***************************************************************************)
CanTransitionRun(r, target, kind, failure) ==
  /\ RunAllowed(run[r].status, target, kind)
  /\ target \in RunSuccess => AllSuccessful(r)
  /\ target = "failed" => failure \in Phases /\ StatusOf(r, failure) = "failed"
  /\ target # "failed" => failure = NoPhase

TransitionRun(r, target, failure) ==
  /\ run' = [run EXCEPT ![r].status = target, ![r].failure = failure]
  /\ UNCHANGED phase

\* Mistakes: no compare-and-set.
CanTransitionPhaseStale(r, i, target, kind) == Exists(r)

NextPhaseRowNoAttempt(row, target, output, source) ==
  [status |-> target, attempt |-> row.attempt,
   output |-> IF target # "running" /\ output = 0 THEN row.output ELSE output,
   source |-> source]

(***************************************************************************)
(* _transition_pipeline_phase: the compare-and-set is on the phase's own   *)
(* status; the run's status is not read.  Entering "running" counts a new  *)
(* attempt and clears the previous result; any other target keeps the      *)
(* stored output unless it is given a new one.                             *)
(***************************************************************************)
CanTransitionPhase(r, i, target, kind) ==
  /\ Exists(r)
  /\ PhaseAllowed(StatusOf(r, i), target, kind)

NextPhaseRow(row, target, output, source) ==
  IF target = "running"
  THEN [status |-> target, attempt |-> row.attempt + 1, output |-> output,
        source |-> {}]
  ELSE [status |-> target, attempt |-> row.attempt,
        output |-> IF output = 0 THEN row.output ELSE output,
        source |-> source]

TransitionPhase(r, i, target, output, source) ==
  /\ phase' = [phase EXCEPT
       ![r][i] = NextPhaseRow(phase[r][i], target, output, source)]
  /\ UNCHANGED run

\* resume_failed_pipeline_run_and_phase: both rows move in one transaction.
CanResumeFailed(r, i) ==
  /\ RunAllowed(run[r].status, "running", "resume")
  /\ PhaseAllowed(StatusOf(r, i), "running", "retry")
  /\ run[r].failure = i

ResumeFailed(r, i) ==
  /\ run' = [run EXCEPT ![r].status = "running", ![r].failure = NoPhase]
  /\ phase' = [phase EXCEPT
       ![r][i] = [status |-> "running", attempt |-> phase[r][i].attempt + 1,
                  output |-> 0, source |-> {}]]

\* Mistake: the run fails without naming the phase.
FailRunningUnnamed(r, i) ==
  /\ run' = [run EXCEPT ![r].status = "failed"]
  /\ phase' = [phase EXCEPT
       ![r][i] = [status |-> "failed", attempt |-> phase[r][i].attempt,
                  output |-> 0, source |-> {}]]

\* fail_running_pipeline_phase_and_run: both rows fail in one transaction.
CanFailRunning(r, i) ==
  /\ PhaseAllowed(StatusOf(r, i), "failed", "state_transition")
  /\ RunAllowed(run[r].status, "failed", "state_transition")

FailRunning(r, i) ==
  /\ run' = [run EXCEPT ![r].status = "failed", ![r].failure = i]
  /\ phase' = [phase EXCEPT
       ![r][i] = [status |-> "failed", attempt |-> phase[r][i].attempt,
                  output |-> 0, source |-> {}]]
=============================================================================
