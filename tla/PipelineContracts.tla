-------------------------- MODULE PipelineContracts --------------------------
(***************************************************************************)
(* The status vocabulary of a manual pipeline run and the transition       *)
(* tables of app/run_controller/contracts.py: which status change each     *)
(* kind of transition permits, for a run and for one of its phases.        *)
(***************************************************************************)
EXTENDS Naturals

\* Statuses a run ends a successful execution in.
RunSuccess == {"succeeded", "succeeded_with_warnings", "degraded"}

\* A run row that has not been inserted yet has the status "absent".
RunStatus == {"absent", "pending", "running", "failed"} \cup RunSuccess

\* What a phase handler may report for the phase it executed.
HandlerStatus == {"succeeded", "succeeded_with_warnings", "degraded"}

\* SUCCESSFUL_PHASE_STATUSES and REUSABLE_PHASE_STATUSES.
Successful == HandlerStatus \cup {"skipped", "reused"}
Reusable == HandlerStatus \cup {"reused"}

PhaseStatus == {"pending", "running", "failed"} \cup Successful

(***************************************************************************)
(* _RUN_TRANSITIONS and validate_pipeline_run_transition: a RESUME is only *)
(* ever failed -> running, and nothing but a RESUME leaves "failed".       *)
(***************************************************************************)
RunTargets(current) ==
  CASE current = "pending" -> {"running"}
    [] current = "running" -> RunSuccess \cup {"failed"}
    [] OTHER -> {}

RunAllowed(current, target, kind) ==
  \/ /\ kind = "state_transition"
     /\ target \in RunTargets(current)
  \/ /\ kind = "resume"
     /\ current = "failed"
     /\ target = "running"

(***************************************************************************)
(* _PHASE_TRANSITIONS and validate_pipeline_phase_transition: each special *)
(* transition type replaces the table, it never adds to it.                *)
(***************************************************************************)
\* Mistake: a refresh folded into the table.
PhaseTargetsReopen(current) ==
  CASE current = "pending" -> {"running", "skipped"}
    [] current = "running" -> HandlerStatus \cup {"failed"}
    [] current \in Successful -> {"running"}
    [] OTHER -> {}

PhaseTargets(current) ==
  CASE current = "pending" -> {"running", "skipped"}
    [] current = "running" -> HandlerStatus \cup {"failed"}
    [] OTHER -> {}

\* Mistake: a phase is marked as reused whatever its status.
PhaseAllowedReuseAny(current, target, kind) ==
  \/ /\ kind = "state_transition"
     /\ target \in PhaseTargets(current)
  \/ /\ kind = "retry"
     /\ current = "failed"
     /\ target = "running"
  \/ /\ kind = "reuse"
     /\ target = "reused"
  \/ /\ kind = "forced_refresh"
     /\ current \in Successful
     /\ target = "running"

PhaseAllowed(current, target, kind) ==
  \/ /\ kind = "state_transition"
     /\ target \in PhaseTargets(current)
  \/ /\ kind = "retry"
     /\ current = "failed"
     /\ target = "running"
  \/ /\ kind = "reuse"
     /\ current = "pending"
     /\ target = "reused"
  \/ /\ kind = "forced_refresh"
     /\ current \in Successful
     /\ target = "running"

\* The precedence _finalize_or_return gives the statuses of completed phases.
FinalStatus(statuses) ==
  IF "degraded" \in statuses THEN "degraded"
  ELSE IF "succeeded_with_warnings" \in statuses THEN "succeeded_with_warnings"
  ELSE "succeeded"
=============================================================================
