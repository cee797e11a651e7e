-------------------------- MODULE OperatedPipeline --------------------------
(***************************************************************************)
(* The controller processes beside a second writer: code that calls the    *)
(* public transitions of PipelineRunRepository one by one, as the tests do *)
(* and as an explicit recovery or a human review has to.  These calls know *)
(* nothing of the controller's order: a phase may be refreshed, skipped,   *)
(* reused or failed at any moment, under a run of any status.              *)
(***************************************************************************)
EXTENDS ManualRunController

VARIABLE
  borrow     \* the source row mark_pipeline_phase_reused has read, if any

operatedVars == <<run, phase, pc, view, borrow>>

Nothing == [target |-> NoRun, phase |-> NoPhase, source |-> NoRun, output |-> 0]

Borrow == [target : Runs \cup {NoRun}, phase : Phases \cup {NoPhase},
           source : Runs \cup {NoRun}, output : Nat]

OperatedInit == Init /\ borrow = Nothing

OperatedTypeOK == TypeOK /\ borrow \in Borrow

Controllers == <<pc, view>>

\* Bound: an operator neither starts an attempt after the last nor fails that.
Bounded(r, i, target) ==
  target \in {"running", "failed"} => phase[r][i].attempt < MaxAttempts

\* transition_pipeline_phase, retry_pipeline_phase, force_refresh_pipeline_phase.
OperatePhase(r, i, target, kind) ==
  /\ CanTransitionPhase(r, i, target, kind)
  /\ Bounded(r, i, target)
  /\ TransitionPhase(r, i, target, 0, {})
  /\ UNCHANGED <<pc, view, borrow>>

\* transition_pipeline_run and resume_pipeline_run: the run row alone.
OperateRun(r, target, kind, failure) ==
  /\ CanTransitionRun(r, target, kind, failure)
  /\ TransitionRun(r, target, failure)
  /\ UNCHANGED <<pc, view, borrow>>

\* mark_pipeline_phase_reused reads the source row in one transaction ...
ReadSource(r, i, q) ==
  /\ borrow = Nothing
  /\ q # r
  /\ Exists(q)
  /\ StatusOf(q, i) \in Reusable
  /\ borrow' = [target |-> r, phase |-> i, source |-> q,
                output |-> phase[q][i].output]
  /\ UNCHANGED vars

\* ... and marks the target in another, whatever became of the source.
MarkReused ==
  /\ borrow # Nothing
  /\ borrow' = Nothing
  /\ LET r == borrow.target
         i == borrow.phase
     IN \/ /\ CanTransitionPhase(r, i, "reused", "reuse")
           /\ TransitionPhase(r, i, "reused", borrow.output, {borrow.source})
        \/ /\ ~CanTransitionPhase(r, i, "reused", "reuse")
           /\ UNCHANGED Rows
  /\ UNCHANGED Controllers

Operate ==
  \/ \E r \in Runs, i \in Phases, target \in PhaseStatus :
       \E kind \in {"state_transition", "retry", "forced_refresh"} :
         OperatePhase(r, i, target, kind)
  \/ \E r \in Runs, target \in RunStatus, failure \in Phases \cup {NoPhase} :
       \E kind \in {"state_transition", "resume"} :
         OperateRun(r, target, kind, failure)
  \/ \E r, q \in Runs, i \in Phases : ReadSource(r, i, q)
  \/ MarkReused

OperatedNext == (Next /\ UNCHANGED borrow) \/ Operate

OperatedSpec == OperatedInit /\ [][OperatedNext]_operatedVars

-----------------------------------------------------------------------------
(***************************************************************************)
(* No accepted transition produces a row the CHECKs of the run tables      *)
(* refuse, through any sequence of calls: an attempt exists exactly when a *)
(* handler result needs one, a reused row and no other names its source,   *)
(* and a failed run and no other names a failure phase.                    *)
(***************************************************************************)
RowsSatisfyChecks ==
  \A r \in Runs :
    /\ run[r].status = "failed" <=> run[r].failure # NoPhase
    /\ \A i \in Phases :
         LET row == phase[r][i]
         IN /\ row.status = "pending" => row.attempt = 0
            /\ row.status \in HandlerStatus \cup {"running", "failed"} => row.attempt >= 1
            /\ row.status = "reused" <=> row.source # {}

(***************************************************************************)
(* However stale the view that decided it, a run closes only in a state in *)
(* which every phase is successful: _transition_pipeline_run checks the    *)
(* phases again inside the transaction that closes the run.                *)
(***************************************************************************)
ClosedWhenComplete ==
  [][\A r \in Runs :
       run[r].status # run'[r].status /\ run'[r].status \in RunSuccess
         => AllSuccessful(r) /\ phase'[r] = phase[r]]_operatedVars

(***************************************************************************)
(* A run fails only together with, or after, the phase it blames, in the   *)
(* controller's compound transaction and in the operator's two single ones.*)
(***************************************************************************)
FailureNamesFailedPhase ==
  [][\A r \in Runs :
       run[r].status # run'[r].status /\ run'[r].status = "failed"
         => \E i \in Phases : run'[r].failure = i /\ phase'[r][i].status = "failed"]_operatedVars

(***************************************************************************)
(* Reuse never runs in a circle: two runs cannot have the same phase from  *)
(* each other, although the source is read in an earlier transaction than  *)
(* the one that marks the target and may since have been refreshed.        *)
(***************************************************************************)
ReuseAcyclic ==
  \A r, q \in Runs, i \in Phases :
    ~(phase[r][i].source = {q} /\ phase[q][i].source = {r})

(***************************************************************************)
(* Together, after any sequence of repository calls on two runs.           *)
(***************************************************************************)
ReuseIsSound == RowsSatisfyChecks /\ ReuseAcyclic

(***************************************************************************)
(* The run row follows the phase rows also beside an operator: it closes   *)
(* on complete phases only, and fails on a failed phase only.              *)
(***************************************************************************)
RunFollowsPhases == ClosedWhenComplete /\ FailureNamesFailedPhase

-----------------------------------------------------------------------------
(***************************************************************************)
(* What makes ReuseIsSound inductive.  A process works on a run, and on a  *)
(* phase once it claims one.  The rows of a run not yet created are blank, *)
(* a running phase has no output, and what a row was or will be reused     *)
(* from is past "pending", to which no phase returns.                      *)
(***************************************************************************)
PhasePC == {"retry", "start_run", "start_phase", "handling", "complete", "fail"}

WorkOK(p) ==
  /\ pc[p] # "idle" => view[p].run \in Runs
  /\ pc[p] \in PhasePC => view[p].phase \in Phases

RowsOK ==
  \A r \in Runs, i \in Phases :
    /\ ~Exists(r) => phase[r][i] = PendingPhase
    /\ StatusOf(r, i) = "running" => phase[r][i].output = 0
    /\ \A q \in phase[r][i].source : StatusOf(q, i) # "pending"

BorrowOK ==
  borrow # Nothing =>
    /\ borrow.target \in Runs /\ borrow.phase \in Phases /\ borrow.source \in Runs
    /\ StatusOf(borrow.source, borrow.phase) # "pending"

OperatedInv ==
  /\ OperatedTypeOK
  /\ \A p \in Procs : WorkOK(p)
  /\ RowsOK /\ BorrowOK /\ ReuseIsSound
=============================================================================
