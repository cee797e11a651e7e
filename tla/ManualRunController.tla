------------------------ MODULE ManualRunController ------------------------
(***************************************************************************)
(* ManualRunController over the shared tables: any number of operating     *)
(* system processes (each invocation of scripts/run_controller.py is one)  *)
(* execute the same runs.  Between two database transactions a process     *)
(* only holds what it has read, so every read, every write transaction and *)
(* every handler call is a step of its own, and a process may die between  *)
(* any two of them.  show() reads the run and its phases in two separate   *)
(* read transactions: the pair it returns may never have existed.          *)
(***************************************************************************)
EXTENDS PipelineRepository

CONSTANTS
  Procs,     \* controller processes
  Handled,   \* ordinals of the phases a handler is registered for
  NoRun      \* what an idle process works on

ASSUME HandledAssumption == Handled \subseteq Phases
ASSUME NoRunAssumption == NoRun \notin Runs

VARIABLES
  pc,        \* where each process is
  view       \* what each process has read, claimed or got from its handler

vars == <<run, phase, pc, view>>

(***************************************************************************)
(* run, seen: the run worked on and its status when last read              *)
(* phase, attempt: the phase it is about to claim or owns, and the attempt *)
(*   number of the row it got back when it claimed it                      *)
(* outcome: the handler's result, or the final status it computed          *)
(* proceed: the result's continue_pipeline                                 *)
(* owned: it comes from resume() already owning the running phase          *)
(***************************************************************************)
Blank == [run |-> NoRun, seen |-> "absent", phase |-> NoPhase, attempt |-> 0,
          outcome |-> "succeeded", proceed |-> TRUE, owned |-> FALSE]

View == [run : Runs \cup {NoRun}, seen : RunStatus,
         phase : Phases \cup {NoPhase}, attempt : Nat,
         outcome : HandlerStatus, proceed : BOOLEAN, owned : BOOLEAN]

PC == {"idle", "execute", "resume", "retry", "loop", "plan", "start_run",
       "start_phase", "handling", "complete", "fail", "pause", "paused",
       "finalize"}

\* The process is responsible for a phase it has put into "running".
OwnerPC == {"handling", "complete", "fail"}

Init ==
  /\ RepositoryInit
  /\ pc = [p \in Procs |-> "idle"]
  /\ view = [p \in Procs |-> Blank]

TypeOK ==
  /\ RepositoryTypeOK
  /\ pc \in [Procs -> PC]
  /\ view \in [Procs -> View]

Goto(p, label) == pc' = [pc EXCEPT ![p] = label]

\* The command returns or raises: the process is done and keeps nothing.
Exit(p) ==
  /\ Goto(p, "idle")
  /\ view' = [view EXCEPT ![p] = Blank]

Rows == <<run, phase>>

-----------------------------------------------------------------------------
\* start: one transaction, no phase is executed.

Start(p, r, forced) ==
  /\ pc[p] = "idle"
  /\ CanCreateRun(r, forced)
  /\ CreateRun(r, forced)
  /\ UNCHANGED <<pc, view>>

\* execute and resume begin with show(): first the run row, ...
Begin(p, r, command) ==
  /\ pc[p] = "idle"
  /\ Exists(r)
  /\ Goto(p, command)
  /\ view' = [view EXCEPT ![p] = [Blank EXCEPT !.run = r, !.seen = run[r].status,
                                               !.phase = run[r].failure]]
  /\ UNCHANGED Rows

\* ... then, in another transaction, the phase rows.
Execute(p) ==
  /\ pc[p] = "execute"
  /\ \/ /\ view[p].seen \in {"pending", "running"}
        /\ Goto(p, "loop")
        /\ UNCHANGED view
     \/ /\ view[p].seen \in RunSuccess \cup {"failed"}
        /\ Exit(p)
  /\ UNCHANGED Rows

\* A failed run read together with a failure phase that is still failed.
ResumeTarget(p) ==
  /\ view[p].seen = "failed"
  /\ view[p].phase \in Handled
  /\ StatusOf(view[p].run, view[p].phase) = "failed"

ResumeLoops(p) ==
  \/ view[p].seen = "pending"
  \/ view[p].seen = "running" /\ RunningPhases(view[p].run) = {}

Resume(p) ==
  /\ pc[p] = "resume"
  /\ \/ /\ ResumeLoops(p)
        /\ Goto(p, "loop")
        /\ UNCHANGED view
     \/ /\ ResumeTarget(p)
        /\ Goto(p, "retry")
        /\ UNCHANGED view
     \/ /\ ~ResumeLoops(p)
        /\ ~ResumeTarget(p)
        /\ Exit(p)
  /\ UNCHANGED Rows

Retry(p) ==
  LET r == view[p].run
      i == view[p].phase
  IN /\ pc[p] = "retry"
     /\ \/ /\ CanResumeFailed(r, i)
           /\ ResumeFailed(r, i)
           /\ Goto(p, "loop")
           /\ view' = [view EXCEPT ![p].owned = TRUE]
        \/ /\ ~CanResumeFailed(r, i)
           /\ Exit(p)
           /\ UNCHANGED Rows

-----------------------------------------------------------------------------
\* One turn of _execute_loop: show() again, ...

Loop(p) ==
  /\ pc[p] = "loop"
  /\ Goto(p, "plan")
  /\ view' = [view EXCEPT ![p].seen = run[view[p].run].status]
  /\ UNCHANGED Rows

\* ... a process that has just resumed a phase goes on with that phase, ...
PlanOwned(p) ==
  LET r == view[p].run
      i == view[p].phase
  IN /\ pc[p] = "plan"
     /\ view[p].owned
     /\ \/ /\ RunningPhases(r) = {i}
           /\ Goto(p, "handling")
           /\ view' = [view EXCEPT ![p].owned = FALSE,
                                   ![p].attempt = phase[r][i].attempt]
        \/ /\ RunningPhases(r) # {i}
           /\ Exit(p)
     /\ UNCHANGED Rows

\* ... any other claims the first incomplete phase, if nothing is running, ...
Claimable(r, i) ==
  /\ RunningPhases(r) = {}
  /\ FirstIncomplete(r, i)
  /\ StatusOf(r, i) = "pending"
  /\ i \in Handled

PlanPhase(p) ==
  /\ pc[p] = "plan"
  /\ ~view[p].owned
  /\ \E i \in Phases :
       /\ Claimable(view[p].run, i)
       /\ view' = [view EXCEPT ![p].phase = i]
  /\ Goto(p, IF view[p].seen = "pending" THEN "start_run" ELSE "start_phase")
  /\ UNCHANGED Rows

\* ... finalizes a completed run it has read as running, ...
Finalizable(p) ==
  /\ AllSuccessful(view[p].run)
  /\ view[p].seen = "running"

PlanFinal(p) ==
  /\ pc[p] = "plan"
  /\ ~view[p].owned
  /\ Finalizable(p)
  /\ view' = [view EXCEPT ![p].outcome = FinalStatus(PhaseStatuses(view[p].run))]
  /\ Goto(p, "finalize")
  /\ UNCHANGED Rows

\* Mistake: a process that can do nothing looks again instead of raising.
PlanStopsWaits(p) ==
  /\ pc[p] = "plan"
  /\ ~view[p].owned
  /\ \A i \in Phases : ~Claimable(view[p].run, i)
  /\ ~Finalizable(p)
  /\ Goto(p, "loop")
  /\ UNCHANGED <<run, phase, view>>

\* ... and raises in every other case: a phase is running or failed, has no
\* handler, or the completed run is not running.
PlanStops(p) ==
  /\ pc[p] = "plan"
  /\ ~view[p].owned
  /\ \A i \in Phases : ~Claimable(view[p].run, i)
  /\ ~Finalizable(p)
  /\ Exit(p)
  /\ UNCHANGED Rows

-----------------------------------------------------------------------------
\* The two transactions that claim a phase.

StartRun(p) ==
  LET r == view[p].run
  IN /\ pc[p] = "start_run"
     /\ \/ /\ CanTransitionRun(r, "running", "state_transition", NoPhase)
           /\ TransitionRun(r, "running", NoPhase)
           /\ Goto(p, "start_phase")
           /\ UNCHANGED view
        \/ /\ ~CanTransitionRun(r, "running", "state_transition", NoPhase)
           /\ Exit(p)
           /\ UNCHANGED Rows

StartPhase(p) ==
  LET r == view[p].run
      i == view[p].phase
  IN /\ pc[p] = "start_phase"
     /\ \/ /\ CanTransitionPhase(r, i, "running", "state_transition")
           /\ TransitionPhase(r, i, "running", 0, {})
           /\ Goto(p, "handling")
           /\ view' = [view EXCEPT ![p].attempt = phase[r][i].attempt + 1]
        \/ /\ ~CanTransitionPhase(r, i, "running", "state_transition")
           /\ Exit(p)
           /\ UNCHANGED Rows

-----------------------------------------------------------------------------
\* The handler and the recording of its result.

\* Bound: the phase fails at most until its last attempt.
MayFail(p) == phase[view[p].run][view[p].phase].attempt < MaxAttempts

\* Mistake: the status in the handler's result is not validated.
HandlerReturnsAnything(p) ==
  /\ pc[p] = "handling"
  /\ \E outcome \in PhaseStatus, proceed \in BOOLEAN :
       view' = [view EXCEPT ![p].outcome = outcome, ![p].proceed = proceed]
  /\ Goto(p, "complete")
  /\ UNCHANGED Rows

HandlerReturns(p) ==
  /\ pc[p] = "handling"
  /\ \E outcome \in HandlerStatus, proceed \in BOOLEAN :
       view' = [view EXCEPT ![p].outcome = outcome, ![p].proceed = proceed]
  /\ Goto(p, "complete")
  /\ UNCHANGED Rows

\* The handler raises an Exception or returns something that is no result.
HandlerRaises(p) ==
  /\ pc[p] = "handling"
  /\ MayFail(p)
  /\ Goto(p, "fail")
  /\ UNCHANGED <<run, phase, view>>

Complete(p) ==
  LET r == view[p].run
      i == view[p].phase
  IN /\ pc[p] = "complete"
     /\ CanTransitionPhase(r, i, view[p].outcome, "state_transition")
     /\ TransitionPhase(r, i, view[p].outcome, view[p].attempt, {})
     /\ Goto(p, IF view[p].proceed THEN "loop" ELSE "pause")
     /\ view' = [view EXCEPT ![p] = [Blank EXCEPT !.run = r]]

\* Recording the result raises: the transition is refused, a checksum or a
\* warning is unusable, or the database stays locked.
CompleteRaises(p) ==
  /\ pc[p] = "complete"
  /\ MayFail(p) \/ ~CanTransitionPhase(view[p].run, view[p].phase,
                                       view[p].outcome, "state_transition")
  /\ Goto(p, "fail")
  /\ UNCHANGED <<run, phase, view>>

\* _fail_phase: if the transaction is refused its exception leaves the loop.
FailPhase(p) ==
  LET r == view[p].run
      i == view[p].phase
  IN /\ pc[p] = "fail"
     /\ \/ /\ CanFailRunning(r, i)
           /\ FailRunning(r, i)
        \/ /\ ~CanFailRunning(r, i)
           /\ UNCHANGED Rows
     /\ Exit(p)

\* continue_pipeline is false: show() once more, ...
Pause(p) ==
  /\ pc[p] = "pause"
  /\ Goto(p, "paused")
  /\ view' = [view EXCEPT ![p].seen = run[view[p].run].status]
  /\ UNCHANGED Rows

\* ... and finalize if that was the last phase, else return.
Paused(p) ==
  /\ pc[p] = "paused"
  /\ \/ /\ Finalizable(p)
        /\ Goto(p, "finalize")
        /\ view' = [view EXCEPT
             ![p].outcome = FinalStatus(PhaseStatuses(view[p].run))]
     \/ /\ ~Finalizable(p)
        /\ Exit(p)
  /\ UNCHANGED Rows

\* The final status was computed from the earlier read; the transaction only
\* checks that every phase is successful when it commits.
Finalize(p) ==
  LET r == view[p].run
  IN /\ pc[p] = "finalize"
     /\ \/ /\ CanTransitionRun(r, view[p].outcome, "state_transition", NoPhase)
           /\ TransitionRun(r, view[p].outcome, NoPhase)
        \/ /\ ~CanTransitionRun(r, view[p].outcome, "state_transition", NoPhase)
           /\ UNCHANGED Rows
     /\ Exit(p)

\* The process dies, a process-control exception passes through the handler,
\* or a read outside the try block raises: whatever is stored stays stored.
Crash(p) ==
  /\ pc[p] # "idle"
  /\ Exit(p)
  /\ UNCHANGED Rows

-----------------------------------------------------------------------------
\* What a process does once its command has begun.
Step(p) ==
  \/ Execute(p) \/ Resume(p) \/ Retry(p)
  \/ Loop(p) \/ PlanOwned(p) \/ PlanPhase(p) \/ PlanFinal(p) \/ PlanStops(p)
  \/ StartRun(p) \/ StartPhase(p)
  \/ HandlerReturns(p) \/ HandlerRaises(p) \/ Complete(p) \/ CompleteRaises(p)
  \/ FailPhase(p) \/ Pause(p) \/ Paused(p) \/ Finalize(p)

Command(p) ==
  \E r \in Runs :
    \/ \E forced \in BOOLEAN : Start(p, r, forced)
    \/ \E command \in {"execute", "resume"} : Begin(p, r, command)

Next == \E p \in Procs : Command(p) \/ Step(p) \/ Crash(p)

Spec == Init /\ [][Next]_vars

(***************************************************************************)
(* A process that is scheduled goes on, and a handler returns or raises.   *)
(* Nobody has to issue a command and nothing has to crash.                 *)
(***************************************************************************)
FairSpec == Spec /\ \A p \in Procs : WF_vars(Step(p))
=============================================================================
