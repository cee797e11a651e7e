------------------------- MODULE RunControllerProps -------------------------
(***************************************************************************)
(* What makes the manual run controller correct when it is the only writer *)
(* of the run tables, however many processes run it and wherever they die. *)
(***************************************************************************)
EXTENDS ManualRunController, FiniteSets

\* resume() owns the phase it has retried before it reads it back.
Owner(p) == pc[p] \in OwnerPC \/ view[p].owned

Owns(p, r, i) == Owner(p) /\ view[p].run = r /\ view[p].phase = i

(***************************************************************************)
(* Two processes never execute phases of the same run at the same time:    *)
(* the claim in _execute_loop and the resume of a failed phase exclude     *)
(* each other although both decide on what they read earlier.              *)
(***************************************************************************)
OneOwner ==
  \A p, q \in Procs :
    Owner(p) /\ Owner(q) /\ view[p].run = view[q].run => p = q

(***************************************************************************)
(* While a process executes a handler, the phase is stored as running in   *)
(* exactly the attempt the handler was called with, and so is its run:     *)
(* what _invoke_handler returns is recorded on the attempt that made it.   *)
(***************************************************************************)
AttemptOwnership ==
  \A p \in Procs :
    Owner(p) =>
      /\ run[view[p].run].status = "running"
      /\ phase[view[p].run][view[p].phase].status = "running"
      /\ pc[p] \in OwnerPC =>
           phase[view[p].run][view[p].phase].attempt = view[p].attempt

(***************************************************************************)
(* The dependency barrier of _first_incomplete: nothing is ever known of a *)
(* phase unless every earlier phase is successfully completed.             *)
(***************************************************************************)
SerialOrder ==
  \A r \in Runs : \A i, j \in Phases :
    j < i /\ StatusOf(r, i) # "pending" => StatusOf(r, j) \in Successful

(***************************************************************************)
(* The run row tells the truth about the phase rows, although they are     *)
(* written by different transactions: a failed run names its only failed   *)
(* phase, an open run has none, a closed one has every phase successful    *)
(* and carries the status its phases add up to.                            *)
(***************************************************************************)
RunMatchesPhases ==
  \A r \in Runs :
    /\ run[r].status \in {"absent", "pending"} =>
         \A i \in Phases : phase[r][i] = PendingPhase
    /\ \A i \in Phases :
         StatusOf(r, i) = "failed" <=> run[r].status = "failed" /\ run[r].failure = i
    /\ run[r].status = "failed" => run[r].failure \in Phases
    /\ \A i \in Phases : StatusOf(r, i) = "running" => run[r].status = "running"
    /\ run[r].status \in RunSuccess =>
         AllSuccessful(r) /\ run[r].status = FinalStatus(PhaseStatuses(r))

(***************************************************************************)
(* A completed phase carries the output of its own last attempt, never one *)
(* left over from an attempt that failed or was overtaken.                 *)
(***************************************************************************)
OutputOfItsAttempt ==
  \A r \in Runs, i \in Phases :
    /\ StatusOf(r, i) \in HandlerStatus => phase[r][i].output = phase[r][i].attempt
    /\ StatusOf(r, i) \in {"pending", "running", "failed"} => phase[r][i].output = 0

(***************************************************************************)
(* Whatever a crash interrupts, a run that is neither closed nor holds a   *)
(* running phase can be taken up again: resume() finds the failed phase    *)
(* the run names, a pending phase to claim, or the completed run still     *)
(* open for finalization, and never meets rows it refuses as inconsistent. *)
(* This is what ManualRunSummaryV1.resumable tells the operator.           *)
(***************************************************************************)
Resumable(r) ==
  \/ run[r].status \in {"pending", "failed"}
  \/ run[r].status = "running" /\ RunningPhases(r) = {}

ResumableIsActionable ==
  \A r \in Runs :
    Resumable(r) =>
      \/ \E i \in Phases : run[r].failure = i /\ CanResumeFailed(r, i)
      \/ \E i \in Phases : FirstIncomplete(r, i) /\ StatusOf(r, i) = "pending"
      \/ AllSuccessful(r) /\ run[r].status = "running"

(***************************************************************************)
(* Completed work stays completed: no step of any process, however stale   *)
(* its view, changes a successful phase or reopens a closed run.           *)
(***************************************************************************)
CompletedIsFinal ==
  [][\A r \in Runs :
       /\ run[r].status \in RunSuccess => run'[r] = run[r]
       /\ \A i \in Phases :
            StatusOf(r, i) \in Successful => phase'[r][i] = phase[r][i]]_vars

(***************************************************************************)
(* A phase whose process died stays as it is, running, and its run with    *)
(* it: nobody takes it over, because nobody can know how far its handler   *)
(* got (ManualRunRecoveryRequired).                                        *)
(***************************************************************************)
OrphanUntouched ==
  [][\A r \in Runs, i \in Phases :
       StatusOf(r, i) = "running" /\ (\A p \in Procs : ~Owns(p, r, i))
         => phase'[r] = phase[r] /\ run'[r] = run[r]]_vars

(***************************************************************************)
(* Every command returns or raises: _execute_loop cannot go round forever, *)
(* because every turn completes a phase or ends the command.               *)
(***************************************************************************)
CommandEnds == \A p \in Procs : pc[p] # "idle" ~> pc[p] = "idle"

(***************************************************************************)
(* Claims, retries and results of the processes exclude each other: one    *)
(* process works on a run, in the attempt that the rows say is running.    *)
(***************************************************************************)
Ownership == OneOwner /\ AttemptOwnership

(***************************************************************************)
(* Nobody writes what is settled or somebody else's: completed phases and  *)
(* closed runs, and the rows of a run whose process died in a handler.     *)
(***************************************************************************)
SettledRowsStay == CompletedIsFinal /\ OrphanUntouched

-----------------------------------------------------------------------------
(***************************************************************************)
(* The controller implements SerialRun: the first completed phases of a    *)
(* run are the ones done, and what it does is read off its rows.           *)
(***************************************************************************)
DoneOf(r) == Cardinality({i \in Phases : StatusOf(r, i) \in Successful})

ModeOf(r) ==
  IF run[r].status = "absent" THEN "none"
  ELSE IF run[r].status \in RunSuccess THEN "closed"
  ELSE IF run[r].status = "failed" THEN "failed"
  ELSE IF RunningPhases(r) # {} THEN "active"
  ELSE "waiting"

Serial == INSTANCE SerialRun WITH
  mode <- [r \in Runs |-> ModeOf(r)],
  done <- [r \in Runs |-> DoneOf(r)]

(***************************************************************************)
(* Many processes with stale reads and crashes look, to an operator who    *)
(* reads the tables, like one executor that does the phases one by one.    *)
(***************************************************************************)
ImplementsSerialRun == Serial!Spec
-----------------------------------------------------------------------------
(***************************************************************************)
(* The run row and the phase rows of every run agree, whichever process    *)
(* wrote which of them last: phases in order, the run row true to them,    *)
(* and outputs of their own attempts.                                      *)
(***************************************************************************)
TablesOK == SerialOrder /\ RunMatchesPhases /\ OutputOfItsAttempt

(***************************************************************************)
(* The inductive invariant behind the properties above.  TablesOK speaks   *)
(* of the rows alone, ProcessOK of what a process may still conclude from  *)
(* what it read: a claimed phase comes after successful phases only, a run *)
(* read as begun never becomes pending again, and a final status computed  *)
(* from a complete run stays right because completed phases never change.  *)
(***************************************************************************)
Begun(r) == run[r].status \notin {"absent", "pending"}

EarlierSuccessful(r, i) == \A j \in Phases : j < i => StatusOf(r, j) \in Successful

ProcessOK(p) ==
  LET r == view[p].run
      i == view[p].phase
  IN /\ pc[p] # "idle" => r \in Runs /\ Exists(r)
     /\ view[p].owned => pc[p] \in {"loop", "plan"}
     /\ pc[p] \in {"retry", "start_run", "start_phase"} \/ Owner(p) => i \in Phases
     /\ pc[p] \in {"start_run", "start_phase"} => EarlierSuccessful(r, i)
     /\ pc[p] = "start_phase" => Begun(r)
     /\ pc[p] = "plan" /\ view[p].seen # "pending" => Begun(r)
     /\ pc[p] = "finalize" =>
          AllSuccessful(r) /\ view[p].outcome = FinalStatus(PhaseStatuses(r))

IInv ==
  /\ TypeOK
  /\ TablesOK
  /\ \A p \in Procs : ProcessOK(p)
  /\ AttemptOwnership
  /\ OneOwner
=============================================================================
