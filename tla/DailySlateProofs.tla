--------------------------- MODULE DailySlateProofs ---------------------------
(***************************************************************************)
(* Proofs about the run tables beside an operator and about the slates of  *)
(* the daily_slate phase, for any number of runs, processes, phases,       *)
(* attempts and players.                                                   *)
(***************************************************************************)
EXTENDS DailySlate, TLAPS

-----------------------------------------------------------------------------
\* What a transaction may do to one phase row: nothing, begin an attempt,
\* record its end, or pass the phase over.

Begins(old, new) ==
  new.status = "running" /\ new.attempt = old.attempt + 1 /\ new.output = 0 /\ new.source = {}

Ends(old, new) ==
  /\ old.status = "running" /\ new.status \in HandlerStatus \cup {"failed"}
  /\ new.attempt = old.attempt /\ new.source = {}

Passes(old, new) ==
  /\ old.status = "pending" /\ new.status \in {"skipped", "reused"}
  /\ new.attempt = old.attempt
  /\ new.status = "reused" <=> new.source # {}

PhaseMove(old, new) == new = old \/ Begins(old, new) \/ Ends(old, new) \/ Passes(old, new)

\* What a run row may become when the phase rows of its run become f.
RunClosesOn(r, f) ==
  run'[r].status \in RunSuccess => AllSuccessful(r) /\ f = phase[r]

RunFailsOn(r, f) ==
  run'[r].status = "failed" => \E i \in Phases : run'[r].failure = i /\ f[i].status = "failed"

RowsStep ==
  /\ RepositoryTypeOK'
  /\ \A r \in Runs, i \in Phases : PhaseMove(phase[r][i], phase'[r][i])
  /\ \A r \in Runs :
       /\ run'[r] # run[r] => (run'[r].status = "failed" <=> run'[r].failure # NoPhase)
       /\ ~Exists(r)' => ~Exists(r) /\ phase'[r] = phase[r]
       /\ run'[r].status # run[r].status =>
            RunClosesOn(r, phase'[r]) /\ RunFailsOn(r, phase'[r])

\* Nobody but mark_pipeline_phase_reused names a source ...
SourcesOnlyGo == \A r \in Runs, i \in Phases : phase'[r][i].source \subseteq phase[r][i].source

\* ... and nobody but a controller that completes a phase brings an output.
OutputsComeFrom(p) ==
  \A r \in Runs, i \in Phases :
    phase'[r][i] # phase[r][i] /\ phase'[r][i].status \in HandlerStatus
        /\ phase'[r][i].output # 0
      => pc[p] = "complete" /\ view[p].run = r /\ view[p].phase = i
         /\ view[p].attempt = phase'[r][i].output

NoOutputs ==
  \A r \in Runs, i \in Phases :
    phase'[r][i] # phase[r][i] => phase'[r][i].status \notin HandlerStatus \/ phase'[r][i].output = 0

LEMMA StatusSets ==
  /\ HandlerStatus = {"succeeded", "succeeded_with_warnings", "degraded"}
  /\ RunSuccess = HandlerStatus
  /\ Successful = HandlerStatus \cup {"skipped", "reused"}
  /\ PhaseStatus = {"pending", "running", "failed"} \cup Successful
  /\ RunStatus = {"absent", "pending", "running", "failed"} \cup RunSuccess
BY DEF HandlerStatus, RunSuccess, Successful, PhaseStatus, RunStatus

-----------------------------------------------------------------------------
(***************************************************************************)
(* A transaction that writes one run row and one phase row of that run.    *)
(***************************************************************************)
RowsBecome(r, i, x, y) ==
  /\ run' = [run EXCEPT ![r] = x]
  /\ phase' = [phase EXCEPT ![r] = [@ EXCEPT ![i] = y]]

RunMove(r, i, x, y) ==
  /\ x # run[r] => (x.status = "failed" <=> x.failure # NoPhase)
  /\ x.status = "absent" => run[r].status = "absent" /\ y = phase[r][i]
  /\ x.status # run[r].status =>
       /\ x.status \in RunSuccess => AllSuccessful(r) /\ y = phase[r][i]
       /\ x.status = "failed" =>
            \E j \in Phases : x.failure = j /\ phase'[r][j].status = "failed"

LEMMA RowsChange ==
  ASSUME RepositoryTypeOK, NEW r \in Runs, NEW i \in Phases,
         NEW x \in RunRow, NEW y \in PhaseRow,
         RowsBecome(r, i, x, y), PhaseMove(phase[r][i], y), RunMove(r, i, x, y)
  PROVE  /\ RowsStep
         /\ phase'[r][i] = y
         /\ \A q \in Runs, j \in Phases :
              q # r \/ j # i => phase'[q][j] = phase[q][j]
<1>1. /\ run'[r] = x /\ \A q \in Runs \ {r} : run'[q] = run[q]
      /\ run' \in [Runs -> RunRow]
  BY DEF RepositoryTypeOK, RowsBecome
<1>2. phase[r] \in [Phases -> PhaseRow]
  BY DEF RepositoryTypeOK
<1>3. PICK f : f = [phase[r] EXCEPT ![i] = y]
  OBVIOUS
<1>4. f \in [Phases -> PhaseRow] /\ f[i] = y /\ \A j \in Phases \ {i} : f[j] = phase[r][j]
  BY <1>2, <1>3
<1>5. phase' = [phase EXCEPT ![r] = f]
  BY <1>3 DEF RowsBecome
<1>6. /\ phase'[r] = f /\ \A q \in Runs \ {r} : phase'[q] = phase[q]
      /\ phase' \in [Runs -> [Phases -> PhaseRow]]
  BY <1>4, <1>5 DEF RepositoryTypeOK
<1>7. y = phase[r][i] => f = phase[r]
  BY <1>2, <1>3
<1>8. \A q \in Runs, j \in Phases : q # r \/ j # i => phase'[q][j] = phase[q][j]
  BY <1>4, <1>6
<1>9. \A q \in Runs, j \in Phases : PhaseMove(phase[q][j], phase'[q][j])
  BY <1>4, <1>6, <1>8 DEF PhaseMove
<1>10. \A q \in Runs \ {r} : run'[q] = run[q] /\ phase'[q] = phase[q]
  BY <1>1, <1>6
<1>11. /\ run'[r] # run[r] => (run'[r].status = "failed" <=> run'[r].failure # NoPhase)
       /\ run'[r].status = "absent" => run[r].status = "absent" /\ phase'[r] = phase[r]
       /\ run'[r].status # run[r].status =>
            RunClosesOn(r, phase'[r]) /\ RunFailsOn(r, phase'[r])
  BY <1>1, <1>6, <1>7 DEF RunMove, RunClosesOn, RunFailsOn
<1>12. RepositoryTypeOK'
  BY <1>1, <1>6 DEF RepositoryTypeOK
<1>13. RowsStep
  BY <1>9, <1>10, <1>11, <1>12 DEF RowsStep, Exists
<1>14. QED
  BY <1>4, <1>6, <1>8, <1>13

LEMMA RowsUnchanged ==
  ASSUME RepositoryTypeOK, UNCHANGED Rows
  PROVE  RowsStep /\ SourcesOnlyGo /\ NoOutputs
BY DEF Rows, RowsStep, PhaseMove, SourcesOnlyGo, NoOutputs, RepositoryTypeOK, Exists

\* The transactions on the run row alone.
LEMMA RunTransition ==
  ASSUME RepositoryTypeOK, NEW r \in Runs, NEW target \in RunStatus,
         NEW failure \in Phases \cup {NoPhase}, NEW kind,
         CanTransitionRun(r, target, kind, failure), TransitionRun(r, target, failure)
  PROVE  RowsStep /\ SourcesOnlyGo /\ NoOutputs
<1>1. run[r] \in RunRow /\ phase[r] \in [Phases -> PhaseRow]
  BY DEF RepositoryTypeOK
<1>2. PICK x : x = [run[r] EXCEPT !.status = target, !.failure = failure]
  OBVIOUS
<1>3. x \in RunRow /\ x.status = target /\ x.failure = failure
  BY <1>1, <1>2 DEF RunRow
<1>4. run' = [run EXCEPT ![r] = x]
  BY <1>1, <1>2 DEF TransitionRun, RepositoryTypeOK
<1>5. 1 \in Phases
  BY NumPhasesAssumption DEF Phases
<1>6. phase' = phase /\ phase = [phase EXCEPT ![r] = [@ EXCEPT ![1] = phase[r][1]]]
  BY <1>1, <1>5 DEF TransitionRun, RepositoryTypeOK
<1>7. target # "absent"
  BY StatusSets DEF CanTransitionRun, RunAllowed, RunTargets
<1>8. NoPhase \notin Phases
  BY DEF NoPhase, Phases
<1>9. /\ target \in RunSuccess => AllSuccessful(r)
      /\ target = "failed" => failure \in Phases /\ phase[r][failure].status = "failed"
      /\ target # "failed" => failure = NoPhase
  BY DEF CanTransitionRun, StatusOf
<1>10. phase[r][1] \in PhaseRow /\ PhaseMove(phase[r][1], phase[r][1])
  BY <1>1, <1>5 DEF PhaseMove
<1>11. RowsBecome(r, 1, x, phase[r][1])
  BY <1>4, <1>6 DEF RowsBecome
<1>12. RunMove(r, 1, x, phase[r][1])
  BY <1>3, <1>6, <1>7, <1>8, <1>9 DEF RunMove
<1>13. RowsStep
  BY <1>3, <1>5, <1>10, <1>11, <1>12, RowsChange
<1>14. QED
  BY <1>6, <1>13 DEF SourcesOnlyGo, NoOutputs

\* What the table of phase transitions makes of a row.
LEMMA PhaseRowMoves ==
  ASSUME NEW row \in PhaseRow, NEW target \in PhaseStatus, NEW kind,
         PhaseAllowed(row.status, target, kind),
         NEW output \in Nat, target = "running" => output = 0,
         NEW source \in SUBSET Runs, source # {} <=> target = "reused"
  PROVE  LET y == NextPhaseRow(row, target, output, source)
         IN /\ y \in PhaseRow /\ PhaseMove(row, y)
            /\ y.status = target /\ y.source \subseteq source
            /\ target \in HandlerStatus =>
                 row.status = "running" /\ y.output = (IF output = 0 THEN row.output ELSE output)
<1> DEFINE y == NextPhaseRow(row, target, output, source)
<1>1. row.attempt \in Nat /\ row.output \in Nat /\ row.status \in PhaseStatus
  BY DEF PhaseRow
<1>2. CASE target = "running"
  <2>1. y = [status |-> target, attempt |-> row.attempt + 1, output |-> 0, source |-> {}]
    BY <1>2 DEF NextPhaseRow
  <2>2. y \in PhaseRow /\ Begins(row, y)
    BY <1>1, <1>2, <2>1 DEF PhaseRow, Begins
  <2> HIDE DEF y
  <2>3. QED
    BY <1>2, <2>1, <2>2, StatusSets DEF PhaseMove, y
<1>3. CASE target # "running"
  <2>1. PICK out \in Nat : out = IF output = 0 THEN row.output ELSE output
    BY <1>1
  <2>2. y = [status |-> target, attempt |-> row.attempt, output |-> out, source |-> source]
    BY <1>3, <2>1 DEF NextPhaseRow
  <2>3. /\ y \in PhaseRow /\ y.status = target /\ y.attempt = row.attempt
        /\ y.output = out /\ y.source = source
    BY <1>1, <2>2 DEF PhaseRow
  <2>4. \/ row.status = "running" /\ target \in HandlerStatus \cup {"failed"}
        \/ row.status = "pending" /\ target \in {"skipped", "reused"}
    BY <1>1, <1>3, StatusSets DEF PhaseAllowed, PhaseTargets
  <2>5. PhaseMove(row, y)
    BY <2>3, <2>4, StatusSets DEF PhaseMove, Ends, Passes
  <2> HIDE DEF y
  <2>6. QED
    BY <2>1, <2>3, <2>4, <2>5, StatusSets DEF y
<1>4. QED
  BY <1>2, <1>3

(***************************************************************************)
(* _transition_pipeline_phase, whoever calls it.                           *)
(***************************************************************************)
LEMMA PhaseTransition ==
  ASSUME RepositoryTypeOK, NEW r \in Runs, NEW i \in Phases,
         NEW target \in PhaseStatus, NEW kind,
         CanTransitionPhase(r, i, target, kind),
         NEW output \in Nat, target = "running" => output = 0,
         NEW source \in SUBSET Runs, source # {} <=> target = "reused",
         TransitionPhase(r, i, target, output, source)
  PROVE  /\ RowsStep
         /\ phase'[r][i].status = target /\ phase'[r][i].source \subseteq source
         /\ target \in HandlerStatus =>
              /\ phase[r][i].status = "running"
              /\ phase'[r][i].output = (IF output = 0 THEN phase[r][i].output ELSE output)
         /\ \A q \in Runs, j \in Phases :
              q # r \/ j # i => phase'[q][j] = phase[q][j]
<1>1. PICK x \in RunRow, row \in PhaseRow : x = run[r] /\ row = phase[r][i]
  BY DEF RepositoryTypeOK
<1>2. PICK y : y = NextPhaseRow(row, target, output, source)
  OBVIOUS
<1>3. PhaseAllowed(row.status, target, kind)
  BY <1>1 DEF CanTransitionPhase, StatusOf
<1>4. /\ y \in PhaseRow /\ PhaseMove(row, y)
      /\ y.status = target /\ y.source \subseteq source
      /\ target \in HandlerStatus =>
           /\ row.status = "running"
           /\ y.output = (IF output = 0 THEN row.output ELSE output)
  BY <1>2, <1>3, PhaseRowMoves
<1>5. run' = [run EXCEPT ![r] = x]
  BY <1>1 DEF TransitionPhase, RepositoryTypeOK
<1>6. phase' = [phase EXCEPT ![r] = [@ EXCEPT ![i] = y]]
  BY <1>1, <1>2 DEF TransitionPhase
<1>7. x.status # "absent"
  BY <1>1 DEF CanTransitionPhase, Exists
<1>8. PhaseMove(phase[r][i], y)
  BY <1>1, <1>4
<1>9. RowsBecome(r, i, x, y) /\ RunMove(r, i, x, y)
  BY <1>1, <1>5, <1>6, <1>7 DEF RowsBecome, RunMove
<1>10. y \in PhaseRow
  BY <1>4
<1>11. /\ RowsStep /\ phase'[r][i] = y
       /\ \A q \in Runs, j \in Phases : q # r \/ j # i => phase'[q][j] = phase[q][j]
  BY <1>8, <1>9, <1>10, RowsChange
<1>12. QED
  BY <1>1, <1>4, <1>11

\* create_pipeline_run: the phase rows of a run not yet created are blank.
LEMMA RunCreation ==
  ASSUME RepositoryTypeOK, RowsOK, NEW r \in Runs, NEW forced \in BOOLEAN,
         CanCreateRun(r, forced), CreateRun(r, forced)
  PROVE  RowsStep /\ SourcesOnlyGo /\ NoOutputs
<1>1. run[r] \in RunRow /\ phase[r] \in [Phases -> PhaseRow]
  BY DEF RepositoryTypeOK
<1>2. PICK x : x = [status |-> "pending", failure |-> NoPhase, forced |-> forced]
  OBVIOUS
<1>3. x \in RunRow /\ x.status = "pending" /\ x.failure = NoPhase
  BY <1>2, StatusSets DEF RunRow
<1>4. [i \in Phases |-> PendingPhase] = phase[r]
  BY <1>1 DEF RowsOK, CanCreateRun
<1>5. phase' = phase
  BY <1>4 DEF CreateRun, RepositoryTypeOK
<1>6. 1 \in Phases
  BY NumPhasesAssumption DEF Phases
<1>7. RowsBecome(r, 1, x, phase[r][1])
  BY <1>1, <1>2, <1>5, <1>6 DEF RowsBecome, CreateRun, RepositoryTypeOK
<1>8. RunMove(r, 1, x, phase[r][1])
  BY <1>3, StatusSets DEF RunMove
<1>9. phase[r][1] \in PhaseRow /\ PhaseMove(phase[r][1], phase[r][1])
  BY <1>1, <1>6 DEF PhaseMove
<1>10. RowsStep
  BY <1>3, <1>6, <1>7, <1>8, <1>9, RowsChange
<1>11. QED
  BY <1>5, <1>10 DEF SourcesOnlyGo, NoOutputs

\* resume_failed_pipeline_run_and_phase.
LEMMA RunResumption ==
  ASSUME RepositoryTypeOK, NEW r \in Runs, NEW i \in Phases,
         CanResumeFailed(r, i), ResumeFailed(r, i)
  PROVE  RowsStep /\ SourcesOnlyGo /\ NoOutputs
<1>1. PICK old \in RunRow, row \in PhaseRow : old = run[r] /\ row = phase[r][i]
  BY DEF RepositoryTypeOK
<1>2. PICK x : x = [old EXCEPT !.status = "running", !.failure = NoPhase]
  OBVIOUS
<1>3. PICK y : y = [status |-> "running", attempt |-> row.attempt + 1, output |-> 0,
                    source |-> {}]
  OBVIOUS
<1>4. x \in RunRow /\ x.status = "running" /\ x.failure = NoPhase
  BY <1>2, StatusSets DEF RunRow
<1>5. y \in PhaseRow /\ Begins(row, y) /\ y.source = {} /\ y.output = 0
  BY <1>3, StatusSets DEF PhaseRow, Begins
<1>6. run' = [run EXCEPT ![r] = x]
  BY <1>1, <1>2 DEF ResumeFailed, RepositoryTypeOK
<1>7. RowsBecome(r, i, x, y)
  BY <1>1, <1>3, <1>6 DEF RowsBecome, ResumeFailed
<1>8. RunMove(r, i, x, y)
  BY <1>4, StatusSets DEF RunMove
<1>9. PhaseMove(phase[r][i], y)
  BY <1>1, <1>5 DEF PhaseMove
<1>10. /\ RowsStep /\ phase'[r][i] = y
       /\ \A q \in Runs, j \in Phases : q # r \/ j # i => phase'[q][j] = phase[q][j]
  BY <1>4, <1>5, <1>7, <1>8, <1>9, RowsChange
<1>11. QED
  BY <1>5, <1>10 DEF SourcesOnlyGo, NoOutputs

\* fail_running_pipeline_phase_and_run.
LEMMA RunFailure ==
  ASSUME RepositoryTypeOK, NEW r \in Runs, NEW i \in Phases,
         CanFailRunning(r, i), FailRunning(r, i)
  PROVE  RowsStep /\ SourcesOnlyGo /\ NoOutputs
<1>1. PICK old \in RunRow, row \in PhaseRow : old = run[r] /\ row = phase[r][i]
  BY DEF RepositoryTypeOK
<1>2. PICK x : x = [old EXCEPT !.status = "failed", !.failure = i]
  OBVIOUS
<1>3. PICK y : y = [status |-> "failed", attempt |-> row.attempt, output |-> 0, source |-> {}]
  OBVIOUS
<1>4. x \in RunRow /\ x.status = "failed" /\ x.failure = i /\ i # NoPhase
  <2>1. i # NoPhase
    BY NumPhasesAssumption DEF Phases, NoPhase
  <2>2. i \in Phases \cup {NoPhase}
    OBVIOUS
  <2>3. x \in RunRow /\ x.status = "failed" /\ x.failure = i
    BY <1>2, <2>2, StatusSets DEF RunRow
  <2>4. QED
    BY <2>1, <2>3
<1>5. row.status = "running"
  BY <1>1, StatusSets DEF CanFailRunning, PhaseAllowed, PhaseTargets, StatusOf, PhaseRow
<1>6. y \in PhaseRow /\ Ends(row, y) /\ y.source = {} /\ y.output = 0 /\ y.status = "failed"
  BY <1>3, <1>5, StatusSets DEF PhaseRow, Ends
<1>7. run' = [run EXCEPT ![r] = x]
  BY <1>1, <1>2 DEF FailRunning, RepositoryTypeOK
<1>8. RowsBecome(r, i, x, y)
  BY <1>1, <1>3, <1>7 DEF RowsBecome, FailRunning
<1>9. phase'[r][i] = y
  BY <1>8 DEF RowsBecome, RepositoryTypeOK
<1>10. RunMove(r, i, x, y)
  BY <1>4, <1>6, <1>9, StatusSets DEF RunMove
<1>11. PhaseMove(phase[r][i], y)
  BY <1>1, <1>6 DEF PhaseMove
<1>12. /\ RowsStep
       /\ \A q \in Runs, j \in Phases : q # r \/ j # i => phase'[q][j] = phase[q][j]
  BY <1>4, <1>6, <1>8, <1>10, <1>11, RowsChange
<1>13. QED
  BY <1>6, <1>9, <1>12 DEF SourcesOnlyGo, NoOutputs

-----------------------------------------------------------------------------
\* What a step of a controller process does to the process.

InPlace(p, l, v) ==
  /\ l # "idle" => v.run \in Runs
  /\ l \in PhasePC => v.phase \in Phases
  /\ l = "handling" => pc[p] # "handling"
  /\ l = "complete" =>
       /\ pc[p] = "handling" /\ v.run = view[p].run
       /\ v.phase = view[p].phase /\ v.attempt = view[p].attempt

ProcessMoves(p) ==
  \E l \in PC, v \in View :
    /\ pc' = [pc EXCEPT ![p] = l] /\ view' = [view EXCEPT ![p] = v]
    /\ InPlace(p, l, v)

ControllerStep(p) == RowsStep /\ SourcesOnlyGo /\ OutputsComeFrom(p) /\ ProcessMoves(p)

LEMMA BlankIsView == Blank \in View /\ NoPhase \in Phases \cup {NoPhase}
BY StatusSets DEF Blank, View, NoPhase

LEMMA ExitMoves ==
  ASSUME NEW p \in Procs, Exit(p)
  PROVE  ProcessMoves(p)
<1>1. "idle" \in PC /\ InPlace(p, "idle", Blank)
  BY DEF PC, InPlace, PhasePC
<1>2. QED
  BY <1>1, BlankIsView DEF Exit, Goto, ProcessMoves

LEMMA QuietController ==
  ASSUME TypeOK, NEW p \in Procs, UNCHANGED Rows, ProcessMoves(p)
  PROVE  ControllerStep(p)
BY RowsUnchanged DEF TypeOK, ControllerStep, NoOutputs, OutputsComeFrom

LEMMA WritingController ==
  ASSUME NEW p \in Procs, RowsStep, SourcesOnlyGo, NoOutputs, ProcessMoves(p)
  PROVE  ControllerStep(p)
BY DEF ControllerStep, NoOutputs, OutputsComeFrom

LEMMA CommandSteps ==
  ASSUME OperatedInv, NEW p \in Procs, Command(p)
  PROVE  ControllerStep(p)
<1>1. TypeOK /\ RepositoryTypeOK /\ RowsOK /\ pc[p] \in PC /\ view[p] \in View
  BY DEF OperatedInv, OperatedTypeOK, TypeOK
<1>2. ASSUME NEW r \in Runs, NEW forced \in BOOLEAN, Start(p, r, forced)
      PROVE  ControllerStep(p)
  <2>1. pc' = [pc EXCEPT ![p] = "idle"] /\ view' = [view EXCEPT ![p] = view[p]]
    BY <1>1, <1>2 DEF Start, TypeOK
  <2>2. "idle" \in PC /\ InPlace(p, "idle", view[p])
    BY DEF PC, InPlace, PhasePC
  <2>3. ProcessMoves(p)
    BY <1>1, <2>1, <2>2 DEF ProcessMoves
  <2>4. QED
    BY <1>1, <1>2, <2>3, RunCreation, WritingController DEF Start
<1>3. ASSUME NEW r \in Runs, NEW command \in {"execute", "resume"}, Begin(p, r, command)
      PROVE  ControllerStep(p)
  <2>1. PICK v : v = [Blank EXCEPT !.run = r, !.seen = run[r].status, !.phase = run[r].failure]
    OBVIOUS
  <2>2. run[r].status \in RunStatus /\ run[r].failure \in Phases \cup {NoPhase}
    BY <1>1 DEF RepositoryTypeOK, RunRow
  <2>3. v \in View /\ v.run = r
    BY <2>1, <2>2, BlankIsView DEF Blank, View
  <2>4. command \in PC /\ InPlace(p, command, v)
    BY <2>3 DEF PC, InPlace, PhasePC
  <2>5. ProcessMoves(p)
    BY <1>3, <2>1, <2>3, <2>4 DEF Begin, Goto, ProcessMoves
  <2>6. QED
    BY <1>1, <1>3, <2>5, QuietController DEF Begin
<1>4. QED
  BY <1>2, <1>3 DEF Command

\* The steps of a process that write no row.
LEMMA ReadingSteps ==
  ASSUME OperatedInv, NEW p \in Procs,
         Execute(p) \/ Resume(p) \/ Loop(p) \/ PlanOwned(p) \/ PlanPhase(p)
  PROVE  ControllerStep(p)
<1>1. TypeOK /\ RepositoryTypeOK /\ WorkOK(p) /\ pc[p] \in PC /\ view[p] \in View
  BY DEF OperatedInv, OperatedTypeOK, TypeOK
<1>2. view[p].run \in Runs
  BY <1>1 DEF WorkOK, Execute, Resume, Loop, PlanOwned, PlanPhase
<1>3. view = [view EXCEPT ![p] = view[p]]
  BY <1>1 DEF TypeOK
<1>4. CASE Execute(p)
  <2>1. "loop" \in PC /\ InPlace(p, "loop", view[p])
    BY <1>2 DEF PC, InPlace, PhasePC
  <2>2. ProcessMoves(p)
    BY <1>1, <1>3, <1>4, <2>1, ExitMoves DEF Execute, Goto, ProcessMoves
  <2>3. QED
    BY <1>1, <1>4, <2>2, QuietController DEF Execute
<1>5. CASE Resume(p)
  <2>1. "loop" \in PC /\ InPlace(p, "loop", view[p])
    BY <1>2 DEF PC, InPlace, PhasePC
  <2>2. ResumeTarget(p) => "retry" \in PC /\ InPlace(p, "retry", view[p])
    BY <1>2, HandledAssumption DEF PC, InPlace, PhasePC, ResumeTarget
  <2>3. ProcessMoves(p)
    BY <1>1, <1>3, <1>5, <2>1, <2>2, ExitMoves DEF Resume, Goto, ProcessMoves
  <2>4. QED
    BY <1>1, <1>5, <2>3, QuietController DEF Resume
<1>6. CASE Loop(p)
  <2>1. PICK v : v = [view[p] EXCEPT !.seen = run[view[p].run].status]
    OBVIOUS
  <2>2. run[view[p].run].status \in RunStatus
    BY <1>1, <1>2 DEF RepositoryTypeOK, RunRow
  <2>3. v \in View /\ v.run = view[p].run
    BY <1>1, <2>1, <2>2 DEF View
  <2>4. "plan" \in PC /\ InPlace(p, "plan", v)
    BY <1>2, <2>3 DEF PC, InPlace, PhasePC
  <2>5. view' = [view EXCEPT ![p] = v]
    BY <1>6, <2>1 DEF Loop
  <2>6. ProcessMoves(p)
    BY <1>6, <2>3, <2>4, <2>5 DEF Loop, Goto, ProcessMoves
  <2>7. QED
    BY <1>1, <1>6, <2>6, QuietController DEF Loop
<1>7. CASE PlanOwned(p)
  <2>1. CASE RunningPhases(view[p].run) = {view[p].phase}
    <3>1. view[p].phase \in Phases
      BY <2>1 DEF RunningPhases
    <3>2. PICK n \in Nat : n = phase[view[p].run][view[p].phase].attempt
      BY <1>1, <1>2, <3>1 DEF RepositoryTypeOK, PhaseRow
    <3>3. PICK v : v = [view[p] EXCEPT !.owned = FALSE, !.attempt = n]
      OBVIOUS
    <3>4. v \in View /\ v.run = view[p].run /\ v.phase = view[p].phase
      BY <1>1, <3>3 DEF View
    <3>5. "handling" \in PC /\ InPlace(p, "handling", v)
      BY <1>2, <1>7, <3>1, <3>4 DEF PC, InPlace, PlanOwned
    <3>6. pc' = [pc EXCEPT ![p] = "handling"] /\ view' = [view EXCEPT ![p] = v]
      BY <1>7, <2>1, <3>2, <3>3 DEF PlanOwned, Goto
    <3>7. ProcessMoves(p)
      BY <3>4, <3>5, <3>6 DEF ProcessMoves
    <3>8. QED
      BY <1>1, <1>7, <3>7, QuietController DEF PlanOwned
  <2>2. CASE RunningPhases(view[p].run) # {view[p].phase}
    BY <1>1, <1>7, <2>2, ExitMoves, QuietController DEF PlanOwned
  <2>3. QED
    BY <2>1, <2>2
<1>8. CASE PlanPhase(p)
  <2>1. PICK i \in Phases : view' = [view EXCEPT ![p].phase = i]
    BY <1>8 DEF PlanPhase
  <2>2. PICK v : v = [view[p] EXCEPT !.phase = i]
    OBVIOUS
  <2>3. v \in View /\ v.run = view[p].run /\ v.phase = i
    BY <1>1, <2>2 DEF View
  <2>4. PICK l \in {"start_run", "start_phase"} : pc' = [pc EXCEPT ![p] = l]
    BY <1>8 DEF PlanPhase, Goto
  <2>5. l \in PC /\ InPlace(p, l, v)
    BY <1>2, <2>3 DEF PC, InPlace, PhasePC
  <2>6. view' = [view EXCEPT ![p] = v]
    BY <2>1, <2>2
  <2>7. ProcessMoves(p)
    BY <2>3, <2>4, <2>5, <2>6 DEF ProcessMoves
  <2>8. QED
    BY <1>1, <1>8, <2>7, QuietController DEF PlanPhase
<1>9. QED
  BY <1>4, <1>5, <1>6, <1>7, <1>8

LEMMA FinalStatusIsHandlers ==
  ASSUME NEW statuses
  PROVE  FinalStatus(statuses) \in HandlerStatus
BY StatusSets DEF FinalStatus

LEMMA FinishingSteps ==
  ASSUME OperatedInv, NEW p \in Procs,
         PlanFinal(p) \/ PlanStops(p) \/ Pause(p) \/ Paused(p) \/ Crash(p)
  PROVE  ControllerStep(p)
<1>1. TypeOK /\ RepositoryTypeOK /\ WorkOK(p) /\ pc[p] \in PC /\ view[p] \in View
  BY DEF OperatedInv, OperatedTypeOK, TypeOK
<1>2. view[p].run \in Runs
  BY <1>1 DEF WorkOK, PlanFinal, PlanStops, Pause, Paused, Crash
<1>3. PICK outcome \in HandlerStatus : outcome = FinalStatus(PhaseStatuses(view[p].run))
  BY FinalStatusIsHandlers
<1>4. PICK w : w = [view[p] EXCEPT !.outcome = outcome]
  OBVIOUS
<1>5. w \in View /\ w.run = view[p].run
  BY <1>1, <1>4 DEF View
<1>6. "finalize" \in PC /\ InPlace(p, "finalize", w)
  BY <1>2, <1>5 DEF PC, InPlace, PhasePC
<1>7. CASE PlanFinal(p)
  <2>1. view' = [view EXCEPT ![p] = w]
    BY <1>3, <1>4, <1>7 DEF PlanFinal
  <2>2. ProcessMoves(p)
    BY <1>5, <1>6, <1>7, <2>1 DEF PlanFinal, Goto, ProcessMoves
  <2>3. QED
    BY <1>1, <1>7, <2>2, QuietController DEF PlanFinal
<1>8. CASE PlanStops(p) \/ Crash(p)
  BY <1>1, <1>8, ExitMoves, QuietController DEF PlanStops, Crash
<1>9. CASE Pause(p)
  <2>1. PICK v : v = [view[p] EXCEPT !.seen = run[view[p].run].status]
    OBVIOUS
  <2>2. run[view[p].run].status \in RunStatus
    BY <1>1, <1>2 DEF RepositoryTypeOK, RunRow
  <2>3. v \in View /\ v.run = view[p].run
    BY <1>1, <2>1, <2>2 DEF View
  <2>4. "paused" \in PC /\ InPlace(p, "paused", v)
    BY <1>2, <2>3 DEF PC, InPlace, PhasePC
  <2>5. view' = [view EXCEPT ![p] = v]
    BY <1>9, <2>1 DEF Pause
  <2>6. ProcessMoves(p)
    BY <1>9, <2>3, <2>4, <2>5 DEF Pause, Goto, ProcessMoves
  <2>7. QED
    BY <1>1, <1>9, <2>6, QuietController DEF Pause
<1>10. CASE Paused(p)
  <2>1. CASE Finalizable(p)
    <3>1. view' = [view EXCEPT ![p] = w]
      BY <1>3, <1>4, <1>10, <2>1 DEF Paused
    <3>2. pc' = [pc EXCEPT ![p] = "finalize"]
      BY <1>10, <2>1 DEF Paused, Goto
    <3>3. ProcessMoves(p)
      BY <1>5, <1>6, <3>1, <3>2 DEF ProcessMoves
    <3>4. QED
      BY <1>1, <1>10, <3>3, QuietController DEF Paused
  <2>2. CASE ~Finalizable(p)
    BY <1>1, <1>10, <2>2, ExitMoves, QuietController DEF Paused
  <2>3. QED
    BY <2>1, <2>2
<1>11. QED
  BY <1>7, <1>8, <1>9, <1>10

LEMMA HandlerSteps ==
  ASSUME OperatedInv, NEW p \in Procs,
         HandlerReturns(p) \/ HandlerRaises(p) \/ CompleteRaises(p)
  PROVE  ControllerStep(p)
<1>1. TypeOK /\ RepositoryTypeOK /\ WorkOK(p) /\ pc[p] \in PC /\ view[p] \in View
  BY DEF OperatedInv, OperatedTypeOK, TypeOK
<1>2. view[p].run \in Runs /\ view[p].phase \in Phases
  BY <1>1 DEF WorkOK, PhasePC, HandlerReturns, HandlerRaises, CompleteRaises
<1>3. CASE HandlerReturns(p)
  <2>1. PICK outcome \in HandlerStatus, proceed \in BOOLEAN :
          view' = [view EXCEPT ![p].outcome = outcome, ![p].proceed = proceed]
    BY <1>3 DEF HandlerReturns
  <2>2. PICK v : v = [view[p] EXCEPT !.outcome = outcome, !.proceed = proceed]
    OBVIOUS
  <2>3. v \in View /\ v.run = view[p].run /\ v.phase = view[p].phase
        /\ v.attempt = view[p].attempt
    BY <1>1, <2>2 DEF View
  <2>4. "complete" \in PC /\ InPlace(p, "complete", v)
    BY <1>2, <1>3, <2>3 DEF PC, InPlace, HandlerReturns
  <2>5. view' = [view EXCEPT ![p] = v]
    BY <1>1, <2>1, <2>2 DEF TypeOK
  <2>6. ProcessMoves(p)
    BY <1>3, <2>3, <2>4, <2>5 DEF HandlerReturns, Goto, ProcessMoves
  <2>7. QED
    BY <1>1, <1>3, <2>6, QuietController DEF HandlerReturns
<1>4. CASE HandlerRaises(p) \/ CompleteRaises(p)
  <2>1. "fail" \in PC /\ InPlace(p, "fail", view[p])
    BY <1>2 DEF PC, InPlace
  <2>2. pc' = [pc EXCEPT ![p] = "fail"] /\ view' = [view EXCEPT ![p] = view[p]]
    BY <1>1, <1>4 DEF HandlerRaises, CompleteRaises, Goto, TypeOK
  <2>3. ProcessMoves(p)
    BY <1>1, <2>1, <2>2 DEF ProcessMoves
  <2>4. QED
    BY <1>1, <1>4, <2>3, QuietController DEF HandlerRaises, CompleteRaises, Rows
<1>5. QED
  BY <1>3, <1>4

LEMMA ClaimingSteps ==
  ASSUME OperatedInv, NEW p \in Procs, Retry(p) \/ StartRun(p) \/ StartPhase(p)
  PROVE  ControllerStep(p)
<1>1. TypeOK /\ RepositoryTypeOK /\ WorkOK(p) /\ pc[p] \in PC /\ view[p] \in View
  BY DEF OperatedInv, OperatedTypeOK, TypeOK
<1>2. PICK r \in Runs, i \in Phases : r = view[p].run /\ i = view[p].phase
  BY <1>1 DEF WorkOK, PhasePC, Retry, StartRun, StartPhase
<1>3. Exit(p) /\ UNCHANGED Rows => ControllerStep(p)
  BY <1>1, ExitMoves, QuietController
<1>4. NoPhase \in Phases \cup {NoPhase} /\ "running" \in RunStatus /\ "running" \in PhaseStatus
  BY StatusSets
<1>5. CASE Retry(p) /\ CanResumeFailed(r, i)
  <2>1. ResumeFailed(r, i) /\ pc' = [pc EXCEPT ![p] = "loop"]
        /\ view' = [view EXCEPT ![p].owned = TRUE]
    BY <1>2, <1>5 DEF Retry, Goto
  <2>2. PICK v : v = [view[p] EXCEPT !.owned = TRUE]
    OBVIOUS
  <2>3. v \in View /\ v.run = r
    BY <1>1, <1>2, <2>2 DEF View
  <2>4. "loop" \in PC /\ InPlace(p, "loop", v)
    BY <2>3 DEF PC, InPlace, PhasePC
  <2>5. view' = [view EXCEPT ![p] = v]
    BY <2>1, <2>2
  <2>6. ProcessMoves(p)
    BY <2>1, <2>3, <2>4, <2>5 DEF ProcessMoves
  <2>7. QED
    BY <1>1, <1>5, <2>1, <2>6, RunResumption, WritingController
<1>6. CASE StartRun(p) /\ CanTransitionRun(r, "running", "state_transition", NoPhase)
  <2>1. TransitionRun(r, "running", NoPhase) /\ pc' = [pc EXCEPT ![p] = "start_phase"]
        /\ view' = view
    BY <1>2, <1>6 DEF StartRun, Goto
  <2>2. "start_phase" \in PC /\ InPlace(p, "start_phase", view[p])
    BY <1>2 DEF PC, InPlace, PhasePC
  <2>3. view' = [view EXCEPT ![p] = view[p]]
    BY <1>1, <2>1 DEF TypeOK
  <2>4. ProcessMoves(p)
    BY <1>1, <2>1, <2>2, <2>3 DEF ProcessMoves
  <2>5. RowsStep /\ SourcesOnlyGo /\ NoOutputs
    BY <1>1, <1>4, <1>6, <2>1, RunTransition
  <2>6. QED
    BY <2>4, <2>5, WritingController
<1>7. CASE StartPhase(p) /\ CanTransitionPhase(r, i, "running", "state_transition")
  <2>1. TransitionPhase(r, i, "running", 0, {}) /\ pc' = [pc EXCEPT ![p] = "handling"]
        /\ view' = [view EXCEPT ![p].attempt = phase[r][i].attempt + 1]
    BY <1>2, <1>7 DEF StartPhase, Goto
  <2>2. PICK n \in Nat : n = phase[r][i].attempt + 1
    BY <1>1 DEF RepositoryTypeOK, PhaseRow
  <2>3. PICK v : v = [view[p] EXCEPT !.attempt = n]
    OBVIOUS
  <2>4. v \in View /\ v.run = r /\ v.phase = i
    BY <1>1, <1>2, <2>3 DEF View
  <2>5. "handling" \in PC /\ InPlace(p, "handling", v)
    BY <1>7, <2>4 DEF PC, InPlace, StartPhase
  <2>6. view' = [view EXCEPT ![p] = v]
    BY <2>1, <2>2, <2>3
  <2>7. ProcessMoves(p)
    BY <2>1, <2>4, <2>5, <2>6 DEF ProcessMoves
  <2>8. /\ RowsStep /\ phase'[r][i].status = "running" /\ phase'[r][i].source \subseteq {}
        /\ \A q \in Runs, j \in Phases : q # r \/ j # i => phase'[q][j] = phase[q][j]
    BY <1>1, <1>4, <1>7, <2>1, PhaseTransition
  <2>9. SourcesOnlyGo /\ NoOutputs
    BY <2>8, StatusSets DEF SourcesOnlyGo, NoOutputs
  <2>10. QED
    BY <2>7, <2>8, <2>9, WritingController
<1>8. QED
  BY <1>2, <1>3, <1>5, <1>6, <1>7 DEF Retry, StartRun, StartPhase

LEMMA CompleteSteps ==
  ASSUME OperatedInv, NEW p \in Procs, Complete(p)
  PROVE  ControllerStep(p)
<1>1. TypeOK /\ RepositoryTypeOK /\ WorkOK(p) /\ pc[p] \in PC /\ view[p] \in View
  BY DEF OperatedInv, OperatedTypeOK, TypeOK
<1>2. PICK r \in Runs, i \in Phases : r = view[p].run /\ i = view[p].phase
  BY <1>1 DEF WorkOK, PhasePC, Complete
<1>3. PICK outcome \in HandlerStatus, n \in Nat : outcome = view[p].outcome /\ n = view[p].attempt
  BY <1>1 DEF View
<1>4. /\ CanTransitionPhase(r, i, outcome, "state_transition")
      /\ TransitionPhase(r, i, outcome, n, {})
  BY <1>2, <1>3 DEF Complete
<1>5. outcome \in PhaseStatus /\ outcome # "running" /\ outcome # "reused"
  BY StatusSets
<1>6. /\ RowsStep /\ phase'[r][i].source \subseteq {}
      /\ phase[r][i].status = "running"
      /\ phase'[r][i].output = (IF n = 0 THEN phase[r][i].output ELSE n)
      /\ \A q \in Runs, j \in Phases : q # r \/ j # i => phase'[q][j] = phase[q][j]
  BY <1>1, <1>4, <1>5, PhaseTransition
<1>7. phase[r][i].output = 0
  BY <1>6 DEF OperatedInv, RowsOK, StatusOf
<1>8. SourcesOnlyGo
  BY <1>6 DEF SourcesOnlyGo
<1>9. OutputsComeFrom(p)
  BY <1>2, <1>3, <1>6, <1>7 DEF OutputsComeFrom, Complete
<1>10. PICK v : v = [Blank EXCEPT !.run = r]
  OBVIOUS
<1>11. v \in View /\ v.run = r
  BY <1>10, BlankIsView DEF Blank, View
<1>12. PICK l \in {"loop", "pause"} : pc' = [pc EXCEPT ![p] = l]
  BY DEF Complete, Goto
<1>13. l \in PC /\ InPlace(p, l, v)
  BY <1>11 DEF PC, InPlace, PhasePC
<1>14. view' = [view EXCEPT ![p] = v]
  BY <1>2, <1>10 DEF Complete
<1>15. ProcessMoves(p)
  BY <1>11, <1>12, <1>13, <1>14 DEF ProcessMoves
<1>16. QED
  BY <1>6, <1>8, <1>9, <1>15 DEF ControllerStep

LEMMA ClosingSteps ==
  ASSUME OperatedInv, NEW p \in Procs, FailPhase(p) \/ Finalize(p)
  PROVE  ControllerStep(p)
<1>1. TypeOK /\ RepositoryTypeOK /\ WorkOK(p) /\ view[p] \in View
  BY DEF OperatedInv, OperatedTypeOK, TypeOK
<1>2. PICK r \in Runs : r = view[p].run
  BY <1>1 DEF WorkOK, FailPhase, Finalize
<1>3. ProcessMoves(p)
  BY ExitMoves DEF FailPhase, Finalize
<1>4. UNCHANGED Rows => ControllerStep(p)
  BY <1>1, <1>3, QuietController
<1>5. CASE FailPhase(p)
  <2>1. PICK i \in Phases : i = view[p].phase
    BY <1>1, <1>5 DEF WorkOK, PhasePC, FailPhase
  <2>2. CASE CanFailRunning(r, i) /\ FailRunning(r, i)
    BY <1>1, <1>3, <2>2, RunFailure, WritingController
  <2>3. QED
    BY <1>2, <1>4, <1>5, <2>1, <2>2 DEF FailPhase
<1>6. CASE Finalize(p)
  <2>1. PICK outcome \in RunStatus : outcome = view[p].outcome
    BY <1>1, StatusSets DEF View
  <2>2. NoPhase \in Phases \cup {NoPhase}
    OBVIOUS
  <2>3. CASE CanTransitionRun(r, outcome, "state_transition", NoPhase)
             /\ TransitionRun(r, outcome, NoPhase)
    <3>1. RowsStep /\ SourcesOnlyGo /\ NoOutputs
      BY <1>1, <2>2, <2>3, RunTransition
    <3>2. QED
      BY <1>3, <3>1, WritingController
  <2>4. QED
    BY <1>2, <1>4, <1>6, <2>1, <2>3 DEF Finalize
<1>7. QED
  BY <1>5, <1>6

LEMMA ControllerSteps ==
  ASSUME OperatedInv, NEW p \in Procs, Command(p) \/ Step(p) \/ Crash(p)
  PROVE  ControllerStep(p)
BY CommandSteps, ReadingSteps, FinishingSteps, HandlerSteps, ClaimingSteps, CompleteSteps,
   ClosingSteps
DEF Step

-----------------------------------------------------------------------------
\* The operator's transitions of one phase or one run row.
LEMMA TransitionCalls ==
  ASSUME OperatedInv,
         \/ \E r \in Runs, i \in Phases, target \in PhaseStatus :
              \E kind \in {"state_transition", "retry", "forced_refresh"} :
                OperatePhase(r, i, target, kind)
         \/ \E r \in Runs, target \in RunStatus, failure \in Phases \cup {NoPhase} :
              \E kind \in {"state_transition", "resume"} :
                OperateRun(r, target, kind, failure)
  PROVE  RowsStep /\ SourcesOnlyGo /\ NoOutputs /\ UNCHANGED <<pc, view, borrow>>
<1>1. RepositoryTypeOK
  BY DEF OperatedInv, OperatedTypeOK, TypeOK
<1>2. ASSUME NEW r \in Runs, NEW i \in Phases, NEW target \in PhaseStatus,
             NEW kind \in {"state_transition", "retry", "forced_refresh"},
             OperatePhase(r, i, target, kind)
      PROVE  RowsStep /\ SourcesOnlyGo /\ NoOutputs /\ UNCHANGED <<pc, view, borrow>>
  <2>1. CanTransitionPhase(r, i, target, kind) /\ TransitionPhase(r, i, target, 0, {})
    BY <1>2 DEF OperatePhase
  <2>2. target # "reused"
    BY <2>1, StatusSets DEF CanTransitionPhase, PhaseAllowed, PhaseTargets
  <2>3. /\ RowsStep
        /\ phase'[r][i].status = target /\ phase'[r][i].source \subseteq {}
        /\ target \in HandlerStatus =>
             phase[r][i].status = "running" /\ phase'[r][i].output = phase[r][i].output
        /\ \A q \in Runs, j \in Phases : q # r \/ j # i => phase'[q][j] = phase[q][j]
    BY <1>1, <2>1, <2>2, PhaseTransition
  <2>4. phase[r][i].status = "running" => phase[r][i].output = 0
    BY DEF OperatedInv, RowsOK, StatusOf
  <2>5. SourcesOnlyGo /\ NoOutputs
    BY <2>3, <2>4 DEF SourcesOnlyGo, NoOutputs
  <2>6. QED
    BY <1>2, <2>3, <2>5 DEF OperatePhase
<1>3. ASSUME NEW r \in Runs, NEW target \in RunStatus, NEW failure \in Phases \cup {NoPhase},
             NEW kind \in {"state_transition", "resume"},
             OperateRun(r, target, kind, failure)
      PROVE  RowsStep /\ SourcesOnlyGo /\ NoOutputs /\ UNCHANGED <<pc, view, borrow>>
  BY <1>1, <1>3, RunTransition DEF OperateRun
<1>4. QED
  BY <1>2, <1>3

\* A row names a source only while it is pending and the source is not.
SourcesFollow ==
  \A r \in Runs, i \in Phases : \A q \in phase'[r][i].source :
    q \in phase[r][i].source \/ (StatusOf(r, i) = "pending" /\ StatusOf(q, i) # "pending")

LEMMA FewerSources == SourcesOnlyGo => SourcesFollow
BY DEF SourcesOnlyGo, SourcesFollow

LEMMA ReuseCalls ==
  ASSUME OperatedInv, MarkReused
  PROVE  /\ RowsStep /\ SourcesFollow /\ NoOutputs
         /\ UNCHANGED <<pc, view>> /\ borrow' = Nothing
<1>1. RepositoryTypeOK /\ borrow \in Borrow
  BY DEF OperatedInv, OperatedTypeOK, TypeOK
<1>2. PICK r \in Runs, i \in Phases, q \in Runs, n \in Nat :
        /\ r = borrow.target /\ i = borrow.phase /\ q = borrow.source /\ n = borrow.output
        /\ StatusOf(q, i) # "pending"
  BY <1>1 DEF OperatedInv, BorrowOK, MarkReused, Borrow
<1>3. CASE CanTransitionPhase(r, i, "reused", "reuse") /\ TransitionPhase(r, i, "reused", n, {q})
  <2>1. "reused" \in PhaseStatus /\ "reused" # "running" /\ {q} # {} /\ {q} \in SUBSET Runs
    BY StatusSets
  <2>2. /\ RowsStep
        /\ phase'[r][i].status = "reused" /\ phase'[r][i].source \subseteq {q}
        /\ \A x \in Runs, j \in Phases : x # r \/ j # i => phase'[x][j] = phase[x][j]
    BY <1>1, <1>3, <2>1, PhaseTransition
  <2>3. StatusOf(r, i) = "pending"
    BY <1>3 DEF CanTransitionPhase, PhaseAllowed
  <2>4. SourcesFollow
    BY <1>2, <2>2, <2>3 DEF SourcesFollow
  <2>5. NoOutputs
    BY <2>2, StatusSets DEF NoOutputs
  <2>6. QED
    BY <2>2, <2>4, <2>5 DEF MarkReused, Controllers
<1>4. CASE UNCHANGED Rows
  BY <1>1, <1>4, RowsUnchanged, FewerSources DEF MarkReused, Controllers
<1>5. QED
  BY <1>2, <1>3, <1>4 DEF MarkReused

(***************************************************************************)
(* What a step of the rows keeps, whoever takes it: the checks of the      *)
(* tables hold, no row returns to "pending", and no reuse closes a circle. *)
(***************************************************************************)
LEMMA RowsKeep ==
  ASSUME OperatedInv, RowsStep, SourcesFollow
  PROVE  /\ RowsOK' /\ RowsSatisfyChecks' /\ ReuseAcyclic'
         /\ \A r \in Runs, i \in Phases : StatusOf(r, i) # "pending" => StatusOf(r, i)' # "pending"
<1>1. RepositoryTypeOK /\ RepositoryTypeOK' /\ RowsOK /\ RowsSatisfyChecks /\ ReuseAcyclic
  BY DEF OperatedInv, OperatedTypeOK, TypeOK, ReuseIsSound, RowsStep
<1>2. \A r \in Runs, i \in Phases :
        /\ phase[r][i] \in PhaseRow /\ phase'[r][i] \in PhaseRow
        /\ PhaseMove(phase[r][i], phase'[r][i])
  BY <1>1 DEF RepositoryTypeOK, RowsStep
<1>3. \A r \in Runs, i \in Phases : StatusOf(r, i) # "pending" => StatusOf(r, i)' # "pending"
  BY <1>2, StatusSets DEF PhaseMove, Begins, Ends, Passes, StatusOf
<1>4. \A r \in Runs, i \in Phases : \A q \in phase'[r][i].source :
        q \in Runs /\ StatusOf(q, i) # "pending"
  <2>1. ASSUME NEW r \in Runs, NEW i \in Phases, NEW q \in phase'[r][i].source
        PROVE  q \in Runs /\ StatusOf(q, i) # "pending"
    <3>1. q \in Runs
      BY <1>2 DEF PhaseRow
    <3>2. QED
      BY <1>1, <3>1 DEF SourcesFollow, RowsOK
  <2>2. QED
    BY <2>1
<1>5. RowsOK'
  <2>1. ASSUME NEW r \in Runs, NEW i \in Phases, ~Exists(r)'
        PROVE  phase'[r][i] = PendingPhase
    BY <1>1, <2>1 DEF RowsStep, RowsOK
  <2>2. ASSUME NEW r \in Runs, NEW i \in Phases, StatusOf(r, i)' = "running"
        PROVE  phase'[r][i].output = 0
    BY <1>1, <1>2, <2>2, StatusSets DEF PhaseMove, Begins, Ends, Passes, StatusOf, RowsOK
  <2>3. QED
    BY <1>3, <1>4, <2>1, <2>2 DEF RowsOK
<1>6. RowsSatisfyChecks'
  <2>1. ASSUME NEW r \in Runs
        PROVE  (run[r].status = "failed" <=> run[r].failure # NoPhase)'
    BY <1>1 DEF RowsStep, RowsSatisfyChecks
  <2>2. ASSUME NEW r \in Runs, NEW i \in Phases
        PROVE  LET row == phase'[r][i]
               IN /\ row.status = "pending" => row.attempt = 0
                  /\ row.status \in HandlerStatus \cup {"running", "failed"} => row.attempt >= 1
                  /\ row.status = "reused" <=> row.source # {}
    <3>1. PICK old \in PhaseRow, new \in PhaseRow :
            old = phase[r][i] /\ new = phase'[r][i] /\ PhaseMove(old, new)
      BY <1>2
    <3>2. /\ old.status = "pending" => old.attempt = 0
          /\ old.status \in HandlerStatus \cup {"running", "failed"} => old.attempt >= 1
          /\ old.status = "reused" <=> old.source # {}
      BY <1>1, <3>1 DEF RowsSatisfyChecks
    <3>3. old.attempt \in Nat /\ new.attempt \in Nat
      BY DEF PhaseRow
    <3>4. /\ new.status = "pending" => new.attempt = 0
          /\ new.status \in HandlerStatus \cup {"running", "failed"} => new.attempt >= 1
          /\ new.status = "reused" <=> new.source # {}
      BY <3>1, <3>2, <3>3, StatusSets DEF PhaseMove, Begins, Ends, Passes
    <3>5. QED
      BY <3>1, <3>4
  <2>3. QED
    BY <2>1, <2>2 DEF RowsSatisfyChecks
<1>7. ReuseAcyclic'
  <2>1. SUFFICES ASSUME NEW r \in Runs, NEW q \in Runs, NEW i \in Phases,
                        phase'[r][i].source = {q}, phase'[q][i].source = {r}
                 PROVE  FALSE
    BY DEF ReuseAcyclic
  <2>2. StatusOf(q, i) # "pending" /\ StatusOf(r, i) # "pending"
    BY <1>4, <2>1
  <2>3. q \in phase[r][i].source /\ r \in phase[q][i].source
    BY <2>1, <2>2 DEF SourcesFollow
  <2>4. QED
    BY <1>1, <1>2, <2>1, <2>2, <2>3 DEF ReuseAcyclic, PhaseMove, Begins, Ends, Passes, StatusOf
<1>8. QED
  BY <1>3, <1>5, <1>6, <1>7

ProcessesOK == /\ pc \in [Procs -> PC] /\ view \in [Procs -> View]
               /\ \A p \in Procs : WorkOK(p)

LEMMA ProcessesKeep ==
  ASSUME ProcessesOK, NEW p \in Procs, ProcessMoves(p)
  PROVE  /\ ProcessesOK'
         /\ \A o \in Procs \ {p} : pc'[o] = pc[o] /\ view'[o] = view[o]
<1>1. PICK l \in PC, v \in View :
        /\ pc' = [pc EXCEPT ![p] = l] /\ view' = [view EXCEPT ![p] = v] /\ InPlace(p, l, v)
  BY DEF ProcessMoves
<1>2. /\ pc' \in [Procs -> PC] /\ view' \in [Procs -> View]
      /\ pc'[p] = l /\ view'[p] = v
      /\ \A o \in Procs \ {p} : pc'[o] = pc[o] /\ view'[o] = view[o]
  BY <1>1 DEF ProcessesOK
<1>3. \A o \in Procs : WorkOK(o)'
  BY <1>1, <1>2 DEF ProcessesOK, WorkOK, InPlace
<1>4. QED
  BY <1>2, <1>3 DEF ProcessesOK

LEMMA InvKeeps ==
  ASSUME OperatedInv, RowsStep, SourcesFollow, ProcessesOK', borrow' \in {borrow, Nothing}
  PROVE  OperatedInv'
<1>1. /\ RowsOK' /\ RowsSatisfyChecks' /\ ReuseAcyclic'
      /\ \A r \in Runs, i \in Phases : StatusOf(r, i) # "pending" => StatusOf(r, i)' # "pending"
  BY RowsKeep
<1>2. TypeOK'
  BY DEF RowsStep, ProcessesOK, TypeOK
<1>3. borrow' \in Borrow
  BY DEF OperatedInv, OperatedTypeOK, Nothing, Borrow
<1>4. BorrowOK'
  BY <1>1 DEF OperatedInv, BorrowOK, Nothing
<1>5. QED
  BY <1>1, <1>2, <1>3, <1>4 DEF OperatedInv, OperatedTypeOK, ReuseIsSound, ProcessesOK

LEMMA ProcessesAreOK == OperatedInv => ProcessesOK /\ RepositoryTypeOK
BY DEF OperatedInv, OperatedTypeOK, TypeOK, ProcessesOK

LEMMA ReadCalls ==
  ASSUME OperatedInv, NEW r \in Runs, NEW q \in Runs, NEW i \in Phases, ReadSource(r, i, q)
  PROVE  OperatedInv' /\ RowsStep /\ NoOutputs /\ UNCHANGED <<pc, view>>
<1>1. ProcessesOK /\ RepositoryTypeOK
  BY ProcessesAreOK
<1>2. UNCHANGED Rows /\ UNCHANGED <<pc, view>>
  BY DEF ReadSource, vars, Rows
<1>3. RowsStep /\ SourcesFollow /\ NoOutputs
  BY <1>1, <1>2, RowsUnchanged, FewerSources
<1>4. RowsOK' /\ RowsSatisfyChecks' /\ ReuseAcyclic'
  BY <1>3, RowsKeep
<1>5. phase[q][i].output \in Nat
  BY <1>1 DEF RepositoryTypeOK, PhaseRow
<1>6. /\ borrow' \in Borrow
      /\ borrow'.target = r /\ borrow'.phase = i /\ borrow'.source = q
  BY <1>5 DEF ReadSource, Borrow
<1>7. StatusOf(q, i)' # "pending"
  BY <1>2, StatusSets DEF ReadSource, Reusable, StatusOf, Rows
<1>8. BorrowOK'
  BY <1>6, <1>7 DEF BorrowOK
<1>9. ProcessesOK' /\ TypeOK'
  BY <1>1, <1>2 DEF ProcessesOK, WorkOK, RepositoryTypeOK, Rows, TypeOK
<1>10. QED
  BY <1>2, <1>3, <1>4, <1>6, <1>8, <1>9
  DEF OperatedInv, OperatedTypeOK, ReuseIsSound, ProcessesOK

(***************************************************************************)
(* Every step of the controller processes and of the operator: it keeps    *)
(* the invariant, moves the rows as transactions do, and brings an output  *)
(* into a completed row only from the process that completes the phase.    *)
(***************************************************************************)
LEMMA OperatedSteps ==
  ASSUME OperatedInv, OperatedNext
  PROVE  /\ OperatedInv' /\ RowsStep
         /\ \/ NoOutputs /\ UNCHANGED <<pc, view>>
            \/ \E p \in Procs : OutputsComeFrom(p) /\ ProcessMoves(p)
<1>1. ProcessesOK
  BY ProcessesAreOK
<1>2. ASSUME NEW p \in Procs, Command(p) \/ Step(p) \/ Crash(p), UNCHANGED borrow
      PROVE  OperatedInv' /\ RowsStep /\ OutputsComeFrom(p) /\ ProcessMoves(p)
  <2>1. RowsStep /\ SourcesOnlyGo /\ OutputsComeFrom(p) /\ ProcessMoves(p)
    BY <1>2, ControllerSteps DEF ControllerStep
  <2>2. ProcessesOK'
    BY <1>1, <2>1, ProcessesKeep
  <2>3. QED
    BY <1>2, <2>1, <2>2, FewerSources, InvKeeps
<1>3. ASSUME RowsStep, SourcesFollow, NoOutputs, UNCHANGED <<pc, view>>,
             borrow' \in {borrow, Nothing}
      PROVE  OperatedInv' /\ RowsStep /\ NoOutputs /\ UNCHANGED <<pc, view>>
  <2>1. ProcessesOK'
    BY <1>1, <1>3 DEF ProcessesOK, WorkOK
  <2>2. QED
    BY <1>3, <2>1, InvKeeps
<1>4. CASE Next /\ UNCHANGED borrow
  BY <1>2, <1>4 DEF Next
<1>5. CASE MarkReused
  BY <1>3, <1>5, ReuseCalls
<1>6. CASE \E r, q \in Runs, i \in Phases : ReadSource(r, i, q)
  BY <1>6, ReadCalls
<1>7. CASE \/ \E r \in Runs, i \in Phases, target \in PhaseStatus :
                \E kind \in {"state_transition", "retry", "forced_refresh"} :
                  OperatePhase(r, i, target, kind)
           \/ \E r \in Runs, target \in RunStatus, failure \in Phases \cup {NoPhase} :
                \E kind \in {"state_transition", "resume"} :
                  OperateRun(r, target, kind, failure)
  <2>1. RowsStep /\ SourcesOnlyGo /\ NoOutputs /\ UNCHANGED <<pc, view, borrow>>
    BY <1>7, TransitionCalls
  <2>2. QED
    BY <1>3, <2>1, FewerSources
<1>8. QED
  BY <1>4, <1>5, <1>6, <1>7 DEF OperatedNext, Operate

-----------------------------------------------------------------------------
\* To the controller and the operator a slate handler is like any other.

LEMMA SlateIsOperated ==
  ASSUME SlateNext
  PROVE  OperatedNext \/ UNCHANGED operatedVars
<1>1. ASSUME NEW p \in Procs, ResolveConflict(p) \/ PersistRefused(p)
      PROVE  OperatedNext
  <2>1. HandlerRaises(p) /\ UNCHANGED borrow
    BY <1>1 DEF ResolveConflict, PersistRefused, Raise, InSlateHandler, HandlerRaises
  <2>2. QED
    BY <2>1 DEF Step, Next, OperatedNext
<1>2. QED
  BY <1>1 DEF SlateNext, Persist, RecordMapping, Otherwise

LEMMA OperatedStutters ==
  ASSUME OperatedInv, UNCHANGED operatedVars
  PROVE  OperatedInv' /\ RowsStep /\ NoOutputs /\ UNCHANGED <<pc, view>>
<1>1. ProcessesOK /\ RepositoryTypeOK
  BY ProcessesAreOK
<1>2. UNCHANGED Rows /\ UNCHANGED <<pc, view>> /\ UNCHANGED borrow
  BY DEF operatedVars, Rows
<1>3. RowsStep /\ SourcesFollow /\ NoOutputs
  BY <1>1, <1>2, RowsUnchanged, FewerSources
<1>4. ProcessesOK'
  BY <1>1, <1>2 DEF ProcessesOK, WorkOK
<1>5. QED
  BY <1>2, <1>3, <1>4, InvKeeps

LEMMA SlateRowSteps ==
  ASSUME OperatedInv, SlateNext \/ UNCHANGED slateVars
  PROVE  /\ OperatedInv' /\ RowsStep
         /\ \/ NoOutputs /\ UNCHANGED <<pc, view>>
            \/ \E p \in Procs : OutputsComeFrom(p) /\ ProcessMoves(p)
BY SlateIsOperated, OperatedStutters, OperatedSteps DEF slateVars

\* An output of the slate phase has its snapshot when it appears.
LEMMA OutputsStaySealed ==
  ASSUME OutputIsSealed, \A p \in Procs : HandlerOK(p), snapshot \subseteq snapshot',
         NoOutputs \/ \E p \in Procs : OutputsComeFrom(p)
  PROVE  OutputIsSealed'
<1>1. SUFFICES ASSUME NEW r \in Runs,
                      phase'[r][SlatePhase].status \in HandlerStatus,
                      phase'[r][SlatePhase].output # 0
               PROVE  \E x \in snapshot : x.run = r /\ x.attempt = phase'[r][SlatePhase].output
  BY DEF OutputIsSealed
<1>2. CASE phase'[r][SlatePhase] = phase[r][SlatePhase]
  BY <1>1, <1>2 DEF OutputIsSealed
<1>3. CASE phase'[r][SlatePhase] # phase[r][SlatePhase]
  <2>1. SlatePhase \in Phases
    BY SlatePhaseAssumption
  <2>2. PICK p \in Procs :
          /\ pc[p] = "complete" /\ view[p].run = r /\ view[p].phase = SlatePhase
          /\ view[p].attempt = phase'[r][SlatePhase].output
    BY <1>1, <1>3, <2>1 DEF NoOutputs, OutputsComeFrom
  <2>3. QED
    BY <2>2 DEF HandlerOK, HasSnapshot
<1>4. QED
  BY <1>2, <1>3

\* The steps inside a slate handler, by one process.
HandlerMoves(p, h) ==
  /\ pc[p] = "handling" /\ UNCHANGED <<pc, view>>
  /\ handler' = [handler EXCEPT ![p] = h]
  /\ snapshot \subseteq snapshot'
  /\ h = "persisted" => HasSnapshot(view[p].run, view[p].attempt)'

LEMMA HandlersKeep ==
  ASSUME SlateInv, NEW p \in Procs, NEW h \in Handler, HandlerMoves(p, h)
  PROVE  handler' \in [Procs -> Handler] /\ \A o \in Procs : HandlerOK(o)'
<1>1. /\ handler' \in [Procs -> Handler] /\ handler'[p] = h
      /\ \A o \in Procs \ {p} : handler'[o] = handler[o]
  BY DEF SlateInv, SlateTypeOK, HandlerMoves
<1>2. \A o \in Procs : HandlerOK(o)
  BY DEF SlateInv
<1>3. \A r, n : HasSnapshot(r, n) => HasSnapshot(r, n)'
  BY DEF HandlerMoves, HasSnapshot
<1>4. HandlerOK(p)'
  BY <1>1 DEF HandlerOK, HandlerMoves
<1>5. ASSUME NEW o \in Procs \ {p}
      PROVE  HandlerOK(o)'
  BY <1>1, <1>2, <1>3 DEF HandlerOK, HandlerMoves, HasSnapshot
<1>6. QED
  BY <1>1, <1>4, <1>5

LEMMA HandlerWork ==
  ASSUME SlateInv, NEW p \in Procs, Persist(p)
  PROVE  SlateTypeOK' /\ snapshot \subseteq snapshot' /\ \A o \in Procs : HandlerOK(o)'
<1>1. /\ SlateTypeOK /\ HandlerOK(p) /\ WorkOK(p) /\ view[p] \in View
  BY DEF SlateInv, SlateTypeOK, OperatedInv, OperatedTypeOK, TypeOK
<1>2. pc[p] = "handling" /\ UNCHANGED <<pc, view>> /\ view[p].run \in Runs /\ view[p].attempt \in Nat
  BY <1>1 DEF Persist, InSlateHandler, operatedVars, WorkOK, View
<1>3. PICK slate \in Slate :
        snapshot' = snapshot \cup
          {[run |-> view[p].run, attempt |-> view[p].attempt, slate |-> slate]}
  BY DEF Persist
<1>4. PICK x : x = [run |-> view[p].run, attempt |-> view[p].attempt, slate |-> slate]
  OBVIOUS
<1>5. x \in Snapshot /\ x.run = view[p].run /\ x.attempt = view[p].attempt
  BY <1>2, <1>4 DEF Snapshot
<1>6. snapshot' = snapshot \cup {x} /\ UNCHANGED mapping
  BY <1>3, <1>4 DEF Persist
<1>7. HasSnapshot(view[p].run, view[p].attempt)'
  BY <1>2, <1>5, <1>6 DEF HasSnapshot
<1>8. HandlerMoves(p, "persisted")
  BY <1>2, <1>6, <1>7 DEF HandlerMoves, Persist
<1>9. handler' \in [Procs -> Handler] /\ \A o \in Procs : HandlerOK(o)'
  BY <1>8, HandlersKeep DEF Handler
<1> QED
  BY <1>1, <1>5, <1>6, <1>9 DEF SlateTypeOK

\* What the rest of the system does to a handler: it calls it or takes its result.
LEMMA OtherWork ==
  ASSUME SlateInv, Otherwise,
         \/ UNCHANGED <<pc, view>>
         \/ \E p \in Procs : ProcessMoves(p)
  PROVE  /\ SlateTypeOK' /\ UNCHANGED snapshot
         /\ \A o \in Procs : HandlerOK(o)'
<1>1. SlateTypeOK /\ ProcessesOK /\ \A o \in Procs : HandlerOK(o)
  BY ProcessesAreOK DEF SlateInv
<1>2. UNCHANGED <<mapping, snapshot>>
  BY DEF Otherwise
<1>3. \A o \in Procs :
        handler'[o] = IF pc'[o] = "handling" THEN handler[o] ELSE "called"
  BY DEF Otherwise
<1>4. "called" \in Handler
  BY DEF Handler
<1>5. handler' \in [Procs -> Handler]
  BY <1>1, <1>4 DEF Otherwise, SlateTypeOK
<1>6. \A o \in Procs :
        \/ pc'[o] = pc[o] /\ view'[o] = view[o]
        \/ /\ pc'[o] = "handling" => pc[o] # "handling"
           /\ pc'[o] = "complete" =>
                /\ pc[o] = "handling" /\ view'[o].run = view[o].run
                /\ view'[o].phase = view[o].phase /\ view'[o].attempt = view[o].attempt
  <2>1. ASSUME NEW p \in Procs, ProcessMoves(p)
        PROVE  /\ pc'[p] = "handling" => pc[p] # "handling"
               /\ pc'[p] = "complete" =>
                    /\ pc[p] = "handling" /\ view'[p].run = view[p].run
                    /\ view'[p].phase = view[p].phase /\ view'[p].attempt = view[p].attempt
               /\ \A o \in Procs \ {p} : pc'[o] = pc[o] /\ view'[o] = view[o]
    BY <1>1, <2>1 DEF ProcessMoves, InPlace, ProcessesOK
  <2>2. QED
    BY <2>1
<1>7. ASSUME NEW o \in Procs
      PROVE  HandlerOK(o)'
  <2>1. HandlerOK(o)
    BY <1>1
  <2>2. CASE pc'[o] = "handling"
    BY <1>2, <1>3, <1>6, <2>1, <2>2 DEF HandlerOK, HasSnapshot
  <2>3. CASE pc'[o] # "handling"
    <3>1. handler'[o] = "called"
      BY <1>3, <2>3
    <3>2. ASSUME pc'[o] = "complete", view'[o].phase = SlatePhase
          PROVE  HasSnapshot(view[o].run, view[o].attempt) /\
                 view'[o].run = view[o].run /\ view'[o].attempt = view[o].attempt
      BY <1>6, <2>1, <3>2 DEF HandlerOK, Otherwise
    <3>3. QED
      BY <1>2, <2>1, <2>3, <3>1, <3>2 DEF HandlerOK, HasSnapshot
  <2>4. QED
    BY <2>2, <2>3
<1>8. QED
  BY <1>1, <1>2, <1>5, <1>7 DEF SlateTypeOK

LEMMA Raising ==
  ASSUME SlateInv, NEW p \in Procs, ResolveConflict(p) \/ PersistRefused(p)
  PROVE  /\ SlateTypeOK' /\ UNCHANGED snapshot
         /\ \A o \in Procs : HandlerOK(o)'
<1>1. SlateTypeOK /\ ProcessesOK /\ \A o \in Procs : HandlerOK(o)
  BY ProcessesAreOK DEF SlateInv
<1>2. Raise(p)
  BY DEF ResolveConflict, PersistRefused
<1>3. "called" \in Handler
  BY DEF Handler
<1>4. /\ pc'[p] = "fail" /\ handler'[p] = "called"
      /\ \A o \in Procs \ {p} : pc'[o] = pc[o] /\ handler'[o] = handler[o]
      /\ handler' \in [Procs -> Handler]
      /\ UNCHANGED <<view, mapping, snapshot>>
  BY <1>1, <1>2, <1>3 DEF Raise, Goto, ProcessesOK, SlateTypeOK
<1>5. \A o \in Procs : HandlerOK(o)'
  BY <1>1, <1>3, <1>4 DEF HandlerOK, HasSnapshot
<1>6. QED
  BY <1>1, <1>4, <1>5 DEF SlateTypeOK

LEMMA Mapping ==
  ASSUME SlateInv, NEW c \in Players, RecordMapping(c)
  PROVE  /\ SlateTypeOK' /\ UNCHANGED snapshot
         /\ \A o \in Procs : HandlerOK(o)'
<1>1. SlateTypeOK /\ \A o \in Procs : HandlerOK(o)
  BY DEF SlateInv
<1>2. mapping' = mapping \cup {c} /\ UNCHANGED <<pc, view, snapshot, handler>>
  BY DEF RecordMapping, operatedVars
<1>3. QED
  BY <1>1, <1>2 DEF SlateTypeOK, HandlerOK, HasSnapshot

LEMMA SlateStep ==
  ASSUME SlateInv, [SlateNext]_slateVars
  PROVE  SlateInv'
<1>1. /\ OperatedInv' /\ RowsStep
      /\ \/ NoOutputs /\ UNCHANGED <<pc, view>>
         \/ \E p \in Procs : OutputsComeFrom(p) /\ ProcessMoves(p)
  BY SlateRowSteps DEF SlateInv
<1>2. /\ SlateTypeOK' /\ snapshot \subseteq snapshot'
      /\ \A o \in Procs : HandlerOK(o)'
  <2>1. CASE SlateNext
    <3>1. CASE Otherwise
      BY <1>1, <3>1, OtherWork
    <3>2. CASE \E c \in Players : RecordMapping(c)
      BY <3>2, Mapping
    <3>3. CASE \E p \in Procs : ResolveConflict(p) \/ PersistRefused(p)
      BY <3>3, Raising
    <3>4. CASE \E p \in Procs : Persist(p)
      BY <3>4, HandlerWork
    <3>5. QED
      BY <2>1, <3>1, <3>2, <3>3, <3>4 DEF SlateNext
  <2>2. CASE UNCHANGED slateVars
    <3>1. UNCHANGED <<pc, view, mapping, snapshot, handler>>
      BY <2>2 DEF slateVars, slates, operatedVars
    <3>2. QED
      BY <3>1 DEF SlateInv, SlateTypeOK, HandlerOK, HasSnapshot
  <2>3. QED
    BY <2>1, <2>2
<1>3. OutputIsSealed'
  BY <1>1, <1>2, OutputsStaySealed DEF SlateInv
<1>4. QED
  BY <1>1, <1>2, <1>3 DEF SlateInv

LEMMA SlateStart ==
  ASSUME SlateInit
  PROVE  SlateInv
<1>1. Init /\ borrow = Nothing /\ run = [r \in Runs |-> AbsentRun]
      /\ phase = [r \in Runs |-> [i \in Phases |-> PendingPhase]]
  BY DEF SlateInit, OperatedInit, Init, RepositoryInit
<1>2. /\ AbsentRun \in RunRow /\ AbsentRun.status = "absent" /\ AbsentRun.failure = NoPhase
      /\ PendingPhase \in PhaseRow /\ PendingPhase.status = "pending"
      /\ PendingPhase.attempt = 0 /\ PendingPhase.output = 0 /\ PendingPhase.source = {}
  BY StatusSets DEF AbsentRun, PendingPhase, RunRow, PhaseRow
<1>3. "idle" \in PC /\ Blank \in View
  BY BlankIsView DEF PC
<1>4. TypeOK
  BY <1>1, <1>2, <1>3 DEF Init, TypeOK, RepositoryTypeOK
<1>5. Nothing \in Borrow
  BY DEF Nothing, Borrow, NoPhase
<1>6. RowsOK /\ ReuseIsSound
  BY <1>1, <1>2, StatusSets DEF RowsOK, StatusOf, ReuseIsSound, RowsSatisfyChecks, ReuseAcyclic
<1>7. BorrowOK /\ \A p \in Procs : WorkOK(p)
  BY <1>1 DEF BorrowOK, Init, WorkOK, PhasePC
<1>8. "called" \in Handler
  BY DEF Handler
<1>9. /\ mapping = {} /\ snapshot = {}
      /\ handler = [p \in Procs |-> "called"]
      /\ pc = [p \in Procs |-> "idle"]
  BY <1>1 DEF SlateInit, Init
<1>10. SlateTypeOK /\ \A p \in Procs : HandlerOK(p)
  BY <1>8, <1>9 DEF SlateTypeOK, HandlerOK
<1>11. OutputIsSealed
  BY <1>1, <1>2, SlatePhaseAssumption, StatusSets DEF OutputIsSealed
<1>12. QED
  BY <1>1, <1>4, <1>5, <1>6, <1>7, <1>10, <1>11
  DEF SlateInv, OperatedInv, OperatedTypeOK

-----------------------------------------------------------------------------
(***************************************************************************)
(* The invariant of the slates, the controller processes and the operator. *)
(***************************************************************************)
THEOREM Invariance == SlateSpec => []SlateInv
BY SlateStart, SlateStep, PTL DEF SlateSpec

(***************************************************************************)
(* No sequence of transitions, by controllers or an operator, leaves a row *)
(* the run tables' CHECKs refuse or two runs that reuse a phase from each  *)
(* other.                                                                  *)
(***************************************************************************)
THEOREM ReuseStaysSound == SlateSpec => []ReuseIsSound
<1>1. SlateInv => ReuseIsSound
  BY DEF SlateInv, OperatedInv
<1>2. QED
  BY <1>1, Invariance, PTL

(***************************************************************************)
(* What a completed slate phase names as its output is a sealed snapshot,  *)
(* of the very attempt whose handler produced it.                          *)
(***************************************************************************)
THEOREM OutputsAreSealed == SlateSpec => []OutputIsSealed
<1>1. SlateInv => OutputIsSealed
  BY DEF SlateInv
<1>2. QED
  BY <1>1, Invariance, PTL

(***************************************************************************)
(* A run closes only on successful phases and fails only on a failed one,  *)
(* whatever the deciding process had read and whatever an operator does.   *)
(***************************************************************************)
THEOREM RunsFollowPhases == SlateSpec => RunFollowsPhases
<1>1. ASSUME SlateInv, [SlateNext]_slateVars
      PROVE  /\ [\A r \in Runs :
                   run[r].status # run'[r].status /\ run'[r].status \in RunSuccess
                     => AllSuccessful(r) /\ phase'[r] = phase[r]]_operatedVars
             /\ [\A r \in Runs :
                   run[r].status # run'[r].status /\ run'[r].status = "failed"
                     => \E i \in Phases : run'[r].failure = i
                                          /\ phase'[r][i].status = "failed"]_operatedVars
  <2>1. RowsStep
    BY <1>1, SlateRowSteps DEF SlateInv
  <2>2. QED
    BY <2>1 DEF RowsStep, RunClosesOn, RunFailsOn
<1>2. QED
  BY <1>1, Invariance, PTL
  DEF SlateSpec, RunFollowsPhases, ClosedWhenComplete, FailureNamesFailedPhase
=============================================================================
