------------------------- MODULE RunControllerProofs -------------------------
(***************************************************************************)
(* Proofs that the safety properties of RunControllerProps hold for every  *)
(* number of runs, processes and phases.  The last part has the two that   *)
(* count phases: a run that can be resumed always has something to resume, *)
(* and the rows behave like the single executor of SerialRun.              *)
(***************************************************************************)
EXTENDS RunControllerProps, FiniteSetTheorems, WellFoundedInduction, TLAPS

-----------------------------------------------------------------------------
\* Frames: what a step may do to the tables and to the other processes.

\* Completed phases stay, and a run does not go back to before its beginning.
TablesAdvance ==
  \A r \in Runs :
    /\ Exists(r) => Exists(r)'
    /\ Begun(r) => Begun(r)'
    /\ \A i \in Phases :
         StatusOf(r, i) \in Successful => phase'[r][i] = phase[r][i]

\* A step of p leaves alone the rows that another process answers for.
OthersKeepRows(p) ==
  \A q \in Procs \ {p} :
    Owner(q) => /\ phase'[view[q].run] = phase[view[q].run]
                /\ run'[view[q].run] = run[view[q].run]

OthersElsewhere(p, r) == \A q \in Procs \ {p} : Owner(q) => view[q].run # r

\* What AttemptOwnership says of one process.
OwnershipOf(p) ==
  Owner(p) =>
    /\ run[view[p].run].status = "running"
    /\ phase[view[p].run][view[p].phase].status = "running"
    /\ pc[p] \in OwnerPC =>
         phase[view[p].run][view[p].phase].attempt = view[p].attempt

-----------------------------------------------------------------------------
(***************************************************************************)
(* A step of p keeps the invariant if it keeps the tables consistent, lets *)
(* them advance only, leaves the rows of other owners alone, and leaves p  *)
(* itself in order.                                                        *)
(***************************************************************************)
LEMMA StepKeepsIInv ==
  ASSUME IInv,
         NEW p \in Procs, NEW l \in PC, NEW v \in View,
         pc' = [pc EXCEPT ![p] = l],
         view' = [view EXCEPT ![p] = v],
         RepositoryTypeOK', TablesOK',
         TablesAdvance,
         OthersKeepRows(p),
         ProcessOK(p)',
         OwnershipOf(p)',
         Owner(p)' => OthersElsewhere(p, v.run)
  PROVE  IInv'
<1>1. TypeOK'
  BY DEF IInv, TypeOK
<1>2. pc'[p] = l /\ view'[p] = v
  BY DEF IInv, TypeOK
<1>3. \A q \in Procs \ {p} : pc'[q] = pc[q] /\ view'[q] = view[q]
  BY DEF IInv, TypeOK
<1>4. \A q \in Procs \ {p} : Owner(q)' <=> Owner(q)
  BY <1>3 DEF Owner
<1>5. ASSUME NEW q \in Procs \ {p} PROVE ProcessOK(q)'
  <2> DEFINE r == view[q].run
             i == view[q].phase
  <2>1. ProcessOK(q)
    BY DEF IInv
  <2>2. CASE pc[q] = "idle"
    BY <2>1, <2>2, <1>3, <1>4 DEF ProcessOK, Owner, OwnerPC
  <2>3. CASE pc[q] # "idle"
    <3>1. r \in Runs /\ Exists(r) /\ Exists(r)'
      BY <2>1, <2>3 DEF ProcessOK, TablesAdvance
    <3>2. \A j \in Phases : StatusOf(r, j) \in Successful => phase'[r][j] = phase[r][j]
      BY <3>1 DEF TablesAdvance
    <3>3. EarlierSuccessful(r, i) => \A j \in Phases : j < i => phase'[r][j].status \in Successful
      BY <3>2 DEF EarlierSuccessful, StatusOf
    <3>4. ASSUME AllSuccessful(r)
          PROVE  /\ \A j \in Phases : phase'[r][j].status \in Successful
                 /\ {phase'[r][j].status : j \in Phases} = PhaseStatuses(r)
      BY <3>2, <3>4 DEF AllSuccessful, PhaseStatuses, StatusOf
    <3>5. Begun(r) => Begun(r)'
      BY <3>1 DEF TablesAdvance
    <3>6. pc'[q] = pc[q] /\ view'[q] = view[q] /\ (Owner(q)' <=> Owner(q))
      BY <1>3, <1>4
    <3>7. view[q].owned => pc[q] \in {"loop", "plan"}
      BY <2>1 DEF ProcessOK
    <3>8. pc[q] \in {"retry", "start_run", "start_phase"} \/ Owner(q) => i \in Phases
      BY <2>1 DEF ProcessOK
    <3>9. pc[q] \in {"start_run", "start_phase"} =>
            \A j \in Phases : j < i => phase'[r][j].status \in Successful
      BY <2>1, <3>3 DEF ProcessOK
    <3>10. pc[q] = "start_phase" => Begun(r)'
      BY <2>1, <3>5 DEF ProcessOK
    <3>11. pc[q] = "plan" /\ view[q].seen # "pending" => Begun(r)'
      BY <2>1, <3>5 DEF ProcessOK
    <3>12. pc[q] = "finalize" =>
             /\ \A j \in Phases : phase'[r][j].status \in Successful
             /\ view[q].outcome = FinalStatus({phase'[r][j].status : j \in Phases})
      BY <2>1, <3>4 DEF ProcessOK
    <3> HIDE DEF r, i
    <3>13. QED
      BY <3>1, <3>6, <3>7, <3>8, <3>9, <3>10, <3>11, <3>12
      DEF ProcessOK, EarlierSuccessful, AllSuccessful, PhaseStatuses, StatusOf, Begun,
          Exists, r, i
  <2>4. QED
    BY <2>2, <2>3
<1>6. \A q \in Procs : ProcessOK(q)'
  BY <1>5
<1>7. AttemptOwnership'
  <2>1. ASSUME NEW q \in Procs \ {p}, Owner(q)'
        PROVE  OwnershipOf(q)'
    BY <2>1, <1>3, <1>4 DEF OthersKeepRows, OwnershipOf, IInv, AttemptOwnership
  <2>2. QED
    BY <2>1 DEF AttemptOwnership, OwnershipOf
<1>8. OneOwner'
  BY <1>2, <1>3, <1>4 DEF OneOwner, OthersElsewhere, IInv
<1>9. QED
  BY <1>1, <1>6, <1>7, <1>8 DEF IInv

LEMMA BlankIsView == Blank \in View
BY DEF Blank, View, RunStatus, HandlerStatus, NoPhase

LEMMA InitIInv == Init => IInv
<1> SUFFICES ASSUME Init PROVE IInv
  OBVIOUS
<1> USE DEF Init, RepositoryInit
<1>1. TypeOK
  BY BlankIsView DEF TypeOK, RepositoryTypeOK, RunRow, PhaseRow, RunStatus, PhaseStatus,
     AbsentRun, PendingPhase, NoPhase, PC
<1>2. TablesOK
  BY DEF TablesOK, SerialOrder, RunMatchesPhases, OutputOfItsAttempt, StatusOf,
     AbsentRun, PendingPhase, NoPhase, RunSuccess, HandlerStatus, AllSuccessful
<1>3. \A p \in Procs : ~Owner(p)
  BY DEF Owner, OwnerPC, Blank
<1>4. \A p \in Procs : ProcessOK(p)
  BY <1>3 DEF ProcessOK, Blank
<1>5. QED
  BY <1>1, <1>2, <1>3, <1>4 DEF IInv, AttemptOwnership, OneOwner

\* What no step may do: change completed work, or the rows of a run one of
\* whose phases is running without an owner.
RowsProtected ==
  \A r \in Runs :
    /\ run[r].status \in RunSuccess => run'[r] = run[r]
    /\ \A i \in Phases :
         /\ StatusOf(r, i) \in Successful => phase'[r][i] = phase[r][i]
         /\ StatusOf(r, i) = "running" /\ (\A p \in Procs : ~Owns(p, r, i))
              => phase'[r] = phase[r] /\ run'[r] = run[r]

\* The seven ways in which the rows of one run r may become x and f.
RowsOfRunStep(r, x, f) ==
  \/ f = phase[r] /\
       \/ run[r].status = "absent" /\ x.status = "pending"
       \/ run[r].status = "pending" /\ x.status = "running"
       \/ run[r].status = "running" /\ x.status \in RunSuccess /\ AllSuccessful(r)
  \/ \E i \in Phases, g \in PhaseRow :
       /\ f = [phase[r] EXCEPT ![i] = g]
       /\ \/ /\ StatusOf(r, i) = "pending" /\ g.status = "running"
             /\ run[r].status = "running" /\ x = run[r]
             /\ \A j \in Phases : StatusOf(r, j) # "running"
          \/ /\ StatusOf(r, i) = "failed" /\ g.status = "running"
             /\ run[r].status = "failed" /\ x.status = "running"
          \/ /\ StatusOf(r, i) = "running" /\ g.status \in Successful
             /\ run[r].status = "running" /\ x = run[r]
          \/ /\ StatusOf(r, i) = "running" /\ g.status = "failed"
             /\ run[r].status = "running" /\ x.status = "failed"

RowsStep ==
  \/ UNCHANGED Rows
  \/ \E r \in Runs, x \in RunRow, f \in [Phases -> PhaseRow] :
       /\ run' = [run EXCEPT ![r] = x]
       /\ phase' = [phase EXCEPT ![r] = f]
       /\ RowsOfRunStep(r, x, f)

\* A step that changes no row: only the process that takes it matters.
LEMMA LocalStep ==
  ASSUME IInv,
         NEW p \in Procs, NEW l \in PC, NEW v \in View,
         pc' = [pc EXCEPT ![p] = l],
         view' = [view EXCEPT ![p] = v],
         UNCHANGED Rows,
         ProcessOK(p)',
         OwnershipOf(p)',
         Owner(p)' => Owner(p) /\ v.run = view[p].run
  PROVE  IInv' /\ RowsProtected /\ RowsStep
<1>1. UNCHANGED <<run, phase>>
  BY DEF Rows
<1>2. RepositoryTypeOK' /\ TablesOK'
  <2>1. RepositoryTypeOK'
    BY <1>1 DEF IInv, TypeOK, RepositoryTypeOK
  <2>2. SerialOrder'
    BY <1>1 DEF IInv, TablesOK, SerialOrder, StatusOf
  <2>3. OutputOfItsAttempt'
    BY <1>1 DEF IInv, TablesOK, OutputOfItsAttempt, StatusOf
  <2>4. \A r \in Runs : AllSuccessful(r)' = AllSuccessful(r)
    BY <1>1 DEF AllSuccessful, StatusOf
  <2>5. \A r \in Runs : PhaseStatuses(r)' = PhaseStatuses(r)
    BY <1>1 DEF PhaseStatuses, StatusOf
  <2>6. RunMatchesPhases'
    BY <1>1, <2>4, <2>5 DEF IInv, TablesOK, RunMatchesPhases, StatusOf
  <2>7. QED
    BY <2>1, <2>2, <2>3, <2>6 DEF TablesOK
<1>3. TablesAdvance
  BY <1>1 DEF TablesAdvance, Exists, Begun, StatusOf
<1>4. OthersKeepRows(p)
  BY <1>1 DEF OthersKeepRows
<1>5. Owner(p)' => OthersElsewhere(p, v.run)
  BY DEF OthersElsewhere, IInv, OneOwner
<1>6. RowsProtected /\ RowsStep
  BY <1>1 DEF RowsProtected, RowsStep
<1>7. QED
  BY <1>2, <1>3, <1>4, <1>5, <1>6, StepKeepsIInv

\* A command that ends without touching the tables.
LEMMA ExitStep ==
  ASSUME IInv, NEW p \in Procs, Exit(p), UNCHANGED Rows
  PROVE  IInv' /\ RowsProtected /\ RowsStep
<1>1. pc' = [pc EXCEPT ![p] = "idle"] /\ view' = [view EXCEPT ![p] = Blank]
  BY DEF Exit, Goto
<1>2. pc'[p] = "idle" /\ view'[p] = Blank
  BY <1>1 DEF IInv, TypeOK
<1>3. ~Owner(p)'
  BY <1>2 DEF Owner, OwnerPC, Blank
<1>4. ProcessOK(p)' /\ OwnershipOf(p)'
  BY <1>2, <1>3 DEF ProcessOK, OwnershipOf, Blank
<1>5. "idle" \in PC
  BY DEF PC
<1>6. QED
  BY <1>1, <1>3, <1>4, <1>5, BlankIsView, LocalStep

-----------------------------------------------------------------------------
\* The steps that read the tables.

LEMMA PlaceOfType ==
  ASSUME IInv, NEW p \in Procs
  PROVE  /\ pc[p] \in PC
         /\ view[p] \in View
         /\ pc[p] # "idle" => view[p].run \in Runs /\ Exists(view[p].run)
         /\ OwnershipOf(p)
BY DEF IInv, TypeOK, ProcessOK, AttemptOwnership, OwnershipOf

LEMMA BeginStep ==
  ASSUME IInv, NEW p \in Procs, NEW r \in Runs, NEW c \in {"execute", "resume"},
         Begin(p, r, c)
  PROVE  IInv' /\ RowsProtected /\ RowsStep
<1> DEFINE v == [Blank EXCEPT !.run = r, !.seen = run[r].status,
                              !.phase = run[r].failure]
<1>1. run[r] \in RunRow
  BY DEF IInv, TypeOK, RepositoryTypeOK
<1>2. v \in View
  BY <1>1, BlankIsView DEF Blank, View, RunRow
<1>3. pc' = [pc EXCEPT ![p] = c] /\ view' = [view EXCEPT ![p] = v] /\ UNCHANGED Rows
  BY DEF Begin, Goto
<1>4. pc'[p] = c /\ view'[p] = v /\ c \in PC /\ v.run = r /\ ~v.owned
  BY <1>3 DEF IInv, TypeOK, PC, Blank
<1>5. ~Owner(p)' /\ Exists(r)'
  BY <1>3, <1>4 DEF Owner, OwnerPC, Begin, Exists, Rows
<1>6. ProcessOK(p)' /\ OwnershipOf(p)'
  BY <1>4, <1>5 DEF ProcessOK, OwnershipOf
<1>7. QED
  BY <1>2, <1>3, <1>4, <1>5, <1>6, LocalStep

LEMMA ExecuteStep ==
  ASSUME IInv, NEW p \in Procs, Execute(p)
  PROVE  IInv' /\ RowsProtected /\ RowsStep
<1>1. CASE Exit(p)
  BY <1>1, ExitStep DEF Execute
<1>2. CASE Goto(p, "loop") /\ UNCHANGED view
  <2>1. pc[p] = "execute" /\ UNCHANGED Rows
    BY DEF Execute
  <2>2. pc' = [pc EXCEPT ![p] = "loop"] /\ view' = [view EXCEPT ![p] = view[p]]
    BY <1>2 DEF Goto, IInv, TypeOK
  <2>3. pc'[p] = "loop" /\ view'[p] = view[p]
    BY <2>2 DEF IInv, TypeOK
  <2>4. ~Owner(p) /\ ~Owner(p)'
    BY <2>1, <2>3 DEF Owner, OwnerPC, IInv, ProcessOK
  <2>5. run'[view[p].run].status # "absent" /\ view[p].run \in Runs
    BY <2>1, PlaceOfType DEF Exists, Rows
  <2>6. ProcessOK(p)' /\ OwnershipOf(p)'
    BY <2>3, <2>4, <2>5 DEF ProcessOK, OwnershipOf, Owner, Exists
  <2>7. "loop" \in PC
    BY DEF PC
  <2>8. QED
    BY <2>1, <2>2, <2>4, <2>6, <2>7, PlaceOfType, LocalStep
<1>3. QED
  BY <1>1, <1>2 DEF Execute

LEMMA ResumeStep ==
  ASSUME IInv, NEW p \in Procs, Resume(p)
  PROVE  IInv' /\ RowsProtected /\ RowsStep
<1>1. CASE Exit(p)
  BY <1>1, ExitStep DEF Resume
<1>2. ASSUME NEW l \in {"loop", "retry"}, Goto(p, l), UNCHANGED view,
             l = "retry" => ResumeTarget(p)
      PROVE  IInv' /\ RowsProtected /\ RowsStep
  <2>1. pc[p] = "resume" /\ UNCHANGED Rows
    BY DEF Resume
  <2>2. pc' = [pc EXCEPT ![p] = l] /\ view' = [view EXCEPT ![p] = view[p]]
    BY <1>2 DEF Goto, IInv, TypeOK
  <2>3. pc'[p] = l /\ view'[p] = view[p]
    BY <2>2 DEF IInv, TypeOK
  <2>4. ~Owner(p) /\ ~Owner(p)'
    BY <2>1, <2>3 DEF Owner, OwnerPC, IInv, ProcessOK
  <2>5. run'[view[p].run].status # "absent" /\ view[p].run \in Runs
    BY <2>1, PlaceOfType DEF Exists, Rows
  <2>6. l = "retry" => view[p].phase \in Phases
    BY <1>2, HandledAssumption DEF ResumeTarget
  <2>7. ProcessOK(p)' /\ OwnershipOf(p)'
    BY <2>3, <2>4, <2>5, <2>6 DEF ProcessOK, OwnershipOf, Owner, Exists
  <2>8. l \in PC
    BY DEF PC
  <2>9. QED
    BY <2>1, <2>2, <2>4, <2>7, <2>8, PlaceOfType, LocalStep
<1>3. QED
  BY <1>1, <1>2 DEF Resume

LEMMA LoopStep ==
  ASSUME IInv, NEW p \in Procs, Loop(p)
  PROVE  IInv' /\ RowsProtected /\ RowsStep
<1> DEFINE r == view[p].run
           v == [view[p] EXCEPT !.seen = run[r].status]
<1>1. pc[p] = "loop" /\ UNCHANGED Rows
  BY DEF Loop
<1>2. r \in Runs /\ Exists(r) /\ view[p] \in View /\ run[r] \in RunRow
  BY <1>1, PlaceOfType DEF IInv, TypeOK, RepositoryTypeOK
<1>3. v \in View
  BY <1>2 DEF View, RunRow
<1>4. pc' = [pc EXCEPT ![p] = "plan"] /\ view' = [view EXCEPT ![p] = v]
  BY DEF Loop, Goto, IInv, TypeOK
<1>5. pc'[p] = "plan" /\ view'[p] = v
  BY <1>4 DEF IInv, TypeOK
<1>6. v.run = r /\ v.phase = view[p].phase /\ v.owned = view[p].owned
      /\ v.seen = run[r].status
  BY <1>2 DEF View
<1>7. Owner(p)' <=> Owner(p)
  BY <1>1, <1>5, <1>6 DEF Owner, OwnerPC
<1>8. /\ run'[r].status # "absent"
      /\ v.seen # "pending" => run'[r].status \notin {"absent", "pending"}
  BY <1>1, <1>2, <1>6 DEF Exists, Begun, Rows
<1>9. Owner(p) => view[p].phase \in Phases
  BY DEF IInv, ProcessOK
<1>10. ProcessOK(p)'
  BY <1>2, <1>5, <1>6, <1>7, <1>8, <1>9 DEF ProcessOK, Exists, Begun
<1>11. OwnershipOf(p)'
  BY <1>1, <1>5, <1>6, <1>7, PlaceOfType DEF OwnershipOf, OwnerPC, Rows
<1>12. "plan" \in PC
  BY DEF PC
<1>13. QED
  BY <1>1, <1>3, <1>4, <1>6, <1>7, <1>10, <1>11, <1>12, LocalStep

LEMMA PlanOwnedStep ==
  ASSUME IInv, NEW p \in Procs, PlanOwned(p)
  PROVE  IInv' /\ RowsProtected /\ RowsStep
<1> DEFINE r == view[p].run
           i == view[p].phase
           v == [view[p] EXCEPT !.owned = FALSE, !.attempt = phase[r][i].attempt]
<1>1. pc[p] = "plan" /\ view[p].owned /\ UNCHANGED Rows
  BY DEF PlanOwned
<1>2. CASE Exit(p)
  BY <1>1, <1>2, ExitStep
<1>3. CASE RunningPhases(r) = {i} /\ Goto(p, "handling")
           /\ view' = [view EXCEPT ![p].owned = FALSE, ![p].attempt = phase[r][i].attempt]
  <2>1. r \in Runs /\ Exists(r) /\ view[p] \in View /\ OwnershipOf(p)
    BY <1>1, PlaceOfType
  <2>2. i \in Phases
    BY <1>1 DEF IInv, ProcessOK, Owner
  <2>3. phase[r][i] \in PhaseRow
    BY <2>1, <2>2 DEF IInv, TypeOK, RepositoryTypeOK
  <2>4. v \in View
    BY <2>1, <2>3 DEF View, PhaseRow
  <2>5. pc' = [pc EXCEPT ![p] = "handling"] /\ view' = [view EXCEPT ![p] = v]
    BY <1>3 DEF Goto, IInv, TypeOK
  <2>6. pc'[p] = "handling" /\ view'[p] = v
    BY <2>5 DEF IInv, TypeOK
  <2>7. v.run = r /\ v.phase = i /\ v.owned = FALSE /\ v.attempt = phase[r][i].attempt
    BY <2>1 DEF View
  <2>8. Owner(p)' /\ Owner(p)
    BY <1>1, <2>6 DEF Owner, OwnerPC
  <2>9. run'[r].status # "absent"
    BY <1>1, <2>1 DEF Exists, Rows
  <2>10. ProcessOK(p)'
    BY <2>1, <2>2, <2>6, <2>7, <2>8, <2>9 DEF ProcessOK, Exists
  <2>11. OwnershipOf(p)'
    BY <1>1, <2>1, <2>6, <2>7, <2>8 DEF OwnershipOf, Rows
  <2>12. "handling" \in PC
    BY DEF PC
  <2>13. QED
    BY <1>1, <2>4, <2>5, <2>7, <2>8, <2>10, <2>11, <2>12, LocalStep
<1>4. QED
  BY <1>2, <1>3 DEF PlanOwned

LEMMA PlanPhaseStep ==
  ASSUME IInv, NEW p \in Procs, PlanPhase(p)
  PROVE  IInv' /\ RowsProtected /\ RowsStep
<1> DEFINE r == view[p].run
           l == IF view[p].seen = "pending" THEN "start_run" ELSE "start_phase"
<1>1. pc[p] = "plan" /\ ~view[p].owned /\ UNCHANGED Rows
  BY DEF PlanPhase
<1>2. PICK i \in Phases : Claimable(r, i) /\ view' = [view EXCEPT ![p].phase = i]
  BY DEF PlanPhase
<1> DEFINE v == [view[p] EXCEPT !.phase = i]
<1>3. r \in Runs /\ Exists(r) /\ view[p] \in View
  BY <1>1, PlaceOfType
<1>4. v \in View
  BY <1>3 DEF View
<1>5. pc' = [pc EXCEPT ![p] = l] /\ view' = [view EXCEPT ![p] = v]
  BY <1>2 DEF PlanPhase, Goto, IInv, TypeOK
<1>6. pc'[p] = l /\ view'[p] = v
  BY <1>5 DEF IInv, TypeOK
<1>7. v.run = r /\ v.phase = i /\ ~v.owned
  BY <1>1, <1>3 DEF View
<1>8. ~Owner(p)'
  BY <1>6, <1>7 DEF Owner, OwnerPC
<1>9. run' = run /\ phase' = phase
  BY <1>1 DEF Rows
<1>10. \A j \in Phases : j < i => phase'[r][j].status \in Successful
  BY <1>2, <1>9 DEF Claimable, FirstIncomplete, StatusOf
<1>11. l = "start_phase" => run'[r].status \notin {"absent", "pending"}
  BY <1>1, <1>9 DEF IInv, ProcessOK, Begun
<1>12. ProcessOK(p)'
  BY <1>2, <1>3, <1>6, <1>7, <1>8, <1>9, <1>10, <1>11
  DEF ProcessOK, EarlierSuccessful, StatusOf, Begun, Exists
<1>13. OwnershipOf(p)'
  BY <1>8 DEF OwnershipOf
<1>14. l \in PC
  BY DEF PC
<1>15. QED
  BY <1>1, <1>4, <1>5, <1>8, <1>12, <1>13, <1>14, LocalStep

\* PlanFinal, and Paused when it goes on to finalize.
LEMMA GotoFinalize ==
  ASSUME IInv, NEW p \in Procs,
         pc[p] \in {"plan", "paused"}, ~view[p].owned,
         AllSuccessful(view[p].run), Goto(p, "finalize"), UNCHANGED Rows,
         view' = [view EXCEPT
           ![p].outcome = FinalStatus(PhaseStatuses(view[p].run))]
  PROVE  IInv' /\ RowsProtected /\ RowsStep
<1> DEFINE r == view[p].run
           o == FinalStatus(PhaseStatuses(r))
           v == [view[p] EXCEPT !.outcome = o]
<1>1. r \in Runs /\ Exists(r) /\ view[p] \in View
  BY PlaceOfType
<1>2. o \in HandlerStatus
  BY DEF FinalStatus, HandlerStatus
<1> HIDE DEF o
<1>3. v \in View
  BY <1>1, <1>2 DEF View
<1>4. pc' = [pc EXCEPT ![p] = "finalize"] /\ view' = [view EXCEPT ![p] = v]
  BY DEF Goto, IInv, TypeOK, o
<1>5. pc'[p] = "finalize" /\ view'[p] = v
  BY <1>4 DEF IInv, TypeOK
<1>6. v.run = r /\ ~v.owned /\ v.outcome = o
  BY <1>1 DEF View
<1>7. ~Owner(p)'
  BY <1>5, <1>6 DEF Owner, OwnerPC
<1>8. run' = run /\ phase' = phase
  BY DEF Rows
<1>9. \A j \in Phases : phase'[r][j].status \in Successful
  BY <1>8 DEF AllSuccessful, StatusOf
<1>10. o = FinalStatus({phase'[view'[p].run][j].status : j \in Phases})
  <2>1. view'[p].run = r
    BY <1>5, <1>6
  <2>2. o = FinalStatus({phase[r][j].status : j \in Phases})
    BY DEF o, PhaseStatuses, StatusOf
  <2>3. QED
    BY <1>8, <2>1, <2>2
<1>11. ProcessOK(p)'
  <2>1. view'[p].run = r /\ view'[p].outcome = o /\ pc'[p] = "finalize"
        /\ run'[r].status # "absent" /\ ~view'[p].owned
    BY <1>1, <1>5, <1>6, <1>8 DEF Exists
  <2> HIDE DEF v, r
  <2>2. QED
    BY <1>1, <1>7, <1>9, <1>10, <2>1
    DEF ProcessOK, AllSuccessful, PhaseStatuses, StatusOf, Exists
<1>12. OwnershipOf(p)'
  BY <1>7 DEF OwnershipOf
<1>13. "finalize" \in PC
  BY DEF PC
<1>14. QED
  BY <1>3, <1>4, <1>7, <1>11, <1>12, <1>13, LocalStep

LEMMA PauseStep ==
  ASSUME IInv, NEW p \in Procs, Pause(p)
  PROVE  IInv' /\ RowsProtected /\ RowsStep
<1> DEFINE r == view[p].run
           v == [view[p] EXCEPT !.seen = run[r].status]
<1>1. pc[p] = "pause" /\ UNCHANGED Rows
  BY DEF Pause
<1>2. r \in Runs /\ Exists(r) /\ view[p] \in View /\ run[r] \in RunRow
  BY <1>1, PlaceOfType DEF IInv, TypeOK, RepositoryTypeOK
<1>3. v \in View
  BY <1>2 DEF View, RunRow
<1>4. pc' = [pc EXCEPT ![p] = "paused"] /\ view' = [view EXCEPT ![p] = v]
  BY DEF Pause, Goto, IInv, TypeOK
<1>5. pc'[p] = "paused" /\ view'[p] = v
  BY <1>4 DEF IInv, TypeOK
<1>6. v.run = r /\ ~v.owned
  BY <1>1, <1>2 DEF View, IInv, ProcessOK
<1>7. ~Owner(p)' /\ run'[r].status # "absent"
  BY <1>1, <1>2, <1>5, <1>6 DEF Owner, OwnerPC, Rows, Exists
<1>8. ProcessOK(p)' /\ OwnershipOf(p)'
  BY <1>2, <1>5, <1>6, <1>7 DEF ProcessOK, OwnershipOf, Exists
<1>9. "paused" \in PC
  BY DEF PC
<1>10. QED
  BY <1>1, <1>3, <1>4, <1>7, <1>8, <1>9, LocalStep

-----------------------------------------------------------------------------
\* The steps of the owner of a phase that change no row.

LEMMA OwnerStep ==
  ASSUME IInv, NEW p \in Procs, NEW l \in {"complete", "fail"}, NEW v \in View,
         pc[p] \in {"handling", "complete"},
         pc' = [pc EXCEPT ![p] = l],
         view' = [view EXCEPT ![p] = v],
         v.run = view[p].run, v.phase = view[p].phase,
         v.attempt = view[p].attempt, v.owned = view[p].owned,
         UNCHANGED Rows
  PROVE  IInv' /\ RowsProtected /\ RowsStep
<1>1. pc'[p] = l /\ view'[p] = v /\ ~view[p].owned
  BY DEF IInv, TypeOK, ProcessOK
<1>2. Owner(p) /\ Owner(p)'
  BY <1>1 DEF Owner, OwnerPC
<1>3. run' = run /\ phase' = phase
  BY DEF Rows
<1>4. v.run \in Runs /\ run'[v.run].status # "absent" /\ v.phase \in Phases
  BY <1>2, <1>3 DEF IInv, ProcessOK, Exists
<1>5. ProcessOK(p)'
  BY <1>1, <1>2, <1>4 DEF ProcessOK, Exists
<1>6. OwnershipOf(p)'
  BY <1>1, <1>2, <1>3, PlaceOfType DEF OwnershipOf, OwnerPC
<1>7. l \in PC
  BY DEF PC
<1>8. QED
  BY <1>2, <1>5, <1>6, <1>7, LocalStep

LEMMA HandlerReturnsStep ==
  ASSUME IInv, NEW p \in Procs, HandlerReturns(p)
  PROVE  IInv' /\ RowsProtected /\ RowsStep
<1>1. PICK o \in HandlerStatus, b \in BOOLEAN :
        view' = [view EXCEPT ![p].outcome = o, ![p].proceed = b]
  BY DEF HandlerReturns
<1> DEFINE v == [view[p] EXCEPT !.outcome = o, !.proceed = b]
<1>2. view[p] \in View
  BY PlaceOfType
<1>3. v \in View /\ v.run = view[p].run /\ v.phase = view[p].phase
      /\ v.attempt = view[p].attempt /\ v.owned = view[p].owned
  BY <1>2 DEF View
<1>4. view' = [view EXCEPT ![p] = v]
  BY <1>1 DEF IInv, TypeOK
<1>5. QED
  BY <1>3, <1>4, OwnerStep DEF HandlerReturns, Goto

LEMMA RaisesStep ==
  ASSUME IInv, NEW p \in Procs, HandlerRaises(p) \/ CompleteRaises(p)
  PROVE  IInv' /\ RowsProtected /\ RowsStep
<1>1. view' = [view EXCEPT ![p] = view[p]] /\ view[p] \in View
  BY PlaceOfType DEF HandlerRaises, CompleteRaises, IInv, TypeOK
<1>2. UNCHANGED Rows
  BY DEF HandlerRaises, CompleteRaises, Rows
<1>3. QED
  BY <1>1, <1>2, OwnerStep DEF HandlerRaises, CompleteRaises, Goto

LEMMA QuietStep ==
  ASSUME IInv, NEW p \in Procs,
         PlanFinal(p) \/ PlanStops(p) \/ Paused(p) \/ Crash(p)
  PROVE  IInv' /\ RowsProtected /\ RowsStep
<1>1. CASE PlanFinal(p)
  BY <1>1, GotoFinalize DEF PlanFinal, Finalizable
<1>2. CASE PlanStops(p) \/ Crash(p)
  BY <1>2, ExitStep DEF PlanStops, Crash
<1>3. CASE Paused(p)
  <2>1. pc[p] = "paused" /\ ~view[p].owned
    BY <1>3, PlaceOfType DEF Paused, IInv, ProcessOK, View
  <2>2. QED
    BY <1>3, <2>1, GotoFinalize, ExitStep DEF Paused, Finalizable
<1>4. QED
  BY <1>1, <1>2, <1>3

-----------------------------------------------------------------------------
\* The steps that change the rows of one run.

\* What TablesOK says of one run row x and its phase rows f.
GoodRows(x, f) ==
  /\ \A i, j \in Phases : j < i /\ f[i].status # "pending" => f[j].status \in Successful
  /\ x.status \in {"absent", "pending"} => \A i \in Phases : f[i] = PendingPhase
  /\ \A i \in Phases : f[i].status = "failed" <=> x.status = "failed" /\ x.failure = i
  /\ x.status = "failed" => x.failure \in Phases
  /\ \A i \in Phases : f[i].status = "running" => x.status = "running"
  /\ x.status \in RunSuccess =>
       /\ \A i \in Phases : f[i].status \in Successful
       /\ x.status = FinalStatus({f[i].status : i \in Phases})
  /\ \A i \in Phases :
       /\ f[i].status \in HandlerStatus => f[i].output = f[i].attempt
       /\ f[i].status \in {"pending", "running", "failed"} => f[i].output = 0

LEMMA RowsAreGood ==
  ASSUME IInv, NEW r \in Runs
  PROVE  /\ run[r] \in RunRow /\ phase[r] \in [Phases -> PhaseRow]
         /\ GoodRows(run[r], phase[r])
BY DEF IInv, TypeOK, RepositoryTypeOK, TablesOK, SerialOrder, RunMatchesPhases,
   OutputOfItsAttempt, GoodRows, StatusOf, AllSuccessful, PhaseStatuses

\* The order of the phases, which of them is failed, and what output one has.
InOrder(f) ==
  \A i, j \in Phases : j < i /\ f[i].status # "pending" => f[j].status \in Successful
FailedPhase(x, f) ==
  \A i \in Phases : f[i].status = "failed" <=> x.status = "failed" /\ x.failure = i
Outputs(f) ==
  \A i \in Phases :
    /\ f[i].status \in HandlerStatus => f[i].output = f[i].attempt
    /\ f[i].status \in {"pending", "running", "failed"} => f[i].output = 0

LEMMA WhatGoodRowsSay ==
  ASSUME NEW x, NEW f, GoodRows(x, f)
  PROVE  InOrder(f) /\ FailedPhase(x, f) /\ Outputs(f)
BY DEF GoodRows, InOrder, FailedPhase, Outputs

LEMMA GoodRowsSuffice ==
  ASSUME \A q \in Runs : GoodRows(run'[q], phase'[q])
  PROVE  TablesOK'
<1>1. SerialOrder' /\ OutputOfItsAttempt'
  BY DEF SerialOrder, OutputOfItsAttempt, GoodRows, StatusOf
<1>2. RunMatchesPhases'
  BY DEF RunMatchesPhases, GoodRows, StatusOf, AllSuccessful, PhaseStatuses
<1>3. QED
  BY <1>1, <1>2 DEF TablesOK

LEMMA ChangeRows ==
  ASSUME IInv, NEW p \in Procs, NEW r \in Runs,
         NEW x \in RunRow, NEW f \in [Phases -> PhaseRow],
         NEW l \in PC, NEW v \in View,
         run' = [run EXCEPT ![r] = x],
         phase' = [phase EXCEPT ![r] = f],
         pc' = [pc EXCEPT ![p] = l],
         view' = [view EXCEPT ![p] = v],
         GoodRows(x, f),
         RowsOfRunStep(r, x, f),
         x.status # "absent",
         Begun(r) => x.status # "pending",
         \A i \in Phases : StatusOf(r, i) \in Successful => f[i] = phase[r][i],
         run[r].status \in RunSuccess => x = run[r],
         \A i \in Phases : StatusOf(r, i) = "running" => Owns(p, r, i),
         OthersElsewhere(p, r),
         ProcessOK(p)',
         OwnershipOf(p)',
         Owner(p)' => v.run = r
  PROVE  IInv' /\ RowsProtected /\ RowsStep
<1>1. run'[r] = x /\ phase'[r] = f
  BY DEF IInv, TypeOK, RepositoryTypeOK
<1>2. \A q \in Runs \ {r} : run'[q] = run[q] /\ phase'[q] = phase[q]
  BY DEF IInv, TypeOK, RepositoryTypeOK
<1>3. RepositoryTypeOK'
  BY DEF IInv, TypeOK, RepositoryTypeOK
<1>4. TablesOK'
  <2>1. \A q \in Runs : GoodRows(run'[q], phase'[q])
    BY <1>1, <1>2, RowsAreGood
  <2>2. QED
    BY <2>1, GoodRowsSuffice
<1>5. TablesAdvance
  BY <1>1, <1>2 DEF TablesAdvance, Exists, Begun, StatusOf
<1>6. OthersKeepRows(p)
  <2>1. \A q \in Procs \ {p} : Owner(q) => view[q].run \in Runs
    BY PlaceOfType DEF IInv, ProcessOK, Owner, OwnerPC
  <2>2. QED
    BY <1>2, <2>1 DEF OthersKeepRows, OthersElsewhere
<1>7. Owner(p)' => OthersElsewhere(p, v.run)
  OBVIOUS
<1>8. RowsProtected /\ RowsStep
  BY ZenonT(40), <1>1, <1>2 DEF RowsProtected, RowsStep, StatusOf
<1>9. QED
  BY <1>3, <1>4, <1>5, <1>6, <1>7, <1>8, StepKeepsIInv

\* An owner works on a running phase of a running run.
LEMMA OwnerIsRunning ==
  ASSUME IInv, NEW q \in Procs, Owner(q)
  PROVE  /\ view[q].run \in Runs /\ view[q].phase \in Phases
         /\ run[view[q].run].status = "running"
         /\ StatusOf(view[q].run, view[q].phase) = "running"
<1>1. ProcessOK(q) /\ OwnershipOf(q)
  BY PlaceOfType DEF IInv
<1>2. pc[q] # "idle"
  BY <1>1 DEF Owner, OwnerPC, ProcessOK
<1>3. QED
  BY <1>1, <1>2 DEF ProcessOK, OwnershipOf, StatusOf

LEMMA StartStep ==
  ASSUME IInv, NEW p \in Procs, NEW r \in Runs, NEW b \in BOOLEAN, Start(p, r, b)
  PROVE  IInv' /\ RowsProtected /\ RowsStep
<1> DEFINE x == [status |-> "pending", failure |-> NoPhase, forced |-> b]
           f == [i \in Phases |-> PendingPhase]
<1>1. pc[p] = "idle" /\ ~Exists(r) /\ UNCHANGED <<pc, view>>
  BY DEF Start, CanCreateRun
<1>2. run' = [run EXCEPT ![r] = x] /\ phase' = [phase EXCEPT ![r] = f]
  BY DEF Start, CreateRun
<1>3. x \in RunRow /\ f \in [Phases -> PhaseRow]
  BY DEF RunRow, PhaseRow, PendingPhase, RunStatus, PhaseStatus, NoPhase
<1>4. GoodRows(x, f)
  BY DEF GoodRows, PendingPhase, RunSuccess, HandlerStatus
<1>5. run[r].status = "absent" /\ phase[r] = f
  BY <1>1, RowsAreGood DEF Exists, GoodRows
<1>6. \A q \in Procs : Owner(q) => view[q].run # r
  BY <1>5, OwnerIsRunning
<1>7. ~view[p].owned /\ ~Owner(p)
  BY <1>1 DEF IInv, ProcessOK, Owner, OwnerPC
<1>8. ProcessOK(p)' /\ OwnershipOf(p)' /\ ~Owner(p)'
  BY <1>1, <1>7 DEF ProcessOK, OwnershipOf, Owner, OwnerPC
<1>9. pc' = [pc EXCEPT ![p] = pc[p]] /\ view' = [view EXCEPT ![p] = view[p]]
  BY <1>1 DEF IInv, TypeOK
<1>10. \A i \in Phases : f[i] = phase[r][i]
  BY <1>5
<1>11. run[r].status \notin RunSuccess /\ \A i \in Phases : StatusOf(r, i) # "running"
  BY <1>5 DEF RunSuccess, StatusOf, PendingPhase
<1>12. RowsOfRunStep(r, x, f)
  BY <1>5 DEF RowsOfRunStep
<1>13. QED
  BY <1>2, <1>3, <1>4, <1>5, <1>6, <1>8, <1>9, <1>10, <1>11, <1>12, PlaceOfType, ChangeRows
  DEF OthersElsewhere, Begun

LEMMA RetryStep ==
  ASSUME IInv, NEW p \in Procs, Retry(p)
  PROVE  IInv' /\ RowsProtected /\ RowsStep
<1> DEFINE r == view[p].run
           i == view[p].phase
           x == [run[r] EXCEPT !.status = "running", !.failure = NoPhase]
           g == [status |-> "running", attempt |-> phase[r][i].attempt + 1,
                 output |-> 0, source |-> {}]
           f == [phase[r] EXCEPT ![i] = g]
           v == [view[p] EXCEPT !.owned = TRUE]
<1>1. pc[p] = "retry"
  BY DEF Retry
<1>2. CASE Exit(p) /\ UNCHANGED Rows
  BY <1>2, ExitStep
<1>3. CASE /\ CanResumeFailed(r, i) /\ ResumeFailed(r, i) /\ Goto(p, "loop")
           /\ view' = [view EXCEPT ![p].owned = TRUE]
  <2>1. r \in Runs /\ i \in Phases /\ view[p] \in View
    BY <1>1, PlaceOfType DEF IInv, ProcessOK
  <2>2. run[r] \in RunRow /\ phase[r] \in [Phases -> PhaseRow] /\ GoodRows(run[r], phase[r])
    BY <2>1, RowsAreGood
  <2>3. run[r].status = "failed" /\ run[r].failure = i /\ phase[r][i].status = "failed"
    BY <1>3 DEF CanResumeFailed, RunAllowed, PhaseAllowed, StatusOf
  <2>4. x \in RunRow /\ x.status = "running" /\ x.failure = NoPhase
    BY <2>2 DEF RunRow, RunStatus
  <2>5. g \in PhaseRow
    BY <2>1, <2>2 DEF PhaseRow, PhaseStatus
  <2>6. f \in [Phases -> PhaseRow] /\ f[i] = g
        /\ \A j \in Phases \ {i} : f[j] = phase[r][j]
    BY <2>1, <2>2, <2>5
  <2>7. run' = [run EXCEPT ![r] = x] /\ phase' = [phase EXCEPT ![r] = f]
    BY <1>3 DEF ResumeFailed, IInv, TypeOK, RepositoryTypeOK
  <2>8. pc' = [pc EXCEPT ![p] = "loop"] /\ view' = [view EXCEPT ![p] = v]
    BY <1>3 DEF Goto, IInv, TypeOK
  <2>9. v \in View /\ v.run = r /\ v.phase = i /\ v.owned
    BY <2>1 DEF View
  <2>10. "failed" \notin Successful /\ "failed" # "pending" /\ "running" \notin RunSuccess
         /\ "running" \notin HandlerStatus
    BY DEF Successful, HandlerStatus, RunSuccess
  <2>11. GoodRows(x, f)
    <3> HIDE DEF x, f
    <3>1. InOrder(f)
      BY <2>1, <2>2, <2>3, <2>6, <2>10, WhatGoodRowsSay DEF InOrder
    <3>2. \A j \in Phases : f[j].status # "failed"
      BY <2>2, <2>3, <2>6, WhatGoodRowsSay DEF FailedPhase
    <3>3. Outputs(f)
      BY <2>2, <2>6, <2>10, WhatGoodRowsSay DEF Outputs
    <3>4. QED
      BY <2>4, <2>10, <3>1, <3>2, <3>3 DEF GoodRows, InOrder, Outputs
  <2>12. OthersElsewhere(p, r)
    BY <2>3, OwnerIsRunning DEF OthersElsewhere
  <2>13. pc'[p] = "loop" /\ view'[p] = v /\ run'[r] = x /\ phase'[r] = f
    BY <2>1, <2>7, <2>8 DEF IInv, TypeOK, RepositoryTypeOK
  <2>14. Owner(p)'
    BY <2>9, <2>13 DEF Owner
  <2>15. ProcessOK(p)' /\ OwnershipOf(p)'
    <3> HIDE DEF v, x, f
    <3>1. QED
      BY <2>1, <2>4, <2>6, <2>9, <2>13, <2>14 DEF ProcessOK, OwnershipOf, OwnerPC, Exists
  <2>16. \A j \in Phases : StatusOf(r, j) \in Successful => f[j] = phase[r][j]
    BY <2>3, <2>6, <2>10 DEF StatusOf
  <2>17. "loop" \in PC
    BY DEF PC
  <2>18. run[r].status \notin RunSuccess /\ \A j \in Phases : StatusOf(r, j) # "running"
    BY <2>2, <2>3 DEF GoodRows, RunSuccess, StatusOf
  <2>19. RowsOfRunStep(r, x, f)
    BY <2>1, <2>3, <2>4, <2>5 DEF RowsOfRunStep, StatusOf
  <2> HIDE DEF v, x, f, g
  <2>20. QED
    BY <2>1, <2>4, <2>6, <2>7, <2>8, <2>9, <2>11, <2>12, <2>15, <2>16, <2>17, <2>18, <2>19,
       ChangeRows
<1>4. QED
  BY <1>2, <1>3 DEF Retry

LEMMA StartRunStep ==
  ASSUME IInv, NEW p \in Procs, StartRun(p)
  PROVE  IInv' /\ RowsProtected /\ RowsStep
<1> DEFINE r == view[p].run
           x == [run[r] EXCEPT !.status = "running", !.failure = NoPhase]
<1>1. pc[p] = "start_run"
  BY DEF StartRun
<1>2. CASE Exit(p) /\ UNCHANGED Rows
  BY <1>2, ExitStep
<1>3. CASE /\ CanTransitionRun(r, "running", "state_transition", NoPhase)
           /\ TransitionRun(r, "running", NoPhase)
           /\ Goto(p, "start_phase") /\ UNCHANGED view
  <2>1. r \in Runs /\ view[p].phase \in Phases /\ view[p] \in View
        /\ EarlierSuccessful(r, view[p].phase) /\ ~view[p].owned
    BY <1>1, PlaceOfType DEF IInv, ProcessOK, View
  <2>2. run[r] \in RunRow /\ phase[r] \in [Phases -> PhaseRow] /\ GoodRows(run[r], phase[r])
    BY <2>1, RowsAreGood
  <2>3. run[r].status = "pending"
    BY <1>3 DEF CanTransitionRun, RunAllowed, RunTargets, RunSuccess
  <2>4. x \in RunRow /\ x.status = "running" /\ x.failure = NoPhase
    BY <2>2 DEF RunRow, RunStatus
  <2>5. run' = [run EXCEPT ![r] = x] /\ phase' = [phase EXCEPT ![r] = phase[r]]
    BY <1>3 DEF TransitionRun, IInv, TypeOK, RepositoryTypeOK
  <2>6. pc' = [pc EXCEPT ![p] = "start_phase"] /\ view' = [view EXCEPT ![p] = view[p]]
    BY <1>3 DEF Goto, IInv, TypeOK
  <2>7. GoodRows(x, phase[r])
    <3>1. \A j \in Phases : phase[r][j] = PendingPhase
      BY <2>2, <2>3 DEF GoodRows
    <3> HIDE DEF x
    <3>2. QED
      BY <2>4, <3>1 DEF GoodRows, PendingPhase, RunSuccess, HandlerStatus
  <2>8. OthersElsewhere(p, r)
    BY <2>3, OwnerIsRunning DEF OthersElsewhere
  <2>9. pc'[p] = "start_phase" /\ view'[p] = view[p] /\ run'[r] = x /\ phase'[r] = phase[r]
    BY <2>1, <2>5, <2>6 DEF IInv, TypeOK, RepositoryTypeOK
  <2>10. ~Owner(p)'
    BY <2>1, <2>9 DEF Owner, OwnerPC
  <2>11. ProcessOK(p)' /\ OwnershipOf(p)'
    BY <2>1, <2>4, <2>9, <2>10
    DEF ProcessOK, OwnershipOf, Exists, Begun, EarlierSuccessful, StatusOf
  <2>12. "start_phase" \in PC
    BY DEF PC
  <2>13. run[r].status \notin RunSuccess /\ \A j \in Phases : StatusOf(r, j) # "running"
    BY <2>2, <2>3 DEF GoodRows, RunSuccess, StatusOf
  <2>14. RowsOfRunStep(r, x, phase[r])
    BY <2>3, <2>4 DEF RowsOfRunStep
  <2> HIDE DEF x
  <2>15. QED
    BY <2>1, <2>2, <2>4, <2>5, <2>6, <2>7, <2>8, <2>10, <2>11, <2>12, <2>13, <2>14,
       ChangeRows
<1>4. QED
  BY <1>2, <1>3 DEF StartRun

\* Around a phase that is claimable or running, the serial order leaves one
\* possibility: completed before it, untouched after it.
LEMMA Neighbours ==
  ASSUME IInv, NEW r \in Runs, NEW i \in Phases,
         \/ phase[r][i].status = "pending" /\ EarlierSuccessful(r, i) /\ Begun(r)
         \/ phase[r][i].status = "running"
  PROVE  /\ run[r].status = "running"
         /\ \A j \in Phases : j < i => phase[r][j].status \in Successful
         /\ \A j \in Phases : i < j => phase[r][j].status = "pending"
<1>1. run[r] \in RunRow /\ GoodRows(run[r], phase[r])
  BY RowsAreGood
<1>2. phase[r][i].status \notin Successful
  BY DEF Successful, HandlerStatus
<1>3. \A j \in Phases : j < i => phase[r][j].status \in Successful
  BY <1>1 DEF EarlierSuccessful, StatusOf, GoodRows
<1>4. \A j \in Phases : i < j => phase[r][j].status = "pending"
  BY <1>1, <1>2 DEF GoodRows
<1>5. run[r].status = "running"
  <2>1. CASE phase[r][i].status = "running"
    BY <1>1, <2>1 DEF GoodRows
  <2>2. CASE phase[r][i].status = "pending" /\ Begun(r)
    <3>1. run[r].status \notin RunSuccess
      BY <1>1, <1>2 DEF GoodRows
    <3>2. run[r].status # "failed"
      <4>1. SUFFICES ASSUME run[r].status = "failed" PROVE FALSE
        OBVIOUS
      <4>2. PICK k \in Phases : phase[r][k].status = "failed"
        BY <1>1, <4>1 DEF GoodRows
      <4>3. k < i \/ i < k \/ k = i
        BY DEF Phases
      <4>4. QED
        BY <1>3, <1>4, <2>2, <4>2, <4>3 DEF Successful, HandlerStatus
    <3>3. QED
      BY <1>1, <2>2, <3>1, <3>2 DEF RunRow, RunStatus, Begun
  <2>3. QED
    BY <2>1, <2>2
<1>6. QED
  BY <1>3, <1>4, <1>5

LEMMA StartPhaseStep ==
  ASSUME IInv, NEW p \in Procs, StartPhase(p)
  PROVE  IInv' /\ RowsProtected /\ RowsStep
<1> DEFINE r == view[p].run
           i == view[p].phase
           g == [status |-> "running", attempt |-> phase[r][i].attempt + 1,
                 output |-> 0, source |-> {}]
           f == [phase[r] EXCEPT ![i] = g]
           v == [view[p] EXCEPT !.attempt = phase[r][i].attempt + 1]
<1>1. pc[p] = "start_phase"
  BY DEF StartPhase
<1>2. CASE Exit(p) /\ UNCHANGED Rows
  BY <1>2, ExitStep
<1>3. CASE /\ CanTransitionPhase(r, i, "running", "state_transition")
           /\ TransitionPhase(r, i, "running", 0, {})
           /\ Goto(p, "handling")
           /\ view' = [view EXCEPT ![p].attempt = phase[r][i].attempt + 1]
  <2>1. r \in Runs /\ i \in Phases /\ view[p] \in View /\ ~view[p].owned
        /\ EarlierSuccessful(r, i) /\ Begun(r)
    BY <1>1, PlaceOfType DEF IInv, ProcessOK, View
  <2>2. run[r] \in RunRow /\ phase[r] \in [Phases -> PhaseRow] /\ GoodRows(run[r], phase[r])
    BY <2>1, RowsAreGood
  <2>3. phase[r][i].status = "pending"
    BY <1>3 DEF CanTransitionPhase, PhaseAllowed, PhaseTargets, HandlerStatus, StatusOf
  <2>4. /\ run[r].status = "running"
        /\ \A j \in Phases : j < i => phase[r][j].status \in Successful
        /\ \A j \in Phases : i < j => phase[r][j].status = "pending"
    BY <2>1, <2>3, Neighbours
  <2>5. g \in PhaseRow /\ phase[r][i].attempt + 1 \in Nat
    BY <2>1, <2>2 DEF PhaseRow, PhaseStatus
  <2>6. f \in [Phases -> PhaseRow] /\ f[i] = g
        /\ \A j \in Phases \ {i} : f[j] = phase[r][j]
    BY <2>1, <2>2, <2>5
  <2>7. run' = [run EXCEPT ![r] = run[r]] /\ phase' = [phase EXCEPT ![r] = f]
    BY <1>3 DEF TransitionPhase, NextPhaseRow, IInv, TypeOK, RepositoryTypeOK
  <2>8. pc' = [pc EXCEPT ![p] = "handling"] /\ view' = [view EXCEPT ![p] = v]
    BY <1>3 DEF Goto, IInv, TypeOK
  <2>9. v \in View /\ v.run = r /\ v.phase = i /\ ~v.owned /\ v.attempt = g.attempt
    BY <2>1, <2>5 DEF View
  <2>10. "running" \notin Successful /\ "running" \notin RunSuccess
         /\ "running" \notin HandlerStatus
    BY DEF Successful, HandlerStatus, RunSuccess
  <2>11. GoodRows(run[r], f)
    <3> HIDE DEF f
    <3>1. InOrder(f)
      <4>1. \A j, k \in Phases : k < j => k # j /\ (~(k < i) => i < j)
        BY <2>1 DEF Phases
      <4>2. ASSUME NEW j \in Phases, NEW k \in Phases, k < j, f[j].status # "pending"
            PROVE  f[k].status \in Successful
        <5>1. CASE j = i
          BY <2>4, <2>6, <4>1, <4>2, <5>1
        <5>2. CASE j # i
          BY <2>4, <2>6, <4>1, <4>2, <5>2
        <5>3. QED
          BY <5>1, <5>2
      <4>3. QED
        BY <4>2 DEF InOrder
    <3>2. \A j \in Phases : f[j].status # "failed"
      BY <2>2, <2>4, <2>6, WhatGoodRowsSay DEF FailedPhase
    <3>3. Outputs(f)
      BY <2>2, <2>6, <2>10, WhatGoodRowsSay DEF Outputs
    <3>4. QED
      BY <2>4, <2>10, <3>1, <3>2, <3>3 DEF GoodRows, InOrder, Outputs
  <2>12. (\A j \in Phases : StatusOf(r, j) # "running") /\ OthersElsewhere(p, r)
    <3>1. \A j \in Phases : phase[r][j].status # "running"
      <4>1. \A j \in Phases : j < i \/ i < j \/ j = i
        BY <2>1 DEF Phases
      <4>2. QED
        BY <2>3, <2>4, <2>10, <4>1
    <3>2. QED
      BY <3>1, OwnerIsRunning DEF OthersElsewhere, StatusOf
  <2>13. pc'[p] = "handling" /\ view'[p] = v /\ run'[r] = run[r] /\ phase'[r] = f
    BY <2>1, <2>7, <2>8 DEF IInv, TypeOK, RepositoryTypeOK
  <2>14. ProcessOK(p)' /\ OwnershipOf(p)'
    <3> HIDE DEF v, f
    <3>1. Owner(p)'
      BY <2>13 DEF Owner, OwnerPC
    <3>2. QED
      BY SMTT(30), <2>1, <2>4, <2>6, <2>9, <2>13, <3>1 DEF ProcessOK, OwnershipOf, OwnerPC, Exists
  <2>15. \A j \in Phases : StatusOf(r, j) \in Successful => f[j] = phase[r][j]
    BY <2>3, <2>6 DEF StatusOf, Successful, HandlerStatus
  <2>16. "handling" \in PC
    BY DEF PC
  <2>17. RowsOfRunStep(r, run[r], f)
    BY <2>1, <2>3, <2>4, <2>5, <2>12 DEF RowsOfRunStep, StatusOf
  <2> HIDE DEF v, f, g
  <2>18. QED
    BY ZenonT(40), <2>1, <2>2, <2>4, <2>6, <2>7, <2>8, <2>9, <2>11, <2>12, <2>14, <2>15, <2>16, <2>17,
       ChangeRows
<1>4. QED
  BY <1>2, <1>3 DEF StartPhase

LEMMA CompleteStep ==
  ASSUME IInv, NEW p \in Procs, Complete(p)
  PROVE  IInv' /\ RowsProtected /\ RowsStep
<1> DEFINE r == view[p].run
           i == view[p].phase
           g == NextPhaseRow(phase[r][i], view[p].outcome, view[p].attempt, {})
           f == [phase[r] EXCEPT ![i] = g]
           l == IF view[p].proceed THEN "loop" ELSE "pause"
           v == [Blank EXCEPT !.run = r]
<1>1. pc[p] = "complete" /\ Owner(p)
  BY DEF Complete, Owner, OwnerPC
<1>2. r \in Runs /\ i \in Phases /\ view[p] \in View
      /\ run[r].status = "running" /\ phase[r][i].status = "running"
      /\ phase[r][i].attempt = view[p].attempt
  BY <1>1, OwnerIsRunning, PlaceOfType DEF OwnershipOf, OwnerPC, StatusOf
<1>3. run[r] \in RunRow /\ phase[r] \in [Phases -> PhaseRow] /\ GoodRows(run[r], phase[r])
  BY <1>2, RowsAreGood
<1>4. /\ \A j \in Phases : j < i => phase[r][j].status \in Successful
      /\ \A j \in Phases : i < j => phase[r][j].status = "pending"
  BY <1>2, Neighbours
<1>5. view[p].outcome \in HandlerStatus /\ view[p].outcome # "running"
      /\ view[p].outcome \in Successful /\ view[p].outcome # "failed"
  BY <1>2 DEF View, HandlerStatus, Successful
<1>6. phase[r][i] \in PhaseRow /\ phase[r][i].output = 0
  BY <1>2, <1>3 DEF GoodRows
<1>7. g \in PhaseRow /\ g.status = view[p].outcome /\ g.attempt = view[p].attempt
      /\ g.output = view[p].attempt
  BY <1>2, <1>5, <1>6 DEF NextPhaseRow, PhaseRow, PhaseStatus, Successful
<1>8. f \in [Phases -> PhaseRow] /\ f[i] = g /\ \A j \in Phases \ {i} : f[j] = phase[r][j]
  BY <1>2, <1>3, <1>7
<1>9. run' = [run EXCEPT ![r] = run[r]] /\ phase' = [phase EXCEPT ![r] = f]
  BY DEF Complete, TransitionPhase, IInv, TypeOK, RepositoryTypeOK
<1>10. pc' = [pc EXCEPT ![p] = l] /\ view' = [view EXCEPT ![p] = v]
  BY DEF Complete, Goto
<1>11. v \in View /\ v.run = r /\ ~v.owned
  BY <1>2, BlankIsView DEF Blank, View
<1>12. pc'[p] = l /\ view'[p] = v /\ run'[r] = run[r] /\ phase'[r] = f
  BY <1>2, <1>9, <1>10 DEF IInv, TypeOK, RepositoryTypeOK
<1>13. GoodRows(run[r], f)
  <2> HIDE DEF f, g
  <2>1. \A j, k \in Phases : k < j /\ f[j].status # "pending" => f[k].status \in Successful
    BY <1>2, <1>3, <1>4, <1>5, <1>7, <1>8 DEF GoodRows, Phases
  <2>2. \A j \in Phases : f[j].status # "failed"
    BY <1>2, <1>3, <1>5, <1>7, <1>8 DEF GoodRows
  <2>3. \A j \in Phases :
          /\ f[j].status \in HandlerStatus => f[j].output = f[j].attempt
          /\ f[j].status \in {"pending", "running", "failed"} => f[j].output = 0
    BY <1>3, <1>5, <1>7, <1>8 DEF GoodRows, HandlerStatus
  <2>4. "running" \notin RunSuccess
    BY DEF RunSuccess
  <2>5. QED
    BY <1>2, <2>1, <2>2, <2>3, <2>4 DEF GoodRows
<1>14. OthersElsewhere(p, r)
  BY <1>1 DEF OthersElsewhere, IInv, OneOwner
<1>15. ~Owner(p)'
  BY <1>11, <1>12 DEF Owner, OwnerPC
<1>16. ProcessOK(p)' /\ OwnershipOf(p)'
  <2> HIDE DEF v, f
  <2>1. QED
    BY <1>2, <1>11, <1>12, <1>15 DEF ProcessOK, OwnershipOf, Exists
<1>17. \A j \in Phases : StatusOf(r, j) \in Successful => f[j] = phase[r][j]
  BY <1>2, <1>8 DEF StatusOf, Successful, HandlerStatus
<1>18. l \in PC
  BY DEF PC
<1>19. \A j \in Phases : StatusOf(r, j) = "running" => Owns(p, r, j)
  <2>1. \A j \in Phases : j < i \/ i < j \/ j = i
    BY <1>2 DEF Phases
  <2>2. "running" \notin Successful
    BY DEF Successful, HandlerStatus
  <2>3. QED
    BY <1>1, <1>4, <2>1, <2>2 DEF StatusOf, Owns
<1> HIDE DEF g
<1>20. RowsOfRunStep(r, run[r], f)
  BY <1>2, <1>5, <1>7 DEF RowsOfRunStep, StatusOf
<1> HIDE DEF v, f, l
<1>21. QED
  BY <1>2, <1>3, <1>8, <1>9, <1>10, <1>11, <1>13, <1>14, <1>15, <1>16, <1>17, <1>18,
     <1>19, <1>20, ChangeRows

LEMMA FailPhaseStep ==
  ASSUME IInv, NEW p \in Procs, FailPhase(p)
  PROVE  IInv' /\ RowsProtected /\ RowsStep
<1> DEFINE r == view[p].run
           i == view[p].phase
           x == [run[r] EXCEPT !.status = "failed", !.failure = i]
           g == [status |-> "failed", attempt |-> phase[r][i].attempt,
                 output |-> 0, source |-> {}]
           f == [phase[r] EXCEPT ![i] = g]
<1>1. CASE UNCHANGED Rows
  BY <1>1, ExitStep DEF FailPhase
<1>2. CASE FailRunning(r, i)
  <2>1. pc[p] = "fail" /\ Owner(p) /\ Exit(p)
    BY DEF FailPhase, Owner, OwnerPC
  <2>2. r \in Runs /\ i \in Phases /\ run[r].status = "running"
        /\ phase[r][i].status = "running"
    BY <2>1, OwnerIsRunning DEF StatusOf
  <2>3. run[r] \in RunRow /\ phase[r] \in [Phases -> PhaseRow] /\ GoodRows(run[r], phase[r])
    BY <2>2, RowsAreGood
  <2>4. /\ \A j \in Phases : j < i => phase[r][j].status \in Successful
        /\ \A j \in Phases : i < j => phase[r][j].status = "pending"
        /\ \A j \in Phases : j < i \/ i < j \/ j = i
    BY <2>2, Neighbours DEF Phases
  <2>5. x \in RunRow /\ x.status = "failed" /\ x.failure = i
    BY <2>2, <2>3 DEF RunRow, RunStatus
  <2>6. g \in PhaseRow
    BY <2>2, <2>3 DEF PhaseRow, PhaseStatus
  <2>7. f \in [Phases -> PhaseRow] /\ f[i] = g /\ \A j \in Phases \ {i} : f[j] = phase[r][j]
    BY <2>2, <2>3, <2>6
  <2>8. run' = [run EXCEPT ![r] = x] /\ phase' = [phase EXCEPT ![r] = f]
    BY <1>2 DEF FailRunning, IInv, TypeOK, RepositoryTypeOK
  <2>9. pc' = [pc EXCEPT ![p] = "idle"] /\ view' = [view EXCEPT ![p] = Blank]
    BY <2>1 DEF Exit, Goto
  <2>10. "failed" \notin Successful /\ "running" \notin Successful /\ "failed" \notin RunSuccess
         /\ "failed" \notin HandlerStatus
    BY DEF Successful, HandlerStatus, RunSuccess
  <2>11. GoodRows(x, f)
    <3> HIDE DEF x, f
    <3>1. InOrder(f)
      <4>1. \A j, k \in Phases : k < j /\ ~(k < i) => i < j
        BY <2>2 DEF Phases
      <4>2. QED
        BY <2>2, <2>3, <2>4, <2>7, <2>10, <4>1, WhatGoodRowsSay DEF InOrder
    <3>2. \A j \in Phases : f[j].status # "running"
      BY <2>4, <2>7, <2>10
    <3>3. \A j \in Phases : f[j].status = "failed" <=> j = i
      BY <2>2, <2>3, <2>7, WhatGoodRowsSay DEF FailedPhase
    <3>4. Outputs(f)
      BY <2>3, <2>7, <2>10, WhatGoodRowsSay DEF Outputs
    <3>5. QED
      BY <2>2, <2>5, <2>10, <3>1, <3>2, <3>3, <3>4 DEF GoodRows, InOrder, Outputs
  <2>12. OthersElsewhere(p, r)
    BY <2>1 DEF OthersElsewhere, IInv, OneOwner
  <2>13. pc'[p] = "idle" /\ view'[p] = Blank
    BY <2>9 DEF IInv, TypeOK
  <2>14. ~Owner(p)' /\ ProcessOK(p)' /\ OwnershipOf(p)'
    BY <2>13 DEF Owner, OwnerPC, ProcessOK, OwnershipOf, Blank
  <2>15. \A j \in Phases : StatusOf(r, j) \in Successful => f[j] = phase[r][j]
    BY <2>2, <2>7, <2>10 DEF StatusOf
  <2>16. "idle" \in PC
    BY DEF PC
  <2>17. run[r].status \notin RunSuccess
         /\ \A j \in Phases : StatusOf(r, j) = "running" => Owns(p, r, j)
    BY <2>1, <2>2, <2>4, <2>10 DEF StatusOf, Owns, RunSuccess
  <2>18. RowsOfRunStep(r, x, f)
    BY <2>2, <2>5, <2>6 DEF RowsOfRunStep, StatusOf
  <2> HIDE DEF x, f, g
  <2>19. QED
    BY <2>2, <2>5, <2>7, <2>8, <2>9, <2>11, <2>12, <2>14, <2>15, <2>16, <2>17, <2>18,
       BlankIsView, ChangeRows
<1>3. QED
  BY <1>1, <1>2 DEF FailPhase

LEMMA FinalizeStep ==
  ASSUME IInv, NEW p \in Procs, Finalize(p)
  PROVE  IInv' /\ RowsProtected /\ RowsStep
<1> DEFINE r == view[p].run
           x == [run[r] EXCEPT !.status = view[p].outcome, !.failure = NoPhase]
<1>1. CASE UNCHANGED Rows
  BY <1>1, ExitStep DEF Finalize
<1>2. CASE /\ CanTransitionRun(r, view[p].outcome, "state_transition", NoPhase)
           /\ TransitionRun(r, view[p].outcome, NoPhase)
  <2>1. pc[p] = "finalize" /\ Exit(p)
    BY DEF Finalize
  <2>2. r \in Runs /\ view[p] \in View /\ AllSuccessful(r)
        /\ view[p].outcome = FinalStatus(PhaseStatuses(r))
    BY <2>1, PlaceOfType DEF IInv, ProcessOK
  <2>3. run[r] \in RunRow /\ phase[r] \in [Phases -> PhaseRow] /\ GoodRows(run[r], phase[r])
    BY <2>2, RowsAreGood
  <2>4. view[p].outcome \in RunSuccess /\ view[p].outcome \in RunStatus
    BY <2>2 DEF View, HandlerStatus, RunSuccess, RunStatus
  <2>5. x \in RunRow /\ x.status = view[p].outcome /\ x.failure = NoPhase
    BY <2>3, <2>4 DEF RunRow
  <2>6. run' = [run EXCEPT ![r] = x] /\ phase' = [phase EXCEPT ![r] = phase[r]]
    BY <1>2 DEF TransitionRun, IInv, TypeOK, RepositoryTypeOK
  <2>7. pc' = [pc EXCEPT ![p] = "idle"] /\ view' = [view EXCEPT ![p] = Blank]
    BY <2>1 DEF Exit, Goto
  <2>8. \A j \in Phases : phase[r][j].status \in Successful
    BY <2>2 DEF AllSuccessful, StatusOf
  <2>9. view[p].outcome = FinalStatus({phase[r][j].status : j \in Phases})
    BY <2>2 DEF PhaseStatuses, StatusOf
  <2>10. view[p].outcome \notin {"absent", "pending", "failed", "running"}
    BY <2>4 DEF RunSuccess
  <2>11. "failed" \notin Successful /\ "running" \notin Successful
    BY DEF Successful, HandlerStatus
  <2>12. GoodRows(x, phase[r])
    <3> HIDE DEF x
    <3>1. QED
      BY <2>3, <2>5, <2>8, <2>9, <2>10, <2>11 DEF GoodRows
  <2>13. OthersElsewhere(p, r)
    BY <2>8, <2>11, OwnerIsRunning DEF OthersElsewhere, StatusOf
  <2>14. pc'[p] = "idle" /\ view'[p] = Blank
    BY <2>7 DEF IInv, TypeOK
  <2>15. ~Owner(p)' /\ ProcessOK(p)' /\ OwnershipOf(p)'
    BY <2>14 DEF Owner, OwnerPC, ProcessOK, OwnershipOf, Blank
  <2>16. "idle" \in PC
    BY DEF PC
  <2>17. run[r].status = "running"
    BY <1>2, <2>4, <2>10 DEF CanTransitionRun, RunAllowed, RunTargets
  <2>18. run[r].status \notin RunSuccess /\ \A j \in Phases : StatusOf(r, j) # "running"
    BY <2>8, <2>11, <2>17 DEF RunSuccess, StatusOf
  <2>19. RowsOfRunStep(r, x, phase[r])
    BY <2>2, <2>4, <2>5, <2>17 DEF RowsOfRunStep
  <2> HIDE DEF x
  <2>20. QED
    BY <2>2, <2>3, <2>5, <2>6, <2>7, <2>10, <2>12, <2>13, <2>15, <2>16, <2>18, <2>19,
       BlankIsView, ChangeRows
<1>3. QED
  BY <1>1, <1>2 DEF Finalize

-----------------------------------------------------------------------------
(***************************************************************************)
(* The invariant holds in every reachable state: rows and processes fit    *)
(* together whatever the processes do, and wherever they die.              *)
(***************************************************************************)
LEMMA NextKeepsIInv == IInv /\ [Next]_vars => IInv' /\ RowsProtected /\ RowsStep
<1> SUFFICES ASSUME IInv, [Next]_vars PROVE IInv' /\ RowsProtected /\ RowsStep
  OBVIOUS
<1>1. CASE UNCHANGED vars
  <2>1. UNCHANGED <<run, phase, pc, view>>
    BY <1>1 DEF vars
  <2>2. RepositoryTypeOK' /\ TypeOK'
    BY <2>1 DEF IInv, TypeOK, RepositoryTypeOK
  <2>3. TablesOK'
    BY <2>1, RowsAreGood, GoodRowsSuffice
  <2>4. \A p \in Procs : Owner(p)' = Owner(p)
    BY <2>1 DEF Owner
  <2>5. AttemptOwnership' /\ OneOwner'
    BY <2>1, <2>4 DEF IInv, AttemptOwnership, OneOwner
  <2>6. ASSUME NEW p \in Procs PROVE ProcessOK(p)'
    <3>1. ProcessOK(p)
      BY DEF IInv
    <3>2. QED
      BY <2>1, <2>4, <3>1
      DEF ProcessOK, EarlierSuccessful, AllSuccessful, PhaseStatuses, StatusOf, Begun, Exists
  <2>7. RowsProtected /\ RowsStep
    BY <2>1 DEF RowsProtected, RowsStep, Rows
  <2>8. QED
    BY <2>2, <2>3, <2>5, <2>6, <2>7 DEF IInv
<1>2. CASE Next
  <2>1. PICK p \in Procs : Command(p) \/ Step(p) \/ Crash(p)
    BY <1>2 DEF Next
  <2>2. CASE Command(p)
    BY <2>2, StartStep, BeginStep DEF Command
  <2>3. CASE Step(p)
    BY <2>3, ExecuteStep, ResumeStep, RetryStep, LoopStep, PlanOwnedStep, PlanPhaseStep,
       QuietStep, StartRunStep, StartPhaseStep, HandlerReturnsStep, RaisesStep,
       CompleteStep, FailPhaseStep, PauseStep, FinalizeStep
    DEF Step
  <2>4. CASE Crash(p)
    BY <2>4, QuietStep
  <2>5. QED
    BY <2>1, <2>2, <2>3, <2>4
<1>3. QED
  BY <1>1, <1>2

THEOREM Invariance == Spec => []IInv
<1>1. Init => IInv
  BY InitIInv
<1>2. IInv /\ [Next]_vars => IInv'
  BY NextKeepsIInv
<1>3. QED
  BY <1>1, <1>2, PTL DEF Spec

(***************************************************************************)
(* Rows, program counters and views stay in their ranges: no transaction   *)
(* writes a status the CHECK constraints of the tables do not know.        *)
(***************************************************************************)
THEOREM Typing == Spec => []TypeOK
<1>1. IInv => TypeOK
  BY DEF IInv
<1>2. QED
  BY <1>1, Invariance, PTL

(***************************************************************************)
(* Any number of processes running execute and resume of the same run,     *)
(* with reads of any age and crashes anywhere: at most one of them is      *)
(* executing a phase of the run.                                           *)
(***************************************************************************)
THEOREM MutualExclusion == Spec => []OneOwner
<1>1. IInv => OneOwner
  BY DEF IInv
<1>2. QED
  BY <1>1, Invariance, PTL

(***************************************************************************)
(* A handler's result is recorded on the attempt it was called for: while  *)
(* a process owns a phase, run and phase are running and the attempt       *)
(* number has not moved.                                                   *)
(***************************************************************************)
THEOREM AttemptsAreOwned == Spec => []AttemptOwnership
<1>1. IInv => AttemptOwnership
  BY DEF IInv
<1>2. QED
  BY <1>1, Invariance, PTL

(***************************************************************************)
(* The dependency barrier: no phase leaves "pending" before every earlier  *)
(* one is completed.                                                       *)
(***************************************************************************)
THEOREM PhasesInOrder == Spec => []SerialOrder
<1>1. IInv => SerialOrder
  BY DEF IInv, TablesOK
<1>2. QED
  BY <1>1, Invariance, PTL

(***************************************************************************)
(* The run row agrees with the phase rows, including the failure phase it  *)
(* names and the final status computed from an earlier read.               *)
(***************************************************************************)
THEOREM RunRowIsTrue == Spec => []RunMatchesPhases
<1>1. IInv => RunMatchesPhases
  BY DEF IInv, TablesOK
<1>2. QED
  BY <1>1, Invariance, PTL

\* A completed phase stores the output of its own last attempt.
THEOREM OutputsAreCurrent == Spec => []OutputOfItsAttempt
<1>1. IInv => OutputOfItsAttempt
  BY DEF IInv, TablesOK
<1>2. QED
  BY <1>1, Invariance, PTL

(***************************************************************************)
(* Completed phases and closed runs are final, whatever a process with a   *)
(* stale view tries.                                                       *)
(***************************************************************************)
THEOREM CompletedWorkStays == Spec => CompletedIsFinal
<1> DEFINE A == \A r \in Runs :
                  /\ run[r].status \in RunSuccess => run'[r] = run[r]
                  /\ \A i \in Phases :
                       StatusOf(r, i) \in Successful => phase'[r][i] = phase[r][i]
<1>1. IInv /\ [Next]_vars => [A]_vars
  BY NextKeepsIInv DEF RowsProtected
<1>2. QED
  BY <1>1, Invariance, PTL DEF Spec, CompletedIsFinal

(***************************************************************************)
(* The rows of a run whose process died in a handler never change again:   *)
(* neither execute nor resume takes the phase over.                        *)
(***************************************************************************)
THEOREM OrphansAreLeftAlone == Spec => OrphanUntouched
<1> DEFINE A == \A r \in Runs, i \in Phases :
                  StatusOf(r, i) = "running" /\ (\A p \in Procs : ~Owns(p, r, i))
                    => phase'[r] = phase[r] /\ run'[r] = run[r]
<1>1. IInv /\ [Next]_vars => [A]_vars
  BY NextKeepsIInv DEF RowsProtected
<1>2. QED
  BY <1>1, Invariance, PTL DEF Spec, OrphanUntouched

(***************************************************************************)
(* The two together: one process per run, in the attempt the rows name.    *)
(***************************************************************************)
THEOREM WorkIsOwned == Spec => []Ownership
<1>1. IInv => Ownership
  BY DEF IInv, Ownership
<1>2. QED
  BY <1>1, Invariance, PTL

\* The rows of a run agree with each other in every reachable state.
THEOREM TablesAgree == Spec => []TablesOK
<1>1. IInv => TablesOK
  BY DEF IInv
<1>2. QED
  BY <1>1, Invariance, PTL

\* Completed rows and orphaned ones are never written again.
THEOREM SettledWorkStays == Spec => SettledRowsStay
  BY CompletedWorkStays, OrphansAreLeftAlone DEF SettledRowsStay

-----------------------------------------------------------------------------
\* Compared as initial segments, the elements of T are well-founded.
LEMMA LeastElement ==
  ASSUME NEW n \in Nat, NEW T, T \subseteq 1 .. n, T # {}
  PROVE  \E m \in T : \A k \in T : m <= k
<1> DEFINE S == 1 .. n
           R == StrictSubsetOrdering(S)
           U == {1 .. m : m \in T}
<1>1. IsWellFoundedOn(R, FiniteSubsetsOf(S))
  BY FS_StrictSubsetOrderingWellFounded
<1>2. U \subseteq FiniteSubsetsOf(S) /\ U # {}
  <2>1. \A m \in T : 1 .. m \subseteq S
    OBVIOUS
  <2>2. \A m \in T : IsFiniteSet(1 .. m)
    <3>1. \A m \in T : m \in Int
      OBVIOUS
    <3>2. QED
      BY <3>1, FS_Interval
  <2>3. QED
    BY <2>1, <2>2 DEF FiniteSubsetsOf
<1>3. PICK u \in U : \A w \in U : <<w, u>> \notin R
  <2> HIDE DEF R, U, S
  <2>1. QED
    BY <1>1, <1>2, WFMin
<1>4. PICK m \in T : u = 1 .. m
  BY <1>3
<1>5. ASSUME NEW k \in T, k < m PROVE FALSE
  <2>1. 1 .. k \subseteq 1 .. m /\ m \in 1 .. m /\ m \notin 1 .. k
    BY <1>5
  <2>2. <<1 .. k, 1 .. m>> \in R
    BY <2>1 DEF StrictSubsetOrdering
  <2>3. QED
    BY <1>3, <1>4, <2>2
<1>6. QED
  BY <1>5

LEMMA SomethingToResume == IInv => ResumableIsActionable
<1> SUFFICES ASSUME IInv, NEW r \in Runs, Resumable(r)
             PROVE  \/ \E i \in Phases : run[r].failure = i /\ CanResumeFailed(r, i)
                    \/ \E i \in Phases : FirstIncomplete(r, i) /\ StatusOf(r, i) = "pending"
                    \/ AllSuccessful(r) /\ run[r].status = "running"
  BY DEF ResumableIsActionable
<1>1. run[r] \in RunRow /\ phase[r] \in [Phases -> PhaseRow] /\ GoodRows(run[r], phase[r])
  BY RowsAreGood
<1>2. CASE run[r].status = "failed"
  <2>1. PICK i \in Phases : run[r].failure = i /\ phase[r][i].status = "failed"
    BY <1>1, <1>2 DEF GoodRows
  <2>2. QED
    BY <1>2, <2>1 DEF CanResumeFailed, RunAllowed, PhaseAllowed, StatusOf
<1>3. CASE run[r].status = "pending"
  <2>1. 1 \in Phases /\ \A j \in Phases : ~(j < 1)
    BY NumPhasesAssumption DEF Phases
  <2>2. StatusOf(r, 1) = "pending"
    BY <1>1, <1>3, <2>1 DEF GoodRows, PendingPhase, StatusOf
  <2>3. QED
    BY <2>1, <2>2 DEF FirstIncomplete, Successful, HandlerStatus
<1>4. CASE run[r].status = "running" /\ RunningPhases(r) = {} /\ ~AllSuccessful(r)
  <2> DEFINE T == {i \in Phases : StatusOf(r, i) \notin Successful}
  <2>1. T \subseteq 1 .. NumPhases /\ T # {} /\ NumPhases \in Nat
    BY <1>4, NumPhasesAssumption DEF AllSuccessful, Phases
  <2>2. PICK m \in T : \A k \in T : m <= k
    <3> HIDE DEF T
    <3>1. QED
      BY <2>1, LeastElement
  <2>3. FirstIncomplete(r, m)
    BY <2>2, NumPhasesAssumption DEF FirstIncomplete, Phases
  <2>4. StatusOf(r, m) # "running" /\ StatusOf(r, m) # "failed"
    BY <1>1, <1>4 DEF RunningPhases, GoodRows, StatusOf
  <2>5. StatusOf(r, m) \in PhaseStatus
    BY <1>1 DEF PhaseRow, StatusOf
  <2>6. StatusOf(r, m) = "pending"
    BY <2>4, <2>5 DEF PhaseStatus
  <2>7. QED
    BY <2>3, <2>6
<1>5. QED
  BY <1>2, <1>3, <1>4 DEF Resumable

(***************************************************************************)
(* Wherever a crash struck: a run that is failed, pending, or running with *)
(* no running phase has a failed phase to retry, a pending phase to claim, *)
(* or only its finalization left.                                          *)
(***************************************************************************)
THEOREM ResumeHasWork == Spec => []ResumableIsActionable
BY Invariance, SomethingToResume, PTL

-----------------------------------------------------------------------------
\* Counting the phases that are done.

DonePhases(r) == {i \in Phases : StatusOf(r, i) \in Successful}

LEMMA DoneIsCount ==
  ASSUME NEW r \in Runs
  PROVE  /\ IsFiniteSet(DonePhases(r)) /\ DoneOf(r) = Cardinality(DonePhases(r))
         /\ DoneOf(r) \in Nat /\ DoneOf(r) <= NumPhases
         /\ DoneOf(r) = NumPhases <=> AllSuccessful(r)
<1>1. IsFiniteSet(Phases) /\ Cardinality(Phases) = NumPhases
  <2>1. NumPhases \in Int /\ ~(1 > NumPhases) /\ 1 \in Int /\ NumPhases - 1 + 1 = NumPhases
    BY NumPhasesAssumption
  <2>2. QED
    BY <2>1, FS_Interval DEF Phases
<1>2. DonePhases(r) \in SUBSET Phases
  BY DEF DonePhases
<1>3. IsFiniteSet(DonePhases(r)) /\ Cardinality(DonePhases(r)) <= NumPhases
      /\ (NumPhases = Cardinality(DonePhases(r)) => Phases = DonePhases(r))
  BY <1>1, <1>2, FS_Subset
<1>4. DoneOf(r) = Cardinality(DonePhases(r))
  BY DEF DoneOf, DonePhases
<1>5. DoneOf(r) \in Nat
  BY <1>3, <1>4, FS_CardinalityType
<1>6. AllSuccessful(r) <=> DonePhases(r) = Phases
  BY DEF AllSuccessful, DonePhases
<1>7. QED
  BY <1>1, <1>3, <1>4, <1>5, <1>6

-----------------------------------------------------------------------------
\* What a step of the rows of one run does to its mode and its count.

OthersUnmoved(r) ==
  \A q \in Runs \ {r} : ModeOf(q)' = ModeOf(q) /\ DoneOf(q)' = DoneOf(q)

LEMMA Moved ==
  ASSUME NEW r \in Runs, OthersUnmoved(r), NEW to, ModeOf(r)' = to
  PROVE  /\ Serial!Move(r, ModeOf(r), to)
         /\ DoneOf(r)' = DoneOf(r) =>
              [q \in Runs |-> DoneOf(q)]' = [q \in Runs |-> DoneOf(q)]
         /\ DoneOf(r)' = DoneOf(r) + 1 =>
              [q \in Runs |-> DoneOf(q)]' =
                [[q \in Runs |-> DoneOf(q)] EXCEPT ![r] = @ + 1]
<1>1. [q \in Runs |-> ModeOf(q)]' = [[q \in Runs |-> ModeOf(q)] EXCEPT ![r] = to]
  BY DEF OthersUnmoved
<1>2. Serial!Move(r, ModeOf(r), to)
  BY <1>1 DEF Serial!Move
<1>3. QED
  BY <1>2 DEF OthersUnmoved

LEMMA SameDone ==
  ASSUME NEW r \in Runs,
         \A i \in Phases : StatusOf(r, i)' \in Successful <=> StatusOf(r, i) \in Successful
  PROVE  DoneOf(r)' = DoneOf(r)
BY DEF DoneOf

SerialVars == <<[r \in Runs |-> ModeOf(r)], [r \in Runs |-> DoneOf(r)]>>

LEMMA RowsOfRunStepIsSerial ==
  ASSUME IInv, NEW r \in Runs, NEW x \in RunRow, NEW f \in [Phases -> PhaseRow],
         OthersUnmoved(r), run'[r] = x, phase'[r] = f, RowsOfRunStep(r, x, f)
  PROVE  Serial!Next \/ UNCHANGED SerialVars
<1> USE DEF StatusOf
<1>1. run[r] \in RunRow /\ phase[r] \in [Phases -> PhaseRow] /\ GoodRows(run[r], phase[r])
  BY RowsAreGood
<1>2. /\ "running" \notin Successful /\ "failed" \notin Successful
      /\ "pending" \notin Successful
      /\ {"absent", "pending", "running", "failed"} \cap RunSuccess = {}
  BY DEF Successful, HandlerStatus, RunSuccess
<1>3. ASSUME f = phase[r]
      PROVE  DoneOf(r)' = DoneOf(r) /\ RunningPhases(r)' = RunningPhases(r)
  BY <1>3, SameDone DEF RunningPhases
<1>4. CASE f = phase[r] /\ run[r].status = "absent" /\ x.status = "pending"
  <2>1. ModeOf(r) = "none" /\ ModeOf(r)' = "waiting"
    <3>1. RunningPhases(r) = {}
      BY <1>1, <1>4 DEF RunningPhases, GoodRows, PendingPhase
    <3>2. QED
      BY <1>2, <1>3, <1>4, <3>1 DEF ModeOf
  <2>2. Serial!Create(r)
    BY <1>3, <1>4, <2>1, Moved DEF Serial!Create
  <2>3. QED
    BY <2>2 DEF Serial!Next
<1>5. CASE f = phase[r] /\ run[r].status = "running" /\ x.status \in RunSuccess
           /\ AllSuccessful(r)
  <2>1. ModeOf(r) = "waiting" /\ ModeOf(r)' = "closed"
    <3>1. RunningPhases(r) = {}
      BY <1>2, <1>5 DEF RunningPhases, AllSuccessful
    <3>2. QED
      BY <1>2, <1>5, <3>1 DEF ModeOf
  <2>2. Serial!Close(r)
    BY <1>3, <1>5, <2>1, Moved, DoneIsCount DEF Serial!Close
  <2>3. QED
    BY <2>2 DEF Serial!Next
<1>6. ASSUME NEW i \in Phases, NEW g \in PhaseRow, f = [phase[r] EXCEPT ![i] = g]
      PROVE  f[i] = g /\ \A j \in Phases \ {i} : f[j] = phase[r][j]
  BY <1>1, <1>6
<1>7. ASSUME NEW i \in Phases, NEW g \in PhaseRow, f = [phase[r] EXCEPT ![i] = g],
             StatusOf(r, i) = "pending", g.status = "running",
             run[r].status = "running", x = run[r],
             \A j \in Phases : StatusOf(r, j) # "running"
      PROVE  Serial!Next
  <2>1. ModeOf(r) = "waiting" /\ ModeOf(r)' = "active"
    BY <1>2, <1>6, <1>7 DEF ModeOf, RunningPhases
  <2>2. DoneOf(r)' = DoneOf(r)
    BY <1>2, <1>6, <1>7, SameDone
  <2>3. DoneOf(r) < NumPhases
    BY <1>2, <1>7, DoneIsCount, NumPhasesAssumption DEF AllSuccessful
  <2>4. Serial!Claim(r)
    BY <2>1, <2>2, <2>3, Moved DEF Serial!Claim
  <2>5. QED
    BY <2>4 DEF Serial!Next
<1>8. ASSUME NEW i \in Phases, NEW g \in PhaseRow, f = [phase[r] EXCEPT ![i] = g],
             StatusOf(r, i) = "failed", g.status = "running",
             run[r].status = "failed", x.status = "running"
      PROVE  Serial!Next
  <2>1. ModeOf(r) = "failed" /\ ModeOf(r)' = "active"
    BY <1>2, <1>6, <1>8 DEF ModeOf, RunningPhases
  <2>2. DoneOf(r)' = DoneOf(r)
    BY <1>2, <1>6, <1>8, SameDone
  <2>3. Serial!Again(r)
    BY <2>1, <2>2, Moved DEF Serial!Again
  <2>4. QED
    BY <2>3 DEF Serial!Next
<1>9. ASSUME NEW i \in Phases, NEW g \in PhaseRow, f = [phase[r] EXCEPT ![i] = g],
             StatusOf(r, i) = "running", g.status \in Successful,
             run[r].status = "running", x = run[r]
      PROVE  Serial!Next
  <2>1. \A j \in Phases \ {i} : phase[r][j].status # "running"
    BY <1>2, <1>9, Neighbours DEF Phases
  <2>2. ModeOf(r) = "active" /\ ModeOf(r)' = "waiting"
    BY <1>2, <1>6, <1>9, <2>1 DEF ModeOf, RunningPhases
  <2>3. DoneOf(r)' = DoneOf(r) + 1
    <3>1. {j \in Phases : phase'[r][j].status \in Successful} = DonePhases(r) \cup {i}
          /\ i \notin DonePhases(r)
      BY <1>2, <1>6, <1>9 DEF DonePhases
    <3>2. Cardinality(DonePhases(r) \cup {i}) = Cardinality(DonePhases(r)) + 1
      BY <3>1, DoneIsCount, FS_AddElement
    <3>3. QED
      BY <3>1, <3>2, DoneIsCount DEF DoneOf
  <2>4. Serial!FinishPhase(r)
    BY <2>2, <2>3, Moved DEF Serial!FinishPhase
  <2>5. QED
    BY <2>4 DEF Serial!Next
<1>10. ASSUME NEW i \in Phases, NEW g \in PhaseRow, f = [phase[r] EXCEPT ![i] = g],
              StatusOf(r, i) = "running", g.status = "failed",
              run[r].status = "running", x.status = "failed"
       PROVE  Serial!Next
  <2>1. ModeOf(r) = "active" /\ ModeOf(r)' = "failed"
    BY <1>2, <1>6, <1>10 DEF ModeOf, RunningPhases
  <2>2. DoneOf(r)' = DoneOf(r)
    BY <1>2, <1>6, <1>10, SameDone
  <2>3. Serial!Fail(r)
    BY <2>1, <2>2, Moved DEF Serial!Fail
  <2>4. QED
    BY <2>3 DEF Serial!Next
<1>11. CASE f = phase[r] /\ run[r].status = "pending" /\ x.status = "running"
  <2>1. ModeOf(r) = "waiting" /\ ModeOf(r)' = "waiting"
    <3>1. RunningPhases(r) = {}
      BY <1>1, <1>11 DEF RunningPhases, GoodRows, PendingPhase
    <3>2. QED
      BY <1>2, <1>3, <1>11, <3>1 DEF ModeOf
  <2>2. \A q \in Runs : ModeOf(q)' = ModeOf(q) /\ DoneOf(q)' = DoneOf(q)
    BY <1>3, <1>11, <2>1 DEF OthersUnmoved
  <2>3. QED
    BY <2>2 DEF SerialVars
<1>12. QED
  BY <1>4, <1>5, <1>7, <1>8, <1>9, <1>10, <1>11 DEF RowsOfRunStep

LEMMA SerialStep ==
  ASSUME IInv, RowsStep
  PROVE  Serial!Next \/ UNCHANGED SerialVars
<1>1. CASE UNCHANGED Rows
  <2>1. \A q \in Runs : ModeOf(q)' = ModeOf(q) /\ DoneOf(q)' = DoneOf(q)
    BY <1>1 DEF Rows, ModeOf, DoneOf, RunningPhases, StatusOf
  <2>2. QED
    BY <2>1 DEF SerialVars
<1>2. ASSUME NEW r \in Runs, NEW x \in RunRow, NEW f \in [Phases -> PhaseRow],
             run' = [run EXCEPT ![r] = x],
             phase' = [phase EXCEPT ![r] = f],
             RowsOfRunStep(r, x, f)
      PROVE  Serial!Next \/ UNCHANGED SerialVars
  <2>1. run'[r] = x /\ phase'[r] = f
        /\ \A q \in Runs \ {r} : run'[q] = run[q] /\ phase'[q] = phase[q]
    BY <1>2 DEF IInv, TypeOK, RepositoryTypeOK
  <2>2. OthersUnmoved(r)
    BY <2>1 DEF OthersUnmoved, ModeOf, DoneOf, RunningPhases, StatusOf
  <2>3. QED
    BY <1>2, <2>1, <2>2, RowsOfRunStepIsSerial
<1>3. QED
  BY <1>1, <1>2 DEF RowsStep

LEMMA InitIsSerial == Init => Serial!Init
<1> SUFFICES ASSUME Init PROVE Serial!Init
  OBVIOUS
<1>1. \A r \in Runs : run[r] = AbsentRun /\ \A i \in Phases : phase[r][i] = PendingPhase
  BY DEF Init, RepositoryInit
<1>2. ASSUME NEW r \in Runs PROVE ModeOf(r) = "none" /\ DoneOf(r) = 0
  <2>1. {i \in Phases : StatusOf(r, i) \in Successful} = {}
    BY <1>1 DEF StatusOf, PendingPhase, Successful, HandlerStatus
  <2>2. DoneOf(r) = 0
    BY <2>1, FS_EmptySet DEF DoneOf
  <2>3. QED
    BY <1>1, <2>2 DEF ModeOf, AbsentRun
<1>3. QED
  BY <1>2 DEF Serial!Init

(***************************************************************************)
(* The controller implements SerialRun: reads of any age, concurrent       *)
(* commands and crashes are invisible in the modes and counts of the runs. *)
(***************************************************************************)
THEOREM Implementation == Spec => ImplementsSerialRun
<1>1. Init => Serial!Init
  BY InitIsSerial
<1>2. IInv /\ [Next]_vars =>
        [Serial!Next]_<<[r \in Runs |-> ModeOf(r)], [r \in Runs |-> DoneOf(r)]>>
  BY NextKeepsIInv, SerialStep DEF SerialVars
<1>3. Spec => Serial!Spec
  BY <1>1, <1>2, Invariance, PTL DEF Spec, Serial!Spec
<1>4. QED
  BY <1>3 DEF ImplementsSerialRun
=============================================================================
