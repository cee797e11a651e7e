--------------------------- MODULE AppsScriptProofs ---------------------------
(***************************************************************************)
(* The script saves a run's artifact once, for any number of runs and      *)
(* polls, whatever the service does and wherever an execution is cut off.  *)
(***************************************************************************)
EXTENDS AppsScriptClient, TLAPS

\* An execution past its start is about a run.
Engaged == {"store", "status", "download", "save", "clear"}

\* From the download on the run is complete; what is saved has been served.
ExecutionOK ==
  /\ at \in Engaged => subject \in Runs
  /\ at \in {"download", "save", "clear"} => status[subject] \in Complete
  /\ at \in {"save", "clear"} => served[subject]

IInv == ClientTypeOK /\ ExecutionOK /\ SavedOnceWhenComplete

\* A run that is complete stays so, and its artifact stays available.
LEMMA CompleteIsFinal ==
  ASSUME ClientTypeOK,
         \/ \E r \in Runs : Create(r) \/ Run(r) \/ Finish(r)
         \/ \E r \in Runs : FailAll({r})
         \/ UNCHANGED lifecycle
  PROVE  /\ status' \in [Runs -> {"absent", "failed"} \cup Unfinished \cup Complete]
         /\ served' \in [Runs -> BOOLEAN]
         /\ \A r \in Runs : /\ status[r] \in Complete => status'[r] = status[r]
                            /\ served[r] => served'[r]
<1>1. /\ status \in [Runs -> {"absent", "failed"} \cup Unfinished \cup Complete]
      /\ served \in [Runs -> BOOLEAN]
  BY DEF ClientTypeOK
<1>2. ASSUME NEW r \in Runs, Create(r)
      PROVE  /\ status[r] = "absent" /\ status' = [status EXCEPT ![r] = "queued"]
             /\ served' = served
  BY <1>2 DEF Create
<1>3. ASSUME NEW r \in Runs, Run(r)
      PROVE  /\ status[r] = "queued" /\ status' = [status EXCEPT ![r] = "running"]
             /\ served' = served
  BY <1>3 DEF Run
<1>4. ASSUME NEW r \in Runs, Finish(r)
      PROVE  /\ status[r] = "running"
             /\ \E s \in Complete : status' = [status EXCEPT ![r] = s]
             /\ served' = [served EXCEPT ![r] = TRUE]
  BY <1>4 DEF Finish
<1>5. ASSUME NEW r \in Runs, FailAll({r})
      PROVE  /\ status[r] \in Unfinished /\ served' = served
             /\ status' = [s \in Runs |-> IF s \in {r} THEN "failed" ELSE status[s]]
  BY <1>5 DEF FailAll
<1>6. CASE UNCHANGED lifecycle
  BY <1>1, <1>6 DEF lifecycle
<1> QED  BY ZenonT(40), <1>1, <1>2, <1>3, <1>4, <1>5, <1>6 DEF Complete, Unfinished

\* A step of the script that does not save keeps the invariant if it takes up
\* its next phase on the ground the phase stands on.
LEMMA ScriptStep ==
  ASSUME IInv, UNCHANGED lifecycle, drive' = drive,
         runId' \in Runs \cup {NoRun}, polls' \in 0 .. MaxPolls,
         pending' \in BOOLEAN, at' \in At, subject' \in Runs \cup {NoRun},
         at' \in Engaged => subject' \in Runs,
         at' \in {"download", "save", "clear"} => status[subject'] \in Complete,
         at' \in {"save", "clear"} => served[subject']
  PROVE  IInv'
BY DEF IInv, ClientTypeOK, ExecutionOK, SavedOnceWhenComplete, lifecycle

LEMMA Inductive == IInv /\ [Next]_vars => IInv'
<1> SUFFICES ASSUME IInv, [Next]_vars PROVE IInv'
  OBVIOUS
<1>1. /\ status \in [Runs -> {"absent", "failed"} \cup Unfinished \cup Complete]
      /\ served \in [Runs -> BOOLEAN] /\ drive \in [Runs -> Nat]
      /\ runId \in Runs \cup {NoRun} /\ polls \in 0 .. MaxPolls /\ pending \in BOOLEAN
      /\ at \in At /\ subject \in Runs \cup {NoRun} /\ MaxPolls \in Nat
      /\ ClientTypeOK /\ ExecutionOK /\ SavedOnceWhenComplete
  BY MaxPollsAssumption DEF IInv, ClientTypeOK
<1> USE DEF Goto, Leave, ClearActiveRun, Engaged, At
<1>2. ASSUME Trigger PROVE IInv'
  BY <1>1, <1>2, ScriptStep DEF Trigger
<1>3. ASSUME PollFires PROVE IInv'
  <2>1. CASE at = "idle"
    BY <1>1, <1>3, <2>1, ScriptStep DEF PollFires
  <2>2. CASE at # "idle"
    BY <1>1, <1>3, <2>2, ScriptStep DEF PollFires, ExecutionOK
  <2> QED  BY <2>1, <2>2
<1>4. ASSUME PollByHand PROVE IInv'
  BY <1>1, <1>4, ScriptStep DEF PollByHand
<1>5. ASSUME NEW r \in Runs, Started(r) PROVE IInv'
  <2>1. /\ \A s \in Runs : /\ status[s] \in Complete => status'[s] = status[s]
                           /\ served[s] => served'[s]
        /\ status' \in [Runs -> {"absent", "failed"} \cup Unfinished \cup Complete]
        /\ served' \in [Runs -> BOOLEAN]
    BY <1>1, <1>5, CompleteIsFinal DEF Started
  <2>2. /\ at' = "store" /\ subject' = r
        /\ UNCHANGED <<runId, polls, pending, drive>>
    BY <1>5 DEF Started
  <2> QED  BY <1>1, <2>1, <2>2 DEF IInv, ClientTypeOK, ExecutionOK, SavedOnceWhenComplete
<1>6. ASSUME StartFails PROVE IInv'
  <2>1. /\ \A s \in Runs : /\ status[s] \in Complete => status'[s] = status[s]
                           /\ served[s] => served'[s]
        /\ status' \in [Runs -> {"absent", "failed"} \cup Unfinished \cup Complete]
        /\ served' \in [Runs -> BOOLEAN]
    BY <1>1, <1>6, CompleteIsFinal DEF StartFails
  <2>2. /\ at' = "idle" /\ subject' = NoRun
        /\ UNCHANGED <<runId, polls, pending, drive>>
    BY <1>6 DEF StartFails
  <2> QED  BY <1>1, <2>1, <2>2 DEF IInv, ClientTypeOK, ExecutionOK, SavedOnceWhenComplete
<1>7. ASSUME StoreProperties PROVE IInv'
  BY <1>1, <1>7, ScriptStep DEF StoreProperties
<1>8. ASSUME SchedulePoll PROVE IInv'
  BY <1>1, <1>8, ScriptStep DEF SchedulePoll
<1>9. ASSUME NothingToPoll \/ RequestFails \/ Cut PROVE IInv'
  BY <1>1, <1>9, ScriptStep DEF NothingToPoll, RequestFails, Cut
<1>10. ASSUME DeadlineExceeded \/ RunFailed \/ AlreadySaved \/ Clear PROVE IInv'
  BY <1>1, <1>10, ScriptStep DEF DeadlineExceeded, RunFailed, AlreadySaved, Clear
<1>11. ASSUME Poll PROVE IInv'
  BY <1>1, <1>11, ScriptStep DEF Poll
<1>12. ASSUME StillRunning PROVE IInv'
  BY <1>1, <1>12, ScriptStep DEF StillRunning
<1>13. ASSUME RunComplete PROVE IInv'
  BY <1>1, <1>13, ScriptStep DEF RunComplete, ExecutionOK
<1>14. ASSUME Download PROVE IInv'
  BY <1>1, <1>14, ScriptStep DEF Download, ExecutionOK
<1>15. ASSUME Save PROVE IInv'
  <2>1. /\ at = "save" /\ at' = "clear" /\ subject' = subject /\ drive[subject] = 0
        /\ UNCHANGED <<status, served, runId, polls, pending>>
        /\ subject \in Runs /\ status[subject] \in Complete /\ served[subject]
    BY <1>1, <1>15 DEF Save, ExecutionOK, lifecycle
  <2>2. PICK r \in Runs : r = subject
    BY <2>1
  <2>3. drive' = [drive EXCEPT ![r] = 1] /\ drive' \in [Runs -> Nat]
    BY <1>1, <1>15, <2>1, <2>2 DEF Save
  <2> QED  BY <1>1, <2>1, <2>2, <2>3
           DEF IInv, ClientTypeOK, ExecutionOK, SavedOnceWhenComplete
<1>16. ASSUME Service PROVE IInv'
  <2>1. /\ \A s \in Runs : /\ status[s] \in Complete => status'[s] = status[s]
                           /\ served[s] => served'[s]
        /\ status' \in [Runs -> {"absent", "failed"} \cup Unfinished \cup Complete]
        /\ served' \in [Runs -> BOOLEAN]
    BY <1>1, <1>16, CompleteIsFinal DEF Service
  <2>2. UNCHANGED <<runId, polls, pending, at, subject, drive>>
    BY <1>16 DEF Service, script
  <2> QED  BY <1>1, <2>1, <2>2 DEF IInv, ClientTypeOK, ExecutionOK, SavedOnceWhenComplete
<1>17. ASSUME UNCHANGED vars PROVE IInv'
  BY <1>1, <1>17 DEF vars, lifecycle, script, IInv, ClientTypeOK, ExecutionOK,
     SavedOnceWhenComplete
<1> QED  BY <1>2, <1>3, <1>4, <1>5, <1>6, <1>7, <1>8, <1>9, <1>10, <1>11, <1>12,
            <1>13, <1>14, <1>15, <1>16, <1>17 DEF Next, Execution

THEOREM Invariance == Spec => []IInv
<1>1. ASSUME Init PROVE IInv
  <2>1. ClientTypeOK
    <3>1. /\ served \in [Runs -> BOOLEAN]
          /\ status \in [Runs -> {"absent", "failed"} \cup Unfinished \cup Complete]
      BY <1>1 DEF Init, LifecycleInit
    <3>2. /\ runId \in Runs \cup {NoRun} /\ subject \in Runs \cup {NoRun}
          /\ pending \in BOOLEAN
      BY <1>1 DEF Init
    <3>3. polls \in 0 .. MaxPolls /\ at \in At /\ drive \in [Runs -> Nat]
      BY <1>1, MaxPollsAssumption DEF Init, At
    <3> QED  BY <3>1, <3>2, <3>3 DEF ClientTypeOK
  <2>2. ExecutionOK
    BY <1>1 DEF Init, ExecutionOK, Engaged
  <2>3. SavedOnceWhenComplete
    BY <1>1 DEF Init, SavedOnceWhenComplete
  <2> QED  BY <2>1, <2>2, <2>3 DEF IInv
<1> QED  BY <1>1, Inductive, PTL DEF Spec

\* The file of a run is in Drive at most once, and only if the run is complete
\* and its artifact served, for every interleaving of executions, lost triggers,
\* failed requests and cut-offs (pollMlbPhaseOneCollectorLocked_).
THEOREM SavedOnce == Spec => []SavedOnceWhenComplete
<1>1. IInv => SavedOnceWhenComplete
  BY DEF IInv
<1> QED  BY <1>1, Invariance, PTL
===============================================================================
