-------------------------- MODULE AppsScriptClient --------------------------
(***************************************************************************)
(* apps_script/Main.gs: the spreadsheet script that starts a collection    *)
(* every day, polls it through one-shot triggers and saves the artifact to *)
(* Drive.  The service is what RunLifecycle promises.  An execution holds  *)
(* the script lock from its first to its last step; what survives it are   *)
(* the script properties, the pending trigger and Drive.  A request may    *)
(* fail, a response may be lost, and Apps Script may cut an execution off. *)
(***************************************************************************)
EXTENDS RunLifecycle, Naturals

CONSTANTS
  NoRun,      \* no MLB_PHASE1_RUN_ID property
  MaxPolls,   \* MLB_PHASE1_MAX_POLLS_ (30 in the code)
  CutOff      \* whether Apps Script may cut an execution off

ASSUME NoRunAssumption == NoRun \notin Runs
ASSUME MaxPollsAssumption == MaxPolls \in Nat
ASSUME CutOffAssumption == CutOff \in BOOLEAN

VARIABLES
  runId,      \* the property MLB_PHASE1_RUN_ID
  polls,      \* the property MLB_PHASE1_POLL_COUNT
  pending,    \* a trigger for pollMlbPhaseOneCollector has yet to fire
  at,         \* where the execution that holds the script lock is
  subject,    \* the run that execution is about
  drive       \* drive[r]: files saved for the run (Drive allows duplicates)

script == <<runId, polls, pending, at, subject, drive>>
vars == <<lifecycle, script>>

At == {"idle", "start", "store", "schedule", "poll", "status", "download",
       "save", "clear"}

Init ==
  /\ LifecycleInit
  /\ runId = NoRun
  /\ polls = 0
  /\ pending = FALSE
  /\ at = "idle"
  /\ subject = NoRun
  /\ drive = [r \in Runs |-> 0]

ClientTypeOK ==
  /\ status \in [Runs -> {"absent", "failed"} \cup Unfinished \cup Complete]
  /\ served \in [Runs -> BOOLEAN]
  /\ runId \in Runs \cup {NoRun}
  /\ polls \in 0 .. MaxPolls
  /\ pending \in BOOLEAN
  /\ at \in At
  /\ subject \in Runs \cup {NoRun}
  /\ drive \in [Runs -> Nat]

\* The execution returns or throws; the finally clause releases the lock.
Leave ==
  /\ at' = "idle"
  /\ subject' = NoRun

Goto(where) ==
  /\ at' = where
  /\ UNCHANGED subject

\* clearActiveRun_
ClearActiveRun ==
  /\ runId' = NoRun
  /\ polls' = 0

-----------------------------------------------------------------------------
\* triggerMlbPhaseOneCollector, by the daily trigger or by hand.

Trigger ==
  /\ at = "idle"
  /\ runId = NoRun
  /\ Goto("start")
  /\ UNCHANGED <<lifecycle, runId, polls, pending, drive>>

\* The POST is sent once: with its response the script knows the run, ...
Started(r) ==
  /\ at = "start"
  /\ Create(r)
  /\ at' = "store"
  /\ subject' = r
  /\ UNCHANGED <<runId, polls, pending, drive>>

\* ... without it the script throws, whether or not the run was created.
StartFails ==
  /\ at = "start"
  /\ (\E r \in Runs : Create(r)) \/ UNCHANGED lifecycle
  /\ Leave
  /\ UNCHANGED <<runId, polls, pending, drive>>

StoreProperties ==
  /\ at = "store"
  /\ runId' = subject
  /\ polls' = 0
  /\ Goto("schedule")
  /\ UNCHANGED <<lifecycle, pending, drive>>

\* scheduleStatusPoll_: the pending trigger is replaced, never doubled.
SchedulePoll ==
  /\ at = "schedule"
  /\ pending' = TRUE
  /\ Leave
  /\ UNCHANGED <<lifecycle, runId, polls, drive>>

-----------------------------------------------------------------------------
\* pollMlbPhaseOneCollector.

\* A one-shot trigger fires; if the lock is taken for too long it is lost.
PollFires ==
  /\ pending
  /\ pending' = FALSE
  /\ \/ at = "idle" /\ Goto("poll")
     \/ at # "idle" /\ UNCHANGED <<at, subject>>
  /\ UNCHANGED <<lifecycle, runId, polls, drive>>

\* Somebody runs the function from the editor.
PollByHand ==
  /\ at = "idle"
  /\ Goto("poll")
  /\ UNCHANGED <<lifecycle, runId, polls, pending, drive>>

NothingToPoll ==
  /\ at = "poll"
  /\ runId = NoRun
  /\ Leave
  /\ UNCHANGED <<lifecycle, runId, polls, pending, drive>>

\* The number of polls, or an hour, is over; the hour may end at any poll.
DeadlineExceeded ==
  /\ at = "poll"
  /\ runId # NoRun
  /\ ClearActiveRun
  /\ Leave
  /\ UNCHANGED <<lifecycle, pending, drive>>

\* Mistake: the poll is not counted.
PollUncounted ==
  /\ at = "poll"
  /\ runId # NoRun
  /\ polls < MaxPolls
  /\ at' = "status"
  /\ subject' = runId
  /\ UNCHANGED <<lifecycle, runId, polls, pending, drive>>

Poll ==
  /\ at = "poll"
  /\ runId # NoRun
  /\ polls < MaxPolls
  /\ polls' = polls + 1
  /\ at' = "status"
  /\ subject' = runId
  /\ UNCHANGED <<lifecycle, runId, pending, drive>>

\* The answer to GET /jobs/{run_id}.
StillRunning ==
  /\ at = "status"
  /\ status[subject] \in Unfinished
  /\ Goto("schedule")
  /\ UNCHANGED <<lifecycle, runId, polls, pending, drive>>

RunFailed ==
  /\ at = "status"
  /\ status[subject] = "failed"
  /\ ClearActiveRun
  /\ Leave
  /\ UNCHANGED <<lifecycle, pending, drive>>

RunComplete ==
  /\ at = "status"
  /\ status[subject] \in Complete
  /\ Goto("download")
  /\ UNCHANGED <<lifecycle, runId, polls, pending, drive>>

Download ==
  /\ at = "download"
  /\ served[subject]
  /\ Goto("save")
  /\ UNCHANGED <<lifecycle, runId, polls, pending, drive>>

\* Status check or download fails after its retries: the script throws.
RequestFails ==
  /\ at \in {"status", "download"}
  /\ Leave
  /\ UNCHANGED <<lifecycle, runId, polls, pending, drive>>

\* Mistake: Drive is not searched for the file.
SaveAgain ==
  /\ at = "save"
  /\ drive' = [drive EXCEPT ![subject] = @ + 1]
  /\ Goto("clear")
  /\ UNCHANGED <<lifecycle, runId, polls, pending>>

Save ==
  /\ at = "save"
  /\ drive[subject] = 0
  /\ drive' = [drive EXCEPT ![subject] = @ + 1]
  /\ Goto("clear")
  /\ UNCHANGED <<lifecycle, runId, polls, pending>>

AlreadySaved ==
  /\ at = "save"
  /\ drive[subject] > 0
  /\ ClearActiveRun
  /\ Leave
  /\ UNCHANGED <<lifecycle, pending, drive>>

Clear ==
  /\ at = "clear"
  /\ ClearActiveRun
  /\ Leave
  /\ UNCHANGED <<lifecycle, pending, drive>>

\* The execution ends where it is; its lock ends with it.
Cut ==
  /\ CutOff
  /\ at # "idle"
  /\ Leave
  /\ UNCHANGED <<lifecycle, runId, polls, pending, drive>>

-----------------------------------------------------------------------------
\* The service goes on by itself; only Create is the script's doing.
Service ==
  /\ \/ \E r \in Runs : Run(r) \/ Finish(r)
     \/ \E r \in Runs : FailAll({r})
  /\ UNCHANGED script

Execution ==
  \/ (\E r \in Runs : Started(r)) \/ StartFails \/ StoreProperties \/ SchedulePoll
  \/ NothingToPoll \/ DeadlineExceeded \/ Poll \/ StillRunning \/ RunFailed
  \/ RunComplete \/ Download \/ RequestFails \/ Save \/ AlreadySaved \/ Clear

Next == Trigger \/ PollFires \/ PollByHand \/ Execution \/ Cut \/ Service

Spec == Init /\ [][Next]_vars

(***************************************************************************)
(* A pending trigger fires and an execution goes on.  Nobody has to use    *)
(* the editor, the day need not come, and the service may take for ever.   *)
(***************************************************************************)
FairSpec == Spec /\ WF_vars(PollFires) /\ WF_vars(Execution)

-----------------------------------------------------------------------------
(***************************************************************************)
(* A run's artifact is saved once, although an execution may end between   *)
(* saving and clearing the run and the poll be repeated by hand, and only  *)
(* for a run that is complete.                                             *)
(***************************************************************************)
SavedOnceWhenComplete ==
  \A r \in Runs : drive[r] > 0 => drive[r] = 1 /\ status[r] \in Complete /\ served[r]

(***************************************************************************)
(* The script's work on a run comes to an end, even if the run itself does *)
(* not: a poll that finds it unfinished schedules the next one, and only   *)
(* the count of polls stops that (MLB_PHASE1_MAX_POLLS_).                  *)
(***************************************************************************)
Polling(r) == runId = r /\ (pending \/ at # "idle")

PollingEnds == \A r \in Runs : []<>(~Polling(r))

(***************************************************************************)
(* What README.md says of the follow-up trigger: it polls until the        *)
(* artifact is ready and then writes it to Drive.  So while a run is       *)
(* active a poll is pending or an execution is at work.                    *)
(***************************************************************************)
ActiveRunIsPolled == runId # NoRun => pending \/ at # "idle"
=============================================================================
