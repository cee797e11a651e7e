-------------------------- MODULE CollectionService --------------------------
(***************************************************************************)
(* The collection service: app/main.py (lifespan, POST), app/jobs.py       *)
(* (JobRunner) and the order of effects of app/pipeline.py, over the       *)
(* tables of CollectorRuns and the files of a run directory.               *)
(*                                                                         *)
(* A service process has request threads, one per POST, a JobRunner with   *)
(* its _lock, and one worker thread fed by a FIFO queue.  A tool process   *)
(* is scripts/run_once.py: it runs one collection in its main thread and   *)
(* never reconciles.  All processes share the database and the artifacts.  *)
(* Each database transaction, each file effect and each section under      *)
(* _lock that another thread can come between is a step.                   *)
(***************************************************************************)
EXTENDS CollectorRuns, Sequences

CONSTANTS
  Services,    \* processes of app.main
  Tools,       \* processes of scripts/run_once.py
  NoRun,       \* nobody holds the lock, the worker is idle
  Nowhere,     \* the run belongs to no live process
  MaxCaptures  \* bound: provider answers a run captures

ASSUME ProcessAssumption == Services \cap Tools = {} /\ Nowhere \notin Services \cup Tools
ASSUME NoRunAssumption == NoRun \notin Runs
ASSUME MaxCapturesAssumption == MaxCaptures \in Nat

Hosts == Services \cup Tools

VARIABLES
  host,        \* host[p]: "down", "up", or "closing" once shutdown() has begun
  lock,        \* lock[p]: the run whose request holds JobRunner._lock
  threads,     \* the processes whose executor has started its thread
  queue,       \* queue[p]: the executor's work queue
  worker,      \* worker[p]: the run the worker thread is busy with
  active,      \* active[p]: JobRunner._active_run_ids
  home,        \* home[r]: the live process that created the run
  request,     \* request[r]: where its POST handler (or the tool) is
  task,        \* task[r]: where its execution is
  work,        \* work[r]: local variables of the execution
  file,        \* file[r]: the files of its run directory
  interrupted  \* history: runs whose processing was cut short (see below)

runner == <<host, lock, threads, queue, worker, active>>
vars == <<tables, runner, home, request, task, work, file, interrupted>>

\* captured: answers captured so far; capture, existed: of the one at hand.
Idle == [captured |-> 0, capture |-> {}, existed |-> FALSE, warned |-> FALSE]

Work == [captured : 0 .. MaxCaptures, capture : SUBSET Payloads,
         existed : BOOLEAN, warned : BOOLEAN]

\* manifest: its status; raw: the raw payload files; archive: the manifest's
\* status in artifact.zip; packed: the raw payloads in it.
NoFiles == [manifest |-> "none", raw |-> {}, archive |-> "none", packed |-> {}]

File == [manifest : {"none", "failed"} \cup Success, raw : SUBSET Payloads,
         archive : {"none", "failed"} \cup Success, packed : SUBSET Payloads]

RequestPC == {"none", "posted", "submit", "broken", "broken_files", "register",
              "callback", "accepted", "refused"}

TaskPC == {"none", "queued", "start", "collect", "insert", "manifest", "zip",
           "finish", "fail", "fail_files", "callback", "ended"}

\* The worker thread, or the tool's main thread, is inside _execute.
Executing == {"start", "collect", "insert", "manifest", "zip", "finish",
              "fail", "fail_files"}

Init ==
  /\ TablesInit
  /\ host = [p \in Hosts |-> "down"]
  /\ lock = [p \in Hosts |-> NoRun]
  /\ threads = {}
  /\ queue = [p \in Hosts |-> << >>]
  /\ worker = [p \in Hosts |-> NoRun]
  /\ active = [p \in Hosts |-> {}]
  /\ home = [r \in Runs |-> Nowhere]
  /\ request = [r \in Runs |-> "none"]
  /\ task = [r \in Runs |-> "none"]
  /\ work = [r \in Runs |-> Idle]
  /\ file = [r \in Runs |-> NoFiles]
  /\ interrupted = {}

TypeOK ==
  /\ TablesTypeOK
  /\ host \in [Hosts -> {"down", "up", "closing"}]
  /\ lock \in [Hosts -> Runs \cup {NoRun}]
  /\ threads \subseteq Services
  /\ queue \in [Hosts -> Seq(Runs)]
  /\ worker \in [Hosts -> Runs \cup {NoRun}]
  /\ active \in [Hosts -> SUBSET Runs]
  /\ home \in [Runs -> Hosts \cup {Nowhere}]
  /\ request \in [Runs -> RequestPC]
  /\ task \in [Runs -> TaskPC]
  /\ work \in [Runs -> Work]
  /\ file \in [Runs -> File]
  /\ interrupted \subseteq Runs

ToRequest(r, at) == request' = [request EXCEPT ![r] = at]
ToTask(r, at) == task' = [task EXCEPT ![r] = at]

Free(p) == lock[p] = NoRun

\* The process whose runner a run is in the hands of.
Owner(r) == home[r]

-----------------------------------------------------------------------------
\* Processes.

\* lifespan: reconciliation is over before the first request is accepted.
Boot(p) ==
  /\ p \in Services
  /\ host[p] = "down"
  /\ ReconcileIncompleteRuns
  /\ host' = [host EXCEPT ![p] = "up"]
  /\ UNCHANGED <<lock, threads, queue, worker, active, home, request, task, work, file,
                 interrupted>>

\* What was going on for a run when its process ends.
InHand(r) ==
  \/ request[r] \notin {"none", "accepted", "refused"}
  \/ task[r] \notin {"none", "ended"}

\* The end of a process takes its threads, its queue and its memory with it.
Vanish(p) ==
  LET mine == {r \in Runs : home[r] = p}
      Cleared(f, value) == [r \in Runs |-> IF r \in mine THEN value ELSE f[r]]
  IN /\ host' = [host EXCEPT ![p] = "down"]
     /\ lock' = [lock EXCEPT ![p] = NoRun]
     /\ threads' = threads \ {p}
     /\ queue' = [queue EXCEPT ![p] = << >>]
     /\ worker' = [worker EXCEPT ![p] = NoRun]
     /\ active' = [active EXCEPT ![p] = {}]
     /\ home' = Cleared(home, Nowhere)
     /\ request' = Cleared(request, "none")
     /\ task' = Cleared(task, "none")
     /\ work' = Cleared(work, Idle)
     /\ interrupted' = interrupted \cup {r \in mine : InHand(r)}
     /\ UNCHANGED <<tables, file>>

Crash(p) ==
  /\ host[p] # "down"
  /\ Vanish(p)

\* shutdown(): closes the runner, ...
Shutdown(p) ==
  /\ host[p] = "up"
  /\ p \in Tools => \A r \in Runs : home[r] = p => ~InHand(r)
  /\ Free(p)
  /\ host' = [host EXCEPT ![p] = "closing"]
  /\ UNCHANGED <<tables, lock, threads, queue, worker, active, home, request, task, work,
                 file, interrupted>>

\* ... then waits for the queued and the active work (cancel_futures=False).
Stop(p) ==
  /\ host[p] = "closing"
  /\ queue[p] = << >> \/ p \notin threads
  /\ worker[p] = NoRun
  /\ Vanish(p)

-----------------------------------------------------------------------------
\* A request: POST /jobs/daily-collection.

Post(p, r) ==
  /\ p \in Services
  /\ host[p] = "up"
  /\ row[r] = AbsentRow
  /\ CreateRun(r)
  /\ home' = [home EXCEPT ![r] = p]
  /\ ToRequest(r, "posted")
  /\ UNCHANGED <<runner, task, work, file, interrupted>>

\* submit: with self._lock.
AcquireLock(r) ==
  /\ request[r] = "posted"
  /\ Owner(r) \in Services
  /\ Free(Owner(r))
  /\ lock' = [lock EXCEPT ![Owner(r)] = r]
  /\ ToRequest(r, "submit")
  /\ UNCHANGED <<tables, host, threads, queue, worker, active, home, task, work, file,
                 interrupted>>

\* The run is not accepted and nobody is left to take care of its row.
Abandon(r) ==
  interrupted' = IF row[r].status \in Incomplete THEN interrupted \cup {r}
                                                 ELSE interrupted

\* The runner is closed, the run known or not queued, or get_run raises: the
\* exception leaves the lock and becomes HTTP 409 or 503.
Refuse(r) ==
  /\ request[r] = "submit"
  /\ ToRequest(r, "refused")
  /\ lock' = [lock EXCEPT ![Owner(r)] = NoRun]
  /\ Abandon(r)
  /\ UNCHANGED <<tables, host, threads, queue, worker, active, home, task, work, file>>

Schedulable(r) ==
  /\ host[Owner(r)] = "up"
  /\ r \notin active[Owner(r)]
  /\ row[r].status = "queued"

Enqueue(r) ==
  /\ queue' = [queue EXCEPT ![Owner(r)] = Append(@, r)]
  /\ ToTask(r, "queued")

Schedule(r) ==
  /\ request[r] = "submit"
  /\ Schedulable(r)
  /\ Enqueue(r)
  /\ threads' = threads \cup {Owner(r)}
  /\ active' = [active EXCEPT ![Owner(r)] = @ \cup {r}]
  /\ lock' = [lock EXCEPT ![Owner(r)] = NoRun]
  /\ ToRequest(r, "register")
  /\ UNCHANGED <<tables, host, worker, home, work, file, interrupted>>

\* Mistake: the lock is released before the run is failed.
ScheduleFailsUnlocked(r) ==
  /\ request[r] = "submit"
  /\ Schedulable(r)
  /\ Owner(r) \notin threads
  /\ Enqueue(r)
  /\ lock' = [lock EXCEPT ![Owner(r)] = NoRun]
  /\ ToRequest(r, "broken")
  /\ UNCHANGED <<tables, host, threads, worker, active, home, work, file,
                 interrupted>>

\* executor.submit raises.  If it is because the thread could not be started,
\* the work item is already queued and waits for a later submit to start it.
ScheduleFails(r) ==
  /\ request[r] = "submit"
  /\ Schedulable(r)
  /\ \/ Owner(r) \notin threads /\ Enqueue(r)
     \/ UNCHANGED <<queue, task>>
  /\ ToRequest(r, "broken")
  /\ UNCHANGED <<tables, host, lock, threads, worker, active, home, work, file,
                 interrupted>>

\* _fail_run, the database part: a run already terminal keeps its state, a
\* database error is only logged.
FailRun(r, stage) ==
  \/ /\ CanTransition(r, "failed")
     /\ Transition(r, "failed", stage)
     /\ UNCHANGED interrupted
  \/ /\ UNCHANGED tables
     /\ Abandon(r)

\* _fail_run, the files: write_failure_manifest does nothing unless the run is
\* failed, and an error is only logged.
FailureManifest(r) ==
  \/ /\ row[r].status = "failed"
     /\ file' = [file EXCEPT ![r].manifest = "failed"]
  \/ UNCHANGED file

Broken(r) ==
  /\ request[r] = "broken"
  /\ FailRun(r, "before_worker_start")
  /\ ToRequest(r, "broken_files")
  /\ UNCHANGED <<runner, home, task, work, file>>

BrokenFiles(r) ==
  /\ request[r] = "broken_files"
  /\ FailureManifest(r)
  /\ ToRequest(r, "refused")
  /\ lock' = [lock EXCEPT ![Owner(r)] = NoRun]
  /\ UNCHANGED <<tables, host, threads, queue, worker, active, home, task, work, interrupted>>

\* Mistake: the callback is added before the lock is released.
RegisterLocked(r) ==
  /\ request[r] = "register"
  /\ Free(Owner(r))
  /\ \/ /\ task[r] = "ended"
        /\ ToRequest(r, "callback")
        /\ lock' = [lock EXCEPT ![Owner(r)] = r]
     \/ /\ task[r] # "ended"
        /\ ToRequest(r, "accepted")
        /\ UNCHANGED lock
  /\ UNCHANGED <<tables, host, threads, queue, worker, active, home, task, work, file,
                 interrupted>>

\* add_done_callback: if the future is already done, the request thread runs
\* the callback itself; otherwise the worker thread will.
Register(r) ==
  /\ request[r] = "register"
  /\ ToRequest(r, IF task[r] = "ended" THEN "callback" ELSE "accepted")
  /\ UNCHANGED <<tables, runner, home, task, work, file, interrupted>>

\* _completed, called by the request thread.
RequestCallback(r) ==
  /\ request[r] = "callback"
  /\ Free(Owner(r))
  /\ active' = [active EXCEPT ![Owner(r)] = @ \ {r}]
  /\ ToRequest(r, "accepted")
  /\ UNCHANGED <<tables, host, lock, threads, queue, worker, home, task, work, file,
                 interrupted>>

-----------------------------------------------------------------------------
\* scripts/run_once.py.

RunOnce(p, r) ==
  /\ p \in Tools
  /\ host[p] = "down"
  /\ row[r] = AbsentRow
  /\ CreateRun(r)
  /\ host' = [host EXCEPT ![p] = "up"]
  /\ home' = [home EXCEPT ![r] = p]
  /\ ToRequest(r, "posted")
  /\ UNCHANGED <<lock, threads, queue, worker, active, task, work, file, interrupted>>

\* execute_now: the main thread is the worker, its finally clause the callback.
ExecuteNow(r) ==
  LET p == Owner(r)
  IN /\ request[r] = "posted"
     /\ p \in Tools
     /\ active' = [active EXCEPT ![p] = @ \cup {r}]
     /\ worker' = [worker EXCEPT ![p] = r]
     /\ ToRequest(r, "accepted")
     /\ ToTask(r, "start")
     /\ UNCHANGED <<tables, host, lock, threads, queue, home, work, file, interrupted>>

-----------------------------------------------------------------------------
\* The execution of a run.

\* The worker thread takes the oldest work item.
Take(p) ==
  /\ p \in threads
  /\ worker[p] = NoRun
  /\ queue[p] # << >>
  /\ worker' = [worker EXCEPT ![p] = Head(queue[p])]
  /\ queue' = [queue EXCEPT ![p] = Tail(@)]
  /\ ToTask(Head(queue[p]), "start")
  /\ UNCHANGED <<tables, host, lock, threads, active, home, request, work, file,
                 interrupted>>

\* The future is resolved: who calls the callback is settled here.
EndTask(r) ==
  IF request[r] = "accepted"
  THEN ToTask(r, "callback") /\ UNCHANGED worker
  ELSE ToTask(r, "ended") /\ worker' = [worker EXCEPT ![Owner(r)] = NoRun]

\* What every step of an execution leaves alone but its own rows and files.
Elsewhere == UNCHANGED <<host, lock, threads, queue, active, home, request>>

Continue(r, at) == ToTask(r, at) /\ UNCHANGED worker

\* _execute: queued -> running; a refused transition ends it without a trace.
Start(r) ==
  /\ task[r] = "start"
  /\ \/ /\ CanTransition(r, "running")
        /\ Transition(r, "running", "none")
        /\ Continue(r, "collect")
     \/ /\ ~CanTransition(r, "running")
        /\ UNCHANGED tables
        /\ EndTask(r)
     \/ /\ UNCHANGED tables
        /\ Continue(r, "fail")
  /\ Elsewhere
  /\ UNCHANGED <<work, file, interrupted>>

\* _persist_raw_capture, the file; its name is the checksum of its content.
Capture(r) ==
  /\ task[r] = "collect"
  /\ work[r].captured < MaxCaptures
  /\ \E c \in Payloads :
       /\ work' = [work EXCEPT ![r].captured = @ + 1, ![r].capture = {c},
                               ![r].existed = c \in file[r].raw]
       /\ file' = [file EXCEPT ![r].raw = @ \cup {c}]
  /\ Continue(r, "insert")
  /\ Elsewhere
  /\ UNCHANGED <<tables, interrupted>>

\* ... and the index row: if it cannot be inserted a file that this capture
\* created is removed again, as far as the file system permits.
Insert(r) ==
  /\ task[r] = "insert"
  /\ \E c \in work[r].capture :
       \/ /\ InsertRawPayload(r, c)
          /\ UNCHANGED file
          /\ Continue(r, "collect")
       \/ /\ UNCHANGED tables
          /\ \/ /\ ~work[r].existed
                /\ file' = [file EXCEPT ![r].raw = @ \ {c}]
             \/ UNCHANGED file
          /\ Continue(r, "fail")
  /\ Elsewhere
  /\ UNCHANGED <<work, interrupted>>

\* An optional source failed or the odds have gaps: stored, then remembered.
Warn(r) ==
  /\ task[r] = "collect"
  /\ ~work[r].warned
  /\ AddWarning(r)
  /\ work' = [work EXCEPT ![r].warned = TRUE]
  /\ Continue(r, "collect")
  /\ Elsewhere
  /\ UNCHANGED <<file, interrupted>>

\* The collector, a required row or an artifact fails.
CollectFails(r) ==
  /\ task[r] = "collect"
  /\ Continue(r, "fail")
  /\ Elsewhere
  /\ UNCHANGED <<tables, work, file, interrupted>>

\* Mistake: the archive is packed before the manifest is written.
CollectedPacksFirst(r) ==
  /\ task[r] = "collect"
  /\ Continue(r, "zip")
  /\ Elsewhere
  /\ UNCHANGED <<tables, work, file, interrupted>>

Collected(r) ==
  /\ task[r] = "collect"
  /\ Continue(r, "manifest")
  /\ Elsewhere
  /\ UNCHANGED <<tables, work, file, interrupted>>

\* terminal_status.
Outcome(r) == IF work[r].warned THEN "completed_with_warnings" ELSE "completed"

\* The manifest says the run is complete before its row does.
WriteManifest(r) ==
  /\ task[r] = "manifest"
  /\ \/ /\ file' = [file EXCEPT ![r].manifest = Outcome(r)]
        /\ Continue(r, "zip")
     \/ /\ UNCHANGED file
        /\ Continue(r, "fail")
  /\ Elsewhere
  /\ UNCHANGED <<tables, work, interrupted>>

\* create_zip replaces the archive atomically.
BuildZip(r) ==
  /\ task[r] = "zip"
  /\ \/ /\ file' = [file EXCEPT ![r].archive = file[r].manifest,
                                ![r].packed = file[r].raw]
        /\ Continue(r, "finish")
     \/ /\ UNCHANGED file
        /\ Continue(r, "fail")
  /\ Elsewhere
  /\ UNCHANGED <<tables, work, interrupted>>

\* Mistake: a database error at the end is treated like a refused transition.
FinishGivesUp(r) ==
  /\ task[r] = "finish"
  /\ \/ /\ CanTransition(r, Outcome(r))
        /\ Transition(r, Outcome(r), "none")
     \/ UNCHANGED tables
  /\ EndTask(r)
  /\ Elsewhere
  /\ UNCHANGED <<work, file, interrupted>>

Finish(r) ==
  /\ task[r] = "finish"
  /\ \/ /\ CanTransition(r, Outcome(r))
        /\ Transition(r, Outcome(r), "none")
        /\ EndTask(r)
     \/ /\ ~CanTransition(r, Outcome(r))
        /\ UNCHANGED tables
        /\ EndTask(r)
     \/ /\ UNCHANGED tables
        /\ Continue(r, "fail")
  /\ Elsewhere
  /\ UNCHANGED <<work, file, interrupted>>

Fail(r) ==
  /\ task[r] = "fail"
  /\ FailRun(r, "execution")
  /\ Continue(r, "fail_files")
  /\ Elsewhere
  /\ UNCHANGED <<work, file>>

FailFiles(r) ==
  /\ task[r] = "fail_files"
  /\ FailureManifest(r)
  /\ EndTask(r)
  /\ Elsewhere
  /\ UNCHANGED <<tables, work, interrupted>>

\* _completed, called by the worker thread before it takes the next item.
TaskCallback(r) ==
  /\ task[r] = "callback"
  /\ Free(Owner(r))
  /\ active' = [active EXCEPT ![Owner(r)] = @ \ {r}]
  /\ worker' = [worker EXCEPT ![Owner(r)] = NoRun]
  /\ ToTask(r, "ended")
  /\ UNCHANGED <<tables, host, lock, threads, queue, home, request, work, file, interrupted>>

-----------------------------------------------------------------------------
RequestStep(r) ==
  \/ AcquireLock(r) \/ Refuse(r) \/ Schedule(r) \/ ScheduleFails(r)
  \/ Broken(r) \/ BrokenFiles(r) \/ Register(r) \/ RequestCallback(r)
  \/ ExecuteNow(r)

TaskStep(r) ==
  \/ Start(r) \/ Capture(r) \/ Insert(r) \/ Warn(r) \/ CollectFails(r)
  \/ Collected(r) \/ WriteManifest(r) \/ BuildZip(r) \/ Finish(r)
  \/ Fail(r) \/ FailFiles(r) \/ TaskCallback(r)

Next ==
  \/ \E p \in Hosts :
       \/ Boot(p) \/ Crash(p) \/ Shutdown(p) \/ Stop(p) \/ Take(p)
       \/ \E r \in Runs : Post(p, r) \/ RunOnce(p, r)
  \/ \E r \in Runs : RequestStep(r) \/ TaskStep(r)

Spec == Init /\ [][Next]_vars

(***************************************************************************)
(* Every thread that can go on does.  Nobody has to post, boot, shut down  *)
(* or crash, and no step is bound to succeed.                              *)
(***************************************************************************)
FairSpec ==
  /\ Spec
  /\ \A r \in Runs : WF_vars(RequestStep(r)) /\ WF_vars(TaskStep(r))
  /\ \A p \in Hosts : WF_vars(Take(p))
=============================================================================
