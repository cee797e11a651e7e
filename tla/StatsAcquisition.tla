--------------------------- MODULE StatsAcquisition ---------------------------
(***************************************************************************)
(* The acquisition of current-season statistics (app/stats): backfill and  *)
(* daily commands, each run by a process of its own, with resume, crashes *)
(* and the completeness watermark they share.                              *)
(*                                                                         *)
(* A run reads a schedule, the season aggregates and one Statcast day      *)
(* after another.  Each of these datasets has a checkpoint; a resumed run  *)
(* restores what is completed and collects the rest.  At the end the run   *)
(* reconciles what it counted with what the database holds, advances the   *)
(* watermark and completes.  Every transaction is one step.                *)
(*                                                                         *)
(* Abstractions.  A day of the season is a number and has one game.  The   *)
(* thirty club schedules are one response, a window of the aggregates is   *)
(* one response.  retrieved_at is a clock that ticks with every schedule.  *)
(* A response is retained on disk in the step that indexes it.             *)
(***************************************************************************)
EXTENDS Naturals, FiniteSets, FiniteSetsExt

CONSTANTS
  Executors,   \* operating system processes
  MaxRuns,     \* runs are numbered in the order of their creation
  MaxDay,      \* days of the season
  RequestOf,   \* command and requested_through_date of each run
  MaxFaults    \* bound: deaths, refused responses and restarts of the service

ASSUME BoundsAssumption ==
  /\ MaxRuns \in Nat \ {0}
  /\ MaxDay \in Nat \ {0}
  /\ MaxFaults \in Nat
  /\ RequestOf \in [1 .. MaxRuns ->
                     [command : {"daily", "backfill"}, through : 1 .. MaxDay]]

VARIABLES
  outer,       \* collector_runs.status of the run that owns the stats run
  stats,       \* stats_ingestion_runs.status
  checkpoint,  \* stats_checkpoints: status and captures named by the cursor
  raw,         \* stats_raw_payload_metadata by checkpoint: rows and newest retrieval
  finals,      \* the final games in the schedule response the run retained
  cancels,     \* and its cancelled games
  seenAt,      \* stats_game_status_observations: when a status was first recorded
  statcast,    \* days with complete Statcast evidence of their game
  watermark,   \* stats_completeness_watermarks, one row per season
  clock,       \* schedules retrieved so far
  faults,      \* deaths, refused responses and restarts so far
  proc         \* what each process is doing

database == <<outer, stats, checkpoint, raw, finals, cancels, seenAt,
              statcast, watermark>>
vars == <<outer, stats, checkpoint, raw, finals, cancels, seenAt, statcast,
          watermark, clock, faults, proc>>

Runs == 1 .. MaxRuns
Days == 1 .. MaxDay

\* Dataset keys, in the order _collect_current works through them.
Schedule == 0
Aggregates == 1
StatcastDay(d) == d + 1
DayOf(k) == k - 1
Datasets == 0 .. MaxDay + 1

\* Raw rows of responses a failed run retained: checkpoint_id is NULL.
Unowned == MaxDay + 2

Success == {"completed", "completed_with_warnings"}
Active == {"queued", "running"}
Terminal == Success \cup {"failed"}

\* normalization.py knows more statuses that leave a game open, as scheduled does.
GameStatus == {"scheduled", "final", "cancelled"}

NoRows == [rows |-> 0, at |-> 0]
NoCheckpoint == [status |-> "absent", captures |-> 0]

\* The states of a process: creating a run, executing it under its lock, failing.
Creating == {"start_outer", "create_stats", "start_stats", "lock"}
Collecting == {"open", "collect", "persist", "complete"}
Finishing == {"evaluate", "advance", "complete_stats", "complete_outer"}
Failing == {"fail_checkpoints", "fail_stats", "fail_outer"}
Executing == Collecting \cup Finishing \cup Failing

NoCompleteness == [requested |-> 0, latest |-> 0, contiguous |-> 0, partial |-> 0]

Idle ==
  [at |-> "idle", run |-> 0, key |-> Schedule,
   final |-> {},            \* final games of the schedule in memory
   cancelled |-> {},        \* and its cancelled games
   covered |-> {},          \* days whose game Statcast confirms
   rejected |-> FALSE,      \* aggregate rows were rejected
   conflict |-> FALSE,      \* Statcast rows disagreed
   effective |-> 0,         \* effective_final_date, 0 for None
   windows |-> 0,           \* aggregate responses in memory
   expected |-> 0,          \* counts["raw_payloads"]
   observed |-> 0,          \* context.source_observed_at
   result |-> NoCompleteness,
   outcome |-> "none",      \* status the run will complete with
   spare |-> 0]             \* a response retained but not indexed

Init ==
  /\ outer = [r \in Runs |-> "absent"]
  /\ stats = [r \in Runs |-> "absent"]
  /\ checkpoint = [r \in Runs |-> [k \in Datasets |-> NoCheckpoint]]
  /\ raw = [r \in Runs |-> [k \in Datasets \cup {Unowned} |-> NoRows]]
  /\ finals = [r \in Runs |-> {}]
  /\ cancels = [r \in Runs |-> {}]
  /\ seenAt = [d \in Days |-> [s \in GameStatus |-> 0]]
  /\ statcast = {}
  /\ watermark = [requested |-> 0, observed |-> 0, latest |-> 0,
                  contiguous |-> 0, partial |-> 0, source |-> 0]
  /\ clock = 0
  /\ faults = 0
  /\ proc = [e \in Executors |-> Idle]

-----------------------------------------------------------------------------
(* Dates, 0 standing for None. *)

Newest(dates) == IF dates = {} THEN 0 ELSE Max(dates)
Earliest(dates) == IF dates = {} THEN 0 ELSE Min(dates)
Later(a, b) == IF a < b THEN b ELSE a

\* calculate_completeness over one game per day: a final game that is valid
\* resolves its day, and so does a cancelled one, without being a game played.
CalculateCompleteness(through, known, valid, cancelled) ==
  LET days == {d \in known : d <= through}
      partial == Earliest(days \ (valid \cup cancelled))
  IN  [requested |-> through,
       latest |-> Newest(days \cap valid),
       contiguous |-> Newest({d \in days : partial = 0 \/ d < partial}),
       partial |-> partial]

\* Mistake: a final game counts as valid although Statcast lacks it.
ScheduleValidUncovered(final, covered, complete) ==
  {d \in final : d <= complete}

\* _schedule_states: final_and_valid games of this execution.
ScheduleValid(final, covered, complete) ==
  {d \in final \cap covered : d <= complete}

\* The status with the newest retrieved_at.
IsLatest(d, status) == \A s \in GameStatus : seenAt[d][s] <= seenAt[d][status]

\* Days with a persisted observation, those it shows final and covered, and
\* those it shows cancelled.
PersistedKnown == {d \in Days : \E s \in GameStatus : seenAt[d][s] # 0}
PersistedValid(complete) ==
  {d \in PersistedKnown \cap statcast : IsLatest(d, "final") /\ d <= complete}
PersistedCancelled == {d \in PersistedKnown : IsLatest(d, "cancelled")}

\* _merge_daily_completeness: a daily run sees one day, so it judges the season
\* by every persisted game, its own among them, and carries the shared watermark
\* forward.
MergeDaily(requested, complete) ==
  LET season == CalculateCompleteness(Later(requested, watermark.requested),
                                      PersistedKnown, PersistedValid(complete),
                                      PersistedCancelled)
      before == {d \in {watermark.contiguous, season.contiguous} :
                   season.partial = 0 \/ d < season.partial}
  IN  IF watermark.source = 0 THEN season
      ELSE [season EXCEPT !.latest = Later(@, watermark.latest),
                          !.contiguous = Newest(before)]

\* _aggregate_capture_ranges: the window of the day before, and the range up to
\* the last completed day where it differs.
CaptureRanges(through, effective) ==
  Cardinality({through - 1, effective} \ {0})

\* Mistake: the row is overwritten by whoever comes last.
AdvancedBlindly(current, c, observed, r) ==
  [requested |-> c.requested, observed |-> observed, latest |-> c.latest,
   contiguous |-> c.contiguous, partial |-> c.partial, source |-> r]

\* advance_completeness_watermark: an older or an older observation of
\* the same changes nothing; dates only move forward.
Advanced(current, c, observed, r) ==
  IF \/ c.requested < current.requested
     \/ c.requested = current.requested /\ observed < current.observed
  THEN current
  ELSE [requested |-> c.requested,
        observed |-> Later(observed, current.observed),
        latest |-> Later(c.latest, current.latest),
        contiguous |-> Later(c.contiguous, current.contiguous),
        partial |-> c.partial,
        source |-> r]

-----------------------------------------------------------------------------
(* Steps of a process. *)

Run(e) == proc[e].run
At(e, phase) == proc[e].at = phase
Asked(e) == RequestOf[Run(e)]
Mine(e) == checkpoint[Run(e)][proc[e].key]

\* Every other field of proc[e] stays.
Goto(e, phase) == proc' = [proc EXCEPT ![e].at = phase]

\* An exception inside _execute_run_context enters _fail_run.
Raise(e, spare) ==
  proc' = [proc EXCEPT ![e] = [Idle EXCEPT !.at = "fail_checkpoints",
                                           !.run = Run(e), !.spare = spare]]

\* The process ends and its lock file is unlocked.
Leave(e) == proc' = [proc EXCEPT ![e] = Idle]

\* The advisory lock of the run is held as long as its executor lives.
Locked(r) == \E e \in Executors : Run(e) = r /\ proc[e].at \in Executing

\* Pending and running checkpoints of a failed or finished run become failed.
Ended(c) == IF c.status = "running" THEN [c EXCEPT !.status = "failed"] ELSE c

\* reconcile_terminal_run_checkpoints, at the start of every command.
Repaired ==
  [r \in Runs |-> IF stats[r] \in Terminal
                  THEN [k \in Datasets |-> Ended(checkpoint[r][k])]
                  ELSE checkpoint[r]]

\* _execute_provider_command and the first transaction of _begin_run.
CreateRun(e) ==
  /\ At(e, "idle")
  /\ \E r \in Runs :
       /\ outer[r] = "absent"
       /\ \A s \in 1 .. r - 1 : outer[s] # "absent"
       /\ outer' = [outer EXCEPT ![r] = "queued"]
       /\ proc' = [proc EXCEPT ![e].at = "start_outer", ![e].run = r]
  /\ checkpoint' = Repaired
  /\ UNCHANGED <<stats, raw, finals, cancels, seenAt, statcast, watermark, clock, faults>>

\* database.transition_run(RUNNING); a startup reconciliation may have failed
\* the row, and the command ends.
StartOuter(e) ==
  /\ At(e, "start_outer")
  /\ \/ /\ outer[Run(e)] = "queued"
        /\ outer' = [outer EXCEPT ![Run(e)] = "running"]
        /\ Goto(e, "create_stats")
     \/ /\ outer[Run(e)] # "queued"
        /\ UNCHANGED outer
        /\ Leave(e)
  /\ UNCHANGED <<stats, checkpoint, raw, finals, cancels, seenAt, statcast,
                 watermark, clock, faults>>

\* repository.create_ingestion_run.
CreateStats(e) ==
  /\ At(e, "create_stats")
  /\ stats' = [stats EXCEPT ![Run(e)] = "queued"]
  /\ Goto(e, "start_stats")
  /\ UNCHANGED <<outer, checkpoint, raw, finals, cancels, seenAt, statcast,
                 watermark, clock, faults>>

\* transition_ingestion_run("running"): the row exists, so another process may
\* have resumed it, and may even be done with it.
StartStats(e) ==
  /\ At(e, "start_stats")
  /\ \/ /\ stats[Run(e)] \in Active
        /\ stats' = [stats EXCEPT ![Run(e)] = "running"]
        /\ Goto(e, "lock")
     \/ /\ stats[Run(e)] \in Terminal
        /\ UNCHANGED stats
        /\ Leave(e)
  /\ UNCHANGED <<outer, checkpoint, raw, finals, cancels, seenAt, statcast,
                 watermark, clock, faults>>

\* StatsRunExecutionLock of a new run: fail fast, and no look at the status.
Lock(e) ==
  /\ At(e, "lock")
  /\ IF Locked(Run(e)) THEN Leave(e) ELSE Goto(e, "open")
  /\ UNCHANGED <<database, clock, faults>>

\* execute with resume_run_id: under the lock _begin_run accepts an unfinished
\* run and starts the rows that are still queued.  The owning run may have been
\* failed meanwhile; it is looked up, not checked.
Resume(e) ==
  /\ At(e, "idle")
  /\ \E r \in Runs :
       /\ stats[r] \in Active
       /\ ~Locked(r)
       /\ stats' = [stats EXCEPT ![r] = "running"]
       /\ outer' = [outer EXCEPT ![r] = IF @ = "queued" THEN "running" ELSE @]
       /\ proc' = [proc EXCEPT ![e].at = "open", ![e].run = r]
  /\ checkpoint' = Repaired
  /\ UNCHANGED <<raw, finals, cancels, seenAt, statcast, watermark, clock, faults>>

\* effective_final_date, read when the aggregates are opened.
EffectiveFinal(p, q) ==
  Newest(p.final \cup ({watermark.latest} \cap (1 .. q.through)))

\* The dataset after p.key, or Schedule again when every dataset is done.
Following(p, q) ==
  LET last == IF q.command = "daily" THEN q.through ELSE p.effective
      first == IF q.command = "daily" THEN q.through ELSE 1
  IN  CASE p.key = Schedule -> Aggregates
        [] p.key = Aggregates /\ last # 0 -> StatcastDay(first)
        [] p.key > Aggregates /\ DayOf(p.key) < last -> p.key + 1
        [] OTHER -> Schedule

\* The process holds dataset p.key, of n responses, and turns to the next one.
Absorbed(p, q, n, at) ==
  LET next == Following(p, q)
  IN  [p EXCEPT !.expected = @ + n,
                !.windows = IF p.key = Aggregates THEN n ELSE @,
                !.observed = Later(@, at),
                !.key = next,
                !.at = IF next = Schedule THEN "evaluate" ELSE "open"]

\* _verified_completed_checkpoint and the _restore_ functions: the cursor names
\* exactly the responses the checkpoint owns, at least one.
Restorable(r, k) ==
  /\ checkpoint[r][k].status = "completed"
  /\ raw[r][k].rows = checkpoint[r][k].captures
  /\ raw[r][k].rows # 0

\* A completed Statcast day covers the final game of the day.
Restored(p, q) ==
  LET row == raw[p.run][p.key]
      held == CASE p.key = Schedule ->
                     [p EXCEPT !.final = finals[p.run], !.cancelled = cancels[p.run]]
                [] p.key > Aggregates ->
                     [p EXCEPT !.covered = @ \cup (p.final \cap {DayOf(p.key)})]
                [] OTHER -> p
  IN  Absorbed(held, q, row.rows, row.at)

\* _checkpoint and _verified_completed_checkpoint: restore what is completed,
\* collect what is new or was interrupted, refuse what ended otherwise.
Open(e) ==
  LET r == Run(e)
      k == proc[e].key
      p == IF k = Aggregates
           THEN [proc[e] EXCEPT !.effective = EffectiveFinal(proc[e], Asked(e))]
           ELSE proc[e]
  IN  /\ At(e, "open")
      /\ \/ /\ Mine(e).status \in {"absent", "running"}
            /\ checkpoint' = [checkpoint EXCEPT ![r][k].status = "running"]
            /\ proc' = [proc EXCEPT ![e] = [p EXCEPT !.at = "collect"]]
         \/ /\ Restorable(r, k)
            /\ proc' = [proc EXCEPT ![e] = Restored(p, Asked(e))]
            /\ UNCHANGED checkpoint
         \/ /\ Mine(e).status \in {"completed", "partial", "failed"}
            /\ ~Restorable(r, k)
            /\ Raise(e, 0)
            /\ UNCHANGED checkpoint
      /\ UNCHANGED <<outer, stats, raw, finals, cancels, seenAt, statcast,
                     watermark, clock, faults>>

\* Something outside the program goes wrong, at most MaxFaults times.
Fault == faults < MaxFaults /\ faults' = faults + 1

\* transport.get, RawArtifactStore.retain_stream and _persist_raw for n responses.
Index(r, k, n) ==
  /\ clock' = IF k = Schedule THEN clock + 1 ELSE clock
  /\ raw' = [raw EXCEPT ![r][k] =
                IF n = 0 THEN @ ELSE [rows |-> @.rows + n, at |-> clock']]

\* The days a schedule request looks at.
Scope(q) == IF q.command = "daily" THEN {q.through} ELSE 1 .. q.through

\* _collect_schedules: any of the games in scope is final, or cancelled.
CollectSchedule(e) ==
  /\ At(e, "collect")
  /\ proc[e].key = Schedule
  /\ Index(Run(e), Schedule, 1)
  /\ \E final \in SUBSET Scope(Asked(e)) :
       \E cancelled \in SUBSET (Scope(Asked(e)) \ final) :
         /\ finals' = [finals EXCEPT ![Run(e)] = final]
         /\ cancels' = [cancels EXCEPT ![Run(e)] = cancelled]
         /\ proc' = [proc EXCEPT ![e].at = "persist", ![e].final = final,
                                 ![e].cancelled = cancelled]
  /\ UNCHANGED <<outer, stats, checkpoint, seenAt, statcast, watermark,
                 faults>>

\* _collect_baseball_reference_snapshots: one response per window.
CollectAggregates(e) ==
  LET n == CaptureRanges(Asked(e).through, proc[e].effective)
  IN  /\ At(e, "collect")
      /\ proc[e].key = Aggregates
      /\ Index(Run(e), Aggregates, n)
      /\ \E rejected \in BOOLEAN :
           /\ rejected => n # 0
           /\ proc' = [proc EXCEPT ![e].at = "complete", ![e].windows = n,
                                   ![e].rejected = rejected]
      /\ UNCHANGED <<outer, stats, checkpoint, finals, cancels, seenAt, statcast,
                     watermark, faults>>

\* _collect_statcast_days, one day: the rows confirm the final game, or they lack
\* part of it or contradict each other, which is noted as a conflict.
CollectDay(e) ==
  LET d == DayOf(proc[e].key)
      due == proc[e].final \cap {d}
  IN  /\ At(e, "collect")
      /\ proc[e].key > Aggregates
      /\ Index(Run(e), proc[e].key, 1)
      /\ \E confirmed \in {due, {}} :
           proc' = [proc EXCEPT ![e].at = "persist",
                                ![e].covered = @ \cup confirmed,
                                ![e].conflict = @ \/ confirmed # due]
      /\ UNCHANGED <<outer, stats, checkpoint, finals, cancels, seenAt, statcast,
                     watermark, faults>>

\* The provider does not answer (spare = 0), or its answer is retained and refused.
CollectFails(e) ==
  /\ At(e, "collect")
  /\ Fault
  /\ \E spare \in {0, 1} : Raise(e, spare)
  /\ UNCHANGED <<database, clock>>

\* record_game_status: a status recorded before is not recorded again, however
\* many others came in between.
PersistSchedule(e) ==
  LET at == raw[Run(e)][Schedule].at
      status(d) == CASE d \in proc[e].final -> "final"
                     [] d \in proc[e].cancelled -> "cancelled"
                     [] OTHER -> "scheduled"
  IN  /\ At(e, "persist")
      /\ proc[e].key = Schedule
      /\ seenAt' = [d \in Days |->
                      IF d \in Scope(Asked(e)) /\ seenAt[d][status(d)] = 0
                      THEN [seenAt[d] EXCEPT ![status(d)] = at]
                      ELSE seenAt[d]]
      /\ Goto(e, "complete")
      /\ UNCHANGED <<outer, stats, checkpoint, raw, finals, cancels, statcast,
                     watermark, clock, faults>>

\* _persist_statcast: evidence of a complete game is recorded for good.
PersistDay(e) ==
  /\ At(e, "persist")
  /\ proc[e].key > Aggregates
  /\ statcast' = statcast \cup (proc[e].covered \cap {DayOf(proc[e].key)})
  /\ Goto(e, "complete")
  /\ UNCHANGED <<outer, stats, checkpoint, raw, finals, cancels, seenAt,
                 watermark, clock, faults>>

\* Aggregate rows were rejected, or Statcast lacks the final game of the day.
IsPartial(p) ==
  \/ p.key = Aggregates /\ p.rejected
  \/ p.key > Aggregates /\ DayOf(p.key) \in p.final \ p.covered

\* _complete_checkpoint: only a running checkpoint is completed; the process
\* goes on either way.
Complete(e) ==
  LET r == Run(e)
      k == proc[e].key
      n == IF k = Aggregates THEN proc[e].windows ELSE 1
      status == IF IsPartial(proc[e]) THEN "partial" ELSE "completed"
  IN  /\ At(e, "complete")
      /\ checkpoint' = [checkpoint EXCEPT ![r][k] =
                          IF @.status = "running"
                          THEN [status |-> status, captures |-> n] ELSE @]
      /\ proc' = [proc EXCEPT ![e] = Absorbed(@, Asked(e), n, raw[r][k].at)]
      /\ UNCHANGED <<outer, stats, raw, finals, cancels, seenAt, statcast,
                     watermark, clock, faults>>

-----------------------------------------------------------------------------
(* The end of a run. *)

\* The day up to which the aggregates are complete.
AggregateComplete(e) ==
  IF /\ ~proc[e].rejected
     /\ proc[e].windows = CaptureRanges(Asked(e).through, proc[e].effective)
  THEN proc[e].effective ELSE 0

Judged(e) ==
  LET q == Asked(e)
      own == CalculateCompleteness(q.through, Scope(q),
               ScheduleValid(proc[e].final, proc[e].covered, AggregateComplete(e)),
               proc[e].cancelled)
  IN  IF q.command = "daily" THEN MergeDaily(q.through, AggregateComplete(e))
                             ELSE own

\* The raw rows of a run, numbered within their checkpoint.
RawRows(r) ==
  UNION {{k} \X (1 .. raw[r][k].rows) : k \in Datasets \cup {Unowned}}

\* Mistake: the counts are written into the report and not compared.
ReconcilesAlways(e) == TRUE

\* _run_reconciliation_items without an error: as many raw rows as this
\* execution counted, and every window of the aggregates.
Reconciles(e) ==
  /\ Cardinality(RawRows(Run(e))) = proc[e].expected
  /\ proc[e].windows = CaptureRanges(Asked(e).through, proc[e].effective)

\* _collect_current after the last dataset, and the reconciliation _finalize_run
\* records.  The cross-source counts may differ unexplained, which warns and
\* withholds the watermark.
Evaluate(e) ==
  /\ At(e, "evaluate")
  /\ Reconciles(e)
  /\ \E eligible \in BOOLEAN :
       LET result == Judged(e)
           warned == \/ result.partial # 0 \/ proc[e].conflict
                     \/ proc[e].rejected \/ ~eligible
           dated == result.latest # 0 \/ result.contiguous # 0
       IN  proc' = [proc EXCEPT ![e].at = IF eligible /\ dated THEN "advance"
                                                              ELSE "complete_stats",
                                ![e].result = result,
                                ![e].outcome = IF warned
                                               THEN "completed_with_warnings"
                                               ELSE "completed"]
  /\ UNCHANGED <<database, clock, faults>>

\* The reconciliation fails, or the provider's counts are ambiguous.
EvaluateFails(e) ==
  /\ At(e, "evaluate")
  /\ IF Reconciles(e) THEN Fault ELSE UNCHANGED faults
  /\ Raise(e, 0)
  /\ UNCHANGED <<database, clock>>

\* repository.advance_completeness_watermark, while the run is still running.
Advance(e) ==
  /\ At(e, "advance")
  /\ watermark' = Advanced(watermark, proc[e].result, proc[e].observed, Run(e))
  /\ Goto(e, "complete_stats")
  /\ UNCHANGED <<outer, stats, checkpoint, raw, finals, cancels, seenAt, statcast,
                 clock, faults>>

\* transition_ingestion_run: a repeated target is accepted, another end is not.
CompleteStats(e) ==
  /\ At(e, "complete_stats")
  /\ \/ /\ stats[Run(e)] \in {"running", proc[e].outcome}
        /\ stats' = [stats EXCEPT ![Run(e)] = proc[e].outcome]
        /\ Goto(e, "complete_outer")
     \/ /\ stats[Run(e)] \notin {"running", proc[e].outcome}
        /\ UNCHANGED stats
        /\ Raise(e, 0)
  /\ UNCHANGED <<outer, checkpoint, raw, finals, cancels, seenAt, statcast,
                 watermark, clock, faults>>

\* Mistake: the owning run does not repeat the warnings.
OuterStatusBare(outcome) == "completed"

\* The RunStatus that goes with the outcome.
OuterStatus(outcome) == outcome

\* database.transition_run: the owning run must still be running.
CompleteOuter(e) ==
  /\ At(e, "complete_outer")
  /\ \/ /\ outer[Run(e)] = "running"
        /\ outer' = [outer EXCEPT ![Run(e)] = OuterStatus(proc[e].outcome)]
        /\ Leave(e)
     \/ /\ outer[Run(e)] # "running"
        /\ UNCHANGED outer
        /\ Raise(e, 0)
  /\ UNCHANGED <<stats, checkpoint, raw, finals, cancels, seenAt, statcast,
                 watermark, clock, faults>>

-----------------------------------------------------------------------------
(* _fail_run, three transactions. *)

FailedCheckpoints(r) == [k \in Datasets |-> Ended(checkpoint[r][k])]

\* _persist_unrecorded_captures and fail_active_checkpoints.
FailCheckpoints(e) ==
  /\ At(e, "fail_checkpoints")
  /\ raw' = [raw EXCEPT ![Run(e)][Unowned].rows = @ + proc[e].spare]
  /\ checkpoint' = [checkpoint EXCEPT ![Run(e)] = FailedCheckpoints(Run(e))]
  /\ proc' = [proc EXCEPT ![e].at = "fail_stats", ![e].spare = 0]
  /\ UNCHANGED <<outer, stats, finals, cancels, seenAt, statcast, watermark, clock,
                 faults>>

FailStats(e) ==
  /\ At(e, "fail_stats")
  /\ stats' = [stats EXCEPT ![Run(e)] = IF @ \in Active THEN "failed" ELSE @]
  /\ Goto(e, "fail_outer")
  /\ UNCHANGED <<outer, checkpoint, raw, finals, cancels, seenAt, statcast,
                 watermark, clock, faults>>

FailOuter(e) ==
  /\ At(e, "fail_outer")
  /\ outer' = [outer EXCEPT ![Run(e)] = IF @ \in Active THEN "failed" ELSE @]
  /\ Leave(e)
  /\ UNCHANGED <<stats, checkpoint, raw, finals, cancels, seenAt, statcast,
                 watermark, clock, faults>>

\* The process dies between two transactions.
Crash(e) ==
  /\ ~At(e, "idle")
  /\ Fault
  /\ Leave(e)
  /\ UNCHANGED <<database, clock>>

\* The collection service starts over the same database and fails every
\* collection run that is not finished, those of live acquisitions too.
ServiceStarts ==
  /\ \E r \in Runs : outer[r] \in Active
  /\ Fault
  /\ outer' = [r \in Runs |-> IF outer[r] \in Active THEN "failed" ELSE outer[r]]
  /\ UNCHANGED <<stats, checkpoint, raw, finals, cancels, seenAt, statcast,
                 watermark, clock, proc>>

Starting(e) == \/ CreateRun(e) \/ StartOuter(e) \/ CreateStats(e)
               \/ StartStats(e) \/ Lock(e) \/ Resume(e)

Collection(e) == \/ Open(e) \/ CollectSchedule(e) \/ CollectAggregates(e)
                 \/ CollectDay(e) \/ CollectFails(e)
                 \/ PersistSchedule(e) \/ PersistDay(e) \/ Complete(e)

Ending(e) == \/ Evaluate(e) \/ EvaluateFails(e) \/ Advance(e)
             \/ CompleteStats(e) \/ CompleteOuter(e)
             \/ FailCheckpoints(e) \/ FailStats(e) \/ FailOuter(e)

Next ==
  \/ \E e \in Executors : Starting(e) \/ Collection(e) \/ Ending(e) \/ Crash(e)
  \/ ServiceStarts

Spec == Init /\ [][Next]_vars

-----------------------------------------------------------------------------
(* Properties. *)

\* A completed run owns, for every dataset it finished, exactly the responses of
\* the execution that finished it: nothing an interrupted attempt left behind is
\* counted as its evidence (_run_reconciliation_items).
CompletedRunReconciles ==
  \A r \in Runs, k \in Datasets :
    /\ stats[r] \in Success
    /\ checkpoint[r][k].status \in {"completed", "partial"}
    => raw[r][k].rows = checkpoint[r][k].captures

\* Some schedule has shown the game of the day as cancelled.
Cancelled == {d \in Days : seenAt[d]["cancelled"] # 0}

\* The days the watermark names stand on evidence, whichever runs, resumed or
\* not, moved it there: the latest day on Statcast's rows of its game; the day
\* the season is complete through on those too, or on a schedule that showed its
\* game cancelled, and beyond the latest day only on the second; and neither day
\* is beyond the one asked for (completeness.py, the CHECK constraints of
\* stats_completeness_watermarks).
WatermarkIsBacked ==
  /\ watermark.latest # 0 => watermark.latest \in statcast
  /\ watermark.contiguous # 0 => watermark.contiguous \in statcast \cup Cancelled
  /\ watermark.latest < watermark.contiguous => watermark.contiguous \in Cancelled
  /\ watermark.latest <= watermark.requested
  /\ watermark.contiguous <= watermark.requested

\* Runs that finish in another order than they started, or again after a crash,
\* never move the watermark back (stats_completeness_watermarks_no_regression).
WatermarkNeverRegresses ==
  [][/\ watermark.requested <= watermark'.requested
     /\ watermark.observed <= watermark'.observed
     /\ watermark.latest <= watermark'.latest
     /\ watermark.contiguous <= watermark'.contiguous]_vars

\* The owning collection run is reported complete only as its statistics run
\* is, with the same warnings, whoever executed and re-executed it.
OuterFollowsStats ==
  \A r \in Runs : outer[r] \in Success => outer[r] = stats[r]
=============================================================================
