# Daily MLB: verification project

TLA+ models of the Daily MLB repository (`src/`), TLC configurations that
check them on small instances, and TLAPS proofs, for every value of the constants, of
nearly every safety property those runs check: of the run controller and its operator, the
daily slates, the collection service and its client, the release workflow, the provider
transport, the acquisition of statistics, the feature snapshots and the migrations.

Contents: [the system](#1-the-system), [modules](#2-modules-and-how-they-follow-the-code),
[runs](#3-what-the-runs-check), [proofs](#4-what-is-proved),
[disagreements found](#5-where-code-and-documentation-disagree),
[not modelled](#6-what-is-only-checked-and-what-is-not-modelled), [plan](#7-plan).

To repeat everything in this directory: `tlc -workers 2 -config X.cfg M` for each run of
`PROJECT.json` (module `M`, configuration `X.cfg`) and `tlapm M.tla` for
`RunControllerProofs`, `DailySlateProofs`, `CollectionServiceProofs`, `AppsScriptProofs`,
`ReleaseWorkflowProofs`, `ProviderTransportProofs`, `StatsAcquisitionProofs` and
`StatsStorageProofs`.
`PROJECT.json` also maps every definition that models code to the lines it
stands for and gives, for each property, a plausible mistake in that code which
makes the property fail.

## 1. The system

Daily MLB collects odds and weather for a day of baseball games, acquires
statistics, and lets an analyst seal predictions, have them judged by a policy,
reviewed, published and settled. It is a set of Python programs over one SQLite
file and a tree of artifacts, plus one Google Apps Script. Every write
transaction runs under `BEGIN IMMEDIATE` (`app/database.py`), so a transaction
is atomic, serialized with every other, and re-reads what it validates; anything
held across two transactions may be stale.

| Component | State it keeps | Operations | Hard behaviour |
|---|---|---|---|
| Run controller contracts, repository, service (`app/run_controller`) | rows of a run and of its ordered phases | create, start, execute, resume; claim, complete, fail, retry, reuse, skip, refresh a phase | several processes with stale reads; a crash between any two transactions |
| Daily slate (`app/daily_slate`) | immutable snapshots of the day's games, one per attempt of a phase; player mappings it refers to | resolve a starter, persist, read | an attempt overtaken while its handler still writes |
| Collection service (`app/main.py`, `app/jobs.py`, `app/run_state.py`, `scripts/run_once.py`) | run rows, the runner's lock, queue, active set | POST, worker, callback, startup reconciliation, shutdown | two threads and the executor's; a second process on the same rows; a failure of the code that records failures |
| Collection pipeline (`app/pipeline.py`, exporter, artifacts, raw payloads) | raw payloads, manifest, archive | capture, index, export, pack | partial failure between the files and the rows |
| Apps Script client (`apps_script/Main.gs`) | two script properties, a one-shot trigger, Drive | trigger, poll, save | lost answers, a cut-off execution, a trigger that is used up |
| Release workflow (`app/release_workflow.py`, `app/publication`, `scripts/release_candidate.py`) | append-only tables of predictions, evaluations, drafts, decisions, batches, settlements; artifacts that mirror them | assemble, seal, evaluate, draft, approve, settle | overlapping commands that read, write a transaction and replace a file; an approval of several transactions |
| Stats transport and raw store (`app/stats/transport.py`, `raw_store.py`) | lock files, the start of the last request, write-once captures, a response cache | fetch with retries, retain, parse, index, link | the budget of one site shared by processes that may die anywhere; a response published in several files |
| Stats acquisition (`app/stats/acquisition.py`, run lock) | acquisition runs, checkpoints, the completeness watermark | backfill, daily, bootstrap, register pin; resume, reconcile, complete, fail | a run resumed by another process; runs that end in another order than they began |
| Stats repository and features (`app/stats/repository.py`, `features.py`, `feature_materialization.py`) | append-only revisions, identities, snapshots, feature rows | record, read as of a cutoff, derive, materialize again | corrections that arrive late; a read, a derivation and a record in steps of their own |
| Stats providers and normalization | none | one conversion per page, feed or archive | doubleheaders whose pages lag behind or are numbered differently |
| Database and migrations (`app/database.py`, `migrations.py`) | the file, its version and history, backups, diagnostics | open, classify, back up, convert, upgrade | concurrent starters, a crash between any two steps, a program of the old schema that still writes |
| Odds processing (`app/processors/odds_processor.py`) | none; reads stored captures | decide a market, follow its movement | the same decision computed twice from differently shaped data |
| Weather processing, analysis (`app/processors`, `app/analysis`) | none | geometry, predictions, policy gates | floating-point numbers |
| Reference data, configuration, redaction, operations scripts | none or a log | load, scan, supervise | restart loop of the validation supervisor |

Interaction. The run controller's handlers call the other components and, in a
phase of its own, persist a daily slate. Every process first brings the database to its
schema. A client starts collections through
the service's HTTP interface and sees only their lifecycle. The release
workflow starts from the archive's exports of one collection run. All of them
meet in the database, nowhere else, except for the runner's memory inside one
service process and the properties of the script.

What makes each part correct, and where it could go wrong, is listed line by
line under `hazards` in `PROJECT.json`, with the properties that watch it. In
short: no phase is executed by two processes and no completed work is redone or
lost; a row never claims more than the files behind it hold; every accepted
run ends and leaves the runner; a published play goes back to one whole review
of stored evidence; what an operator is told he can resume, he can.

## 2. Modules and how they follow the code

Conventions. A table is a function from its keys to records, an append-only
table a set or a sequence. `CanX` is the validation inside a write transaction
and `X` its update; a step takes both together. A process is a program counter
and a record of what it has read (`view`, `shell`, `request`/`task`); two steps
are separated exactly where the code ends a transaction, replaces a file,
releases a lock or waits. A refused transaction raises: the disjunct with
`~CanX` says where the exception goes. Timestamps, checksums, wording and audit
rows are abstracted from unless a property needs them. Operators under a
comment that begins "Mistake" belong to no behaviour: they are the defects
the properties are tried against.

### Run controller

| Module | Code | Correspondence |
|---|---|---|
| `PipelineContracts` | `run_controller/contracts.py` | the statuses and the transition tables as sets: `RunAllowed`, `PhaseAllowed` |
| `PipelineRepository` | `run_controller/repository.py` | tables `run`, `phase`; one pair `CanX`/`X` per write transaction |
| `ManualRunController` | `run_controller/service.py`, `scripts/run_controller.py` | processes `Procs`; `Begin` and `Execute`/`Resume` are the two reads of `show`; `Retry` is the compound resume; `Loop`, `Plan*` one turn of `_execute_loop`; `StartRun`, `StartPhase` the two claiming transactions; `Handler*`, `Complete*`, `FailPhase` the handler and the recording of its result; `Pause*`, `Finalize` the end of the run; `Crash` at any of them |
| `RunControllerProps` | | the properties, the refinement mapping and the inductive invariant `IInv` |
| `SerialRun` | | abstract specification: one executor that does the phases in order |
| `OperatedPipeline` | public transitions of the repository | the controller beside an operator who calls `transition_*`, `retry_*`, `force_refresh_*`, `resume_pipeline_run`, `mark_pipeline_phase_reused` in any order |
| `DailySlate` | `daily_slate/repository.py`, its table and triggers | handlers of the operated controller that persist snapshots, any slate at any moment of their attempt; `handler` says whether one has |

`output` holds the attempt that produced a phase's checksum, so a stale output
is visible; `reused_from_run_id` is a set of at most one run.

The repository has no handler of the `daily_slate` phase: handlers are passed to the
controller's service by whoever builds it. `DailySlate` therefore assumes nothing of what a
handler reads or in which order, and one thing of its end: it returns a result only once it has
persisted a slate (`persist_daily_slate` is what gives it the checksum and the path to return).
`resolve_probable_starter` is a read and the artifact an optional file that the repository
records the path of and never looks for; neither has an action.

### Collection service and its client

| Module | Code | Correspondence |
|---|---|---|
| `CollectorRuns` | `run_state.py`, run part of `database.py` | the run row with `_ALLOWED_TRANSITIONS`, the raw payload index, the recorded warnings |
| `CollectionService` | `main.py`, `jobs.py`, effects of `pipeline.py`, `run_once.py` | `request[r]` is the thread of its POST, `task[r]` the execution, `lock`, `queue`, `threads`, `worker`, `active` the runner of each process; every transaction and file effect may fail; `Crash`, `Boot` (reconciliation), `Shutdown`, `Stop` |
| `CollectionServiceProps` | | the properties |
| `RunLifecycle` | | abstract specification: what a client sees of a run |
| `AppsScriptClient` | `apps_script/Main.gs` | written over `RunLifecycle`, the very lifecycle `CollectionService` is shown to implement |

`executor.submit` of CPython queues the work item before it starts its thread,
and it may raise in between: `ScheduleFails` leaves the item in the queue for a
later submission to start (external: the standard library). `add_done_callback`
runs the callback in the request thread when the future is already done
(`Register`). `interrupted` is a history: runs whose processing was cut short by
a crash, a refused submission or a failure that could not be recorded. Uvicorn
drains requests before the lifespan ends; `Shutdown` is nevertheless allowed
while requests are pending, which adds behaviours and removes none. A tool's
process is reconciled by a service's startup as in the code: its run is failed
under it and it goes on to its next refused transition.

### Release workflow

`ReleaseWorkflow` models every command of `scripts/release_candidate.py`. A
shell runs one command at a time; commands of two shells overlap. A
command's reads are merged with the first transaction after them, which holds the
write lock soon after, except in `approve`, where the artifacts and the draft
are read long before the last of the decision transactions: `Approve` reads,
`Decide` is one transaction per item in the order of the draft's items,
`Publish` the batch, `PackageCard` and `PackageLedger` the files. Unique
constraints and triggers of `migrations.py` appear as guards (`Undecided`,
`Publishable`, `Admissible`) with `ApproveRefused` for their refusal. The policy's
verdict on an evaluation is nondeterministic. An `Evidence` value is a content
of a bundle: sealing the same content for the same game again is refused, on
whatever features. `Breaks` ends a command anywhere. `ReleaseWorkflowProps`
states the properties.

### Database

`SchemaMigrations` is `ensure_schema` executed by any number of `Starters`: every read
outside a transaction and every transaction is a step. A schema is the version its
fingerprint stands for; `db` keeps the form, `user_version`, the recorded history and the
rows whose fate matters (collector runs, and player snapshots that the fielding grain
migration rebuilds). A legacy program may record and end runs until the file is
converted; `written` is a history of what it committed. `backup` and `diag` are the
files a starter leaves.

### Statistics

| Module | Code | Correspondence |
|---|---|---|
| `ProviderTransport` | `stats/transport.py`, `stats/raw_store.py`, callers in `stats/providers` | processes that fetch through lock files, the rate-limit file, the raw root and the response cache; attempts, refused answers, deaths anywhere |
| `StatsAcquisition` | `stats/acquisition.py` (backfill, daily), `stats/completeness.py`, `stats/run_lock.py`, runs, checkpoints, raw metadata, status observations and the watermark of `stats/repository.py` | a process creates a run (`CreateRun` to `Lock`) or resumes one (`Resume`), opens, collects, persists and completes one dataset after another, then `Evaluate`, `Advance`, `CompleteStats`, `CompleteOuter`, or the three transactions of `_fail_run` |
| `RetrosheetBootstrap` | `stats/acquisition.py` (bootstrap-retrosheet), the recorded tables of `stats/repository.py`, `stats/retrosheet_normalization.py` for what is kept | the program a bootstrap executes is computed from the archive: the set of its repository calls, each a transaction with its place (member, pass, season, call), executed in the order of the places; checkpoints per member and season decide what a resumed run skips. Commands overlap: `op` is the memory of the one whose transaction is next, `waiting` those of the others, `Turn` hands over at any transaction |
| `RegisterPin` | `stats/acquisition.py` (reconcile-player-register-pin) | the second command over the same runs and tables |
| `StatsStorage` | `stats/repository.py` over `migrations.py` | composes the two with `SchemaMigrations`: the commands begin on a current file |
| `FeatureSnapshots` | feature parts of `stats/acquisition.py`, `stats/repository.py`, `stats/features.py`, and `stats/feature_materialization.py` | acquisitions that persist, read what is known at their cutoff and record features, beside materializations from the database; `jobs` are the runs, `worker` the processes |
| `GameReconciliation` | `stats/acquisition.py` (`_collect_schedules`, `_reconcile_completed_statcast_games`) | operators: how rows of two clubs' pages are merged and feeds matched to the games of a day |

The datasets of a run of `StatsAcquisition` are its schedule, the season aggregates and one
Statcast day after another, in that order. `checkpoint` keeps the status and how many
responses the cursor names, `raw` how many rows the database has for it: the two differ
after a crash in between, and reconciliation compares their sums. A day has one
game, the thirty club schedules are one response and so is every window
of the aggregates, so that a checkpoint is indexed in one step; retention on disk is
part of that step, and `ProviderTransport` takes it apart. A clock that ticks with
every schedule stands for `retrieved_at`. The process of a new run does not hold the
lock until `Lock`, as in the code; another one may get there first. `ServiceStarts` is
the startup of the collection service over the same database, which fails the owning
runs of live acquisitions. Whether the cross-source counts differ, which rows are
rejected and which day Statcast confirms is nondeterministic. Two concurrent runs may
also collide on a revision number and fail; there it is a failure like any other, in
`FeatureSnapshots` it is the disjunct of `RecordRevision`. A day's game may be final, cancelled
or open; the other statuses of `normalization.py` leave it open.

The lock of `run_lock.py` is one of a run, not of the tables: `RetrosheetBootstrap` lets any
number of commands (`MaxDisturbances`) be in progress under runs of their own, and only the
resumption of a run whose lock is held is refused (`Locked`). What a command reads in one
transaction and uses in a later one is part of its memory and of an action of its own: the
canonical players that exist (`ReadCanonicalPlayers`), the lineups (`CheckThroughSeason`), whether
a player is mapped (`ResolvePlayer`), the latest revisions of its plays (`ReadLatestRevisions`),
the inventory (`ReadInventory`). The snapshots of games, teams and players look at their
history in the transaction that writes. Creating a run and taking its lock are one step here;
`StatsAcquisition` has the gap between them. Backfills and daily runs write to the same tables
under identities of their own provider and are not composed with a bootstrap; the one row they
share is the canonical player, where one they record after a bootstrap has read which exist makes
it fail as one of another bootstrap does.

In `FeatureSnapshots` all runs are about one day, one aggregate page and one pitch. A
content is a value; a response is known by it. What `features.py` computes is kept as
what it was computed from (`Payload`), because the question is which evidence a row
stands on; the figures are not modelled.

### Rules

`OddsConsensus` has `process_game`, over the provider's nested payload, and
`calculate_line_movement`, over the rows that `persist_game_with_odds` stored, on
integers: freshness, eligibility, canonical lines, the choice among offers, primary line,
consensus, pairing of sides, history and movement. A probability is in basis points and a
median is kept doubled; text that does not parse is missing. `GameReconciliation` above is
of the same kind. Neither has variables: the modules that give them values,
`MCOddsConsensus` and `MCGameReconciliation`, hold what is to be judged in one variable
that never changes, so that TLC judges each input in an initial state.

## 3. What the runs check

| Run | Instance | States | What it shows |
|---|---|---|---|
| `run_controller` | 1 run, 2 phases, 2 processes, 2 attempts per phase | 59,861 | `Ownership` (one process per phase, of its own attempt), `TablesOK` (order, run and phases agree, outputs of their attempt), `ResumableIsActionable`, `SettledRowsStay` (what is complete or orphaned stays), refinement of `SerialRun`, every command ends |
| `daily_slate` | 1 run whose only phase persists slates, 3 attempts, 2 players, an operator, and a second run to reuse from | 802,959 | a phase's output is a sealed snapshot of its attempt, reuse never becomes circular, and a run closes only when complete, whoever calls the repository |
| `collection_service` | 2 runs, 1 service, 1 tool, 1 payload captured twice | 1,172,922 | rows backed by files, one lifecycle per run, no run lost from sight |
| `collection_live` | 2 runs, 1 service | 65,428 | runs end, the runner's memory is released, no circular wait between request threads, worker callback and shutdown |
| `apps_script` | 2 runs, 3 polls | 4,265 | an artifact is saved once and only when complete; polling ends |
| `apps_script_polls` | the same without cut-off executions | | a violation: see section 5 |
| `release_reviews` | 2 games, 2 reviewers, 2 drafts | 1,752,106 | one review wins a draft whole; a half-reviewed draft has a known cause |
| `release_sources` | 1 game, 2 assemblies, 2 settlements | 1,877,140 | published plays rest on stored evidence; files never run ahead of the database; ledgers are coherent |
| `stats_acquisition` | a backfill and a daily run, 2 processes, 2 days, 1 fault; 3 runs with features, 2 contents of page and pitch, 1 death | 2,018,190 | what completes was counted exactly; owner and run agree; the days of the watermark are backed by Statcast or by a cancelled game, and it never moves back; features stand on evidence of their time |
| `features_rerun` | 1 process, 2 runs over the same content | | a violation: see section 5 |
| `provider_transport` | 2 processes, 1 page they both want, 1 query, 2 attempts, 2 captures; 51,200 bounded doubleheaders and 6,592 bounded captures of a game's odds | 274,870 | the cache answers only with what was retained whole and parsed, requests are spaced, evidence is written once, every fetch ends; the games of a day are told apart, and what `process_game` decides is what the stored rows show |
| `stats_storage` | 2 starters, 3 schema versions, every kind of file, 1 fault; 2 archives, 2 runs and an older one, 1 break or 2 commands that take turns at every transaction | 337,630 | nothing a legacy program committed is lost; checkpoints and completed runs speak for their rows, captures are counted once, revisions form chains and what is recorded stays, through kills and resumptions and although each command goes by what it read before the other wrote; every start and every run ends |

Bounds, and why they are enough. All are constants named `Max...`, the size of a set, or an
operator whose comment begins "Bound". Two processes exhaust the interesting interleavings of
compare-and-set transactions, where a third can only repeat what the second does to the first
(and the proofs of section 4 cover any number). Two phases make a barrier that can be skipped
and a final status that mixes results; two attempts make one retry; the proofs hold for any
number of both. Runs of the controller never read each other's rows except through `create` and
reuse, for which `daily_slate` has two: the second is there for the repository's calls alone,
between two executions of the controller and with two attempts (`Bound`), since a handler of one
run and reuse between two do not touch the same fields. Two captures with one payload are the
smallest case in which a failed insert can remove the file of an earlier capture. Three attempts
are needed for a daily slate whose overtaken handler is refused and tried again, two players for
mappings that contradict each other. Three polls leave room for a repeated one. In the release
runs a review has to be interruptible between two decisions (two games), contested (two
reviewers), and a draft overtaken (two drafts); a second assembly is the smallest that can make
a prediction stale.

Two days are the fewest on which the contiguous and the latest date of the watermark
differ, in either order: a gap leaves the contiguous date behind, a cancelled day carries it
beyond. A backfill beside a daily run is the pair whose scopes differ; `MaxFaults` counts
deaths of a process, refused responses and startups of the service together, and one is
enough to leave a dataset half collected and to resume it. No fault is added to a behaviour
in which aggregate rows are rejected or a game is cancelled, nor one of these to the other
(`OneMishap`); a Statcast day that lacks its game makes the same partial checkpoints beside
every fault. Three runs make two acquisitions that overlap and a materialization of one of them, two contents a correction. The runs and
the features are followed in different behaviours (`RunsFollowed`, `FeaturesFollowed`), since
`FeatureSnapshots` has the two rows of a run, its locks and its checkpoints in one word each.
In `stats_storage` the commands are followed only on a file that needed no migration
(`CommandsFollowed`): nothing in them depends on how it became current, and `EnsureSchema` is
finished by then for every process. `MaxDisturbances` bounds the commands that wait and the
breaks so far together: with one, a command is broken off where none waits, or two overlap
until one has ended; both at once have more than four million states, and the proofs of
section 4 have any number of both. Two commands are enough for one to read before the other
writes, two archives for them to agree, to differ in a play and a batting line, and to be
served in the other order than the bootstraps finish. Three schema versions have one before the
rebuild of player snapshots and one after. Two attempts and two captures let a retry follow a retained answer.

The rules are judged for every member of a bounded set of inputs. A doubleheader has two
games that ended alike or not, ten ways in which the two clubs' pages may show each, feeds that
are missing, cut short, numbered or not, and any of them in conflict. A capture has two
books with one spreads market each, in and out of shape, stamped or not, or three books with
one quote; pairs of captures are what movement needs. `OddsDecisionsAgree` is stated for what
the two computations can agree on: one market object per book, no side quoted twice, no stamp
in the future, the same home team in both captures. `GamesAreToldApart` claims the own game for
each match only where every feed is whole and of a game its page shows as final (`FeedsFit`).
The hazards in `PROJECT.json` say what the code does beyond.

Symmetry is used for collection runs, statistics processes and shells, which nothing in the
code orders, and only in runs without liveness.

Deadlock is checked for the controller and for the controller beside an operator, where a new
command is always possible. The other systems may stop: all runs used up, all processes down
or every bound reached; their configurations say `CHECK_DEADLOCK FALSE`.

Fairness. `ManualRunController!FairSpec`: a process that is scheduled goes on and a handler
returns or raises; nobody has to issue commands. `CollectionService!FairSpec`: every request
thread and the execution of every run goes on, and the worker takes queued items; no transaction
is bound to succeed, nothing has to boot or crash. `AppsScriptClient!FairSpec`: the script's
steps, its triggers and the service's lifecycle go on. `TransportFairness`: a process that is
not killed goes on, time passes, and whoever waits for a lock file gets it in the end, which is
strong fairness of `Acquire` and of nothing else: `flock` blocks in the kernel, which grants a
lock in the order it was asked for (on Windows the code polls instead, and there this is an
assumption about the poll). `StorageFairness`: the service is started again whenever it stops
(`restart: unless-stopped` in `docker-compose.yml`), and an operator resumes a run that a kill
left running. Commands take turns at the database (`Turn`), so that "a command in progress goes
on" is strong fairness of `Continues`, with a turn taken when none has it. The rest is the
operating system's scheduler, the executor's thread and Apps Script's triggers.

## 4. What is proved

For every set of runs, processes, hosts, days and rows, any number of overlapping commands and
every other bound, of the modules as they are and under the named assumptions of the constants
only. Most say that bounds and counts are natural numbers (those
of phases, attempts, runs, days and the request interval positive), that the names for nothing
(`NoRun`, `NoProc`, `Nowhere`) name nothing, that services are not tools and pages not queries,
that a run has a date and a request, that `Handled` and `SlatePhase` are phases, and, of the
database an older release left, what its table's keys already enforce (`SnapshotsAssumption`).

The Retrosheet bootstrap has three about its input. `MembersAssumption`: it reads some of the
seven members, players and games first, none twice, as the code lists them.
`ArchivesAssumption`: every row belongs to a member, a row of the players' list names its
player, and the checksum of a lineup stands for the player in it. `LinesAssumption`: an archive
has one line for a game, which the code enforces (`acquisition.py:3705`); one line for a team in
a game, without which one run would make two revisions of one thing; and the teams of a game
stay what they are, since the repository refuses a game whose identity changed. Only
`RevisionsStayChained` uses the last assumption.

All the invariants are proved alike. The property says too little of who is in the middle of
something: a process acts on what it read some transactions ago, so a strengthening says what
it may still conclude from that. One lemma carries the strengthening over the steps of others
(it lists what such a step must leave alone), one lemma per action does the rest.

### Run controller (`RunControllerProofs`)

`IInv` is inductive (`Invariance`), hence type correctness (`Typing`), `OneOwner`,
`AttemptOwnership`, `SerialOrder`, `RunMatchesPhases`, `OutputOfItsAttempt` are invariants, and
the action properties `CompletedIsFinal` and `OrphanUntouched` hold. `WorkIsOwned`,
`TablesAgree` and `SettledWorkStays` state them as the runs check them: `Ownership`, `TablesOK`
and `SettledRowsStay`. `ResumableIsActionable` is invariant (`ResumeHasWork`) and the
controller implements `SerialRun` under the mapping of `RunControllerProps` (`Implementation`).

Whether `OneOwner` survives a claim depends on what is still true of the reading that led to
it. `IInv` therefore adds `ProcessOK`: everything a process may still conclude from its view.
Facts survive because they are stable: successful phases never change, so "all earlier phases
are successful" and "every phase is successful" stay true once read; a run that has begun
never becomes pending again; and the rest is re-validated by the transaction.
`RunMatchesPhases` gives that a running phase excludes every claim, by `SerialOrder` there
is at most one, and with `AttemptOwnership` at most one owner. `LocalStep`/`QuietStep` carry
the actions that change no rows and `ChangeRows` those that do.

The refinement maps a run's rows to what an operator can see: what it does
(`ModeOf`) and how many phases are done (`DoneOf`). Each action moves at
most one run, by exactly one abstract step or none; counting finished phases needs a
cardinality argument (`DoneIsCount`), where `SerialOrder` makes the successful
phases an initial segment.

### The operator and the slates (`DailySlateProofs`)

`SlateInv` is inductive (`Invariance`), hence `ReuseStaysSound` and `OutputsAreSealed`, and
`RunsFollowPhases` holds of every step.

Beside an operator hardly anything a process read is stable: a phase may be failed and retried
under its handler. What remains is in `OperatedInv`: the rows of a run not yet created are
blank, a running phase has no output, and no phase returns to "pending" (`PhaseMove` says what
any transaction may do to a row). The last is what makes reuse sound: a phase is
borrowed from one that is past "pending" and only while it is "pending" itself, so the borrowed
one was settled first and no two borrow from each other. `HandlerOK` says that a handler that has
persisted has its snapshot, of the attempt it runs under; since snapshots are never removed
and attempts only grow, it holds whatever the operator did meanwhile, and the repository's
comparison of attempts refuses the handler whose attempt is over.

### Collection service (`CollectionServiceProofs`) and its client (`AppsScriptProofs`)

`IInv` is inductive (`Invariance`), hence `TypeCorrect`, `CompletedRunsAreBacked`,
`UnstartedRunsNeverRan` and `IncompleteRunsAreAttended`, and the service implements
`RunLifecycle` (`ServiceImplementsRunLifecycle`), over which the script is specified. For the
script, `SavedOnce`.

`CompletedIsBacked` relates three writers that share no transaction: the database, the raw
files, the archive. `FilesOK` keeps them together at each place of an execution (what is indexed
is on disk; a capture whose insert is pending removes on failure only files that were not there
before, which are not indexed; the manifest and archive hold what the final transition will
report), `ProgressOK` says which row statuses go with which place, in particular that a row
failed by a startup never becomes complete under the execution it was taken from, and that stage
`before_worker_start` means nothing was stored. `ControlOK` ties a request thread to its
execution, the lock of the runner and its process; `QueueOK` that a work item is in one queue,
once. `RunStays` and `QueuesStay` carry a run over steps of the others. For the script,
`ExecutionOK` says that what it downloads and saves is complete and served, which both stay so
(`CompleteIsFinal`).

### Release workflow (`ReleaseWorkflowProofs`)

`IInv` is inductive: `Typing` and `ReviewsAreWhole`. Together with it `StoredInv` is
(`StoredInvariance`): `FilesFollowRows`, `LedgersCohere`, `PlaysAreSound`,
`HalfReviewsAreExplained`.

`ReviewIsWhole` alone says nothing of the reviews at work.
`ReviewAtWork` adds that each has recorded exactly its verdicts on the candidates
before those it has left, `ReviewsApart` that reviews have numbers of their own, and
`DecidedInOrder` that a decided candidate has all earlier ones decided too. Hence
`NoOtherReview`: if the first candidate I have left is undecided, whatever is decided
on the draft is before it, so I decided it myself, and a second review is refused at its very
first candidate that the first review decided. `References` keeps all indices within rows that
exist, so that rows added later (`Grows`) change no candidate; `QuietStep` then carries
every command that neither decides nor publishes.

Files are written from what a command read before, so `CommandHolds` says that this was stored
then; stored rows stay, so a file written late is old but never ahead. For ledgers, all
settlement events together must be coherent, and what a settle command has read is a coherent
part of them. `DraftsAreSound` says what a draft was made of, which no later evaluation
changes. `Explained` accounts for each decision by the very review that recorded it
as long as it is at work.

### Provider transport (`ProviderTransportProofs`)

`IInv` is inductive (`Invariance`), hence `CacheNamesWholeResponses`, and with it the action
properties `RequestsKeepTheInterval` and `EvidenceIsNeverRewritten`. `SlotOK` says that a
fetch holds its provider's lock from taking the slot to writing the metadata, and that what it
will have slept together with the time since the last request is at least the interval;
`CaptureOK` that the capture a fetch refers to is its own and how far it has been judged.

The same module proves what the two sets of rules promise for inputs of any size, where the run
enumerates small ones.

* `GamesAreMatchedOnce`: no feed serves two entries, no entry has two, a conflicted feed serves
  none, and a game that is told to be complete has ended, is matched and not in doubt. Asked is
  only that entries and feeds are finitely many and have identifiers of their own. Where games
  are paired by number, equally many numbers as games make the numbering one to one
  (`ValuesTellApart`).
* `GamesAreMatchedWithTheirFeeds`: an entry is matched with the feed of its own game, so that an
  entry that mixes the rows of two games stays unmatched, as long as every complete feed is of a
  game the schedule shows as final (`FeedsFitSchedule`) and whoever numbers a game numbers it
  right (`NumbersAreReal`). Without the first a game missing from the schedule could lend its
  feed to another of the same score.
* `AcceptedScoresAreReal`: an accepted entry has the score of every game its rows are about,
  whatever the two pages list, lag behind with or leave out, if what they show as final is
  right.
* `HistoryShowsDecisions`: the primary line and consensus of a capture's report are those the
  stored rows show for it in every later run, for any number of books, quotes and captures.
  Asked is what the two computations can agree on (`Comparable`): a book has one market of the
  kind and quotes a side once, no time lies beyond the tolerance, captures have their own times,
  and the home team is still the same. Both computations are shown equal to a third, `Decision`,
  on the set of usable offers: the history because rows and usable offers correspond one to one
  (`SelectedAreValid`, `HistoryComesTo`), the report because one offer per book and side leaves
  its choice no alternatives, and because the newest of one line is that line (`ProcessComesTo`,
  `NewestOfOne`). The latter needs that a median of finitely many numbers is a number
  (`MedianIsNumber`).

### Statistics (`StatsAcquisitionProofs`)

For `StatsAcquisition`, `IInv` is inductive (`Invariance`), hence `WatermarkStandsOnEvidence`
and `OuterReportsStats`, and `WatermarkOnlyAdvances` holds of every step. `Exclusive`: the lock
leaves a run one executor, and before the lock one process creates it. `OrderOK`, `MemoryOK` and
`StatusOK` are what a process may rely on between two transactions: its datasets follow the
schedule, its schedule is the one retained, the days it counts as covered are recorded, its
result is backed by them, its run has come as far as it. `RunOK` is what the rows of a run
promise to the process that resumes it. A watermark date is the greatest or least of a set of
days: that such a day exists is proved from the well-foundedness of `<` (`LeastExists`).
`WatermarkStandsOnEvidence` does not order the two dates, and the schema does not either: it
compares each only with the requested one. A cancelled game resolves its day without being one
that was played, so the day the season is complete through may lie beyond the latest
(`tests/stats/test_stats_completeness.py:69`). What holds is that the latest day has Statcast's
rows, that the contiguous one has them or a schedule that showed its game cancelled, and that
beyond the latest day it has the second.

`CompletedRunsReconcile` has an invariant of its own, `CountInv`, inductive relative to `IInv`.
The program compares two totals, the rows a run owns and what its last execution counted, and
concludes something about every dataset; an interrupted attempt leaves rows no checkpoint
names, and one that failed rows that belong to no checkpoint at all. `Tally` says what an
execution has counted: of a finished dataset all the responses its checkpoint names or none, of
a dataset still ahead none, never more than there are rows. So equal totals mean equality in
every dataset (`CountsAgree`, a fact about cardinalities), and every row is named (`Exact`).
After that nothing may be added: a process may still take the lock of a run
that another one has resumed and completed, as the lock does not look at the status. `LockedOut`
and `Untouched` say what it finds there, so that it can finish only a dataset that had no
rows, with the rows it counts. The steps come in four kinds (`Withdraws`, `Enters`, `Collects`,
`Closes`) and `CountKept` carries the invariant of the others over all of them.

For `FeatureSnapshots`, `EvidenceStands`. A process records a row of what it loaded some
transactions ago. `WorkerOK` adds that the revision
a process knows is in the history and was retrieved by the cutoff of its run, and that the
run it is about to end has its row. Both are stable: the history only grows
(`HistoryGrows`), the responses and the cutoff of a run never change (`JobsKept`), rows are
never removed; `OthersStay` carries them over the steps of others. `OneRowEach` is what
`Agrees` keeps, and with it the refusal of a row that differs. That `KnownAt` names a revision
known at the cutoff needs that a finite set of numbers has a greatest (`KnownIsKnown`).

### Migrations, bootstrap and register pin (`StatsStorageProofs`)

`MigrationInv` is inductive (`MigrationInvariance`), hence `MigrationsLoseNothing` and
`UndisturbedStartsSucceed`. `DatabaseOK` says what the file holds for the form it has, a
verified copy beside a converted one included. `Prepared` says what a start has made ready at
each place, whatever others committed. `Undisturbed` says what a start that nobody committed
under may still conclude about the file from what it read. Since a refusal refuses everybody, a
transaction means that nobody who failed had failed alone (`CommitStep`). That no two player
rows share a key after the grain version is a counting argument: rows are numbered by how many
precede them at their position, and of two rows the later one's predecessors strictly contain
the earlier one's (`LaterChainIsLonger`). The legacy program never rewrites a run that has
ended, so a status without a place in the schema stays a refusal (`LegacyWriteKeeps`).

The commands that fill the tables overlap, so every invariant about them has a part for the
command whose turn it is and one for those that wait: what a waiting command has in memory must
hold of tables others have written to meanwhile.

`RecordedEvidenceStays` says that nothing recorded is ever changed or removed, nor seen earlier
than it was. `BootInv` keeps the fields of the rows; every call then leaves what is recorded
(`CallKeeps`), of which that of a canonical player is the one that has to look again at what was
read before (`InsertedOnce`).

`CompletedCapturesAreSettled` counts raw rows (`CaptureInv`): a command past a capture has at
least one row of the register (`BootIs`) and as many of the dataset as there are members and the
archive, since a process killed before its checkpoint leaves its rows behind and the next one
starts again at none; `_finalize_run` compares the sum, and with two lower bounds the sum fixes
both. `OthersInv` is the lock of a run: the commands in progress have runs of their own, so a
step moves the rows of one running run, and the run a pin vouches for, completed when the pin
looked at it, stays as it was.

`CompletedSeasonsAreStored` proves the whole of `BootstrapIsWhole`. A checkpoint is completed at
the end of its season's calls, which several processes may have made: each skips what was
completed before it and makes the other calls again. `StoreInv` therefore has two parts: the
rows of completed checkpoints are in the tables (`RunStores`), and of every call before the one
at hand, for the rows of the seasons this process does not skip, the effect is there (`Passed`,
`Effect`). The second becomes the first when the checkpoint is completed. It needs the order of
the program: places are ordered without ties (`PlacesAreUnique`), so that going on to the next
call adds exactly the one just made to those passed (`PassingOn`), and the last call of a season
has all others of it before. A row counts as stored only with its player, who may have been
recorded from another member, hence `EntryIsKnown`; a run about to end has all its seasons
(`HasAll`), and the inventory it read then shows every row of its archive that is kept
(`Shows`). That is what completion claims and no more: the tables may have grown since the
inventory was read, by another run, and a run resumed in that gap fails.
`WaitingStores` says all this of the commands that wait; it survives the steps of the others
because tables only grow (`FactsGrow`) and a command moves no run but its own.

`RevisionsStayChained` proves `RevisionsAreChained`, from `ChainInv`. For plays the number of a
revision is computed from what was read before: the repository accepts it only as the next one
of the chain as it is (`RevisionIsNext`), which is why two bootstraps that read the same latest
revision cannot both append. All that a run records stems from the one archive of its dataset
checkpoint (`StemsFrom`), and an archive has one value for a key (`OneValueForAKey`, from the
assumption on lines, and because counting what came before tells stints and plays apart), so
that a run never corrects itself, however often it is resumed (`NewIsOfAnotherRun`, `NewIsOne`).
It is not claimed that a later revision was captured later, and in the code it need not be: a
bootstrap past its team calls that is overtaken by one of a newer archive appends its older
capture behind it, unless one of its next calls sights an identity the other has seen since and is refused.

## 5. Where code and documentation disagree

`README.md:130` of the repository promises that the follow-up trigger "polls
until the artifact is ready". The trigger is one-shot. A poll whose status check or
download still fails after its retries throws (`Main.gs:130`, `Main.gs:142`) without
scheduling another one and without clearing the stored run, so nobody polls the run
again, and every later daily trigger is refused as long as the property stays
(`Main.gs:72-74`). Run `apps_script_polls` exhibits it without any cut-off
execution, under fair scheduling.

`tests/stats/test_stats_acquisition.py:1205` is named
`test_rerun_is_idempotent_and_conflicting_pitch_is_revisioned` and executes one command twice
under a clock that stands still. When the clock has moved on and the responses have not, the
second run fails: a feature row is identified by the checksum of its sources
(`input_checksum`), its payload also names the `knowledge_cutoff`, and
`_record_feature_snapshot_on_connection` refuses the same sources with another payload
("feature input identity changed preserved output fields"). Run `features_rerun` exhibits it
with one process and no failure; `FeatureSnapshots` has the refusal in `RecordFeatures`, and
`FeaturesStandOnEvidence` holds beside it.

## 6. What is only checked, and what is not modelled

Only model-checked, and why:

* Liveness (`CommandEnds`, `ProcessingEnds`, `PollingEnds`, `FetchEnds`, `StorageEnds`):
  fairness and ENABLED are out of the prover's reach.
* `GamesAreToldApart` and `OddsDecisionsAgree` as they stand: they speak of bounded inputs,
  built with recursive operators of the community modules. What they say of matching, scores and
  decisions is proved for inputs of any size (`ProviderTransportProofs`); the classification of
  a page's rows (`RegularGames`, which filters a sequence), that a day with nothing missing is
  complete, the margins, warnings and movements of a market are checked only.

Hazards without a property are listed with the reason in `PROJECT.json`. They are
behaviours the code does not protect against (a lost update of an artifact by two
overlapping commands, a phase failed and retried by an operator under a live
handler, an older capture that an overtaken bootstrap appends as the later revision), so a
property that holds could only look away from them. So is a manifest that says completed beside
a run whose last transition was refused.

Not modelled:

* The figures of `features.py`, predictions, the policy's gates, weather comparison and wind
  impact: floating-point arithmetic over one evaluation, no state. Which evidence the features
  use is modelled; what they make of it is not.
* Stadiums and aliases, configuration, identifiers, redaction: validation of bundled data
  and strings when a process starts.
* Handlers of the controller's phases: the repository has none. The slate's artifact file.
* Backfills and daily runs beside a bootstrap on the rows they share (canonical players).
* The scanners and the report files of the commands: reading and printing. The validation
  supervisor restarts one command; that it may be resumed after any death is modelled.
* Parsing of HTML, CSV, archives and headers, the collectors' field mapping, the
  request-local client of `http.py`: a response is what it is parsed to, or a refusal.
* Authorization, request validation, the health endpoint and the read side of the exports
  change nothing.

## 7. Plan

Done: run controller (modules, refinement, proofs), operated repository, collection
service and client, release workflow, daily slates, migrations, provider transport and raw
store, the acquisition of current statistics, the Retrosheet bootstrap and the register pin,
feature snapshots, odds consensus, the reconciliation of a day's games.

Next, in this order:

1. The validate command of the acquisition and the evidence it re-reads, over `StatsAcquisition`.
2. The policy gates as operators over bounded integers, in place of the free verdict of the
   release workflow.
3. Stadiums: the precedence of aliases and dated home fields as operators.
4. `ProviderTransport` refined by the one step `Index` of `StatsAcquisition`.

Theorems worth proving next: that a day with nothing missing is complete, for any number of games;
and the refinement of item 4.
