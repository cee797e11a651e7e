-------------------------- MODULE SchemaMigrations --------------------------
(***************************************************************************)
(* ensure_schema (src/app/migrations.py): what every process that opens    *)
(* the database does first.  An empty database gets formal schema 1, the   *)
(* exact unversioned ("legacy") one is backed up and converted to it, a    *)
(* versioned one is checked against its recorded history, and from there   *)
(* one transaction per version leads to the current schema.  Several       *)
(* processes may start at once, a legacy program may still be writing, and *)
(* a process may break off anywhere and be started again.                  *)
(*                                                                         *)
(* A schema is its fingerprint, and a fingerprint is the version it stands *)
(* for: Legacy, Empty or 1, 2, ...  Every read of the database outside a   *)
(* transaction is a step of its own, every transaction is one step.        *)
(***************************************************************************)
EXTENDS Integers, FiniteSets, Sequences

CONSTANTS Starters,         \* processes that open the database
          Runs,             \* collector runs the legacy program may record
          Endings,          \* the statuses it may end them with
          Current,          \* CURRENT_SCHEMA_VERSION
          GrainVersion,     \* the version that rebuilds player snapshots
          SnapshotSets,     \* the player-game rows an older database may hold
          MaxFaults         \* bound: starts that break off

ASSUME StorageAssumption == /\ IsFiniteSet(Starters)
                            /\ Current \in Nat /\ GrainVersion \in 2..Current
                            /\ MaxFaults \in Nat

NoPosition == "none"
\* The older table of the player rows of one game and team, with the position
\* their JSON names: a primary key, and UNIQUE over player, role and revision.
PlayerRow == [id : Nat, player : Nat,
              role : {"batting", "pitching", "fielding", "combined"},
              position : STRING, stint : Nat, revision : Nat]
ASSUME SnapshotsAssumption ==
    \A rows \in SnapshotSets :
        /\ IsFiniteSet(rows) /\ rows \subseteq PlayerRow
        /\ \A r, s \in rows :
              r # s => /\ r.id # s.id
                       /\ <<r.player, r.role, r.revision>> # <<s.player, s.role, s.revision>>

VARIABLES db,       \* the database file: form, user_version, history, rows
          backup,   \* per starter, the verified copy it made of a legacy file
          diag,     \* per starter, the status in its diagnostic file
          job,      \* per starter, where ensure_schema stands
          written,  \* ghost: what the legacy program committed
          faults
migrationVars == <<db, backup, diag, job, written, faults>>

Legacy == -1
Empty == 0
NoBackup == <<>>

\* The initial databases: none, the legacy one, one an older release left
\* just below the grain version, the current one, and a newer release's.
EmptyDatabase == [form |-> Empty, version |-> 0, history |-> 0,
                  runs |-> {}, rows |-> {}, origin |-> Empty]
LegacyDatabase == [EmptyDatabase EXCEPT !.form = Legacy, !.origin = Legacy]
VersionedDatabase(v, rows) ==
    [EmptyDatabase EXCEPT !.form = v, !.version = v, !.history = v,
                          !.rows = rows, !.origin = v]

NoJob == [at |-> "idle", version |-> 0, seen |-> Empty, alone |-> TRUE]

InitialDatabases ==
    {EmptyDatabase, LegacyDatabase}
    \cup {VersionedDatabase(v, {}) : v \in {Current, Current + 1}}
    \cup {VersionedDatabase(GrainVersion - 1, rows) : rows \in SnapshotSets}

MigrationInit == /\ db \in InitialDatabases
                 /\ backup = [p \in Starters |-> NoBackup]
                 /\ diag = [p \in Starters |-> "none"]
                 /\ job = [p \in Starters |-> NoJob]
                 /\ written = {}
                 /\ faults = 0

At(p, place) == job[p].at = place
Starting(p) == job[p].at \notin {"idle", "done", "failed"}

Go(p, place) == job' = [job EXCEPT ![p].at = place]
Reads(p, place) == /\ Go(p, place)
                   /\ UNCHANGED <<db, backup, diag, written, faults>>
\* ensure_schema returns, or closes its connection and raises.
Leaves(p, place) == /\ job' = [job EXCEPT ![p] = [NoJob EXCEPT !.at = place,
                                                              !.alone = job[p].alone]]
                    /\ UNCHANGED <<db, backup, diag, written, faults>>
Raises(p) == Leaves(p, "failed")

\* A transaction commits: every other start in progress has been interfered
\* with (ghost alone).
Commits(p, place, version, database) ==
    /\ db' = database
    /\ job' = [q \in Starters |->
                  IF q = p THEN [job[p] EXCEPT !.at = place, !.version = version]
                           ELSE [job[q] EXCEPT !.alone = @ /\ ~Starting(q)]]
    /\ UNCHANGED <<backup, diag, written, faults>>

Notes(p, place, status) ==
    /\ diag' = [diag EXCEPT ![p] = status]
    /\ Go(p, place)
    /\ UNCHANGED <<db, backup, written, faults>>

(***************************************************************************)
(* Recognising the database.                                               *)
(***************************************************************************)
\* A first start, or the next one of a process that failed.
Begin(p) ==
    /\ job[p].at \in {"idle", "failed"}
    /\ job' = [job EXCEPT ![p] =
                  [NoJob EXCEPT !.at = IF db.version > Current
                                       THEN "failed" ELSE "objects"]]
    /\ job'[p] /= job[p]
    /\ UNCHANGED <<db, backup, diag, written, faults>>

ReadObjects(p) ==
    /\ At(p, "objects")
    /\ \/ db.form = Empty /\ Reads(p, "preflight")
       \/ db.form >= 1 /\ Reads(p, "history")
       \/ db.form = Legacy /\ Reads(p, "legacy")

\* A mutant of ReadHistory: only the current schema is known.
ReadCurrentHistory(p) ==
    /\ At(p, "history")
    /\ IF db.history = Current
       THEN /\ job' = [job EXCEPT ![p].at = "version", ![p].version = db.history]
            /\ UNCHANGED <<db, backup, diag, written, faults>>
       ELSE Raises(p)

\* _validate_versioned_schema: the recorded history, then user_version, then
\* the fingerprint, each read by itself.
ReadHistory(p) ==
    /\ At(p, "history")
    /\ IF db.history \in 1..Current
       THEN /\ job' = [job EXCEPT ![p].at = "version", ![p].version = db.history]
            /\ UNCHANGED <<db, backup, diag, written, faults>>
       ELSE Raises(p)

\* _upgrade_formal_v<n>_schema starts with the same comparison.
ReadVersion(p) ==
    /\ At(p, "version")
    /\ IF db.version = job[p].version THEN Reads(p, "fingerprint") ELSE Raises(p)

\* _assert_target_schema: the fingerprint is the one of the version.
ReadFingerprint(p) ==
    /\ At(p, "fingerprint")
    /\ IF db.form = job[p].version
       THEN Reads(p, IF job[p].version = Current THEN "finish" ELSE "upgrade")
       ELSE Raises(p)

(***************************************************************************)
(* An empty database.                                                      *)
(***************************************************************************)
Preflight(p) == At(p, "preflight") /\ Notes(p, "install", "preflight_verified")

\* The CREATE statements fail when another start has installed a schema.
InstallCommit(p) ==
    /\ At(p, "install")
    /\ IF db.form = Empty
       THEN Commits(p, "report", 1,
                    [db EXCEPT !.form = 1, !.version = 1, !.history = 1])
       ELSE Raises(p)

\* The diagnostic is brought up to date after the commit.
Report(p) == At(p, "report") /\ Notes(p, "version", "migration_verified")

(***************************************************************************)
(* The legacy database.                                                    *)
(***************************************************************************)
ReadSourceFingerprint(p) ==
    /\ At(p, "legacy")
    /\ job' = [job EXCEPT ![p].at = "backup", ![p].seen = db.form]
    /\ UNCHANGED <<db, backup, diag, written, faults>>

\* The copy is taken through a second connection, before the lock, and must
\* have the schema that was seen.
CreateVerifiedBackup(p) ==
    /\ At(p, "backup")
    /\ IF db.form = job[p].seen
       THEN /\ backup' = [backup EXCEPT ![p] = <<db.runs>>]
            /\ Go(p, "diagnose")
            /\ UNCHANGED <<db, diag, written, faults>>
       ELSE Raises(p)

Diagnose(p) == At(p, "diagnose") /\ Notes(p, "migrate", "backup_verified")

\* _copy_legacy_data: a run keeps its status and gets the history that leads
\* to it; the path of its artifact stays behind in the backup.
KnownStatuses == {"running", "completed", "completed_with_warnings", "failed"}
Converted(r) ==
    [run |-> r.run, status |-> r.status,
     stage |-> IF r.status = "failed" THEN "worker_execution" ELSE "none",
     transitions |-> <<"queued", "running">>
                     \o (IF r.status = "running" THEN <<>> ELSE <<r.status>>)]

\* A mutant of MigrateLegacy: the rows are those of the copy taken before.
MigrateBackup(p) ==
    /\ At(p, "migrate")
    /\ IF db.form = Legacy /\ \A r \in db.runs : r.status \in KnownStatuses
       THEN Commits(p, "report", 1,
                    [db EXCEPT !.form = 1, !.version = 1, !.history = 1,
                               !.runs = {Converted(r) : r \in backup[p][1]}])
       ELSE Raises(p)

\* The rows are read under the lock, after the fingerprint was compared again.
MigrateLegacy(p) ==
    /\ At(p, "migrate")
    /\ IF db.form = Legacy /\ \A r \in db.runs : r.status \in KnownStatuses
       THEN Commits(p, "report", 1,
                    [db EXCEPT !.form = 1, !.version = 1, !.history = 1,
                               !.runs = {Converted(r) : r \in @}])
       ELSE Raises(p)

(***************************************************************************)
(* One version up.                                                         *)
(***************************************************************************)
\* Version 6 gives a player's fielding rows a finer grain: each gets a key of
\* its own within its position, in the order of its old revision chain, and
\* starts a chain there; the other rows keep their revision.
SameFieldingPosition(r, s) == /\ s.role = "fielding" /\ s.player = r.player
                              /\ s.position = r.position
Precedes(r, s) == r.revision < s.revision \/ (r.revision = s.revision /\ r.id <= s.id)

Regrained(r, rows) ==
    IF r.role # "fielding" THEN [r EXCEPT !.stint = 1]
    ELSE [r EXCEPT !.stint = Cardinality({s \in rows : SameFieldingPosition(r, s)
                                                       /\ Precedes(s, r)}),
                   !.revision = 1]

RowsAfter(version, rows) ==
    IF version = GrainVersion THEN {Regrained(r, rows) : r \in rows} ELSE rows
\* _stats_fielding_grain_v6_guard
RowsAllow(version, rows) ==
    version = GrainVersion =>
        \A r \in rows : r.role = "fielding" => r.position # NoPosition

\* Under the lock the fingerprint is compared again, the statements run, the
\* record and user_version move together.
Upgrade(p) ==
    LET from == job[p].version IN
    /\ At(p, "upgrade")
    /\ IF db.form = from /\ RowsAllow(from + 1, db.rows)
       THEN Commits(p, "verify", from,
                    [db EXCEPT !.form = from + 1, !.version = from + 1,
                               !.history = from + 1,
                               !.rows = RowsAfter(from + 1, @)])
       ELSE Raises(p)

\* The target is asserted once more after the commit: a start that another
\* one has overtaken fails here.
VerifyUpgrade(p) ==
    /\ At(p, "verify")
    /\ IF db.form = job[p].version + 1
       THEN /\ job' = [job EXCEPT ![p].version = @ + 1,
                                  ![p].at = IF job[p].version + 1 = Current
                                            THEN "finish" ELSE "version"]
            /\ UNCHANGED <<db, backup, diag, written, faults>>
       ELSE Raises(p)

\* The journal mode and foreign keys are set; the process goes on.
Finish(p) == At(p, "finish") /\ Leaves(p, "done")

(***************************************************************************)
(* The surroundings.                                                       *)
(***************************************************************************)
\* A legacy program still running against the unversioned database: it
\* records a run, later how the run ended.
LegacyWrite(run, status) ==
    LET earlier == {r \in db.runs : r.run = run}
        row     == [run |-> run, status |-> status]
    IN  /\ db.form = Legacy
        /\ IF earlier = {} THEN status = "running"
           ELSE status # "running" /\ \A r \in earlier : r.status = "running"
        /\ db' = [db EXCEPT !.runs = (@ \ earlier) \cup {row}]
        /\ written' = (written \ earlier) \cup {row}
        /\ UNCHANGED <<backup, diag, job, faults>>

\* A crash, a lock that stays busy for five seconds, a write that fails: the
\* transaction in progress is rolled back.
BreaksOff(p) ==
    /\ Starting(p) /\ faults < MaxFaults
    /\ job' = [job EXCEPT ![p] = [NoJob EXCEPT !.at = "failed", !.alone = FALSE]]
    /\ faults' = faults + 1
    /\ UNCHANGED <<db, backup, diag, written>>

EnsureSchema(p) ==
    \/ Begin(p) \/ ReadObjects(p) \/ ReadHistory(p) \/ ReadVersion(p)
    \/ ReadFingerprint(p)
    \/ Preflight(p) \/ InstallCommit(p) \/ Report(p)
    \/ ReadSourceFingerprint(p) \/ CreateVerifiedBackup(p) \/ Diagnose(p)
    \/ MigrateLegacy(p)
    \/ Upgrade(p) \/ VerifyUpgrade(p) \/ Finish(p)

MigrationNext == \/ \E p \in Starters : EnsureSchema(p) \/ BreaksOff(p)
                 \/ \E run \in Runs, status \in Endings \cup {"running"} :
                       LegacyWrite(run, status)

-----------------------------------------------------------------------------
Holds(run, status) == \E r \in db.runs : r.run = run /\ r.status = status

\* A migration loses nothing: whatever the legacy program committed is in the
\* formal tables, a copy of the old file and a diagnostic stand beside them,
\* every player row of an older release is still there under a key of its
\* own, and the three places the version is kept in agree.
NothingIsLost ==
    db.form >= 1 =>
        /\ db.version = db.form /\ db.history = db.form
        /\ \A w \in written : Holds(w.run, w.status)
        /\ db.origin = Legacy =>
              \E p \in Starters : /\ backup[p] # NoBackup
                                  /\ diag[p] \in {"backup_verified", "migration_verified"}
        /\ \A r, s \in db.rows :
              (r.id # s.id /\ db.form >= GrainVersion) =>
                  <<r.player, r.role, r.position, r.stint, r.revision>>
                      # <<s.player, s.role, s.position, s.stint, s.revision>>

\* What a start may fail over: a newer release's database, a legacy status or
\* a fielding row the new schema has no place for.
Refused == \/ db.form > Current
           \/ db.form = Legacy /\ \E r \in db.runs : r.status \notin KnownStatuses
           \/ db.form = GrainVersion - 1 /\ ~RowsAllow(GrainVersion, db.rows)

\* A start that ran by itself and was not broken off succeeds, whatever the
\* starts before it left behind, unless the data has no place in the schema.
SoloStartSucceeds ==
    \A p \in Starters : At(p, "failed") /\ job[p].alone => Refused

\* Every process has its database at the current schema.
AllStarted == Refused \/ \A p \in Starters : At(p, "done") /\ db.form = Current
=============================================================================
