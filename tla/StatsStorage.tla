---------------------------- MODULE StatsStorage ----------------------------
(***************************************************************************)
(* The database file and what fills it: every process brings the file to   *)
(* the current schema before anything else (SchemaMigrations), then an     *)
(* operator's commands write the statistics tables (RetrosheetBootstrap,   *)
(* RegisterPin).  Once current, a file is not migrated again.              *)
(***************************************************************************)
EXTENDS SchemaMigrations, RegisterPin

StorageInit == MigrationInit /\ BootInit

\* Bound: commands are followed in a database that needed no migration, once
\* all processes have it open without a fault.
CommandsFollowed == /\ db.origin = Current /\ faults = 0
                    /\ \A p \in Starters : At(p, "done")

StorageNext ==
    \/ MigrationNext /\ UNCHANGED bootVars
    \/ CommandsFollowed /\ (Commands \/ Dies \/ CallRaises) /\ UNCHANGED migrationVars

storageVars == <<db, backup, diag, job, written, faults,
                 runs, facts, op, waiting, served, now, breaks>>

\* The service is started again whenever it stops (restart: unless-stopped in
\* docker-compose.yml); a command in progress goes on, whatever turns are taken,
\* and an operator resumes a run a kill left running.
StorageFairness ==
    /\ \A p \in Starters : WF_storageVars(EnsureSchema(p) /\ UNCHANGED bootVars)
    /\ SF_storageVars(CommandsFollowed /\ Continues /\ UNCHANGED migrationVars)
    /\ WF_storageVars(CommandsFollowed /\ op = Idle /\ TakesTurns /\ UNCHANGED migrationVars)
StorageSpec == StorageInit /\ [][StorageNext]_storageVars /\ StorageFairness

\* In the end every process has its database at the current schema, unless the
\* data has no place in it, and no run is left: each one that was begun has come
\* to an end, however commands overlapped and were broken off.
StorageEnds == <>[](AllStarted /\ NoRunIsLeft)
EvidenceIsKept == [][EvidenceStays]_storageVars
=============================================================================
