------------------------ MODULE StatsStorageProofs ------------------------
(***************************************************************************)
(* Proofs about the storage of the statistics, for any number of starting  *)
(* processes, schema versions, legacy runs, player rows, archives, runs,   *)
(* overlapping commands and breaks.  In this order:                        *)
(*                                                                         *)
(* MigrationInv: a migration loses nothing and a start left to itself      *)
(* succeeds.  What the database holds follows from the form it has         *)
(* (DatabaseOK); what a start has read says what it has prepared and,      *)
(* while no other start has committed, what the database still is (JobIs). *)
(* It is not enough to know the property of failed starts: the failure     *)
(* follows from what the start had read several steps before.              *)
(*                                                                         *)
(* BootInv, CaptureInv, OthersInv: recorded evidence stays, and a command  *)
(* completes on the raw rows of one set of captures.  The commands that    *)
(* wait have runs of their own, by the lock of a run.                      *)
(*                                                                         *)
(* StoreInv, WaitingStores: a completed season is in the tables.  Of every *)
(* call before the one at hand the effect is there, unless another         *)
(* checkpoint vouches for its season (Passed); and what a command that     *)
(* waits has in memory holds of the tables others have written to.         *)
(*                                                                         *)
(* ChainInv: revisions form chains.  All that a run records stems from the *)
(* one archive of its dataset checkpoint, which has one value for a key.   *)
(***************************************************************************)
EXTENDS StatsStorage, FiniteSetTheorems, WellFoundedInduction, TLAPS

LegacyRuns == [run : Runs, status : Endings \cup {"running"}]
RunRows == LegacyRuns \cup {Converted(r) : r \in LegacyRuns}

Database == [form : Int, version : Int, history : Int, runs : SUBSET RunRows,
             rows : SUBSET PlayerRow, origin : Int]

Verified == {"backup_verified", "migration_verified"}
Diagnostics == {"none", "preflight_verified"} \cup Verified

Places == {"idle", "objects", "history", "version", "fingerprint", "preflight",
           "install", "report", "legacy", "backup", "diagnose", "migrate",
           "upgrade", "verify", "finish", "done", "failed"}

Jobs == [at : Places, version : Int, seen : Int, alone : BOOLEAN]

MigrationTypeOK ==
  /\ db \in Database
  /\ backup \in [Starters -> Seq(SUBSET RunRows)]
  /\ diag \in [Starters -> Diagnostics]
  /\ job \in [Starters -> Jobs]
  /\ written \subseteq LegacyRuns

-----------------------------------------------------------------------------
\* The rows of the grain version have a key of their own.
KeysDiffer(r, s) ==
  <<r.player, r.role, r.position, r.stint, r.revision>>
    # <<s.player, s.role, s.position, s.stint, s.revision>>

RowsAreKeyed(rows) == \A r, s \in rows : r.id # s.id => KeysDiffer(r, s)

KeptBackup(p) == backup[p] # NoBackup /\ diag[p] \in Verified

DatabaseOK ==
  /\ db.form \in Int /\ db.form >= Legacy
  /\ db.form < 1 => db.version = 0 /\ db.history = 0
  /\ db.form = Legacy => db.origin = Legacy /\ written = db.runs
  /\ db.form = Empty => db.origin = Empty /\ written = {}
  /\ db.form >= 1 =>
       /\ db.version = db.form /\ db.history = db.form
       /\ \A w \in written : Holds(w.run, w.status)
       /\ db.origin = Legacy => \E p \in Starters : KeptBackup(p)
  /\ IF db.form < GrainVersion THEN db.rows = {} \/ db.rows \in SnapshotSets
     ELSE RowsAreKeyed(db.rows)

Prepared(j, b, d) ==
  /\ j.at \in {"report", "version", "fingerprint", "upgrade", "verify"} => j.version \in 1 .. Current
  /\ j.at \in {"upgrade", "verify"} => j.version < Current
  /\ j.at \in {"preflight", "install"} => db.origin = Empty
  /\ j.at \in {"diagnose", "migrate"} => b # NoBackup
  /\ j.at = "migrate" => d = "backup_verified"

Undisturbed(j) ==
  j.alone =>
    /\ j.at \in {"preflight", "install"} => db.form = Empty
    /\ j.at \in {"legacy", "backup", "diagnose", "migrate"} => db.form = Legacy
    /\ j.at = "backup" => j.seen = Legacy
    /\ j.at = "history" => db.form >= 1
    /\ j.at \in {"report", "version", "fingerprint", "upgrade"} => db.form = j.version
    /\ j.at = "verify" => db.form = j.version + 1
    /\ j.at = "failed" => Refused

JobIs(j, b, d) == Prepared(j, b, d) /\ Undisturbed(j)

MigrationInv ==
  /\ MigrationTypeOK /\ DatabaseOK
  /\ \A p \in Starters : JobIs(job[p], backup[p], diag[p])

-----------------------------------------------------------------------------
\* The steps that leave the database alone.

QuietMove(p, j, b, d) ==
  /\ UNCHANGED <<db, written>>
  /\ job' = [job EXCEPT ![p] = j]
  /\ backup' = [backup EXCEPT ![p] = b]
  /\ diag' = [diag EXCEPT ![p] = d]
  /\ b = backup[p] \/ b # NoBackup
  /\ d = diag[p] \/ d \in Verified \/ db.origin = Empty

LEMMA CurrentVersion == /\ Current \in Nat /\ GrainVersion \in Nat /\ 2 <= GrainVersion
                        /\ GrainVersion <= Current /\ 2 <= Current
BY StorageAssumption

LEMMA QuietStep ==
  ASSUME MigrationInv, NEW p \in Starters, NEW j \in Jobs,
         NEW b \in Seq(SUBSET RunRows), NEW d \in Diagnostics,
         QuietMove(p, j, b, d), JobIs(j, b, d)
  PROVE  MigrationInv'
<1>1. MigrationTypeOK /\ DatabaseOK
  BY DEF MigrationInv
<1>2. /\ job' \in [Starters -> Jobs] /\ backup' \in [Starters -> Seq(SUBSET RunRows)]
      /\ diag' \in [Starters -> Diagnostics]
      /\ job'[p] = j /\ backup'[p] = b /\ diag'[p] = d
      /\ \A q \in Starters \ {p} :
           job'[q] = job[q] /\ backup'[q] = backup[q] /\ diag'[q] = diag[q]
  BY <1>1 DEF MigrationTypeOK, QuietMove
<1>3. UNCHANGED <<db, written>>
  BY DEF QuietMove
<1>4. MigrationTypeOK'
  BY <1>1, <1>2, <1>3 DEF MigrationTypeOK
<1>5. \A q \in Starters : KeptBackup(q) => KeptBackup(q)' \/ db.origin = Empty
  BY <1>2 DEF KeptBackup, QuietMove
<1>6. DatabaseOK'
  BY <1>1, <1>3, <1>5 DEF DatabaseOK, Holds, Legacy, Empty
<1>7. JobIs(job[p], backup[p], diag[p])'
  BY <1>2, <1>3 DEF JobIs, Prepared, Undisturbed, Refused
<1>8. \A q \in Starters \ {p} : JobIs(job[q], backup[q], diag[q])'
  BY SMTT(30), <1>2, <1>3 DEF MigrationInv, JobIs, Prepared, Undisturbed, Refused
<1>9. QED
  BY <1>4, <1>6, <1>7, <1>8 DEF MigrationInv

\* Most of them only move the job.
LEMMA JobStep ==
  ASSUME MigrationInv, NEW p \in Starters, NEW j \in Jobs,
         UNCHANGED <<db, written, backup, diag>>,
         job' = [job EXCEPT ![p] = j], JobIs(j, backup[p], diag[p])
  PROVE  MigrationInv'
<1>1. PICK b \in Seq(SUBSET RunRows), d \in Diagnostics : b = backup[p] /\ d = diag[p]
  BY DEF MigrationInv, MigrationTypeOK
<1>2. QuietMove(p, j, b, d)
  BY <1>1 DEF QuietMove, MigrationInv, MigrationTypeOK
<1>3. QED
  BY <1>1, <1>2, QuietStep

LEMMA JobOf ==
  ASSUME MigrationInv, NEW p \in Starters
  PROVE  /\ job[p] \in Jobs /\ backup[p] \in Seq(SUBSET RunRows) /\ diag[p] \in Diagnostics
         /\ JobIs(job[p], backup[p], diag[p]) /\ DatabaseOK /\ db \in Database
BY DEF MigrationInv, MigrationTypeOK

LEMMA NoJobIsJob == NoJob \in Jobs
BY DEF NoJob, Jobs, Places, Empty

\* A start goes on to another place, or raises.
LEMMA Going ==
  ASSUME MigrationInv, NEW p \in Starters, NEW place \in Places, Reads(p, place),
         JobIs([job[p] EXCEPT !.at = place], backup[p], diag[p])
  PROVE  MigrationInv'
<1>1. PICK j : j = [job[p] EXCEPT !.at = place]
  OBVIOUS
<1>2. j \in Jobs
  BY <1>1, JobOf DEF Jobs
<1>3. UNCHANGED <<db, written, backup, diag>> /\ job' = [job EXCEPT ![p] = j]
  BY <1>1 DEF Reads, Go
<1>4. JobIs(j, backup[p], diag[p])
  BY <1>1
<1>5. QED
  BY <1>2, <1>3, <1>4, JobStep

LEMMA Leaving ==
  ASSUME MigrationInv, NEW p \in Starters, NEW place \in {"failed", "done"}, Leaves(p, place),
         job[p].alone /\ place = "failed" => Refused
  PROVE  MigrationInv'
<1>1. PICK j : j = [NoJob EXCEPT !.at = place, !.alone = job[p].alone]
  OBVIOUS
<1>2. j \in Jobs /\ j.at = place /\ j.alone = job[p].alone
  <2>1. place \in Places /\ job[p].alone \in BOOLEAN
    BY JobOf DEF Places, Jobs
  <2>2. QED
    BY <1>1, <2>1, NoJobIsJob DEF Jobs
<1>3. UNCHANGED <<db, written, backup, diag>> /\ job' = [job EXCEPT ![p] = j]
  BY <1>1 DEF Leaves
<1>4. JobIs(j, backup[p], diag[p])
  BY <1>2 DEF JobIs, Prepared, Undisturbed
<1>5. QED
  BY <1>2, <1>3, <1>4, JobStep

-----------------------------------------------------------------------------
\* Recognising the database.

LEMMA BeginKeeps ==
  ASSUME MigrationInv, NEW p \in Starters, Begin(p)
  PROVE  MigrationInv'
<1>1. PICK place \in {"failed", "objects"} :
        place = IF db.version > Current THEN "failed" ELSE "objects"
  OBVIOUS
<1>2. PICK j : j = [NoJob EXCEPT !.at = place]
  OBVIOUS
<1>3. j \in Jobs /\ j.at = place
  <2>1. place \in Places
    BY DEF Places
  <2>2. QED
    BY <1>2, <2>1, NoJobIsJob DEF Jobs
<1>4. UNCHANGED <<db, written, backup, diag>> /\ job' = [job EXCEPT ![p] = j]
  BY <1>1, <1>2 DEF Begin
<1>5. place = "failed" => Refused
  BY <1>1, CurrentVersion, JobOf DEF DatabaseOK, Refused
<1>6. JobIs(j, backup[p], diag[p])
  BY <1>3, <1>5 DEF JobIs, Prepared, Undisturbed
<1>7. QED
  BY <1>3, <1>4, <1>6, JobStep

LEMMA ReadObjectsKeeps ==
  ASSUME MigrationInv, NEW p \in Starters, ReadObjects(p)
  PROVE  MigrationInv'
<1>1. job[p] \in Jobs /\ JobIs(job[p], backup[p], diag[p]) /\ DatabaseOK
  BY JobOf
<1>2. ASSUME NEW place \in {"preflight", "history", "legacy"}, Reads(p, place),
             place = "preflight" => db.form = Empty,
             place = "history" => db.form >= 1,
             place = "legacy" => db.form = Legacy
      PROVE  MigrationInv'
  <2>1. PICK j : j = [job[p] EXCEPT !.at = place]
    OBVIOUS
  <2>2. j.at = place /\ place \in Places
    BY <1>1, <2>1 DEF Jobs, Places
  <2>3. JobIs(j, backup[p], diag[p])
    BY <1>1, <1>2, <2>2 DEF JobIs, Prepared, Undisturbed, DatabaseOK
  <2>4. QED
    BY <1>2, <2>1, <2>2, <2>3, Going
<1>3. QED
  BY <1>2 DEF ReadObjects, Legacy, Empty

LEMMA ReadingVersions ==
  ASSUME MigrationInv, NEW p \in Starters,
         ReadHistory(p) \/ ReadVersion(p) \/ ReadFingerprint(p)
  PROVE  MigrationInv'
<1>1. job[p] \in Jobs /\ JobIs(job[p], backup[p], diag[p]) /\ DatabaseOK /\ db \in Database
  BY JobOf
<1>2. CASE ReadHistory(p)
  <2>1. CASE db.history \in 1 .. Current
    <3>1. PICK j : j = [job[p] EXCEPT !.at = "version", !.version = db.history]
      OBVIOUS
    <3>2. j \in Jobs /\ j.at = "version" /\ j.version = db.history /\ j.alone = job[p].alone
      BY <1>1, <3>1 DEF Jobs, Places, Database
    <3>3. job' = [job EXCEPT ![p] = j] /\ UNCHANGED <<db, written, backup, diag>>
      BY <1>2, <2>1, <3>1 DEF ReadHistory
    <3>4. j.alone => db.form >= 1
      BY <1>1, <1>2, <3>2 DEF JobIs, Undisturbed, ReadHistory, At
    <3>5. JobIs(j, backup[p], diag[p])
      BY <1>1, <2>1, <3>2, <3>4 DEF JobIs, Prepared, Undisturbed, DatabaseOK
    <3>6. QED
      BY <3>2, <3>3, <3>5, JobStep
  <2>2. CASE db.history \notin 1 .. Current
    <3>1. job[p].alone => Refused
      BY <1>1, <1>2, <2>2, CurrentVersion
      DEF JobIs, Undisturbed, ReadHistory, At, Refused, DatabaseOK, Database
    <3>2. QED
      BY <1>2, <2>2, <3>1, Leaving DEF ReadHistory, Raises
  <2>3. QED
    BY <2>1, <2>2
<1>3. CASE ReadVersion(p)
  <2>1. job[p].at = "version"
    BY <1>3 DEF ReadVersion, At
  <2>2. PICK j : j = [job[p] EXCEPT !.at = "fingerprint"]
    OBVIOUS
  <2>3. j.at = "fingerprint" /\ j.version = job[p].version /\ j.alone = job[p].alone
    BY <1>1, <2>2 DEF Jobs
  <2>4. JobIs(j, backup[p], diag[p])
    BY <1>1, <2>1, <2>3 DEF JobIs, Prepared, Undisturbed
  <2>5. job[p].alone => db.version = job[p].version
    BY <1>1, <2>1, CurrentVersion DEF JobIs, Prepared, Undisturbed, DatabaseOK
  <2>6. QED
    BY <1>3, <2>2, <2>4, <2>5, Going, Leaving DEF ReadVersion, Raises, Places
<1>4. CASE ReadFingerprint(p)
  <2>1. job[p].at = "fingerprint"
    BY <1>4 DEF ReadFingerprint, At
  <2>2. PICK place \in {"finish", "upgrade"} :
          place = IF job[p].version = Current THEN "finish" ELSE "upgrade"
    OBVIOUS
  <2>3. PICK j : j = [job[p] EXCEPT !.at = place]
    OBVIOUS
  <2>4. j.at = place /\ j.version = job[p].version /\ j.alone = job[p].alone
    BY <1>1, <2>3 DEF Jobs
  <2>5. JobIs(j, backup[p], diag[p])
    BY <1>1, <2>1, <2>2, <2>4, CurrentVersion DEF JobIs, Prepared, Undisturbed
  <2>6. job[p].alone => db.form = job[p].version
    BY <1>1, <2>1 DEF JobIs, Undisturbed
  <2>7. place \in Places
    BY DEF Places
  <2>8. QED
    BY <1>4, <2>2, <2>3, <2>5, <2>6, <2>7, Going, Leaving DEF ReadFingerprint, Raises
<1>5. QED
  BY <1>2, <1>3, <1>4

-----------------------------------------------------------------------------
\* The steps before and after a transaction.

LEMMA NotingKeeps ==
  ASSUME MigrationInv, NEW p \in Starters, Preflight(p) \/ Diagnose(p) \/ Report(p)
  PROVE  MigrationInv'
<1>1. job[p] \in Jobs /\ JobIs(job[p], backup[p], diag[p]) /\ backup[p] \in Seq(SUBSET RunRows)
      /\ MigrationTypeOK
  BY JobOf DEF MigrationInv
<1>2. ASSUME NEW from \in Places, NEW to \in Places, NEW d \in Diagnostics,
             job[p].at = from, Notes(p, to, d),
             \/ from = "preflight" /\ to = "install"
             \/ from = "diagnose" /\ to = "migrate" /\ d = "backup_verified"
             \/ from = "report" /\ to = "version" /\ d = "migration_verified"
      PROVE  MigrationInv'
  <2>1. PICK j : j = [job[p] EXCEPT !.at = to]
    OBVIOUS
  <2>2. /\ j \in Jobs /\ j.at = to /\ j.version = job[p].version
        /\ j.alone = job[p].alone /\ j.seen = job[p].seen
    BY <1>1, <2>1 DEF Jobs
  <2>3. backup' = [backup EXCEPT ![p] = backup[p]] /\ job' = [job EXCEPT ![p] = j]
        /\ diag' = [diag EXCEPT ![p] = d] /\ UNCHANGED <<db, written>>
    BY <1>1, <1>2, <2>1 DEF Notes, Go, MigrationTypeOK
  <2>4. from = "preflight" => db.origin = Empty
    BY <1>1, <1>2 DEF JobIs, Prepared
  <2>5. QuietMove(p, j, backup[p], d)
    BY <1>2, <2>3, <2>4 DEF QuietMove, Verified
  <2>6. JobIs(j, backup[p], d)
    BY <1>1, <1>2, <2>2 DEF JobIs, Prepared, Undisturbed
  <2>7. QED
    BY <1>1, <2>2, <2>5, <2>6, QuietStep
<1>3. {"preflight", "install", "diagnose", "migrate", "report", "version"} \subseteq Places
  BY DEF Places
<1>4. {"preflight_verified", "backup_verified", "migration_verified"} \subseteq Diagnostics
  BY DEF Diagnostics, Verified
<1>5. QED
  BY <1>2, <1>3, <1>4 DEF Preflight, Diagnose, Report, At

LEMMA LegacyReadsKeep ==
  ASSUME MigrationInv, NEW p \in Starters, ReadSourceFingerprint(p) \/ CreateVerifiedBackup(p)
  PROVE  MigrationInv'
<1>1. job[p] \in Jobs /\ JobIs(job[p], backup[p], diag[p]) /\ db \in Database
      /\ diag[p] \in Diagnostics /\ MigrationTypeOK
  BY JobOf DEF MigrationInv
<1>2. CASE ReadSourceFingerprint(p)
  <2>1. PICK j : j = [job[p] EXCEPT !.at = "backup", !.seen = db.form]
    OBVIOUS
  <2>2. j \in Jobs /\ j.at = "backup" /\ j.seen = db.form /\ j.alone = job[p].alone
    BY <1>1, <2>1 DEF Jobs, Places, Database
  <2>3. job' = [job EXCEPT ![p] = j] /\ UNCHANGED <<db, written, backup, diag>>
    BY <1>2, <2>1 DEF ReadSourceFingerprint
  <2>4. JobIs(j, backup[p], diag[p])
    BY <1>1, <1>2, <2>2 DEF JobIs, Prepared, Undisturbed, ReadSourceFingerprint, At
  <2>5. QED
    BY <2>2, <2>3, <2>4, JobStep
<1>3. CASE CreateVerifiedBackup(p)
  <2>1. job[p].at = "backup"
    BY <1>3 DEF CreateVerifiedBackup, At
  <2>2. job[p].alone => db.form = job[p].seen
    BY <1>1, <2>1 DEF JobIs, Undisturbed
  <2>3. CASE db.form = job[p].seen
    <3>1. PICK b \in Seq(SUBSET RunRows) : b = <<db.runs>>
      <4>1. PICK copy \in SUBSET RunRows : copy = db.runs
        BY <1>1 DEF Database
      <4>2. <<copy>> \in Seq(SUBSET RunRows)
        OBVIOUS
      <4>3. QED
        BY <4>1, <4>2
    <3>2. b # NoBackup
      BY <3>1 DEF NoBackup
    <3>3. PICK j : j = [job[p] EXCEPT !.at = "diagnose"]
      OBVIOUS
    <3>4. j \in Jobs /\ j.at = "diagnose" /\ j.alone = job[p].alone
      BY <1>1, <3>3 DEF Jobs, Places
    <3>5. QuietMove(p, j, b, diag[p])
      BY <1>1, <1>3, <2>3, <3>1, <3>2, <3>3
      DEF CreateVerifiedBackup, Go, QuietMove, MigrationTypeOK
    <3>6. JobIs(j, b, diag[p])
      BY <1>1, <2>1, <3>2, <3>4 DEF JobIs, Prepared, Undisturbed
    <3>7. QED
      BY <1>1, <3>4, <3>5, <3>6, QuietStep
  <2>4. CASE db.form # job[p].seen
    BY <1>3, <2>2, <2>4, Leaving DEF CreateVerifiedBackup, Raises
  <2>5. QED
    BY <2>3, <2>4
<1>4. QED
  BY <1>2, <1>3

LEMMA VerifyingKeeps ==
  ASSUME MigrationInv, NEW p \in Starters, VerifyUpgrade(p) \/ Finish(p)
  PROVE  MigrationInv'
<1>1. job[p] \in Jobs /\ JobIs(job[p], backup[p], diag[p])
  BY JobOf
<1>2. CASE VerifyUpgrade(p)
  <2>1. /\ job[p].at = "verify" /\ job[p].version \in 1 .. Current /\ job[p].version < Current
        /\ job[p].alone => db.form = job[p].version + 1
    BY <1>1, <1>2 DEF VerifyUpgrade, At, JobIs, Prepared, Undisturbed
  <2>2. CASE db.form = job[p].version + 1
    <3>1. PICK place \in {"finish", "version"} :
            place = IF job[p].version + 1 = Current THEN "finish" ELSE "version"
      OBVIOUS
    <3>2. PICK j : j = [job[p] EXCEPT !.version = @ + 1, !.at = place]
      OBVIOUS
    <3>3. j \in Jobs /\ j.at = place /\ j.version = job[p].version + 1 /\ j.alone = job[p].alone
      <4>1. PICK v \in Int : v = job[p].version + 1
        BY <1>1 DEF Jobs
      <4>2. j = [job[p] EXCEPT !.version = v, !.at = place] /\ place \in Places
        BY <1>1, <3>2, <4>1 DEF Places
      <4>3. QED
        BY <1>1, <4>1, <4>2 DEF Jobs
    <3>4. job' = [job EXCEPT ![p] = j] /\ UNCHANGED <<db, written, backup, diag>>
      BY <1>2, <2>2, <3>1, <3>2 DEF VerifyUpgrade, MigrationInv, MigrationTypeOK
    <3>5. JobIs(j, backup[p], diag[p])
      BY <1>1, <2>1, <2>2, <3>1, <3>3, CurrentVersion DEF JobIs, Prepared, Undisturbed
    <3>6. QED
      BY <3>3, <3>4, <3>5, JobStep
  <2>3. CASE db.form # job[p].version + 1
    BY <1>2, <2>1, <2>3, Leaving DEF VerifyUpgrade, Raises
  <2>4. QED
    BY <2>2, <2>3
<1>3. CASE Finish(p)
  BY <1>3, Leaving DEF Finish
<1>4. QED
  BY <1>2, <1>3

-----------------------------------------------------------------------------
(***************************************************************************)
(* A transaction.  Whoever else is starting is disturbed, and nobody has   *)
(* failed by itself: that would have been a refusal, and what refuses one  *)
(* start refuses every transaction.                                        *)
(***************************************************************************)
LEMMA CommitStep ==
  ASSUME MigrationInv, NEW p \in Starters, NEW place \in {"report", "verify"},
         NEW version \in Int, NEW database \in Database,
         Commits(p, place, version, database), ~Refused,
         database.origin = db.origin, DatabaseOK',
         version \in 1 .. Current, place = "verify" => version < Current,
         job[p].alone => database.form = IF place = "report" THEN version ELSE version + 1
  PROVE  MigrationInv'
<1>1. MigrationTypeOK /\ job[p] \in Jobs
  BY JobOf DEF MigrationInv
<1>2. db' = database /\ UNCHANGED <<backup, diag, written>>
  BY DEF Commits
<1>3. PICK j : j = [job[p] EXCEPT !.at = place, !.version = version]
  OBVIOUS
<1>4. j \in Jobs /\ j.at = place /\ j.version = version /\ j.alone = job[p].alone
  BY <1>1, <1>3 DEF Jobs, Places
<1>5. job'[p] = j
  BY <1>3 DEF Commits
<1>6. ASSUME NEW q \in Starters \ {p}
      PROVE  /\ job'[q] \in Jobs /\ job'[q].at = job[q].at /\ job'[q].version = job[q].version
             /\ job'[q].alone => job[q].alone /\ ~Starting(q)
  <2>1. job[q] \in Jobs
    BY JobOf
  <2>2. PICK alone \in BOOLEAN : alone = (job[q].alone /\ ~Starting(q))
    OBVIOUS
  <2>3. job'[q] = [job[q] EXCEPT !.alone = alone]
    BY <2>2 DEF Commits
  <2>4. QED
    BY <2>1, <2>2, <2>3 DEF Jobs
<1>7. job' \in [Starters -> Jobs]
  <2>1. \A q \in Starters : job'[q] \in Jobs
    BY <1>4, <1>5, <1>6
  <2>2. DOMAIN job' = Starters /\ job' = [q \in Starters |-> job'[q]]
    BY DEF Commits
  <2>3. QED
    BY <2>1, <2>2
<1>8. MigrationTypeOK'
  BY <1>1, <1>2, <1>7 DEF MigrationTypeOK
<1>9. JobIs(job[p], backup[p], diag[p])'
  BY <1>2, <1>4, <1>5 DEF JobIs, Prepared, Undisturbed
<1>10. ASSUME NEW q \in Starters \ {p}
       PROVE  JobIs(job[q], backup[q], diag[q])'
  <2>1. JobIs(job[q], backup[q], diag[q]) /\ job[q] \in Jobs
    BY JobOf
  <2>2. Prepared(job[q], backup[q], diag[q])'
    BY <1>2, <1>6, <2>1 DEF JobIs, Prepared
  <2>3. ASSUME job'[q].alone
        PROVE  job'[q].at \in {"idle", "done"}
    <3>1. job[q].alone /\ ~Starting(q)
      BY <1>6, <2>3
    <3>2. job[q].at # "failed"
      BY <2>1, <3>1 DEF JobIs, Undisturbed
    <3>3. QED
      BY <1>6, <2>1, <3>1, <3>2 DEF Starting, Jobs
  <2>4. Undisturbed(job[q])'
    BY <2>3 DEF Undisturbed
  <2>5. QED
    BY <2>2, <2>4 DEF JobIs
<1>11. QED
  BY <1>8, <1>9, <1>10 DEF MigrationInv

\* Form, version and history move together.
Renumbered(x, v, R, S) ==
  [x EXCEPT !.form = v, !.version = v, !.history = v, !.runs = R, !.rows = S]

LEMMA Rewritten ==
  ASSUME NEW x \in Database, NEW v \in Int, NEW R \in SUBSET RunRows, NEW S \in SUBSET PlayerRow
  PROVE  LET d == Renumbered(x, v, R, S)
         IN /\ d \in Database /\ d.form = v /\ d.version = v /\ d.history = v
            /\ d.runs = R /\ d.rows = S /\ d.origin = x.origin
<1> DEFINE d == Renumbered(x, v, R, S)
<1>1. /\ d.form = v /\ d.version = v /\ d.history = v
      /\ d.runs = R /\ d.rows = S /\ d.origin = x.origin
  BY DEF Database, Renumbered
<1>2. d \in Database
  BY DEF Database, Renumbered
<1>3. QED
  BY <1>1, <1>2

LEMMA InstallKeeps ==
  ASSUME MigrationInv, NEW p \in Starters, InstallCommit(p)
  PROVE  MigrationInv'
<1>1. /\ job[p] \in Jobs /\ JobIs(job[p], backup[p], diag[p]) /\ DatabaseOK /\ db \in Database
      /\ job[p].at = "install"
  BY JobOf DEF InstallCommit, At
<1>2. CASE db.form = Empty
  <2>1. PICK d : d = [db EXCEPT !.form = 1, !.version = 1, !.history = 1]
    OBVIOUS
  <2>2. /\ d \in Database /\ d.form = 1 /\ d.version = 1 /\ d.history = 1
        /\ d.runs = db.runs /\ d.rows = db.rows /\ d.origin = db.origin
    <3>1. PICK v \in Int, R \in SUBSET RunRows, S \in SUBSET PlayerRow :
            v = 1 /\ R = db.runs /\ S = db.rows
      BY <1>1 DEF Database
    <3>2. d = Renumbered(db, v, R, S)
      BY <1>1, <2>1, <3>1 DEF Database, Renumbered
    <3>3. LET x == Renumbered(db, v, R, S)
          IN /\ x \in Database /\ x.form = v /\ x.version = v /\ x.history = v
             /\ x.runs = R /\ x.rows = S /\ x.origin = db.origin
      BY <1>1, Rewritten
    <3>4. QED
      BY <3>1, <3>2, <3>3
  <2>3. Commits(p, "report", 1, d)
    BY <1>2, <2>1, <1>1 DEF InstallCommit
  <2>4. db' = d /\ written' = written /\ written = {} /\ db.origin = Empty
    BY <1>1, <1>2, <2>3 DEF Commits, DatabaseOK
  <2>5. DatabaseOK'
    BY <1>1, <1>2, <2>2, <2>4, CurrentVersion DEF DatabaseOK, Legacy, Empty
  <2>6. ~Refused
    BY <1>2, CurrentVersion DEF Refused, Legacy, Empty
  <2>7. 1 \in 1 .. Current
    BY CurrentVersion
  <2>8. QED
    BY <2>2, <2>3, <2>5, <2>6, <2>7, CommitStep
<1>3. CASE db.form # Empty
  BY <1>1, <1>3, Leaving DEF InstallCommit, Raises, JobIs, Undisturbed
<1>4. QED
  BY <1>2, <1>3

\* _copy_legacy_data keeps the run and its status.
LEMMA ConversionKeeps ==
  ASSUME NEW r \in LegacyRuns
  PROVE  Converted(r) \in RunRows /\ Converted(r).run = r.run /\ Converted(r).status = r.status
BY DEF RunRows, Converted

LEMMA MigrateKeeps ==
  ASSUME MigrationInv, NEW p \in Starters, MigrateLegacy(p)
  PROVE  MigrationInv'
<1>1. /\ job[p] \in Jobs /\ JobIs(job[p], backup[p], diag[p]) /\ DatabaseOK /\ db \in Database
      /\ job[p].at = "migrate" /\ written \subseteq LegacyRuns
  BY JobOf DEF MigrateLegacy, At, MigrationInv, MigrationTypeOK
<1>2. CASE db.form = Legacy /\ \A r \in db.runs : r.status \in KnownStatuses
  <2>1. PICK new : new = {Converted(r) : r \in db.runs}
    OBVIOUS
  <2>2. db.runs = written /\ db.runs \subseteq LegacyRuns
    BY <1>1, <1>2 DEF DatabaseOK
  <2>3. new \subseteq RunRows /\ \A w \in written : \E r \in new : r.run = w.run /\ r.status = w.status
    BY <2>1, <2>2, ConversionKeeps
  <2>4. PICK d : d = [db EXCEPT !.form = 1, !.version = 1, !.history = 1, !.runs = new]
    OBVIOUS
  <2>5. /\ d \in Database /\ d.form = 1 /\ d.version = 1 /\ d.history = 1
        /\ d.runs = new /\ d.rows = db.rows /\ d.origin = db.origin
    <3>1. PICK v \in Int, S \in SUBSET PlayerRow : v = 1 /\ S = db.rows
      BY <1>1 DEF Database
    <3>2. d = Renumbered(db, v, new, S)
      BY <1>1, <2>4, <3>1 DEF Database, Renumbered
    <3>3. new \in SUBSET RunRows
      BY <2>3
    <3>4. LET x == Renumbered(db, v, new, S)
          IN /\ x \in Database /\ x.form = v /\ x.version = v /\ x.history = v
             /\ x.runs = new /\ x.rows = S /\ x.origin = db.origin
      BY <1>1, <3>3, Rewritten
    <3>5. QED
      BY <3>1, <3>2, <3>4
  <2>6. [db EXCEPT !.form = 1, !.version = 1, !.history = 1,
                   !.runs = {Converted(r) : r \in @}] = d
    BY <2>1, <2>4
  <2>7. Commits(p, "report", 1, d)
    BY <1>2, <2>6 DEF MigrateLegacy
  <2>8. db' = d /\ UNCHANGED <<written, backup, diag>>
    BY <2>7 DEF Commits
  <2>9. KeptBackup(p)'
    BY <1>1, <2>8 DEF JobIs, Prepared, KeptBackup, Verified
  <2>10. \A w \in written' : Holds(w.run, w.status)'
    BY <2>3, <2>5, <2>8 DEF Holds
  <2>11. DatabaseOK'
    BY <1>1, <1>2, <2>5, <2>8, <2>9, <2>10, CurrentVersion DEF DatabaseOK, Legacy, Empty
  <2>12. ~Refused
    BY <1>2, CurrentVersion DEF Refused, Legacy
  <2>13. 1 \in 1 .. Current
    BY CurrentVersion
  <2>14. QED
    BY <2>5, <2>7, <2>11, <2>12, <2>13, CommitStep
<1>3. CASE ~(db.form = Legacy /\ \A r \in db.runs : r.status \in KnownStatuses)
  <2>1. job[p].alone => Refused
    BY <1>1, <1>3 DEF JobIs, Undisturbed, Refused
  <2>2. QED
    BY <1>3, <2>1, Leaving DEF MigrateLegacy, Raises
<1>4. QED
  BY <1>2, <1>3

-----------------------------------------------------------------------------
(***************************************************************************)
(* The grain version.  The rows of a player at a position are numbered by  *)
(* how many precede them; those of a longer chain come later, so no two    *)
(* get the same number.                                                    *)
(***************************************************************************)
Distinct(rows) ==
  /\ IsFiniteSet(rows) /\ rows \subseteq PlayerRow
  /\ \A r, s \in rows :
        r # s => /\ r.id # s.id
                 /\ <<r.player, r.role, r.revision>> # <<s.player, s.role, s.revision>>

Earlier(r, rows) == {s \in rows : SameFieldingPosition(r, s) /\ Precedes(s, r)}

LEMMA ChainsAreFinite ==
  ASSUME NEW rows, Distinct(rows), NEW r \in rows
  PROVE  IsFiniteSet(Earlier(r, rows)) /\ Cardinality(Earlier(r, rows)) \in Nat
<1>1. Earlier(r, rows) \subseteq rows
  BY DEF Earlier
<1>2. QED
  BY <1>1, FS_Subset, FS_CardinalityType DEF Distinct

LEMMA LaterChainIsLonger ==
  ASSUME NEW rows, Distinct(rows), NEW r \in rows, NEW s \in rows,
         SameFieldingPosition(r, s), r.role = "fielding", r.revision < s.revision
  PROVE  Cardinality(Earlier(r, rows)) # Cardinality(Earlier(s, rows))
<1>1. r \in PlayerRow /\ s \in PlayerRow /\ rows \subseteq PlayerRow
  BY DEF Distinct
<1>2. Earlier(r, rows) \subseteq Earlier(s, rows)
  <2>1. SUFFICES ASSUME NEW t \in Earlier(r, rows) PROVE t \in Earlier(s, rows)
    OBVIOUS
  <2>2. t \in rows /\ SameFieldingPosition(r, t) /\ Precedes(t, r) /\ t \in PlayerRow
    BY <1>1 DEF Earlier
  <2>3. t.revision \in Nat /\ r.revision \in Nat /\ s.revision \in Nat
    BY <1>1, <2>2 DEF PlayerRow
  <2>4. t.revision <= r.revision
    BY <2>2, <2>3 DEF Precedes
  <2>5. t.revision < s.revision
    BY <2>3, <2>4
  <2>6. QED
    BY <2>2, <2>5 DEF Earlier, SameFieldingPosition, Precedes
<1>3. s \in Earlier(s, rows)
  BY <1>1 DEF Earlier, SameFieldingPosition, Precedes, PlayerRow
<1>4. s \notin Earlier(r, rows)
  BY <1>1 DEF Earlier, Precedes, PlayerRow
<1>5. QED
  BY <1>2, <1>3, <1>4, ChainsAreFinite, FS_Subset

\* What becomes of a row: its fields, and its player and role as they were.
LEMMA RegrainedRow ==
  ASSUME NEW rows, Distinct(rows), NEW r \in rows
  PROVE  LET n == Regrained(r, rows)
         IN /\ n \in PlayerRow /\ n.id = r.id /\ n.player = r.player /\ n.role = r.role
            /\ n.position = r.position
            /\ r.role = "fielding" => n.stint = Cardinality(Earlier(r, rows))
            /\ r.role # "fielding" => n.revision = r.revision
<1>1. r \in PlayerRow
  BY DEF Distinct
<1>2. PICK c \in Nat : c = Cardinality(Earlier(r, rows))
  BY ChainsAreFinite
<1>3. CASE r.role # "fielding"
  <2>1. PICK n : n = [r EXCEPT !.stint = 1]
    OBVIOUS
  <2>2. /\ n \in PlayerRow /\ n.id = r.id /\ n.player = r.player /\ n.role = r.role
        /\ n.position = r.position /\ n.revision = r.revision
    BY <1>1, <2>1 DEF PlayerRow
  <2>3. Regrained(r, rows) = n
    BY <1>3, <2>1 DEF Regrained
  <2>4. QED
    BY <1>3, <2>2, <2>3
<1>4. CASE r.role = "fielding"
  <2>1. PICK n : n = [r EXCEPT !.stint = c, !.revision = 1]
    OBVIOUS
  <2>2. /\ n \in PlayerRow /\ n.id = r.id /\ n.player = r.player /\ n.role = r.role
        /\ n.position = r.position /\ n.stint = c
    BY <1>1, <2>1 DEF PlayerRow
  <2>3. Regrained(r, rows) = n
    BY <1>2, <1>4, <2>1 DEF Regrained, Earlier
  <2>4. QED
    BY <1>2, <1>4, <2>2, <2>3
<1>5. QED
  BY <1>3, <1>4

LEMMA RegrainedDiffer ==
  ASSUME NEW rows, Distinct(rows), NEW r \in rows, NEW s \in rows, r # s
  PROVE  KeysDiffer(Regrained(r, rows), Regrained(s, rows))
<1> DEFINE n == Regrained(r, rows)
           k == Regrained(s, rows)
<1>1. /\ n.player = r.player /\ n.role = r.role /\ n.position = r.position
      /\ r.role = "fielding" => n.stint = Cardinality(Earlier(r, rows))
      /\ r.role # "fielding" => n.revision = r.revision
  BY RegrainedRow
<1>2. /\ k.player = s.player /\ k.role = s.role /\ k.position = s.position
      /\ s.role = "fielding" => k.stint = Cardinality(Earlier(s, rows))
      /\ s.role # "fielding" => k.revision = s.revision
  BY RegrainedRow
<1> HIDE DEF n, k
<1>3. <<r.player, r.role, r.revision>> # <<s.player, s.role, s.revision>>
  BY DEF Distinct
<1>4. ASSUME r.role = s.role, r.player = s.player, r.position = s.position, r.role = "fielding"
      PROVE  Cardinality(Earlier(r, rows)) # Cardinality(Earlier(s, rows))
  <2>1. SameFieldingPosition(r, s) /\ SameFieldingPosition(s, r)
    BY <1>4 DEF SameFieldingPosition
  <2>2. r.revision \in Nat /\ s.revision \in Nat
    BY DEF Distinct, PlayerRow
  <2>3. r.revision < s.revision \/ s.revision < r.revision
    BY <1>3, <1>4, <2>2
  <2>4. QED
    BY <1>4, <2>1, <2>3, LaterChainIsLonger
<1>5. KeysDiffer(n, k)
  BY <1>1, <1>2, <1>3, <1>4 DEF KeysDiffer
<1>6. QED
  BY <1>5 DEF n, k

LEMMA RegrainingKeys ==
  ASSUME NEW rows, Distinct(rows)
  PROVE  LET after == {Regrained(r, rows) : r \in rows}
         IN after \subseteq PlayerRow /\ RowsAreKeyed(after)
<1>1. {Regrained(r, rows) : r \in rows} \subseteq PlayerRow
  BY RegrainedRow
<1>2. ASSUME NEW n \in {Regrained(r, rows) : r \in rows},
             NEW k \in {Regrained(r, rows) : r \in rows}, n.id # k.id
      PROVE  KeysDiffer(n, k)
  <2>1. PICK r \in rows, s \in rows : n = Regrained(r, rows) /\ k = Regrained(s, rows)
    OBVIOUS
  <2>2. r # s
    BY <1>2, <2>1
  <2>3. QED
    BY <2>1, <2>2, RegrainedDiffer
<1>3. QED
  BY <1>1, <1>2 DEF RowsAreKeyed

\* The rows a database may hold are distinct.
LEMMA SnapshotsAreDistinct == Distinct({}) /\ \A rows \in SnapshotSets : Distinct(rows)
BY SnapshotsAssumption, FS_EmptySet DEF Distinct

\* Which rows an upgrade leaves behind: those it found, or the renumbered ones.
LEMMA RowsAfterUpgrade ==
  ASSUME DatabaseOK, db \in Database, NEW from \in Int, db.form = from, from >= 1
  PROVE  LET rows == RowsAfter(from + 1, db.rows)
         IN /\ rows \subseteq PlayerRow
            /\ IF from + 1 < GrainVersion THEN rows = {} \/ rows \in SnapshotSets
               ELSE RowsAreKeyed(rows)
<1>1. GrainVersion \in Nat /\ db.rows \subseteq PlayerRow
  BY CurrentVersion DEF Database
<1>2. CASE from + 1 = GrainVersion
  <2>1. db.form < GrainVersion
    BY <1>1, <1>2
  <2>2. db.rows = {} \/ db.rows \in SnapshotSets
    BY <2>1 DEF DatabaseOK
  <2>3. Distinct(db.rows)
    BY <2>2, SnapshotsAreDistinct
  <2>4. RowsAfter(from + 1, db.rows) = {Regrained(r, db.rows) : r \in db.rows}
    BY <1>2 DEF RowsAfter
  <2>5. ~(from + 1 < GrainVersion)
    BY <1>1, <1>2
  <2>6. QED
    BY <2>3, <2>4, <2>5, RegrainingKeys
<1>3. CASE from + 1 # GrainVersion
  BY <1>1, <1>3 DEF RowsAfter, DatabaseOK
<1>4. QED
  BY <1>2, <1>3

LEMMA UpgradeKeeps ==
  ASSUME MigrationInv, NEW p \in Starters, Upgrade(p)
  PROVE  MigrationInv'
<1>1. /\ job[p] \in Jobs /\ JobIs(job[p], backup[p], diag[p]) /\ DatabaseOK /\ db \in Database
      /\ job[p].at = "upgrade"
  BY JobOf DEF Upgrade, At
<1>2. PICK from \in Int, next \in Int : from = job[p].version /\ next = from + 1
  BY <1>1 DEF Jobs
<1>3. from \in 1 .. Current /\ from < Current
  BY <1>1, <1>2 DEF JobIs, Prepared
<1>4. CASE db.form = from /\ RowsAllow(next, db.rows)
  <2>1. PICK rows \in SUBSET PlayerRow :
          /\ rows = RowsAfter(next, db.rows)
          /\ IF next < GrainVersion THEN rows = {} \/ rows \in SnapshotSets
             ELSE RowsAreKeyed(rows)
    BY <1>1, <1>2, <1>3, <1>4, RowsAfterUpgrade
  <2>2. PICK d : d = [db EXCEPT !.form = next, !.version = next, !.history = next, !.rows = rows]
    OBVIOUS
  <2>3. /\ d \in Database /\ d.form = next /\ d.version = next /\ d.history = next
        /\ d.runs = db.runs /\ d.rows = rows /\ d.origin = db.origin
    <3>1. PICK R \in SUBSET RunRows : R = db.runs
      BY <1>1 DEF Database
    <3>2. d = Renumbered(db, next, R, rows)
      BY <1>1, <2>2, <3>1 DEF Database, Renumbered
    <3>3. LET x == Renumbered(db, next, R, rows)
          IN /\ x \in Database /\ x.form = next /\ x.version = next /\ x.history = next
             /\ x.runs = R /\ x.rows = rows /\ x.origin = db.origin
      BY <1>1, Rewritten
    <3>4. QED
      BY <3>1, <3>2, <3>3
  <2>4. [db EXCEPT !.form = next, !.version = next, !.history = next,
                   !.rows = RowsAfter(next, @)] = d
    BY <2>1, <2>2
  <2>5. Commits(p, "verify", from, d)
    BY <1>2, <1>4, <2>4 DEF Upgrade
  <2>6. db' = d /\ UNCHANGED <<written, backup, diag>>
    BY <2>5 DEF Commits
  <2>7. db.form >= 1 /\ next >= 1
    BY <1>2, <1>3, <1>4
  <2>8. \A w \in written' : Holds(w.run, w.status)'
    BY <1>1, <2>3, <2>6, <2>7 DEF Holds, DatabaseOK
  <2>9. db.origin = Legacy => \E q \in Starters : KeptBackup(q)'
    BY <1>1, <2>6, <2>7 DEF KeptBackup, DatabaseOK
  <2>10. DatabaseOK'
    BY <1>2, <2>1, <2>3, <2>6, <2>7, <2>8, <2>9 DEF DatabaseOK, Legacy, Empty
  <2>11. ~Refused
    BY <1>2, <1>3, <1>4, CurrentVersion DEF Refused, Legacy
  <2>12. QED
    BY <1>2, <1>3, <2>3, <2>5, <2>10, <2>11, CommitStep
<1>5. CASE ~(db.form = from /\ RowsAllow(next, db.rows))
  <2>1. ASSUME job[p].alone PROVE Refused
    <3>1. db.form = from
      BY <1>1, <1>2, <2>1 DEF JobIs, Undisturbed
    <3>2. next = GrainVersion /\ ~RowsAllow(GrainVersion, db.rows)
      BY <1>5, <3>1 DEF RowsAllow
    <3>3. QED
      BY <1>2, <3>1, <3>2 DEF Refused
  <2>2. QED
    BY <1>2, <1>5, <2>1, Leaving DEF Upgrade, Raises
<1>6. QED
  BY <1>4, <1>5

-----------------------------------------------------------------------------
\* The surroundings.  What the legacy program writes leaves the form as it is,
\* and it never rewrites a run that has ended: a status without a place in the
\* schema stays.
LEMMA LegacyWriteKeeps ==
  ASSUME MigrationInv, NEW run \in Runs, NEW status \in Endings \cup {"running"},
         LegacyWrite(run, status)
  PROVE  MigrationInv'
<1>1. MigrationTypeOK /\ DatabaseOK /\ db \in Database /\ written \subseteq LegacyRuns
  BY DEF MigrationInv, MigrationTypeOK
<1>2. PICK earlier : earlier = {r \in db.runs : r.run = run}
  OBVIOUS
<1>3. PICK row \in LegacyRuns : row = [run |-> run, status |-> status]
  BY DEF LegacyRuns
<1>4. PICK after : after = (db.runs \ earlier) \cup {row}
  OBVIOUS
<1>5. /\ db.form = Legacy /\ UNCHANGED <<backup, diag, job>>
      /\ db' = [db EXCEPT !.runs = after] /\ written' = (written \ earlier) \cup {row}
      /\ \A r \in earlier : r.status = "running"
  BY <1>2, <1>3, <1>4 DEF LegacyWrite
<1>6. after \in SUBSET RunRows
  BY <1>1, <1>3, <1>4 DEF Database, RunRows
<1>7. /\ db' \in Database /\ db'.form = db.form /\ db'.version = db.version
      /\ db'.history = db.history /\ db'.runs = after /\ db'.rows = db.rows
      /\ db'.origin = db.origin
  BY <1>1, <1>5, <1>6 DEF Database
<1>8. MigrationTypeOK'
  BY <1>1, <1>3, <1>5, <1>7 DEF MigrationTypeOK
<1>9. written' = db'.runs
  BY <1>1, <1>4, <1>5, <1>7 DEF DatabaseOK
<1>10. DatabaseOK'
  BY <1>1, <1>5, <1>7, <1>9, CurrentVersion DEF DatabaseOK, Legacy, Empty
<1>11. Refused => Refused'
  <2>1. ASSUME NEW r \in db.runs, r.status \notin KnownStatuses
        PROVE  r \in db'.runs
    BY <1>4, <1>5, <1>7, <2>1 DEF KnownStatuses
  <2>2. QED
    BY <1>5, <1>7, <2>1 DEF Refused
<1>12. \A p \in Starters : JobIs(job[p], backup[p], diag[p])'
  BY <1>5, <1>7, <1>11 DEF MigrationInv, JobIs, Prepared, Undisturbed
<1>13. QED
  BY <1>8, <1>10, <1>12 DEF MigrationInv

\* A start that breaks off is nobody's evidence.
LEMMA BreakingOffKeeps ==
  ASSUME MigrationInv, NEW p \in Starters, BreaksOff(p)
  PROVE  MigrationInv'
<1>1. PICK j : j = [NoJob EXCEPT !.at = "failed", !.alone = FALSE]
  OBVIOUS
<1>2. j \in Jobs /\ j.at = "failed" /\ j.alone = FALSE
  BY <1>1, NoJobIsJob DEF Jobs, Places
<1>3. job' = [job EXCEPT ![p] = j] /\ UNCHANGED <<db, written, backup, diag>>
  BY <1>1 DEF BreaksOff
<1>4. JobIs(j, backup[p], diag[p])
  BY <1>2 DEF JobIs, Prepared, Undisturbed
<1>5. QED
  BY <1>2, <1>3, <1>4, JobStep

-----------------------------------------------------------------------------
LEMMA MigrationStarts ==
  ASSUME MigrationInit
  PROVE  MigrationInv
<1>1. /\ job = [p \in Starters |-> NoJob] /\ backup = [p \in Starters |-> NoBackup]
      /\ diag = [p \in Starters |-> "none"] /\ written = {}
  BY DEF MigrationInit
<1>2. EmptyDatabase \in Database
  BY DEF EmptyDatabase, Database, Empty
<1>3. db \in Database /\ DatabaseOK
  <2>1. CASE db = EmptyDatabase
    BY <1>1, <1>2, <2>1, CurrentVersion DEF EmptyDatabase, DatabaseOK, Legacy, Empty
  <2>2. CASE db = LegacyDatabase
    <3>1. PICK v \in Int : v = -1
      OBVIOUS
    <3>2. LegacyDatabase = [EmptyDatabase EXCEPT !.form = v, !.origin = v]
      BY <3>1 DEF LegacyDatabase, Legacy
    <3>3. /\ LegacyDatabase \in Database /\ LegacyDatabase.form = v
          /\ LegacyDatabase.origin = v
      BY <1>2, <3>2 DEF Database
    <3>4. /\ LegacyDatabase.version = 0 /\ LegacyDatabase.history = 0
          /\ LegacyDatabase.runs = {} /\ LegacyDatabase.rows = {}
      BY <3>2 DEF EmptyDatabase
    <3>5. QED
      BY <1>1, <2>2, <3>1, <3>3, <3>4, CurrentVersion DEF DatabaseOK, Legacy, Empty
  <2>3. ASSUME NEW v \in Nat, NEW rows \in SUBSET PlayerRow, v >= 1,
               db = VersionedDatabase(v, rows),
               IF v < GrainVersion THEN rows = {} \/ rows \in SnapshotSets ELSE rows = {}
        PROVE  db \in Database /\ DatabaseOK
    <3>1. db = [form |-> v, version |-> v, history |-> v,
                runs |-> {}, rows |-> rows, origin |-> v]
      BY <2>3 DEF VersionedDatabase, EmptyDatabase
    <3>2. QED
      BY <1>1, <2>3, <3>1 DEF Database, DatabaseOK, RowsAreKeyed, Legacy, Empty
  <2>4. \A rows \in SnapshotSets : rows \in SUBSET PlayerRow
    BY SnapshotsAssumption
  <2>5. CASE \E v \in {Current, Current + 1} : db = VersionedDatabase(v, {})
    BY <2>3, <2>5, CurrentVersion
  <2>6. CASE \E rows \in SnapshotSets : db = VersionedDatabase(GrainVersion - 1, rows)
    <3>1. PICK rows \in SnapshotSets, v \in Nat :
            v = GrainVersion - 1 /\ db = VersionedDatabase(v, rows)
      BY <2>6, CurrentVersion
    <3>2. v >= 1 /\ v < GrainVersion
      BY <3>1, CurrentVersion
    <3>3. QED
      BY <2>3, <2>4, <3>1, <3>2
  <2>7. QED
    BY <2>1, <2>2, <2>5, <2>6 DEF MigrationInit, InitialDatabases
<1>4. MigrationTypeOK
  <2>1. NoBackup \in Seq(SUBSET RunRows) /\ "none" \in Diagnostics
    BY DEF NoBackup, Diagnostics
  <2>2. QED
    BY <1>1, <1>3, <2>1, NoJobIsJob DEF MigrationTypeOK
<1>5. \A p \in Starters : JobIs(job[p], backup[p], diag[p])
  BY <1>1 DEF NoJob, JobIs, Prepared, Undisturbed
<1>6. QED
  BY <1>3, <1>4, <1>5 DEF MigrationInv

LEMMA MigrationContinues ==
  ASSUME MigrationInv, [StorageNext]_storageVars
  PROVE  MigrationInv'
<1>1. ASSUME NEW p \in Starters, EnsureSchema(p)
      PROVE  MigrationInv'
  <2>1. CASE Begin(p)
    BY <2>1, BeginKeeps
  <2>2. CASE ReadObjects(p)
    BY <2>2, ReadObjectsKeeps
  <2>3. CASE ReadHistory(p) \/ ReadVersion(p) \/ ReadFingerprint(p)
    BY <2>3, ReadingVersions
  <2>4. CASE Preflight(p) \/ Diagnose(p) \/ Report(p)
    BY <2>4, NotingKeeps
  <2>5. CASE InstallCommit(p)
    BY <2>5, InstallKeeps
  <2>6. CASE ReadSourceFingerprint(p) \/ CreateVerifiedBackup(p)
    BY <2>6, LegacyReadsKeep
  <2>7. CASE MigrateLegacy(p)
    BY <2>7, MigrateKeeps
  <2>8. CASE Upgrade(p)
    BY <2>8, UpgradeKeeps
  <2>9. CASE VerifyUpgrade(p) \/ Finish(p)
    BY <2>9, VerifyingKeeps
  <2>10. QED
    BY <1>1, <2>1, <2>2, <2>3, <2>4, <2>5, <2>6, <2>7, <2>8, <2>9 DEF EnsureSchema
<1>2. CASE MigrationNext
  BY <1>1, <1>2, BreakingOffKeeps, LegacyWriteKeeps DEF MigrationNext
<1>3. CASE UNCHANGED migrationVars
  BY <1>3 DEF migrationVars, MigrationInv, MigrationTypeOK, DatabaseOK, KeptBackup, Holds,
     JobIs, Prepared, Undisturbed, Refused
<1>4. QED
  BY <1>2, <1>3 DEF StorageNext, storageVars, migrationVars

THEOREM MigrationInvariance == StorageSpec => []MigrationInv
<1>1. StorageInit => MigrationInv
  BY MigrationStarts DEF StorageInit
<1>2. MigrationInv /\ [StorageNext]_storageVars => MigrationInv'
  BY MigrationContinues
<1>3. QED
  BY <1>1, <1>2, PTL DEF StorageSpec

\* Whatever the legacy program committed is in the formal tables, beside a
\* verified backup and its diagnostic, the three records of the version agree,
\* and no two player rows share a key: however many processes migrate the file
\* at once, wherever they break off.
THEOREM MigrationsLoseNothing == StorageSpec => []NothingIsLost
<1>1. MigrationInv => NothingIsLost
  <2>1. SUFFICES ASSUME MigrationInv, db.form >= 1
                 PROVE  NothingIsLost
    BY DEF NothingIsLost
  <2>2. DatabaseOK /\ GrainVersion \in Nat
    BY <2>1, CurrentVersion DEF MigrationInv
  <2>3. db.origin = Legacy => \E p \in Starters : backup[p] # NoBackup
                                 /\ diag[p] \in {"backup_verified", "migration_verified"}
    BY <2>1, <2>2 DEF DatabaseOK, KeptBackup, Verified
  <2>4. \A r, s \in db.rows : (r.id # s.id /\ db.form >= GrainVersion) => KeysDiffer(r, s)
    BY <2>2 DEF DatabaseOK, RowsAreKeyed
  <2>5. QED
    BY <2>1, <2>2, <2>3, <2>4 DEF NothingIsLost, DatabaseOK, KeysDiffer
<1>2. QED
  BY <1>1, MigrationInvariance, PTL

\* A start nobody interfered with fails only over data the schema has no place
\* for, whatever the starts before it left behind.
THEOREM UndisturbedStartsSucceed == StorageSpec => []SoloStartSucceeds
<1>1. MigrationInv => SoloStartSucceeds
  BY DEF MigrationInv, JobIs, Undisturbed, SoloStartSucceeds, At
<1>2. QED
  BY <1>1, MigrationInvariance, PTL

-----------------------------------------------------------------------------
\* The commands that write the statistics tables.  What a call writes depends on
\* what its command read before, which others may have overtaken; that it takes
\* nothing away follows from the tables as they are when it writes.

PinPlaces == {"evidence", "capture", "compare", "settle"}

TablesAre(f) ==
  /\ DOMAIN f = DOMAIN NoFacts
  /\ DOMAIN f.names = Players /\ DOMAIN f.canonical = Players
  /\ f.teams \in [Teams -> Nat] /\ f.seen \in [Players -> Nat]
  /\ f.games \in [Games -> Nat] /\ f.plays \in [Plays -> Nat]

RowIs(run) == /\ DOMAIN run = DOMAIN NoRun
              /\ DOMAIN run.dataset = DOMAIN NoRun.dataset /\ run.dataset.at \in Nat

MemoryIs(o) == /\ DOMAIN o = DOMAIN Idle /\ o.at \in Nat
               /\ IF o.place = "idle" THEN o = Idle ELSE o.run \in StatsRuns

BootInv ==
  /\ TablesAre(facts) /\ now \in Nat
  /\ DOMAIN runs = StatsRuns /\ \A r \in StatsRuns : RowIs(runs[r])
  /\ MemoryIs(op) /\ \A o \in waiting : MemoryIs(o) /\ o.place # "idle"

LEMMA FieldsOfBoot ==
  /\ DOMAIN NoFacts = {"teams", "names", "seen", "canonical", "mapped", "games",
                       "links", "excluded", "plays", "evidence"}
  /\ DOMAIN NoRun = {"status", "kind", "source", "register", "dataset", "open",
                     "done", "manifest", "inventory"}
  /\ DOMAIN NoRun.dataset = {"status", "raws", "archive", "at"}
  /\ DOMAIN Idle = {"run", "place", "step", "archive", "at", "raws", "skip", "teams",
                    "players", "ensuring", "half", "canonical", "lineups", "latest", "inventory"}
  /\ Idle.place = "idle" /\ Idle.at = 0
BY DEF NoFacts, NoRun, Idle

LEMMA BootIsTyped ==
  ASSUME BootInv
  PROVE  /\ DOMAIN facts = DOMAIN NoFacts
         /\ DOMAIN facts.names = Players /\ DOMAIN facts.canonical = Players
         /\ DOMAIN runs = StatsRuns /\ \A r \in StatsRuns : DOMAIN runs[r] = DOMAIN NoRun
         /\ DOMAIN op = DOMAIN Idle /\ (op.place # "idle" => op.run \in StatsRuns)
BY DEF BootInv, TablesAre, RowIs, MemoryIs

LEMMA BootStarts ==
  ASSUME BootInit
  PROVE  BootInv
<1>1. RowIs(NoRun) /\ DOMAIN LegacyBootstrap = DOMAIN NoRun
      /\ LegacyBootstrap.dataset = NoRun.dataset
  BY DEF LegacyBootstrap, NoRun, RowIs
<1>2. \A r \in StatsRuns : RowIs(runs[r])
  BY <1>1 DEF BootInit, RowIs
<1>3. TablesAre(NoFacts)
  BY DEF NoFacts, TablesAre
<1>4. QED
  BY <1>2, <1>3, FieldsOfBoot DEF BootInit, BootInv, MemoryIs

\* What one table becomes, and what that leaves.
LEMMA TimesStay ==
  ASSUME NEW S, NEW times \in [S -> Nat]
  PROVE  /\ NotEarlier(times, times)
         /\ \A at \in Nat : \A x : SeenInOrder(times[x], at) =>
              /\ [times EXCEPT ![x] = at] \in [S -> Nat]
              /\ NotEarlier(times, [times EXCEPT ![x] = at])
<1>1. NotEarlier(times, times)
  BY DEF NotEarlier
<1>2. ASSUME NEW at \in Nat, NEW x, SeenInOrder(times[x], at)
      PROVE  /\ [times EXCEPT ![x] = at] \in [S -> Nat]
             /\ NotEarlier(times, [times EXCEPT ![x] = at])
  <2>1. PICK later : later = [times EXCEPT ![x] = at]
    OBVIOUS
  <2>2. DOMAIN later = S /\ \A y \in S : later[y] = IF y = x THEN at ELSE times[y]
    BY <2>1
  <2>3. later \in [S -> Nat]
    BY <2>1
  <2>4. NotEarlier(times, later)
    BY <1>2, <2>2 DEF NotEarlier, SeenInOrder
  <2>5. QED
    BY <2>1, <2>3, <2>4
<1>3. QED
  BY <1>1, <1>2

LEMMA TimesMove ==
  ASSUME NEW S, NEW times \in [S -> Nat], NEW T, NEW at \in Nat, NEW later,
         \A x \in T : SeenInOrder(times[x], at),
         later = [x \in S |-> IF x \in T THEN at ELSE times[x]]
  PROVE  later \in [S -> Nat] /\ NotEarlier(times, later)
BY DEF NotEarlier, SeenInOrder

LEMMA TablesKeep == \A f : TablesAre(f) => Keeps(f, f)
<1>1. ASSUME NEW f, TablesAre(f)
      PROVE  Keeps(f, f)
  <2>1. /\ NotEarlier(f.teams, f.teams) /\ NotEarlier(f.seen, f.seen)
        /\ NotEarlier(f.games, f.games) /\ NotEarlier(f.plays, f.plays)
    BY <1>1, TimesStay DEF TablesAre
  <2>2. QED
    BY <2>1 DEF Keeps
<1>2. QED
  BY <1>1

LEMMA SetsGrow ==
  ASSUME NEW f, TablesAre(f), NEW x
  PROVE  /\ f.evidence \subseteq x => LET g == [f EXCEPT !.evidence = x]
                                      IN  TablesAre(g) /\ Keeps(f, g)
         /\ f.excluded \subseteq x => LET g == [f EXCEPT !.excluded = x]
                                      IN  TablesAre(g) /\ Keeps(f, g)
         /\ f.links \subseteq x => LET g == [f EXCEPT !.links = x]
                                   IN  TablesAre(g) /\ Keeps(f, g)
         /\ f.mapped \subseteq x => LET g == [f EXCEPT !.mapped = x]
                                    IN  TablesAre(g) /\ Keeps(f, g)
<1>1. Keeps(f, f)
  BY TablesKeep
<1>2. QED
  BY <1>1, FieldsOfBoot DEF TablesAre, Keeps

LEMMA TimesGrow ==
  ASSUME NEW f, TablesAre(f), NEW x
  PROVE  /\ (x \in [Teams -> Nat] /\ NotEarlier(f.teams, x)) =>
              LET g == [f EXCEPT !.teams = x] IN TablesAre(g) /\ Keeps(f, g)
         /\ (x \in [Games -> Nat] /\ NotEarlier(f.games, x)) =>
              LET g == [f EXCEPT !.games = x] IN TablesAre(g) /\ Keeps(f, g)
         /\ (x \in [Plays -> Nat] /\ NotEarlier(f.plays, x)) =>
              LET g == [f EXCEPT !.plays = x] IN TablesAre(g) /\ Keeps(f, g)
         /\ (DOMAIN x = Players
               /\ \A p \in Players : f.canonical[p] # <<>> => x[p] = f.canonical[p]) =>
              LET g == [f EXCEPT !.canonical = x] IN TablesAre(g) /\ Keeps(f, g)
         /\ \A seen \in [Players -> Nat] :
              (/\ NotEarlier(f.seen, seen) /\ DOMAIN x = Players
               /\ \A p \in Players : f.names[p] # 0 => x[p] = f.names[p]) =>
                 LET g == [f EXCEPT !.names = x, !.seen = seen] IN TablesAre(g) /\ Keeps(f, g)
<1>1. Keeps(f, f)
  BY TablesKeep
<1>2. QED
  BY <1>1, FieldsOfBoot DEF TablesAre, Keeps

\* The command goes on with the memory it has; the tables are as they were or
\* what a transaction made of them.
LEMMA WritingKeeps ==
  ASSUME BootInv, UNCHANGED <<runs, waiting, now>>, TablesAre(facts'), Keeps(facts, facts'),
         MemoryIs(op')
  PROVE  BootInv' /\ EvidenceStays
BY DEF BootInv, EvidenceStays

\* What a step leaves in memory.
SameCommand(o) == /\ DOMAIN o = DOMAIN Idle /\ o.place = op.place /\ o.place # "idle"
                  /\ o.run = op.run /\ o.at = op.at

LEMMA GoesIs ==
  ASSUME BootInv, NEW memory, SameCommand(memory), Goes(memory)
  PROVE  SameCommand(op') /\ MemoryIs(op')
<1>1. PICK next : op' = [memory EXCEPT !.step = next]
  BY DEF Goes
<1>2. SameCommand(op')
  BY <1>1, FieldsOfBoot DEF SameCommand
<1>3. QED
  BY <1>2 DEF BootInv, MemoryIs, SameCommand

LEMMA ForwardIs ==
  ASSUME BootInv, op.place # "idle", Forward
  PROVE  SameCommand(op') /\ MemoryIs(op') /\ SameCommand(op)
<1>1. SameCommand(op)
  BY DEF BootInv, MemoryIs, SameCommand
<1>2. QED
  BY <1>1, GoesIs DEF Forward

LEMMA SkipsIs ==
  ASSUME BootInv, op.place # "idle", NEW child, Skips(child)
  PROVE  SameCommand(op') /\ MemoryIs(op')
<1>1. PICK memory : memory = [op EXCEPT !.skip = @ \cup {child}] /\ Goes(memory)
  BY DEF Skips
<1>2. SameCommand(memory)
  BY <1>1, FieldsOfBoot DEF BootInv, MemoryIs, SameCommand
<1>3. QED
  BY <1>1, <1>2, GoesIs

\* A step that writes or raises leaves the tables to the written ones.
LEMMA FailsKeeps ==
  ASSUME BootInv, op.place # "idle", Fails
  PROVE  BootInv' /\ EvidenceStays
<1>1. /\ UNCHANGED <<facts, waiting, now>> /\ op' = Idle
      /\ runs' = [runs EXCEPT ![op.run].status = "failed"]
  BY DEF Fails
<1>2. DOMAIN runs' = StatsRuns /\ \A r \in StatsRuns : RowIs(runs'[r])
  BY <1>1, FieldsOfBoot DEF BootInv, RowIs
<1>3. EvidenceStays
  BY <1>1, TablesKeep DEF BootInv, EvidenceStays
<1>4. QED
  BY <1>1, <1>2, <1>3, FieldsOfBoot DEF BootInv, MemoryIs

LEMMA CallKeeps ==
  ASSUME BootInv, op.place = "persist", NEW accepted, NEW result, NEW memory,
         CallThen(accepted, result, memory), SameCommand(memory),
         accepted => TablesAre(result) /\ Keeps(facts, result)
  PROVE  BootInv' /\ EvidenceStays
<1>1. CASE accepted
  BY <1>1, GoesIs, WritingKeeps DEF CallThen
<1>2. CASE ~accepted
  BY <1>2, FailsKeeps DEF CallThen
<1>3. QED
  BY <1>1, <1>2

LEMMA PlainCallKeeps ==
  ASSUME BootInv, op.place = "persist", NEW accepted, NEW result, Call(accepted, result),
         accepted => TablesAre(result) /\ Keeps(facts, result)
  PROVE  BootInv' /\ EvidenceStays
<1>1. SameCommand(op)
  BY DEF BootInv, MemoryIs, SameCommand
<1>2. QED
  BY <1>1, CallKeeps DEF Call

LEMMA RemembersKeeps ==
  ASSUME BootInv, NEW memory, SameCommand(memory), Remembers(memory)
  PROVE  BootInv' /\ EvidenceStays
BY GoesIs, WritingKeeps, TablesKeep DEF Remembers, BootInv

\* Writing evidence leaves the evidence that is there.
LEMMA EvidenceStepsKeep ==
  ASSUME BootInv,
         \/ RecordStatuses \/ RecordTeamSnapshots \/ RecordLineups
         \/ RecordPlayerSnapshots \/ RecordPlayRevisions
  PROVE  BootInv' /\ EvidenceStays
<1>1. \E accepted, entries, memory :
         SameCommand(memory) /\ CallThen(accepted, Recorded(facts, entries), memory)
  <2>1. SameCommand(op)
    BY DEF RecordStatuses, RecordTeamSnapshots, RecordLineups, RecordPlayerSnapshots,
       RecordPlayRevisions, Doing, BootInv, MemoryIs, SameCommand
  <2>2. CASE RecordStatuses \/ RecordTeamSnapshots \/ RecordPlayerSnapshots
    BY <2>1, <2>2 DEF RecordStatuses, RecordTeamSnapshots, RecordPlayerSnapshots, Call
  <2>3. CASE RecordLineups
    <3>1. PICK memory, added : /\ memory = [op EXCEPT !.lineups = op.lineups \cup added]
                               /\ \E accepted, entries :
                                    CallThen(accepted, Recorded(facts, entries), memory)
      BY <2>3 DEF RecordLineups
    <3>2. SameCommand(memory)
      BY <2>1, <3>1, FieldsOfBoot DEF SameCommand
    <3>3. QED
      BY <3>1, <3>2
  <2>4. CASE RecordPlayRevisions
    <3>1. PICK memory : /\ memory = [op EXCEPT !.latest = {}]
                        /\ \E accepted, entries :
                             CallThen(accepted, Recorded(facts, entries), memory)
      BY <2>4 DEF RecordPlayRevisions
    <3>2. SameCommand(memory)
      BY <2>1, <3>1, FieldsOfBoot DEF SameCommand
    <3>3. QED
      BY <3>1, <3>2
  <2>5. QED
    BY <2>2, <2>3, <2>4
<1>2. \A entries : TablesAre(Recorded(facts, entries)) /\ Keeps(facts, Recorded(facts, entries))
  BY SetsGrow DEF Recorded, BootInv
<1>3. op.place = "persist"
  BY DEF RecordStatuses, RecordTeamSnapshots, RecordLineups, RecordPlayerSnapshots,
     RecordPlayRevisions, Doing
<1>4. QED
  BY <1>1, <1>2, <1>3, CallKeeps

LEMMA OtherCallsKeep ==
  ASSUME BootInv,
         \/ RecordPlayerMappings \/ UpsertGames \/ LinkGames \/ UpsertPlays \/ RecordExcluded
  PROVE  BootInv' /\ EvidenceStays
<1>1. TablesAre(facts) /\ op.at \in Nat
  BY DEF BootInv, MemoryIs
<1>2. CASE RecordPlayerMappings
  <2>1. PICK accepted, more : /\ op.place = "persist"
                              /\ Call(accepted, [facts EXCEPT !.mapped = @ \cup more])
    BY <1>2 DEF RecordPlayerMappings, Doing
  <2>2. QED
    BY <1>1, <2>1, SetsGrow, PlainCallKeeps
<1>3. CASE UpsertGames
  <2>1. PICK times : times = [g \in Games |-> IF g \in GamesOfStep THEN op.at ELSE facts.games[g]]
    OBVIOUS
  <2>2. /\ op.place = "persist"
        /\ Call(\A g \in GamesOfStep : SeenInOrder(facts.games[g], op.at),
                [facts EXCEPT !.games = times])
    BY <1>3, <2>1 DEF UpsertGames, Doing
  <2>3. ASSUME \A g \in GamesOfStep : SeenInOrder(facts.games[g], op.at)
        PROVE  times \in [Games -> Nat] /\ NotEarlier(facts.games, times)
    <3>1. facts.games \in [Games -> Nat] /\ op.at \in Nat
      BY <1>1 DEF TablesAre
    <3>2. QED
      BY <2>1, <2>3, <3>1, TimesMove
  <2>4. QED
    BY <1>1, <2>2, <2>3, TimesGrow, PlainCallKeeps
<1>4. CASE LinkGames
  <2>1. PICK more : op.place = "persist" /\ Call(TRUE, [facts EXCEPT !.links = @ \cup more])
    BY <1>4 DEF LinkGames, Doing
  <2>2. QED
    BY <1>1, <2>1, SetsGrow, PlainCallKeeps
<1>5. CASE UpsertPlays
  <2>1. PICK times : times = [y \in Plays |-> IF y \in PlaysOfStep THEN op.at ELSE facts.plays[y]]
    OBVIOUS
  <2>2. /\ op.place = "persist"
        /\ Call(\A y \in PlaysOfStep : SeenInOrder(facts.plays[y], op.at),
                [facts EXCEPT !.plays = times])
    BY <1>5, <2>1 DEF UpsertPlays, Doing
  <2>3. ASSUME \A y \in PlaysOfStep : SeenInOrder(facts.plays[y], op.at)
        PROVE  times \in [Plays -> Nat] /\ NotEarlier(facts.plays, times)
    <3>1. facts.plays \in [Plays -> Nat] /\ op.at \in Nat
      BY <1>1 DEF TablesAre
    <3>2. QED
      BY <2>1, <2>3, <3>1, TimesMove
  <2>4. QED
    BY <1>1, <2>2, <2>3, TimesGrow, PlainCallKeeps
<1>6. CASE RecordExcluded
  <2>1. PICK more : op.place = "persist" /\ Call(TRUE, [facts EXCEPT !.excluded = @ \cup more])
    BY <1>6 DEF RecordExcluded, Doing
  <2>2. QED
    BY <1>1, <2>1, SetsGrow, PlainCallKeeps
<1>7. QED
  BY <1>2, <1>3, <1>4, <1>5, <1>6

\* A name or a canonical player that is there is not replaced.
LEMMA PlayerStepsKeep ==
  ASSUME BootInv, UpsertPlayers \/ ReadCanonicalPlayers \/ RecordCanonicalPlayers
  PROVE  BootInv' /\ EvidenceStays
<1>1. TablesAre(facts) /\ op.at \in Nat /\ SameCommand(op)
  BY DEF UpsertPlayers, ReadCanonicalPlayers, RecordCanonicalPlayers, Doing, BootInv, MemoryIs,
     SameCommand
<1>2. CASE UpsertPlayers
  <2>1. PICK accepted, names, seen :
        /\ accepted = \A p \in NewPlayers :
                          PlayerAgrees(facts, p, DisplayName(op.archive, p), op.at)
        /\ names = [p \in Players |-> IF p \in NewPlayers
                                      THEN DisplayName(op.archive, p) ELSE facts.names[p]]
        /\ seen = [p \in Players |-> IF p \in NewPlayers THEN op.at ELSE facts.seen[p]]
        /\ op.place = "persist" /\ Call(accepted, [facts EXCEPT !.names = names, !.seen = seen])
    BY <1>2 DEF UpsertPlayers, Doing
  <2>2. accepted => \A p \in Players : facts.names[p] # 0 => names[p] = facts.names[p]
    BY <2>1 DEF PlayerAgrees
  <2>3. accepted => seen \in [Players -> Nat] /\ NotEarlier(facts.seen, seen)
    <3>1. accepted => \A p \in NewPlayers : SeenInOrder(facts.seen[p], op.at)
      BY <2>1 DEF PlayerAgrees
    <3>2. QED
      BY <1>1, <2>1, <3>1, TimesMove DEF TablesAre
  <2>4. DOMAIN names = Players
    BY <2>1
  <2>5. QED
    BY <1>1, <2>1, <2>2, <2>3, <2>4, TimesGrow, PlainCallKeeps
<1>3. CASE ReadCanonicalPlayers
  <2>1. PICK memory, known : memory = [op EXCEPT !.canonical = known] /\ Remembers(memory)
    BY <1>3 DEF ReadCanonicalPlayers
  <2>2. SameCommand(memory)
    BY <1>1, <2>1, FieldsOfBoot DEF SameCommand
  <2>3. QED
    BY <2>1, <2>2, RemembersKeeps
<1>4. CASE RecordCanonicalPlayers
  <2>1. PICK accepted, canonical, memory :
        /\ accepted = \A p \in NewPlayers \ op.canonical :
                          InsertedOnce(facts.canonical[p], <<op.run, op.at>>)
        /\ canonical = [p \in Players |-> IF p \in NewPlayers \ op.canonical
                                          THEN <<op.run, op.at>> ELSE facts.canonical[p]]
        /\ memory = [op EXCEPT !.canonical = @ \cup NewPlayers]
        /\ op.place = "persist"
        /\ CallThen(accepted, [facts EXCEPT !.canonical = canonical], memory)
    BY <1>4 DEF RecordCanonicalPlayers, Doing
  <2>2. SameCommand(memory)
    BY <1>1, <2>1, FieldsOfBoot DEF SameCommand
  <2>3. /\ DOMAIN canonical = Players
        /\ accepted => \A p \in Players : facts.canonical[p] # <<>> =>
                                            canonical[p] = facts.canonical[p]
    BY <2>1 DEF InsertedOnce
  <2>4. QED
    BY <1>1, <2>1, <2>2, <2>3, TimesGrow, CallKeeps
<1>5. QED
  BY <1>2, <1>3, <1>4

LEMMA EnsuringKeeps ==
  ASSUME BootInv,
         EnsurePlayer \/ ResolvePlayer \/ EnsureCanonical \/ EnsureMapping \/ UpsertTeam
  PROVE  BootInv' /\ EvidenceStays
<1>1. op.place = "persist" /\ TablesAre(facts) /\ op.at \in Nat /\ SameCommand(op)
  BY DEF EnsurePlayer, ResolvePlayer, EnsureCanonical, EnsureMapping, UpsertTeam, Doing,
     BootInv, MemoryIs, SameCommand
<1>2. ASSUME UNCHANGED <<runs, waiting, now>>, TablesAre(facts'), Keeps(facts, facts'),
             SameCommand(op')
      PROVE  BootInv' /\ EvidenceStays
  <2>1. MemoryIs(op')
    BY <1>2 DEF BootInv, MemoryIs, SameCommand
  <2>2. QED
    BY <1>2, <2>1, WritingKeeps
<1>3. CASE UNCHANGED <<runs, facts, waiting, now>> /\ Forward
  BY <1>1, <1>2, <1>3, ForwardIs, TablesKeep
<1>4. CASE Fails
  BY <1>1, <1>4, FailsKeeps
<1>5. ASSUME NEW p, PlayerAgrees(facts, p, IdentifierOf(p), op.at),
             facts' = [facts EXCEPT !.names[p] = IdentifierOf(p), !.seen[p] = op.at],
             op' = [op EXCEPT !.ensuring = p, !.half = "identity"],
             UNCHANGED <<runs, waiting, now>>
      PROVE  BootInv' /\ EvidenceStays
  <2>1. PICK names, seen : /\ names = [facts.names EXCEPT ![p] = IdentifierOf(p)]
                           /\ seen = [facts.seen EXCEPT ![p] = op.at]
    OBVIOUS
  <2>2. facts' = [facts EXCEPT !.names = names, !.seen = seen]
    BY <1>5, <2>1
  <2>3. /\ DOMAIN names = Players
        /\ \A q \in Players : facts.names[q] # 0 => names[q] = facts.names[q]
    BY <1>1, <1>5, <2>1 DEF TablesAre, PlayerAgrees
  <2>4. seen \in [Players -> Nat] /\ NotEarlier(facts.seen, seen)
    BY <1>1, <1>5, <2>1, TimesStay DEF TablesAre, PlayerAgrees
  <2>5. TablesAre(facts') /\ Keeps(facts, facts')
    BY <1>1, <2>2, <2>3, <2>4, TimesGrow
  <2>6. SameCommand(op')
    BY <1>1, <1>5, FieldsOfBoot DEF SameCommand
  <2>7. QED
    BY <1>2, <1>5, <2>5, <2>6
<1>6. CASE EnsurePlayer
  BY <1>3, <1>4, <1>5, <1>6 DEF EnsurePlayer
<1>7. CASE ResolvePlayer
  <2>1. UNCHANGED <<runs, facts, waiting, now>>
    BY <1>7 DEF ResolvePlayer
  <2>2. \/ op' = [op EXCEPT !.players = @ \cup {op.ensuring},
                            !.ensuring = NoPlayer, !.half = "none"]
        \/ op' = [op EXCEPT !.half = "unresolved"]
    BY <1>7 DEF ResolvePlayer
  <2>3. SameCommand(op')
    BY <1>1, <2>2, FieldsOfBoot DEF SameCommand
  <2>4. QED
    BY <1>1, <1>2, <2>1, <2>3, TablesKeep
<1>8. CASE EnsureCanonical
  <2>1. CASE InsertedOnce(facts.canonical[op.ensuring], <<op.run, op.at>>)
    <3>1. PICK canonical : canonical = [facts.canonical EXCEPT ![op.ensuring] = <<op.run, op.at>>]
      OBVIOUS
    <3>2. /\ facts' = [facts EXCEPT !.canonical = canonical]
          /\ op' = [op EXCEPT !.half = "canonical"] /\ UNCHANGED <<runs, waiting, now>>
      BY <1>8, <2>1, <3>1 DEF EnsureCanonical
    <3>3. /\ DOMAIN canonical = Players
          /\ \A p \in Players : facts.canonical[p] # <<>> => canonical[p] = facts.canonical[p]
      BY <1>1, <2>1, <3>1 DEF TablesAre, InsertedOnce
    <3>4. TablesAre(facts') /\ Keeps(facts, facts')
      BY <1>1, <3>2, <3>3, TimesGrow
    <3>5. SameCommand(op')
      BY <1>1, <3>2, FieldsOfBoot DEF SameCommand
    <3>6. QED
      BY <1>2, <3>2, <3>4, <3>5
  <2>2. QED
    BY <1>4, <1>8, <2>1 DEF EnsureCanonical
<1>9. CASE EnsureMapping
  <2>1. facts' = [facts EXCEPT !.mapped = @ \cup {op.ensuring}]
        /\ UNCHANGED <<runs, waiting, now>>
        /\ op' = [op EXCEPT !.players = @ \cup {op.ensuring},
                            !.ensuring = NoPlayer, !.half = "none"]
    BY <1>9 DEF EnsureMapping
  <2>2. TablesAre(facts') /\ Keeps(facts, facts')
    BY <1>1, <2>1, SetsGrow
  <2>3. SameCommand(op')
    BY <1>1, <2>1, FieldsOfBoot DEF SameCommand
  <2>4. QED
    BY <1>2, <2>1, <2>2, <2>3
<1>10. CASE UpsertTeam
  <2>1. ASSUME NEW t, SeenInOrder(facts.teams[t], op.at),
               facts' = [facts EXCEPT !.teams[t] = op.at],
               op' = [op EXCEPT !.teams = @ \cup {t}], UNCHANGED <<runs, waiting, now>>
        PROVE  BootInv' /\ EvidenceStays
    <3>1. PICK times : times = [facts.teams EXCEPT ![t] = op.at]
      OBVIOUS
    <3>2. times \in [Teams -> Nat] /\ NotEarlier(facts.teams, times)
      BY <1>1, <2>1, <3>1, TimesStay DEF TablesAre
    <3>3. TablesAre(facts') /\ Keeps(facts, facts')
      BY <1>1, <2>1, <3>1, <3>2, TimesGrow
    <3>4. SameCommand(op')
      BY <1>1, <2>1, FieldsOfBoot DEF SameCommand
    <3>5. QED
      BY <1>2, <2>1, <3>3, <3>4
  <2>2. QED
    BY <1>3, <1>4, <1>10, <2>1 DEF UpsertTeam
<1>11. QED
  BY <1>6, <1>7, <1>8, <1>9, <1>10

\* The steps that leave the tables alone.
LEMMA QuietStepKeeps ==
  ASSUME BootInv, UNCHANGED <<facts, waiting>>, now' \in Nat, MemoryIs(op'),
         DOMAIN runs' = StatsRuns, \A r \in StatsRuns : RowIs(runs'[r])
  PROVE  BootInv' /\ EvidenceStays
BY TablesKeep DEF BootInv, EvidenceStays

LEMMA PlaceMoves ==
  ASSUME BootInv, NEW place, Moves(place)
  PROVE  /\ DOMAIN op' = DOMAIN Idle /\ op'.place = place /\ op'.run = op.run
         /\ op'.at = op.at
BY FieldsOfBoot DEF BootInv, MemoryIs, Moves

\* What becomes of the rows of a run, but for the dataset.
LEMMA RowsStay ==
  ASSUME BootInv, NEW x, NEW y, NEW r,
         \/ UNCHANGED runs
         \/ runs' = [runs EXCEPT ![r].register = x]
         \/ runs' = [runs EXCEPT ![r].open = x]
         \/ runs' = [runs EXCEPT ![r].done = x]
         \/ runs' = [runs EXCEPT ![r].manifest = x]
         \/ runs' = [runs EXCEPT ![r].inventory = x]
         \/ runs' = [runs EXCEPT ![r].status = x]
         \/ runs' = [runs EXCEPT ![r].status = x, ![r].kind = "pin", ![r].source = y]
  PROVE  DOMAIN runs' = StatsRuns /\ \A q \in StatsRuns : RowIs(runs'[q])
BY FieldsOfBoot DEF BootInv, RowIs

\* A step of a command that moves on without the tables.
LEMMA MovingKeeps ==
  ASSUME BootInv, op.place # "idle", UNCHANGED <<facts, waiting, now>>,
         DOMAIN runs' = StatsRuns, \A r \in StatsRuns : RowIs(runs'[r]),
         DOMAIN op' = DOMAIN Idle, op'.run = op.run, op'.at = op.at, op'.place # "idle"
  PROVE  BootInv' /\ EvidenceStays
<1>1. MemoryIs(op') /\ now' \in Nat
  BY DEF BootInv, MemoryIs
<1>2. QED
  BY <1>1, QuietStepKeeps

LEMMA RegisterKeeps ==
  ASSUME BootInv, OpenRegister \/ PersistRegister \/ CompleteRegister
  PROVE  BootInv' /\ EvidenceStays
<1>1. op.place # "idle"
  BY DEF OpenRegister, PersistRegister, CompleteRegister
<1>2. CASE Fails
  BY <1>1, <1>2, FailsKeeps
<1>3. CASE ~Fails
  <2>1. /\ UNCHANGED <<facts, waiting, now>> /\ \E place : place # "idle" /\ Moves(place)
        /\ \/ UNCHANGED runs
           \/ \E register : runs' = [runs EXCEPT ![op.run].register = register]
    BY <1>3 DEF OpenRegister, PersistRegister, CompleteRegister
  <2>2. DOMAIN runs' = StatsRuns /\ \A r \in StatsRuns : RowIs(runs'[r])
    BY <2>1, RowsStay
  <2>3. QED
    BY <1>1, <2>1, <2>2, PlaceMoves, MovingKeeps
<1>4. QED
  BY <1>2, <1>3

LEMMA DatasetKeeps ==
  ASSUME BootInv, OpenDataset \/ PersistMember \/ CompleteDataset
  PROVE  BootInv' /\ EvidenceStays
<1>1. op.place # "idle" /\ op.run \in StatsRuns /\ Run = runs[op.run]
      /\ DOMAIN op = DOMAIN Idle /\ op.at \in Nat /\ now \in Nat /\ RowIs(Run)
  BY DEF OpenDataset, PersistMember, CompleteDataset, BootInv, MemoryIs, Run
<1>2. UNCHANGED <<facts, waiting>> /\ now' \in Nat
  <2>1. UNCHANGED <<facts, waiting>> /\ (now' = now \/ now' = now + 1)
    BY DEF OpenDataset, PersistMember, CompleteDataset
  <2>2. QED
    BY <1>1, <2>1
<1>3. ASSUME NEW dataset, runs' = [runs EXCEPT ![op.run].dataset = dataset],
             DOMAIN dataset = DOMAIN NoRun.dataset, dataset.at \in Nat
      PROVE  DOMAIN runs' = StatsRuns /\ \A r \in StatsRuns : RowIs(runs'[r])
  BY <1>3, FieldsOfBoot DEF BootInv, RowIs
<1>4. CASE OpenDataset
  <2>1. CASE Run.dataset.status = "completed"
    <3>1. /\ \E first : op' = [op EXCEPT !.place = "persist", !.step = first,
                                         !.archive = Run.dataset.archive, !.at = Run.dataset.at]
          /\ UNCHANGED runs
      BY <1>4, <2>1 DEF OpenDataset
    <3>2. MemoryIs(op')
      BY <1>1, <3>1, FieldsOfBoot DEF MemoryIs, RowIs
    <3>3. QED
      BY <1>2, <3>1, <3>2, RowsStay, QuietStepKeeps
  <2>2. CASE Run.dataset.status # "completed"
    <3>1. PICK dataset : dataset = [Run.dataset EXCEPT !.status = "running"]
      OBVIOUS
    <3>2. /\ runs' = [runs EXCEPT ![op.run].dataset = dataset]
          /\ op' = [op EXCEPT !.place = "raw", !.archive = served', !.at = now + 1]
      BY <1>1, <1>4, <2>2, <3>1 DEF OpenDataset
    <3>3. DOMAIN dataset = DOMAIN NoRun.dataset /\ dataset.at \in Nat
      BY <1>1, <3>1, FieldsOfBoot DEF RowIs
    <3>4. MemoryIs(op')
      BY <1>1, <3>2, FieldsOfBoot DEF MemoryIs
    <3>5. QED
      BY <1>2, <1>3, <3>2, <3>3, <3>4, QuietStepKeeps
  <2>3. QED
    BY <2>1, <2>2
<1>5. CASE PersistMember
  <2>1. PICK dataset : dataset = [Run.dataset EXCEPT !.raws = @ + 1]
    OBVIOUS
  <2>2. /\ runs' = [runs EXCEPT ![op.run].dataset = dataset]
        /\ op' = [op EXCEPT !.raws = @ + 1]
    BY <1>1, <1>5, <2>1 DEF PersistMember
  <2>3. DOMAIN dataset = DOMAIN NoRun.dataset /\ dataset.at \in Nat
    BY <1>1, <2>1, FieldsOfBoot DEF RowIs
  <2>4. MemoryIs(op')
    BY <1>1, <2>2, FieldsOfBoot DEF MemoryIs
  <2>5. QED
    BY <1>2, <1>3, <2>2, <2>3, <2>4, QuietStepKeeps
<1>6. CASE CompleteDataset
  <2>1. PICK dataset : dataset = [Run.dataset EXCEPT !.status = "completed",
                                                     !.archive = op.archive, !.at = op.at]
    OBVIOUS
  <2>2. /\ runs' = [runs EXCEPT ![op.run].dataset = dataset]
        /\ \E first : op' = [op EXCEPT !.place = "persist", !.step = first]
    BY <1>1, <1>6, <2>1 DEF CompleteDataset
  <2>3. DOMAIN dataset = DOMAIN NoRun.dataset /\ dataset.at \in Nat
    BY <1>1, <2>1, FieldsOfBoot DEF RowIs
  <2>4. MemoryIs(op')
    BY <1>1, <2>2, FieldsOfBoot DEF MemoryIs
  <2>5. QED
    BY <1>2, <1>3, <2>2, <2>3, <2>4, QuietStepKeeps
<1>7. QED
  BY <1>4, <1>5, <1>6

LEMMA SeasonKeeps ==
  ASSUME BootInv,
         OpenSeason \/ CompleteSeason \/ CheckThroughSeason \/ ReadLatestRevisions
  PROVE  BootInv' /\ EvidenceStays
<1>1. op.place # "idle" /\ SameCommand(op)
  BY DEF OpenSeason, CompleteSeason, CheckThroughSeason, ReadLatestRevisions, Doing, BootInv,
     MemoryIs, SameCommand
<1>2. CASE Fails
  BY <1>1, <1>2, FailsKeeps
<1>3. CASE (OpenSeason \/ CompleteSeason) /\ ~Fails
  <2>1. /\ UNCHANGED <<facts, waiting, now>>
        /\ \/ UNCHANGED runs
           \/ \E open : runs' = [runs EXCEPT ![op.run].open = open]
           \/ \E done : runs' = [runs EXCEPT ![op.run].done = done]
    BY <1>3 DEF OpenSeason, CompleteSeason
  <2>2. DOMAIN runs' = StatsRuns /\ \A r \in StatsRuns : RowIs(runs'[r])
    BY <2>1, RowsStay
  <2>3. Forward \/ Skips(Child)
    BY <1>3 DEF OpenSeason, CompleteSeason
  <2>4. SameCommand(op')
    BY <1>1, <2>3, ForwardIs, SkipsIs
  <2>5. QED
    BY <1>1, <2>1, <2>2, <2>4, MovingKeeps DEF SameCommand
<1>4. CASE (CheckThroughSeason \/ ReadLatestRevisions) /\ ~Fails
  <2>1. PICK memory : /\ Remembers(memory)
                      /\ \/ \E l : memory = [op EXCEPT !.lineups = l, !.canonical = {}]
                         \/ \E l : memory = [op EXCEPT !.latest = l]
    BY <1>4 DEF CheckThroughSeason, ReadLatestRevisions
  <2>2. SameCommand(memory)
    BY <1>1, <2>1, FieldsOfBoot DEF SameCommand
  <2>3. QED
    BY <2>1, <2>2, RemembersKeeps
<1>5. QED
  BY <1>2, <1>3, <1>4

LEMMA EndingKeeps ==
  ASSUME BootInv, CompleteManifest \/ ReadInventory \/ CompleteInventory \/ Finalize
  PROVE  BootInv' /\ EvidenceStays
<1>1. op.place # "idle" /\ DOMAIN op = DOMAIN Idle /\ now \in Nat
  BY DEF CompleteManifest, ReadInventory, CompleteInventory, Finalize, Doing, BootInv, MemoryIs
<1>2. CASE Fails
  BY <1>1, <1>2, FailsKeeps
<1>3. CASE ~Fails
  <2>1. /\ UNCHANGED <<facts, waiting, now>>
        /\ \/ UNCHANGED runs
           \/ \E manifest : runs' = [runs EXCEPT ![op.run].manifest = manifest]
           \/ \E inventory : runs' = [runs EXCEPT ![op.run].inventory = inventory]
           \/ runs' = [runs EXCEPT ![op.run].status = "completed"]
    BY <1>3 DEF CompleteManifest, ReadInventory, CompleteInventory, Finalize
  <2>2. DOMAIN runs' = StatsRuns /\ \A r \in StatsRuns : RowIs(runs'[r])
    BY <2>1, RowsStay
  <2>3. \/ \E place : place # "idle" /\ Moves(place)
        \/ \E inventory : op' = [op EXCEPT !.place = "fingerprint", !.inventory = inventory]
        \/ op' = Idle
    BY <1>3 DEF CompleteManifest, ReadInventory, CompleteInventory, Finalize
  <2>4. MemoryIs(op')
    <3>1. CASE \E place : place # "idle" /\ Moves(place)
      BY <1>1, <3>1, PlaceMoves DEF BootInv, MemoryIs
    <3>2. CASE \E inventory : op' = [op EXCEPT !.place = "fingerprint", !.inventory = inventory]
      BY <1>1, <3>2, FieldsOfBoot DEF BootInv, MemoryIs
    <3>3. CASE op' = Idle
      BY <3>3, FieldsOfBoot DEF MemoryIs
    <3>4. QED
      BY <2>3, <3>1, <3>2, <3>3
  <2>5. QED
    BY <1>1, <2>1, <2>2, <2>4, QuietStepKeeps
<1>4. QED
  BY <1>2, <1>3

LEMMA BootstrapKeeps ==
  ASSUME BootInv, Bootstrap
  PROVE  BootInv' /\ EvidenceStays
<1>1. CASE OpenRegister \/ PersistRegister \/ CompleteRegister
  BY <1>1, RegisterKeeps
<1>2. CASE OpenDataset \/ PersistMember \/ CompleteDataset
  BY <1>2, DatasetKeeps
<1>3. CASE OpenSeason \/ CompleteSeason \/ CheckThroughSeason \/ ReadLatestRevisions
  BY <1>3, SeasonKeeps
<1>4. CASE UpsertPlayers \/ ReadCanonicalPlayers \/ RecordCanonicalPlayers
  BY <1>4, PlayerStepsKeep
<1>5. CASE EnsurePlayer \/ ResolvePlayer \/ EnsureCanonical \/ EnsureMapping \/ UpsertTeam
  BY <1>5, EnsuringKeeps
<1>6. CASE \/ RecordStatuses \/ RecordTeamSnapshots \/ RecordLineups
           \/ RecordPlayerSnapshots \/ RecordPlayRevisions
  BY <1>6, EvidenceStepsKeep
<1>7. CASE \/ RecordPlayerMappings \/ UpsertGames \/ LinkGames \/ UpsertPlays \/ RecordExcluded
  BY <1>7, OtherCallsKeep
<1>8. CASE CompleteManifest \/ ReadInventory \/ CompleteInventory \/ Finalize
  BY <1>8, EndingKeeps
<1>9. QED
  BY <1>1, <1>2, <1>3, <1>4, <1>5, <1>6, <1>7, <1>8 DEF Bootstrap

LEMMA PinKeeps ==
  ASSUME BootInv, Pin
  PROVE  BootInv' /\ EvidenceStays
<1>1. op.place # "idle"
  BY DEF Pin, FindEvidence, CapturePinned, CompareInventories, SettlePin
<1>2. CASE Fails
  BY <1>1, <1>2, FailsKeeps
<1>3. CASE ~Fails
  <2>1. UNCHANGED <<facts, waiting, now>> /\ (op' = Idle \/ \E place : place # "idle" /\ Moves(place))
    BY <1>3 DEF Pin, FindEvidence, CapturePinned, CompareInventories, SettlePin
  <2>2. \/ runs' = [runs EXCEPT ![op.run].status = "completed"]
        \/ \E register : runs' = [runs EXCEPT ![op.run].register = register]
    <3>1. CASE FindEvidence \/ CompareInventories \/ SettlePin
      BY <1>3, <3>1 DEF FindEvidence, CompareInventories, SettlePin
    <3>2. CASE CapturePinned
      <4>1. PICK content : runs' = [runs EXCEPT ![op.run].register.raws = @ + 1,
                                                ![op.run].register.content = content]
        BY <3>2 DEF CapturePinned
      <4>2. PICK register :
              register = [runs[op.run].register EXCEPT !.raws = @ + 1, !.content = content]
        OBVIOUS
      <4>3. runs' = [runs EXCEPT ![op.run].register = register]
        BY <4>1, <4>2
      <4>4. QED
        BY <4>3
    <3>3. QED
      BY <3>1, <3>2 DEF Pin
  <2>3. DOMAIN runs' = StatsRuns /\ \A r \in StatsRuns : RowIs(runs'[r])
    BY <2>2, RowsStay
  <2>4. MemoryIs(op') /\ now' \in Nat
    BY <1>1, <2>1, PlaceMoves, FieldsOfBoot DEF BootInv, MemoryIs
  <2>5. QED
    BY <2>1, <2>3, <2>4, QuietStepKeeps
<1>4. QED
  BY <1>2, <1>3

\* A command begins with a fresh run or one a kill left running.
LEMMA BeginningKeeps ==
  ASSUME BootInv, NEW r \in StatsRuns,
         \/ Start(r) \/ Resume(r) \/ ResumePin(r)
         \/ \E source \in StatsRuns : StartPin(r, source)
  PROVE  BootInv' /\ EvidenceStays
<1>1. \E place : place # "idle" /\ op' = [Idle EXCEPT !.run = r, !.place = place]
  BY DEF Start, Resume, ResumePin, StartPin
<1>2. MemoryIs(op')
  BY <1>1, FieldsOfBoot DEF MemoryIs
<1>3. /\ UNCHANGED <<facts, waiting, now>>
      /\ \/ UNCHANGED runs
         \/ runs' = [runs EXCEPT ![r].status = "running"]
         \/ \E source : runs' = [runs EXCEPT ![r].status = "running", ![r].kind = "pin",
                                             ![r].source = source]
  BY DEF Start, Resume, ResumePin, StartPin
<1>4. DOMAIN runs' = StatsRuns /\ \A q \in StatsRuns : RowIs(runs'[q])
  BY <1>3, RowsStay
<1>5. QED
  BY <1>2, <1>3, <1>4, QuietStepKeeps DEF BootInv

\* The turn goes to another command.
LEMMA TurnIs ==
  ASSUME MemoryIs(op), \A o \in waiting : o.place # "idle", TakesTurns
  PROVE  /\ UNCHANGED <<runs, facts, served, now, breaks>>
         /\ op' \in waiting \/ op' = Idle
         /\ op' # op /\ op' \notin waiting' /\ waiting' \subseteq waiting \cup {op}
         /\ op \in waiting' => op.place # "idle"
<1>1. PICK o \in waiting \cup {Idle} : Turn(o)
  BY DEF TakesTurns
<1>2. op.place = "idle" => op = Idle /\ op \notin waiting
  BY DEF MemoryIs
<1>3. op \in waiting' => op # Idle \/ op \in waiting
  BY <1>1 DEF Turn
<1>4. Idle \notin waiting
  BY FieldsOfBoot
<1>5. QED
  BY <1>1, <1>2, <1>3, <1>4 DEF Turn

LEMMA TurningKeeps ==
  ASSUME BootInv, TakesTurns
  PROVE  BootInv' /\ EvidenceStays
BY TurnIs, TablesKeep, FieldsOfBoot DEF BootInv, MemoryIs, EvidenceStays

LEMMA BootBreaksKeep ==
  ASSUME BootInv, Dies \/ CallRaises
  PROVE  BootInv' /\ EvidenceStays
<1>1. /\ op' = Idle /\ UNCHANGED <<facts, waiting, now>>
      /\ UNCHANGED runs \/ runs' = [runs EXCEPT ![op.run].status = "failed"]
  BY DEF Dies, CallRaises
<1>2. DOMAIN runs' = StatsRuns /\ \A r \in StatsRuns : RowIs(runs'[r])
  BY <1>1, RowsStay
<1>3. MemoryIs(op')
  BY <1>1, FieldsOfBoot DEF MemoryIs
<1>4. QED
  BY <1>1, <1>2, <1>3, QuietStepKeeps DEF BootInv

LEMMA BootContinues ==
  ASSUME BootInv, [StorageNext]_storageVars
  PROVE  BootInv' /\ EvidenceStays
<1>1. CASE Commands
  BY <1>1, BootstrapKeeps, PinKeeps, BeginningKeeps, TurningKeeps DEF Commands
<1>2. CASE Dies \/ CallRaises
  BY <1>2, BootBreaksKeep
<1>3. CASE UNCHANGED bootVars
  BY <1>3, TablesKeep DEF bootVars, BootInv, MemoryIs, EvidenceStays
<1>4. QED
  BY <1>1, <1>2, <1>3 DEF StorageNext, storageVars, bootVars

\* However commands overlap, whatever each had read before others wrote and
\* wherever one is broken off, what was recorded stays: the evidence, the
\* excluded rows, the links and mappings, the name and the canonical record a
\* player was first given; and no earlier capture replaces a later sighting of
\* a team, player, game or play: for any archives, runs, commands and breaks.
THEOREM RecordedEvidenceStays == StorageSpec => EvidenceIsKept
<1>1. StorageInit => BootInv
  BY BootStarts DEF StorageInit
<1>2. BootInv /\ [StorageNext]_storageVars => BootInv' /\ [EvidenceStays]_storageVars
  BY BootContinues
<1>3. StorageSpec => [][EvidenceStays]_storageVars
  BY <1>1, <1>2, PTL DEF StorageSpec
<1>4. QED
  BY <1>3 DEF EvidenceIsKept

-----------------------------------------------------------------------------
\* The captures of a run.  A command works for a running run only, so what a
\* completed run rests on, or vouches for, is not touched again; and a command
\* that goes on past a capture has at least its raw rows, which the last step
\* counts.

Ending == {"inventory", "fingerprint", "finalize"}
Captured == {"persist"} \cup Ending
BootPlaces == {"register", "registerRaw", "registerDone", "dataset", "raw"} \cup Captured
AllMembers == 1 + Len(Members)

Whole(run) ==
  (run.status = "completed" /\ run.kind = "bootstrap") =>
     /\ run.register.raws = 1 /\ run.dataset.raws = AllMembers
     /\ run.manifest = "completed" /\ run.inventory # <<>>

Vouches(run) ==
  run.kind = "pin" =>
     /\ run.source \in StatsRuns
     /\ run.status = "completed" =>
          /\ run.register.raws = 1 /\ runs[run.source].status = "completed"
          /\ runs[run.source].register.content = run.register.content

RunIs(run) ==
  /\ DOMAIN run = DOMAIN NoRun
  /\ DOMAIN run.register = {"status", "raws", "pinned", "content"}
  /\ DOMAIN run.dataset = {"status", "raws", "archive", "at"}
  /\ run.register.raws \in Nat /\ run.dataset.raws \in Nat
  /\ run.status = "none" => run.register.raws = 0 /\ run.kind = "bootstrap"
  /\ (run.kind = "bootstrap" /\ run.register.status = "completed") => run.register.raws >= 1
  /\ run.dataset.status = "completed" => run.dataset.raws >= AllMembers

\* What the memory of a command says of its run, and of the run it vouches for.
BootIs(o, run) ==
  /\ run.kind = "bootstrap"
  /\ o.place \in {"registerDone", "dataset", "raw"} \cup Captured => run.register.raws >= 1
  /\ o.place = "raw" => o.raws \in 0 .. AllMembers /\ run.dataset.raws >= o.raws
  /\ o.place \in {"register", "registerRaw", "registerDone", "dataset"} => o.raws = 0
  /\ o.place \in Captured => run.dataset.raws >= AllMembers
  /\ o.place \in Ending => run.manifest = "completed"
  /\ o.place = "fingerprint" => o.inventory # <<>>
  /\ o.place = "finalize" => run.inventory # <<>>

PinIs(o, run, source) ==
  /\ run.kind = "pin"
  /\ o.place \in {"capture", "compare", "settle"} => source.status = "completed"
  /\ o.place = "capture" => run.register.raws = 0
  /\ o.place \in {"compare", "settle"} => run.register.raws = 1
  /\ o.place = "settle" => source.register.content = run.register.content

OpIs(o, run, source) ==
  IF o.place = "idle" THEN o = Idle
  ELSE /\ run.status = "running"
       /\ \/ o.place \in BootPlaces /\ BootIs(o, run)
          \/ o.place \in PinPlaces /\ PinIs(o, run, source)

CaptureInv ==
  /\ \A r \in StatsRuns : RunIs(runs[r]) /\ Vouches(runs[r])
  /\ \A r \in StatsRuns \ {LegacyRun} : Whole(runs[r])
  /\ OpIs(op, Run, Source)

\* The commands that wait each have a run of their own.
OthersInv ==
  /\ \A o \in waiting : OpIs(o, runs[o.run], runs[runs[o.run].source]) /\ o.run # op.run
  /\ \A o, other \in waiting : o.run = other.run => o = other

LEMMA MemberCount == AllMembers \in Nat /\ AllMembers >= 1
BY MembersAssumption DEF AllMembers

LEMMA CaptureStarts ==
  ASSUME BootInit
  PROVE  CaptureInv
<1>1. RunIs(NoRun) /\ NoRun.status = "none" /\ NoRun.dataset.status = "none"
      /\ DOMAIN NoRun.dataset = {"status", "raws", "archive", "at"}
      /\ NoRun.dataset.raws = 0 /\ NoRun.kind = "bootstrap"
  BY DEF NoRun, RunIs
<1>2. PICK register : register = [status |-> "completed", raws |-> 1,
                                  pinned |-> FALSE, content |-> "branch"]
  OBVIOUS
<1>3. /\ DOMAIN LegacyBootstrap = DOMAIN NoRun
      /\ LegacyBootstrap.register = register
      /\ LegacyBootstrap.dataset = NoRun.dataset
      /\ LegacyBootstrap.status = "completed" /\ LegacyBootstrap.kind = "bootstrap"
  BY <1>1, <1>2, FieldsOfBoot DEF LegacyBootstrap
<1>4. RunIs(LegacyBootstrap)
  BY <1>1, <1>2, <1>3 DEF RunIs
<1>5. \A r \in StatsRuns : runs[r] = IF r = LegacyRun THEN LegacyBootstrap ELSE NoRun
  BY DEF BootInit
<1>6. op = Idle /\ op.place = "idle"
  BY FieldsOfBoot DEF BootInit
<1>7. QED
  BY <1>1, <1>3, <1>4, <1>5, <1>6 DEF CaptureInv, Vouches, Whole, OpIs

\* One run that is not completed changes; no other one is concerned.
LEMMA OneRunKeeps ==
  ASSUME BootInv, CaptureInv, NEW r \in StatsRuns, runs[r].status # "completed",
         NEW run, runs' = [runs EXCEPT ![r] = run], RunIs(run), Whole(run), Vouches(run), OpIs(op, Run, Source)'
  PROVE  CaptureInv'
<1>1. runs'[r] = run /\ \A q \in StatsRuns \ {r} : runs'[q] = runs[q]
  BY DEF BootInv
<1>2. \A q \in StatsRuns : runs[q].status = "completed" => runs'[q] = runs[q]
  BY <1>1
<1>3. \A q \in StatsRuns : RunIs(runs[q])'
  BY <1>1 DEF CaptureInv, RunIs
<1>4. Vouches(run)'
  BY <1>2 DEF Vouches
<1>5. \A q \in StatsRuns \ {r} : Vouches(runs[q])'
  BY <1>1, <1>2 DEF CaptureInv, Vouches
<1>6. \A q \in StatsRuns \ {LegacyRun} : Whole(runs[q])'
  BY <1>1 DEF CaptureInv, Whole
<1>7. QED
  BY <1>1, <1>3, <1>4, <1>5, <1>6 DEF CaptureInv

\* No run changes; the command goes on, ends or begins.
LEMMA NoRunKeeps ==
  ASSUME BootInv, CaptureInv, UNCHANGED runs, OpIs(op, Run, Source)'
  PROVE  CaptureInv'
<1>1. \A r \in StatsRuns : (RunIs(runs[r]) /\ Vouches(runs[r]))'
  BY DEF CaptureInv, RunIs, Vouches
<1>2. \A r \in StatsRuns \ {LegacyRun} : Whole(runs[r])'
  BY DEF CaptureInv, Whole
<1>3. QED
  BY <1>1, <1>2 DEF CaptureInv

LEMMA RunOf ==
  ASSUME BootInv, CaptureInv, op.place # "idle"
  PROVE  /\ op.run \in StatsRuns /\ RunIs(Run) /\ Vouches(Run) /\ Run.status = "running"
         /\ DOMAIN op = DOMAIN Idle
         /\ op.place \in BootPlaces => BootIs(op, Run)
         /\ op.place \in PinPlaces => PinIs(op, Run, Source)
<1>1. op.run \in StatsRuns /\ DOMAIN op = DOMAIN Idle
  BY BootIsTyped
<1>2. RunIs(Run) /\ Vouches(Run)
  BY <1>1 DEF CaptureInv, Run
<1>3. QED
  BY <1>1, <1>2 DEF CaptureInv, OpIs, BootPlaces, PinPlaces, Captured, Ending

LEMMA FailingSettles ==
  ASSUME BootInv, CaptureInv, op.place # "idle", op' = Idle,
         runs' = [runs EXCEPT ![op.run].status = "failed"]
  PROVE  CaptureInv'
<1>1. PICK run : run = [Run EXCEPT !.status = "failed"]
  OBVIOUS
<1>2. runs' = [runs EXCEPT ![op.run] = run]
  BY <1>1 DEF Run
<1>3. /\ run.status = "failed" /\ DOMAIN run = DOMAIN NoRun /\ run.source = Run.source
      /\ run.kind = Run.kind /\ run.register = Run.register /\ run.dataset = Run.dataset
  BY <1>1, RunOf, FieldsOfBoot DEF RunIs
<1>4. RunIs(run) /\ Whole(run) /\ Vouches(run)
  BY <1>3, RunOf DEF RunIs, Whole, Vouches
<1>5. OpIs(op, Run, Source)' /\ runs[op.run].status # "completed"
  BY RunOf, FieldsOfBoot DEF OpIs, Run
<1>6. QED
  BY <1>2, <1>4, <1>5, RunOf, OneRunKeeps

\* A step of the program that writes the tables, or passes over.
LEMMA ProgramStepKeeps ==
  ASSUME BootInv, CaptureInv, op.place = "persist", UNCHANGED runs,
         op'.place = "persist", op'.run = op.run
  PROVE  CaptureInv'
<1>1. BootIs(op, Run) /\ Run.status = "running" /\ Run' = Run
  BY RunOf DEF BootPlaces, Captured, Ending, Run
<1>2. BootIs(op, Run)'
  BY <1>1 DEF BootIs, Captured, Ending
<1>3. OpIs(op, Run, Source)'
  BY <1>1, <1>2 DEF OpIs, BootPlaces, Captured, Ending
<1>4. QED
  BY <1>3, NoRunKeeps

\* A step that changes the run it works for, and neither its status nor its kind.
LEMMA RunStepKeeps ==
  ASSUME BootInv, CaptureInv, op.place \in BootPlaces, NEW run,
         runs' = [runs EXCEPT ![op.run] = run], RunIs(run),
         run.status = Run.status, run.kind = Run.kind,
         op'.run = op.run, op'.place \in BootPlaces, BootIs(op, Run)'
  PROVE  CaptureInv'
<1>1. op.place # "idle" /\ Run.status = "running" /\ op.run \in StatsRuns
      /\ Run.kind = "bootstrap"
  BY RunOf DEF BootPlaces, Captured, Ending, BootIs
<1>2. Run' = run /\ runs[op.run].status # "completed"
  BY <1>1 DEF Run, BootInv
<1>3. OpIs(op, Run, Source)'
  BY <1>1, <1>2 DEF OpIs, BootPlaces, Captured, Ending
<1>4. Whole(run) /\ Vouches(run)
  BY <1>1 DEF Whole, Vouches
<1>5. QED
  BY <1>1, <1>2, <1>3, <1>4, OneRunKeeps

\* One more raw row, or a checkpoint of the register.
LEMMA RegisterSettles ==
  ASSUME BootInv, CaptureInv, OpenRegister \/ PersistRegister \/ CompleteRegister
  PROVE  CaptureInv'
<1>1. /\ op.place \in {"register", "registerRaw", "registerDone"}
      /\ op.place \in BootPlaces /\ op.place # "idle"
  BY DEF OpenRegister, PersistRegister, CompleteRegister, BootPlaces
<1>2. /\ BootIs(op, Run) /\ RunIs(Run) /\ Run.status = "running" /\ op.run \in StatsRuns
      /\ op.raws = 0 /\ DOMAIN op = DOMAIN Idle
  BY <1>1, RunOf DEF BootIs
<1>3. CASE Fails
  BY <1>1, <1>3, FailingSettles DEF Fails
<1>4. ASSUME NEW place \in {"registerRaw", "registerDone", "dataset"}, Moves(place)
      PROVE  op'.place = place /\ op'.run = op.run /\ op'.raws = 0 /\ place \in BootPlaces
  BY <1>2, <1>4, FieldsOfBoot DEF Moves, BootPlaces
<1>5. ASSUME NEW register, runs' = [runs EXCEPT ![op.run].register = register],
             NEW place \in {"registerRaw", "registerDone", "dataset"}, Moves(place),
             DOMAIN register = {"status", "raws", "pinned", "content"},
             register.raws \in Nat,
             register.status = "completed" => register.raws >= 1,
             place # "registerRaw" => register.raws >= 1
      PROVE  CaptureInv'
  <2>1. PICK run : run = [Run EXCEPT !.register = register]
    OBVIOUS
  <2>2. runs' = [runs EXCEPT ![op.run] = run]
    BY <1>5, <2>1 DEF Run
  <2>3. /\ DOMAIN run = DOMAIN NoRun /\ run.register = register
        /\ run.status = Run.status /\ run.kind = Run.kind /\ run.dataset = Run.dataset
    BY <1>2, <2>1, FieldsOfBoot DEF RunIs
  <2>4. RunIs(run)
    BY <1>2, <1>5, <2>3 DEF RunIs
  <2>5. op'.place = place /\ op'.run = op.run /\ op'.raws = 0 /\ place \in BootPlaces
    BY <1>4, <1>5
  <2>6. Run' = run
    BY <1>2, <2>2, <2>5 DEF Run, BootInv
  <2>7. BootIs(op, Run)'
    BY <1>2, <1>5, <2>3, <2>5, <2>6 DEF BootIs, Captured, Ending
  <2>8. QED
    BY <1>1, <2>2, <2>3, <2>4, <2>5, <2>7, RunStepKeeps
<1>6. CASE OpenRegister
  <2>1. CASE Moves("dataset") /\ UNCHANGED runs /\ Run.register.raws = 1
    <3>1. op'.place = "dataset" /\ op'.run = op.run /\ op'.raws = 0 /\ Run' = Run
      BY <1>4, <2>1 DEF Run
    <3>2. BootIs(op, Run)'
      BY <1>2, <2>1, <3>1 DEF BootIs, Captured, Ending
    <3>3. OpIs(op, Run, Source)'
      BY <1>2, <3>1, <3>2 DEF OpIs, BootPlaces
    <3>4. QED
      BY <2>1, <3>3, NoRunKeeps
  <2>2. CASE /\ runs' = [runs EXCEPT ![op.run].register.status = "running"]
             /\ Moves("registerRaw")
    <3>1. PICK register : register = [Run.register EXCEPT !.status = "running"]
      OBVIOUS
    <3>2. /\ DOMAIN register = {"status", "raws", "pinned", "content"}
          /\ register.raws = Run.register.raws /\ register.status = "running"
      BY <1>2, <3>1 DEF RunIs
    <3>3. runs' = [runs EXCEPT ![op.run].register = register]
      BY <2>2, <3>1 DEF Run
    <3>4. register.raws \in Nat
      BY <1>2, <3>2 DEF RunIs
    <3>5. QED
      BY <1>5, <2>2, <3>2, <3>3, <3>4
  <2>3. QED
    BY <1>3, <1>6, <2>1, <2>2 DEF OpenRegister
<1>7. CASE PersistRegister
  <2>1. PICK register : register = [Run.register EXCEPT !.raws = @ + 1]
    OBVIOUS
  <2>2. /\ DOMAIN register = {"status", "raws", "pinned", "content"}
        /\ register.raws = Run.register.raws + 1
    BY <1>2, <2>1 DEF RunIs
  <2>3. runs' = [runs EXCEPT ![op.run].register = register] /\ Moves("registerDone")
    BY <1>7, <2>1 DEF PersistRegister, Run
  <2>4. register.raws \in Nat /\ register.raws >= 1
    BY <1>2, <2>2 DEF RunIs
  <2>5. QED
    BY <1>5, <2>2, <2>3, <2>4
<1>8. CASE CompleteRegister
  <2>1. PICK register : register = [Run.register EXCEPT !.status = "completed"]
    OBVIOUS
  <2>2. /\ DOMAIN register = {"status", "raws", "pinned", "content"}
        /\ register.raws = Run.register.raws
    BY <1>2, <2>1 DEF RunIs
  <2>3. runs' = [runs EXCEPT ![op.run].register = register] /\ Moves("dataset")
    BY <1>8, <2>1 DEF CompleteRegister, Run
  <2>4. register.raws \in Nat /\ register.raws >= 1
    BY <1>2, <1>8, <2>2 DEF RunIs, BootIs, CompleteRegister
  <2>5. QED
    BY <1>5, <2>2, <2>3, <2>4
<1>9. QED
  BY <1>6, <1>7, <1>8

\* The archive and its members: as many raw rows as the process has stored, or
\* more when one before it was killed.
LEMMA DatasetSettles ==
  ASSUME BootInv, CaptureInv, OpenDataset \/ PersistMember \/ CompleteDataset
  PROVE  CaptureInv'
<1>1. /\ op.place \in {"dataset", "raw"} /\ op.place \in BootPlaces /\ op.place # "idle"
  BY DEF OpenDataset, PersistMember, CompleteDataset, BootPlaces
<1>2. /\ BootIs(op, Run) /\ RunIs(Run) /\ Run.status = "running" /\ op.run \in StatsRuns
      /\ Run.register.raws >= 1 /\ DOMAIN op = DOMAIN Idle
  BY <1>1, RunOf DEF BootIs
<1>3. ASSUME NEW dataset, runs' = [runs EXCEPT ![op.run].dataset = dataset],
             DOMAIN dataset = {"status", "raws", "archive", "at"}, dataset.raws \in Nat,
             dataset.status = "completed" => dataset.raws >= AllMembers,
             op'.run = op.run, op'.place \in {"raw", "persist"},
             op'.place = "raw" => op'.raws \in 0 .. AllMembers /\ dataset.raws >= op'.raws,
             op'.place = "persist" => dataset.raws >= AllMembers
      PROVE  CaptureInv'
  <2>1. PICK run : run = [Run EXCEPT !.dataset = dataset]
    OBVIOUS
  <2>2. runs' = [runs EXCEPT ![op.run] = run]
    BY <1>3, <2>1 DEF Run
  <2>3. /\ DOMAIN run = DOMAIN NoRun /\ run.dataset = dataset
        /\ run.status = Run.status /\ run.kind = Run.kind /\ run.register = Run.register
    BY <1>2, <2>1, FieldsOfBoot DEF RunIs
  <2>4. RunIs(run)
    BY <1>2, <1>3, <2>3 DEF RunIs
  <2>5. Run' = run
    BY <1>2, <1>3, <2>2 DEF Run, BootInv
  <2>6. BootIs(op, Run)'
    BY <1>2, <1>3, <2>3, <2>5 DEF BootIs, Captured, Ending
  <2>7. op'.place \in BootPlaces
    BY <1>3 DEF BootPlaces, Captured, Ending
  <2>8. QED
    BY <1>1, <1>3, <2>2, <2>3, <2>4, <2>6, <2>7, RunStepKeeps
<1>4. CASE OpenDataset
  <2>1. CASE /\ Run.dataset.status = "completed" /\ UNCHANGED runs
             /\ \E first : op' = [op EXCEPT !.place = "persist", !.step = first,
                                    !.archive = Run.dataset.archive, !.at = Run.dataset.at]
    <3>1. op'.place = "persist" /\ op'.run = op.run
      BY <1>2, <2>1, FieldsOfBoot
    <3>2. Run' = Run /\ Run.dataset.raws >= AllMembers
      BY <1>2, <2>1, <3>1 DEF Run, RunIs
    <3>3. BootIs(op, Run)'
      BY <1>2, <3>1, <3>2 DEF BootIs, Captured, Ending
    <3>4. OpIs(op, Run, Source)'
      BY <1>2, <3>1, <3>2, <3>3 DEF OpIs, BootPlaces, Captured, Ending
    <3>5. QED
      BY <2>1, <3>4, NoRunKeeps
  <2>2. CASE /\ runs' = [runs EXCEPT ![op.run].dataset.status = "running"]
             /\ op' = [op EXCEPT !.place = "raw", !.archive = served', !.at = now + 1]
    <3>1. PICK dataset : dataset = [Run.dataset EXCEPT !.status = "running"]
      OBVIOUS
    <3>2. /\ DOMAIN dataset = {"status", "raws", "archive", "at"}
          /\ dataset.raws = Run.dataset.raws /\ dataset.status = "running"
      BY <1>2, <3>1 DEF RunIs
    <3>3. runs' = [runs EXCEPT ![op.run].dataset = dataset]
      BY <2>2, <3>1 DEF Run
    <3>4. op'.place = "raw" /\ op'.run = op.run /\ op'.raws = op.raws
      BY <1>2, <2>2, FieldsOfBoot
    <3>5. op.raws = 0 /\ dataset.raws \in Nat
      BY <1>2, <1>4, <3>2 DEF OpenDataset, BootIs, RunIs
    <3>6. /\ op'.raws \in 0 .. AllMembers /\ dataset.raws >= op'.raws
          /\ op'.place # "persist" /\ dataset.status # "completed"
      BY <3>2, <3>4, <3>5, MemberCount
    <3>7. QED
      BY <1>3, <3>2, <3>3, <3>4, <3>5, <3>6
  <2>3. QED
    BY <1>4, <2>1, <2>2 DEF OpenDataset
<1>5. CASE PersistMember
  <2>1. /\ op.place = "raw" /\ op.raws \in 0 .. AllMembers /\ op.raws # AllMembers
        /\ Run.dataset.raws >= op.raws
    BY <1>2, <1>5, MembersAssumption DEF PersistMember, BootIs, AllMembers
  <2>2. PICK dataset : dataset = [Run.dataset EXCEPT !.raws = @ + 1]
    OBVIOUS
  <2>3. /\ DOMAIN dataset = {"status", "raws", "archive", "at"}
        /\ dataset.raws = Run.dataset.raws + 1 /\ dataset.status = Run.dataset.status
    BY <1>2, <2>2 DEF RunIs
  <2>4. runs' = [runs EXCEPT ![op.run].dataset = dataset]
    BY <1>5, <2>2 DEF PersistMember, Run
  <2>5. op'.place = "raw" /\ op'.run = op.run /\ op'.raws = op.raws + 1
    BY <1>2, <1>5, <2>1, FieldsOfBoot DEF PersistMember
  <2>6. /\ dataset.raws \in Nat /\ op'.raws \in 0 .. AllMembers /\ dataset.raws >= op'.raws
        /\ dataset.status = "completed" => dataset.raws >= AllMembers
    BY <1>2, <2>1, <2>3, <2>5, MemberCount DEF RunIs
  <2>7. QED
    BY <1>3, <2>3, <2>4, <2>5, <2>6
<1>6. CASE CompleteDataset
  <2>1. /\ op.place = "raw" /\ op.raws = AllMembers /\ Run.dataset.raws >= AllMembers
    <3>1. op.place = "raw" /\ op.raws > Len(Members)
      BY <1>6 DEF CompleteDataset
    <3>2. QED
      BY <1>2, <3>1, MembersAssumption DEF BootIs, AllMembers
  <2>2. PICK dataset : dataset = [Run.dataset EXCEPT !.status = "completed",
                                     !.archive = op.archive, !.at = op.at]
    OBVIOUS
  <2>3. DOMAIN dataset = {"status", "raws", "archive", "at"}
        /\ dataset.raws = Run.dataset.raws
    BY <1>2, <2>2 DEF RunIs
  <2>4. runs' = [runs EXCEPT ![op.run].dataset = dataset]
    BY <1>6, <2>2 DEF CompleteDataset, Run
  <2>5. op'.place = "persist" /\ op'.run = op.run
    <3>1. \E first : op' = [op EXCEPT !.place = "persist", !.step = first]
      BY <1>6 DEF CompleteDataset
    <3>2. QED
      BY <1>2, <3>1, FieldsOfBoot
  <2>6. dataset.raws \in Nat
    BY <1>2, <2>3 DEF RunIs
  <2>7. QED
    BY <1>3, <2>1, <2>3, <2>4, <2>5, <2>6
<1>7. QED
  BY <1>4, <1>5, <1>6

LEMMA SeasonSettles ==
  ASSUME BootInv, CaptureInv, OpenSeason \/ CompleteSeason \/ CompleteManifest
  PROVE  CaptureInv'
<1>1. op.place = "persist" /\ op.place \in BootPlaces /\ op.place # "idle"
  BY DEF OpenSeason, CompleteSeason, CompleteManifest, Doing, BootPlaces, Captured, Ending
<1>2. /\ BootIs(op, Run) /\ RunIs(Run) /\ op.run \in StatsRuns /\ DOMAIN op = DOMAIN Idle
  BY <1>1, RunOf
<1>3. ASSUME NEW run, runs' = [runs EXCEPT ![op.run] = run], DOMAIN run = DOMAIN NoRun,
             run.status = Run.status, run.kind = Run.kind,
             run.register = Run.register, run.dataset = Run.dataset,
             op'.run = op.run,
             \/ op'.place = "persist"
             \/ op'.place = "inventory" /\ run.manifest = "completed"
      PROVE  CaptureInv'
  <2>1. RunIs(run)
    BY <1>2, <1>3 DEF RunIs
  <2>2. Run' = run
    BY <1>2, <1>3 DEF Run, BootInv
  <2>3. BootIs(op, Run)'
    BY <1>1, <1>2, <1>3, <2>2 DEF BootIs, Captured, Ending
  <2>4. op'.place \in BootPlaces
    BY <1>3 DEF BootPlaces, Captured, Ending
  <2>5. QED
    BY <1>1, <1>3, <2>1, <2>3, <2>4, RunStepKeeps
<1>4. CASE OpenSeason
  <2>1. CASE Skips(Child) /\ UNCHANGED runs
    <3>1. op'.place = "persist" /\ op'.run = op.run
      BY <1>1, <2>1, SkipsIs DEF SameCommand
    <3>2. QED
      BY <1>1, <2>1, <3>1, ProgramStepKeeps
  <2>2. CASE runs' = [runs EXCEPT ![op.run].open = @ \cup {Child}] /\ Forward
    <3>1. PICK run : run = [Run EXCEPT !.open = @ \cup {Child}]
      OBVIOUS
    <3>2. runs' = [runs EXCEPT ![op.run] = run]
      BY <2>2, <3>1 DEF Run
    <3>3. /\ DOMAIN run = DOMAIN NoRun /\ run.status = Run.status /\ run.kind = Run.kind
          /\ run.register = Run.register /\ run.dataset = Run.dataset
      BY <1>2, <3>1, FieldsOfBoot DEF RunIs
    <3>4. QED
      BY <1>1, <1>3, <2>2, <3>2, <3>3, ForwardIs DEF SameCommand
  <2>3. QED
    BY <1>4, <2>1, <2>2 DEF OpenSeason
<1>5. CASE CompleteSeason
  <2>1. PICK run : run = [Run EXCEPT !.done = @ \cup {Child}]
    OBVIOUS
  <2>2. runs' = [runs EXCEPT ![op.run] = run] /\ Forward
    BY <1>5, <2>1 DEF CompleteSeason, Run
  <2>3. /\ DOMAIN run = DOMAIN NoRun /\ run.status = Run.status /\ run.kind = Run.kind
        /\ run.register = Run.register /\ run.dataset = Run.dataset
    BY <1>2, <2>1, FieldsOfBoot DEF RunIs
  <2>4. QED
    BY <1>1, <1>3, <2>2, <2>3, ForwardIs DEF SameCommand
<1>6. CASE CompleteManifest
  <2>1. PICK run : run = [Run EXCEPT !.manifest = "completed"]
    OBVIOUS
  <2>2. runs' = [runs EXCEPT ![op.run] = run] /\ Moves("inventory")
    BY <1>6, <2>1 DEF CompleteManifest, Run
  <2>3. /\ DOMAIN run = DOMAIN NoRun /\ run.status = Run.status /\ run.kind = Run.kind
        /\ run.register = Run.register /\ run.dataset = Run.dataset
        /\ run.manifest = "completed"
    BY <1>2, <2>1, FieldsOfBoot DEF RunIs
  <2>4. QED
    BY <1>3, <2>2, <2>3, PlaceMoves
<1>7. QED
  BY <1>4, <1>5, <1>6

\* The fingerprint, and the end: the raw rows of the two captures are counted
\* together, and neither can have too few.
LEMMA EndingSettles ==
  ASSUME BootInv, CaptureInv, ReadInventory \/ CompleteInventory \/ Finalize
  PROVE  CaptureInv'
<1>1. op.place \in Ending /\ op.place \in BootPlaces /\ op.place # "idle"
  BY DEF ReadInventory, CompleteInventory, Finalize, BootPlaces, Captured, Ending
<1>2. /\ BootIs(op, Run) /\ RunIs(Run) /\ op.run \in StatsRuns /\ Run.status = "running"
      /\ Run.manifest = "completed" /\ Run.kind = "bootstrap" /\ DOMAIN op = DOMAIN Idle
  BY <1>1, RunOf DEF BootIs
<1>3. CASE Fails
  BY <1>1, <1>3, FailingSettles DEF Fails
<1>4. CASE CompleteInventory /\ ~Fails
  <2>1. PICK inventory : inventory = op.inventory
    OBVIOUS
  <2>2. PICK run : run = [Run EXCEPT !.inventory = inventory]
    OBVIOUS
  <2>3. runs' = [runs EXCEPT ![op.run] = run] /\ Moves("finalize")
    BY <1>4, <2>1, <2>2 DEF CompleteInventory, Run
  <2>4. /\ DOMAIN run = DOMAIN NoRun /\ run.status = Run.status /\ run.kind = Run.kind
        /\ run.register = Run.register /\ run.dataset = Run.dataset
        /\ run.manifest = Run.manifest /\ run.inventory = inventory
    BY <1>2, <2>2, FieldsOfBoot DEF RunIs
  <2>5. RunIs(run) /\ inventory # <<>>
    BY <1>2, <1>4, <2>1, <2>4 DEF RunIs, BootIs, CompleteInventory
  <2>6. op'.place = "finalize" /\ op'.run = op.run
    BY <2>3, PlaceMoves
  <2>7. Run' = run
    BY <1>2, <2>3, <2>6 DEF Run, BootInv
  <2>8. BootIs(op, Run)'
    BY <1>1, <1>2, <2>4, <2>5, <2>6, <2>7 DEF BootIs, Captured, Ending
  <2>9. op'.place \in BootPlaces
    BY <2>6 DEF BootPlaces, Captured, Ending
  <2>10. QED
    BY <1>1, <2>3, <2>4, <2>5, <2>6, <2>8, <2>9, RunStepKeeps
<1>5. CASE Finalize /\ ~Fails
  <2>1. /\ op.place = "finalize" /\ op' = Idle /\ RawRowsReconcile(Run)
        /\ runs' = [runs EXCEPT ![op.run].status = "completed"]
    BY <1>5 DEF Finalize
  <2>2. PICK run : run = [Run EXCEPT !.status = "completed"]
    OBVIOUS
  <2>3. runs' = [runs EXCEPT ![op.run] = run]
    BY <2>1, <2>2 DEF Run
  <2>4. /\ DOMAIN run = DOMAIN NoRun /\ run.status = "completed" /\ run.kind = "bootstrap"
        /\ run.register = Run.register /\ run.dataset = Run.dataset
        /\ run.manifest = "completed" /\ run.inventory = Run.inventory
    BY <1>2, <2>2, FieldsOfBoot DEF RunIs
  <2>5. Run.register.raws = 1 /\ Run.dataset.raws = AllMembers
    <3>1. /\ Run.register.raws \in Nat /\ Run.register.raws >= 1
          /\ Run.dataset.raws \in Nat /\ Run.dataset.raws >= AllMembers
      BY <1>2, <2>1 DEF BootIs, Captured, Ending, RunIs
    <3>2. Run.register.raws + Run.dataset.raws = 1 + AllMembers
      BY <2>1, MemberCount, MembersAssumption DEF RawRowsReconcile, AllMembers
    <3>3. QED
      BY <3>1, <3>2, MemberCount
  <2>6. Run.inventory # <<>>
    BY <1>2, <2>1 DEF BootIs
  <2>7. RunIs(run) /\ Whole(run) /\ Vouches(run)
    BY <1>2, <2>4, <2>5, <2>6 DEF RunIs, Whole, Vouches
  <2>8. OpIs(op, Run, Source)' /\ runs[op.run].status # "completed"
    BY <1>2, <2>1, FieldsOfBoot DEF OpIs, Run
  <2>9. QED
    BY <1>2, <2>3, <2>7, <2>8, OneRunKeeps
<1>6. CASE ReadInventory
  <2>1. UNCHANGED runs /\ op.place = "inventory"
        /\ op' = [op EXCEPT !.place = "fingerprint", !.inventory = <<InventoryOf(facts)>>]
    BY <1>6 DEF ReadInventory
  <2>2. op'.place = "fingerprint" /\ op'.run = op.run /\ op'.inventory # <<>>
    BY <1>2, <2>1, FieldsOfBoot
  <2>3. Run' = Run
    BY <2>1, <2>2 DEF Run
  <2>4. BootIs(op, Run)'
    BY <1>2, <2>1, <2>2, <2>3 DEF BootIs, Captured, Ending
  <2>5. OpIs(op, Run, Source)'
    BY <1>2, <2>2, <2>3, <2>4 DEF OpIs, BootPlaces, Captured, Ending
  <2>6. QED
    BY <2>1, <2>5, NoRunKeeps
<1>7. QED
  BY <1>3, <1>4, <1>5, <1>6

\* Every other step of the program stays in it, or fails.
LEMMA StaysInProgram ==
  ASSUME BootInv,
         \/ UpsertTeam \/ UpsertPlayers \/ ReadCanonicalPlayers \/ RecordCanonicalPlayers
         \/ RecordPlayerMappings \/ EnsurePlayer \/ ResolvePlayer \/ EnsureCanonical
         \/ EnsureMapping \/ UpsertGames \/ RecordStatuses \/ LinkGames \/ CheckThroughSeason
         \/ RecordTeamSnapshots \/ RecordLineups \/ RecordPlayerSnapshots
         \/ UpsertPlays \/ ReadLatestRevisions \/ RecordPlayRevisions \/ RecordExcluded
  PROVE  /\ op.place = "persist" /\ UNCHANGED waiting
         /\ Fails \/ (UNCHANGED runs /\ SameCommand(op'))
<1>1. op.place = "persist"
  BY DEF UpsertTeam, UpsertPlayers, ReadCanonicalPlayers, RecordCanonicalPlayers,
     RecordPlayerMappings, EnsurePlayer, ResolvePlayer, EnsureCanonical, EnsureMapping,
     UpsertGames, RecordStatuses, LinkGames, CheckThroughSeason, RecordTeamSnapshots,
     RecordLineups, RecordPlayerSnapshots, UpsertPlays, ReadLatestRevisions,
     RecordPlayRevisions, RecordExcluded, Doing
<1>2. SameCommand(op) /\ DOMAIN op = DOMAIN Idle
  BY <1>1 DEF BootInv, MemoryIs, SameCommand
<1>3. Fails => UNCHANGED waiting
  BY DEF Fails
<1>4. Forward => SameCommand(op')
  BY <1>1, ForwardIs
<1>5. ASSUME NEW accepted, NEW result, Call(accepted, result)
      PROVE  UNCHANGED waiting /\ (Fails \/ (UNCHANGED runs /\ SameCommand(op')))
  BY <1>2, <1>3, <1>5, GoesIs DEF Call, CallThen
<1>6. CASE \/ UpsertPlayers \/ RecordPlayerMappings \/ UpsertGames \/ RecordStatuses \/ LinkGames
           \/ RecordTeamSnapshots \/ RecordPlayerSnapshots \/ UpsertPlays \/ RecordExcluded
  <2>1. \E accepted, result : Call(accepted, result)
    BY <1>6 DEF UpsertPlayers, RecordPlayerMappings, UpsertGames, RecordStatuses, LinkGames,
       RecordTeamSnapshots, RecordPlayerSnapshots, UpsertPlays, RecordExcluded
  <2>2. QED
    BY <1>1, <1>5, <2>1
<1>7. ASSUME NEW memory, NEW x,
             \/ memory = [op EXCEPT !.canonical = x]
             \/ memory = [op EXCEPT !.lineups = x]
             \/ memory = [op EXCEPT !.lineups = x, !.canonical = {}]
             \/ memory = [op EXCEPT !.latest = x],
             Remembers(memory) \/ \E accepted, result : CallThen(accepted, result, memory)
      PROVE  UNCHANGED waiting /\ (Fails \/ (UNCHANGED runs /\ SameCommand(op')))
  <2>1. SameCommand(memory)
    BY <1>2, <1>7, FieldsOfBoot DEF SameCommand
  <2>2. Goes(memory) => SameCommand(op')
    BY <2>1, GoesIs
  <2>3. QED
    BY <1>3, <1>7, <2>2 DEF Remembers, CallThen
<1>8. CASE RecordCanonicalPlayers \/ RecordLineups \/ RecordPlayRevisions
  <2>1. \E memory, x : /\ \/ memory = [op EXCEPT !.canonical = x]
                           \/ memory = [op EXCEPT !.lineups = x]
                           \/ memory = [op EXCEPT !.latest = x]
                        /\ \E accepted, result : CallThen(accepted, result, memory)
    BY <1>8 DEF RecordCanonicalPlayers, RecordLineups, RecordPlayRevisions
  <2>2. QED
    BY <1>1, <1>7, <2>1
<1>9. CASE ReadCanonicalPlayers \/ CheckThroughSeason \/ ReadLatestRevisions
  <2>1. \/ Fails
        \/ \E memory, x : /\ \/ memory = [op EXCEPT !.canonical = x]
                              \/ memory = [op EXCEPT !.lineups = x, !.canonical = {}]
                              \/ memory = [op EXCEPT !.latest = x]
                           /\ Remembers(memory)
    BY <1>9 DEF ReadCanonicalPlayers, CheckThroughSeason, ReadLatestRevisions
  <2>2. QED
    BY <1>1, <1>3, <1>7, <2>1
<1>10. ASSUME NEW memory, NEW x, NEW y, NEW z, op' = memory,
              \/ memory = [op EXCEPT !.teams = x]
              \/ memory = [op EXCEPT !.ensuring = x, !.half = y]
              \/ memory = [op EXCEPT !.half = x]
              \/ memory = [op EXCEPT !.players = x, !.ensuring = y, !.half = z]
       PROVE  SameCommand(op')
  BY <1>2, <1>10, FieldsOfBoot DEF SameCommand
<1>11. CASE UpsertTeam \/ EnsurePlayer
  <2>1. \/ Fails
        \/ UNCHANGED <<runs, waiting>> /\ Forward
        \/ /\ UNCHANGED <<runs, waiting>>
           /\ \/ \E x : op' = [op EXCEPT !.teams = x]
              \/ \E x, y : op' = [op EXCEPT !.ensuring = x, !.half = y]
    BY <1>11 DEF UpsertTeam, EnsurePlayer
  <2>2. QED
    BY <1>1, <1>3, <1>4, <1>10, <2>1
<1>12. CASE ResolvePlayer \/ EnsureCanonical \/ EnsureMapping
  <2>1. \/ Fails
        \/ /\ UNCHANGED <<runs, waiting>>
           /\ \/ \E x : op' = [op EXCEPT !.half = x]
              \/ \E x, y, z : op' = [op EXCEPT !.players = x, !.ensuring = y, !.half = z]
    <3>1. CASE ResolvePlayer /\ op.ensuring \in facts.mapped
      BY <3>1 DEF ResolvePlayer
    <3>2. CASE ResolvePlayer /\ op.ensuring \notin facts.mapped
      BY <3>2 DEF ResolvePlayer
    <3>3. CASE EnsureCanonical
      BY <3>3 DEF EnsureCanonical
    <3>4. CASE EnsureMapping
      BY <3>4 DEF EnsureMapping
    <3>5. QED
      BY <1>12, <3>1, <3>2, <3>3, <3>4
  <2>2. QED
    BY <1>1, <1>3, <1>10, <2>1
<1>13. QED
  BY <1>6, <1>8, <1>9, <1>11, <1>12

LEMMA WritingSettles ==
  ASSUME BootInv, CaptureInv,
         \/ UpsertTeam \/ UpsertPlayers \/ ReadCanonicalPlayers \/ RecordCanonicalPlayers
         \/ RecordPlayerMappings \/ EnsurePlayer \/ ResolvePlayer \/ EnsureCanonical
         \/ EnsureMapping \/ UpsertGames \/ RecordStatuses \/ LinkGames \/ CheckThroughSeason
         \/ RecordTeamSnapshots \/ RecordLineups \/ RecordPlayerSnapshots
         \/ UpsertPlays \/ ReadLatestRevisions \/ RecordPlayRevisions \/ RecordExcluded
  PROVE  CaptureInv'
<1>1. op.place = "persist" /\ (Fails \/ (UNCHANGED runs /\ SameCommand(op')))
  BY StaysInProgram
<1>2. CASE Fails
  BY <1>1, <1>2, FailingSettles DEF Fails
<1>3. CASE UNCHANGED runs /\ SameCommand(op')
  BY <1>1, <1>3, ProgramStepKeeps DEF SameCommand
<1>4. QED
  BY <1>1, <1>2, <1>3

\* The register pin: the run it vouches for is completed, so it is not the run
\* at work, and stays as it is.
LEMMA PinSettles ==
  ASSUME BootInv, CaptureInv, Pin
  PROVE  CaptureInv'
<1>1. op.place \in PinPlaces /\ op.place # "idle"
  BY DEF Pin, FindEvidence, CapturePinned, CompareInventories, SettlePin, PinPlaces
<1>2. /\ PinIs(op, Run, Source) /\ RunIs(Run) /\ Vouches(Run) /\ Run.status = "running"
      /\ op.run \in StatsRuns /\ DOMAIN op = DOMAIN Idle
      /\ Run.kind = "pin" /\ Run.source \in StatsRuns
  BY <1>1, RunOf DEF PinIs, Vouches
<1>3. CASE Fails
  BY <1>1, <1>3, FailingSettles DEF Fails
<1>4. ASSUME NEW register, runs' = [runs EXCEPT ![op.run].register = register],
             NEW place \in {"capture", "compare", "settle"}, Moves(place),
             DOMAIN register = {"status", "raws", "pinned", "content"},
             register.raws = IF place = "capture" THEN 0 ELSE 1,
             Source.status = "completed",
             place = "settle" => Source.register.content = register.content
      PROVE  CaptureInv'
  <2>1. PICK run : run = [Run EXCEPT !.register = register]
    OBVIOUS
  <2>2. runs' = [runs EXCEPT ![op.run] = run]
    BY <1>4, <2>1 DEF Run
  <2>3. /\ DOMAIN run = DOMAIN NoRun /\ run.register = register /\ run.source = Run.source
        /\ run.status = Run.status /\ run.kind = Run.kind /\ run.dataset = Run.dataset
    BY <1>2, <2>1, FieldsOfBoot DEF RunIs
  <2>4. RunIs(run) /\ Whole(run) /\ Vouches(run)
    BY <1>2, <1>4, <2>3 DEF RunIs, Whole, Vouches
  <2>5. op'.place = place /\ op'.run = op.run
    BY <1>4, PlaceMoves
  <2>6. Run.source # op.run /\ Run' = run
    BY <1>2, <1>4, <2>2, <2>5 DEF Run, Source, BootInv
  <2>7. Source' = Source
    BY <1>2, <2>2, <2>3, <2>6 DEF Source, BootInv
  <2>8. PinIs(op, Run, Source)'
    BY <1>2, <1>4, <2>3, <2>5, <2>6, <2>7 DEF PinIs
  <2>9. OpIs(op, Run, Source)' /\ runs[op.run].status # "completed"
    BY <1>2, <1>4, <2>3, <2>5, <2>6, <2>8 DEF OpIs, PinPlaces, Run
  <2>10. QED
    BY <1>2, <2>2, <2>4, <2>9, OneRunKeeps
<1>5. CASE FindEvidence /\ ~Fails
  <2>1. PICK place \in {"capture", "compare"} :
          place = IF Run.register.raws = 1 THEN "compare" ELSE "capture"
    OBVIOUS
  <2>2. PICK register : register = [Run.register EXCEPT !.status =
                                       IF @ = "none" THEN "running" ELSE @]
    OBVIOUS
  <2>3. /\ Source.status = "completed" /\ Run.register.raws <= 1 /\ Moves(place)
        /\ runs' = [runs EXCEPT ![op.run].register = register]
    BY <1>5, <2>1, <2>2 DEF FindEvidence, SourceIsLegacyEvidence, Run
  <2>4. /\ DOMAIN register = {"status", "raws", "pinned", "content"}
        /\ register.raws = Run.register.raws /\ Run.register.raws \in Nat
    BY <1>2, <2>2 DEF RunIs
  <2>5. register.raws = IF place = "capture" THEN 0 ELSE 1
    BY <2>1, <2>3, <2>4
  <2>6. QED
    BY <1>4, <2>1, <2>3, <2>4, <2>5
<1>6. CASE CapturePinned
  <2>1. Run.register.raws = 0 /\ Source.status = "completed"
    BY <1>2, <1>6 DEF CapturePinned, PinIs
  <2>2. PICK content : runs' = [runs EXCEPT ![op.run].register.raws = @ + 1,
                                            ![op.run].register.content = content]
    BY <1>6 DEF CapturePinned
  <2>3. PICK register :
          register = [runs[op.run].register EXCEPT !.raws = @ + 1, !.content = content]
    OBVIOUS
  <2>4. DOMAIN register = {"status", "raws", "pinned", "content"} /\ register.raws = 1
    BY <1>2, <2>1, <2>3 DEF RunIs, Run
  <2>5. runs' = [runs EXCEPT ![op.run].register = register]
    BY <2>2, <2>3
  <2>6. Moves("compare")
    BY <1>6 DEF CapturePinned
  <2>7. QED
    BY <1>4, <2>1, <2>4, <2>5, <2>6
<1>7. CASE CompareInventories /\ ~Fails
  <2>1. /\ Run.register.raws = 1 /\ Source.status = "completed"
        /\ Source.register.content = Run.register.content
    BY <1>2, <1>7 DEF CompareInventories, PinIs, InventoriesMatch
  <2>2. PICK register : register = [Run.register EXCEPT !.status = "completed"]
    OBVIOUS
  <2>3. /\ DOMAIN register = {"status", "raws", "pinned", "content"}
        /\ register.raws = 1 /\ register.content = Run.register.content
    BY <1>2, <2>1, <2>2 DEF RunIs
  <2>4. runs' = [runs EXCEPT ![op.run].register = register] /\ Moves("settle")
    BY <1>7, <2>2 DEF CompareInventories, Run
  <2>5. QED
    BY <1>4, <2>1, <2>3, <2>4
<1>8. CASE SettlePin
  <2>1. /\ Run.register.raws = 1 /\ Source.status = "completed"
        /\ Source.register.content = Run.register.content
    BY <1>2, <1>8 DEF SettlePin, PinIs
  <2>2. PICK run : run = [Run EXCEPT !.status = "completed"]
    OBVIOUS
  <2>3. runs' = [runs EXCEPT ![op.run] = run] /\ op' = Idle
    BY <1>8, <2>2 DEF SettlePin, Run
  <2>4. /\ DOMAIN run = DOMAIN NoRun /\ run.status = "completed" /\ run.kind = Run.kind
        /\ run.register = Run.register /\ run.dataset = Run.dataset
        /\ run.source = Run.source
    BY <1>2, <2>2, FieldsOfBoot DEF RunIs
  <2>5. RunIs(run) /\ Whole(run) /\ Vouches(run)
    BY <1>2, <2>1, <2>4 DEF RunIs, Whole, Vouches, Source
  <2>6. OpIs(op, Run, Source)' /\ runs[op.run].status # "completed"
    BY <1>2, <2>3, FieldsOfBoot DEF OpIs, Run
  <2>7. QED
    BY <1>2, <2>3, <2>5, <2>6, OneRunKeeps
<1>9. QED
  BY <1>3, <1>5, <1>6, <1>7, <1>8 DEF Pin

LEMMA BeginningSettles ==
  ASSUME BootInv, CaptureInv, NEW r \in StatsRuns,
         \/ Start(r) \/ Resume(r) \/ ResumePin(r)
         \/ \E source \in StatsRuns : StartPin(r, source)
  PROVE  CaptureInv'
<1>1. RunIs(runs[r]) /\ Vouches(runs[r])
  BY DEF CaptureInv
<1>2. ASSUME NEW place \in {"register", "evidence"},
             op' = [Idle EXCEPT !.run = r, !.place = place],
             runs'[r].status = "running",
             runs'[r].kind = IF place = "register" THEN "bootstrap" ELSE "pin"
      PROVE  OpIs(op, Run, Source)'
  <2>1. op'.place = place /\ op'.run = r /\ op'.raws = Idle.raws /\ Idle.raws = 0
    BY <1>2, FieldsOfBoot DEF Idle
  <2>2. Run' = runs'[r]
    BY <2>1 DEF Run
  <2>3. CASE place = "register"
    <3>1. BootIs(op, Run)'
      BY <1>2, <2>1, <2>2, <2>3 DEF BootIs, Captured, Ending
    <3>2. QED
      BY <1>2, <2>1, <2>2, <2>3, <3>1 DEF OpIs, BootPlaces
  <2>4. CASE place = "evidence"
    <3>1. PinIs(op, Run, Source)'
      BY <1>2, <2>1, <2>2, <2>4 DEF PinIs
    <3>2. QED
      BY <1>2, <2>1, <2>2, <2>4, <3>1 DEF OpIs, PinPlaces
  <2>5. QED
    BY <2>3, <2>4
<1>3. CASE Resume(r)
  BY <1>2, <1>3, NoRunKeeps DEF Resume
<1>4. CASE ResumePin(r)
  BY <1>2, <1>4, NoRunKeeps DEF ResumePin
<1>5. CASE Start(r)
  <2>1. PICK run : run = [runs[r] EXCEPT !.status = "running"]
    OBVIOUS
  <2>2. /\ runs[r].status = "none" /\ runs' = [runs EXCEPT ![r] = run]
        /\ op' = [Idle EXCEPT !.run = r, !.place = "register"]
    BY <1>5, <2>1 DEF Start, IsFresh
  <2>3. /\ DOMAIN run = DOMAIN NoRun /\ run.status = "running" /\ run.kind = "bootstrap"
        /\ run.register = runs[r].register /\ run.dataset = runs[r].dataset
    BY <1>1, <2>1, <2>2, FieldsOfBoot DEF RunIs
  <2>4. RunIs(run) /\ Whole(run) /\ Vouches(run)
    BY <1>1, <2>2, <2>3 DEF RunIs, Whole, Vouches
  <2>5. runs'[r] = run
    BY <2>2 DEF BootInv
  <2>6. OpIs(op, Run, Source)' /\ runs[r].status # "completed"
    BY <1>2, <2>2, <2>3, <2>5
  <2>7. QED
    BY <2>2, <2>4, <2>6, OneRunKeeps
<1>6. ASSUME NEW source \in StatsRuns, StartPin(r, source)
      PROVE  CaptureInv'
  <2>1. PICK run : run = [runs[r] EXCEPT !.status = "running", !.kind = "pin",
                                         !.source = source]
    OBVIOUS
  <2>2. /\ runs[r].status = "none" /\ runs' = [runs EXCEPT ![r] = run]
        /\ op' = [Idle EXCEPT !.run = r, !.place = "evidence"]
    <3>1. runs[r].status = "none"
      BY <1>6 DEF StartPin, IsFresh
    <3>2. QED
      BY <1>6, <2>1, <3>1 DEF StartPin
  <2>3. /\ DOMAIN run = DOMAIN NoRun /\ run.status = "running" /\ run.kind = "pin"
        /\ run.register = runs[r].register /\ run.dataset = runs[r].dataset
        /\ run.source = source
    BY <1>1, <2>1, <2>2, FieldsOfBoot DEF RunIs
  <2>4. RunIs(run) /\ Whole(run) /\ Vouches(run)
    BY <1>1, <1>6, <2>3 DEF RunIs, Whole, Vouches
  <2>5. runs'[r] = run
    BY <2>2 DEF BootInv
  <2>6. OpIs(op, Run, Source)' /\ runs[r].status # "completed"
    BY <1>2, <2>2, <2>3, <2>5
  <2>7. QED
    BY <2>2, <2>4, <2>6, OneRunKeeps
<1>7. QED
  BY <1>3, <1>4, <1>5, <1>6

\* The turn goes to another command, whose run is as it left it.
LEMMA TurningSettles ==
  ASSUME BootInv, CaptureInv, OthersInv, TakesTurns
  PROVE  CaptureInv' /\ OthersInv'
<1>1. /\ UNCHANGED runs /\ (op' \in waiting \/ op' = Idle) /\ op' \notin waiting'
      /\ waiting' \subseteq waiting \cup {op} /\ (op \in waiting' => op.place # "idle")
  BY TurnIs DEF BootInv
<1>2. OpIs(op, Run, Source)'
  BY <1>1, FieldsOfBoot DEF OthersInv, OpIs, Run, Source
<1>3. CaptureInv'
  BY <1>1, <1>2, NoRunKeeps
<1>4. \A o \in waiting \cup {op} : OpIs(o, runs[o.run], runs[runs[o.run].source])
  BY DEF OthersInv, CaptureInv, Run, Source
<1>5. \A o, other \in waiting \cup {op} : o.run = other.run => o = other
  BY DEF OthersInv
<1>6. \A o \in waiting' : o.run # op'.run
  <2>1. CASE op' \in waiting
    BY <1>1, <1>5, <2>1
  <2>2. CASE op' = Idle
    <3>1. \A o \in waiting' : o.run \in StatsRuns
      BY <1>1 DEF BootInv, MemoryIs
    <3>2. QED
      BY <2>2, <3>1, BootstrapAssumption DEF Idle
  <2>3. QED
    BY <1>1, <2>1, <2>2
<1>7. QED
  BY <1>1, <1>3, <1>4, <1>5, <1>6 DEF OthersInv

\* A command changes the row of its own run only.
LEMMA OtherRunsStay ==
  ASSUME BootInv, Bootstrap \/ Pin \/ Dies \/ CallRaises
  PROVE  /\ UNCHANGED waiting /\ \A r \in StatsRuns : r # op.run => runs'[r] = runs[r]
         /\ op' = Idle \/ op'.run = op.run
<1>1. ASSUME NEW run, runs' = [runs EXCEPT ![op.run] = run]
      PROVE  \A r \in StatsRuns : r # op.run => runs'[r] = runs[r]
  BY <1>1 DEF BootInv
<1>2. CASE Fails
  BY <1>2 DEF Fails, BootInv
<1>3. CASE OpenRegister \/ PersistRegister \/ CompleteRegister
  <2>1. CASE ~Fails
    <3>1. UNCHANGED waiting /\ \E place : Moves(place)
      BY <1>3, <2>1 DEF OpenRegister, PersistRegister, CompleteRegister
    <3>2. \A r \in StatsRuns : r # op.run => runs'[r] = runs[r]
      BY <1>3, <2>1 DEF OpenRegister, PersistRegister, CompleteRegister, BootInv
    <3>3. QED
      BY <3>1, <3>2, PlaceMoves
  <2>2. QED
    BY <1>2, <2>1
<1>4. CASE OpenDataset \/ PersistMember \/ CompleteDataset
  <2>1. UNCHANGED waiting /\ \A r \in StatsRuns : r # op.run => runs'[r] = runs[r]
    BY <1>4 DEF OpenDataset, PersistMember, CompleteDataset, BootInv
  <2>2. DOMAIN op = DOMAIN Idle
    BY BootIsTyped
  <2>3. op'.run = op.run
    BY <1>4, <2>2, FieldsOfBoot DEF OpenDataset, PersistMember, CompleteDataset
  <2>4. QED
    BY <2>1, <2>3
<1>5. CASE OpenSeason \/ CompleteSeason \/ CompleteManifest
  <2>1. UNCHANGED waiting /\ \A r \in StatsRuns : r # op.run => runs'[r] = runs[r]
    BY <1>5 DEF OpenSeason, CompleteSeason, CompleteManifest, BootInv
  <2>2. op.place # "idle" /\ (Forward \/ Skips(Child) \/ Moves("inventory"))
    BY <1>5 DEF OpenSeason, CompleteSeason, CompleteManifest, Doing
  <2>3. op'.run = op.run
    BY <2>2, ForwardIs, SkipsIs, PlaceMoves DEF SameCommand
  <2>4. QED
    BY <2>1, <2>3
<1>6. CASE \/ UpsertTeam \/ UpsertPlayers \/ ReadCanonicalPlayers \/ RecordCanonicalPlayers
           \/ RecordPlayerMappings \/ EnsurePlayer \/ ResolvePlayer \/ EnsureCanonical
           \/ EnsureMapping \/ UpsertGames \/ RecordStatuses \/ LinkGames
           \/ CheckThroughSeason \/ RecordTeamSnapshots \/ RecordLineups
           \/ RecordPlayerSnapshots \/ UpsertPlays \/ ReadLatestRevisions
           \/ RecordPlayRevisions \/ RecordExcluded
  BY <1>2, <1>6, StaysInProgram DEF SameCommand
<1>7. CASE ReadInventory \/ CompleteInventory \/ Finalize
  <2>1. CASE ~Fails
    <3>1. UNCHANGED waiting /\ \A r \in StatsRuns : r # op.run => runs'[r] = runs[r]
      BY <1>7, <2>1 DEF ReadInventory, CompleteInventory, Finalize, BootInv
    <3>2. \/ Moves("finalize") \/ op' = Idle
          \/ op' = [op EXCEPT !.place = "fingerprint", !.inventory = <<InventoryOf(facts)>>]
      BY <1>7, <2>1 DEF ReadInventory, CompleteInventory, Finalize
    <3>3. op' = Idle \/ op'.run = op.run
      BY <3>2, PlaceMoves, BootIsTyped, FieldsOfBoot
    <3>4. QED
      BY <3>1, <3>3
  <2>2. QED
    BY <1>2, <2>1
<1>8. CASE Pin
  <2>1. CASE ~Fails
    <3>1. UNCHANGED waiting /\ (op' = Idle \/ \E place : Moves(place))
      BY <1>8, <2>1 DEF Pin, FindEvidence, CapturePinned, CompareInventories, SettlePin
    <3>2. \A r \in StatsRuns : r # op.run => runs'[r] = runs[r]
      BY <1>8, <2>1 DEF Pin, FindEvidence, CapturePinned, CompareInventories, SettlePin, BootInv
    <3>3. QED
      BY <3>1, <3>2, PlaceMoves
  <2>2. QED
    BY <1>2, <2>1
<1>9. CASE Dies \/ CallRaises
  BY <1>9 DEF Dies, CallRaises, BootInv
<1>10. QED
  BY <1>3, <1>4, <1>5, <1>6, <1>7, <1>8, <1>9 DEF Bootstrap

\* What a waiting command has in memory of its run, and of the completed run it
\* vouches for, is so still when others have gone on.
LEMMA OthersStay ==
  ASSUME BootInv, CaptureInv, OthersInv, UNCHANGED waiting,
         \A o \in waiting : o.run # op'.run,
         \A r \in StatsRuns : (runs[r].status \in {"running", "completed"} /\ r # op.run)
                                 => runs'[r] = runs[r],
         op.place # "idle" \/ \A r \in StatsRuns : runs[r].status \in {"running", "completed"}
                                                     => runs'[r] = runs[r]
  PROVE  OthersInv'
<1>1. ASSUME NEW o \in waiting
      PROVE  OpIs(o, runs[o.run], runs[runs[o.run].source])'
  <2>1. /\ o.run \in StatsRuns /\ o.place # "idle" /\ o.run # op.run
        /\ OpIs(o, runs[o.run], runs[runs[o.run].source])
    BY DEF BootInv, MemoryIs, OthersInv
  <2>2. runs[o.run].status = "running" /\ runs'[o.run] = runs[o.run]
    BY <2>1 DEF OpIs
  <2>3. runs[o.run].kind = "pin" => runs[o.run].source \in StatsRuns
    BY <2>1 DEF CaptureInv, Vouches
  <2>4. op.place # "idle" => runs[op.run].status = "running"
    BY RunOf DEF Run
  <2>5. ASSUME runs[o.run].kind = "pin", runs[runs[o.run].source].status = "completed"
        PROVE  runs'[runs[o.run].source] = runs[runs[o.run].source]
    BY <2>3, <2>4, <2>5
  <2>6. ASSUME o.place \in PinPlaces, PinIs(o, runs[o.run], runs[runs[o.run].source])
        PROVE  PinIs(o, runs'[o.run], runs'[runs'[o.run].source])
    BY <2>2, <2>5, <2>6 DEF PinIs, PinPlaces
  <2>7. QED
    BY <2>1, <2>2, <2>6 DEF OpIs
<1>2. QED
  BY <1>1 DEF OthersInv

LEMMA OthersContinue ==
  ASSUME BootInv, CaptureInv, OthersInv, [StorageNext]_storageVars
  PROVE  OthersInv'
<1>1. \A o \in waiting : o.run # op.run /\ o.run # Idle.run
  BY BootstrapAssumption DEF OthersInv, BootInv, MemoryIs, Idle
<1>2. CASE Bootstrap \/ Pin \/ Dies \/ CallRaises
  <2>1. \A r \in StatsRuns : r # op.run => runs'[r] = runs[r]
    BY <1>2, OtherRunsStay
  <2>2. UNCHANGED waiting /\ \A o \in waiting : o.run # op'.run
    BY <1>1, <1>2, OtherRunsStay
  <2>3. op.place = "idle" => \A r \in StatsRuns : r # op.run
    BY BootstrapAssumption DEF BootInv, MemoryIs, Idle
  <2>4. QED
    BY <2>1, <2>2, <2>3, OthersStay
<1>3. CASE TakesTurns
  BY <1>3, TurningSettles
<1>4. ASSUME NEW r \in StatsRuns,
             \/ Start(r) \/ Resume(r) \/ ResumePin(r)
             \/ \E source \in StatsRuns : StartPin(r, source)
      PROVE  OthersInv'
  <2>1. /\ UNCHANGED waiting /\ \E place : op' = [Idle EXCEPT !.run = r, !.place = place]
        /\ \A q \in StatsRuns : runs[q].status \in {"running", "completed"}
                                  => runs'[q] = runs[q]
    BY <1>4 DEF Start, Resume, ResumePin, StartPin, IsFresh, BootInv
  <2>2. op'.run = r
    BY <2>1, FieldsOfBoot
  <2>3. \A o \in waiting : runs[o.run].status = "running"
    BY DEF OthersInv, OpIs, BootInv
  <2>4. \A o \in waiting : o.run # r
    BY <1>4, <2>3 DEF Start, Resume, ResumePin, StartPin, IsFresh, Locked
  <2>5. QED
    BY <2>1, <2>2, <2>4, OthersStay
<1>5. CASE UNCHANGED bootVars
  BY <1>5 DEF bootVars, OthersInv, OpIs, BootIs, PinIs
<1>6. QED
  BY <1>2, <1>3, <1>4, <1>5 DEF StorageNext, storageVars, bootVars, Commands

LEMMA CaptureContinues ==
  ASSUME BootInv, CaptureInv, OthersInv, [StorageNext]_storageVars
  PROVE  CaptureInv'
<1>1. CASE Bootstrap
  BY <1>1, RegisterSettles, DatasetSettles, SeasonSettles, EndingSettles, WritingSettles
  DEF Bootstrap
<1>2. CASE Commands
  BY <1>1, <1>2, PinSettles, BeginningSettles, TurningSettles DEF Commands
<1>3. CASE Dies
  <2>1. op' = Idle /\ UNCHANGED runs
    BY <1>3 DEF Dies
  <2>2. OpIs(op, Run, Source)'
    BY <2>1, FieldsOfBoot DEF OpIs
  <2>3. QED
    BY <2>1, <2>2, NoRunKeeps
<1>4. CASE CallRaises
  <2>1. op.place # "idle"
    BY <1>4 DEF CallRaises, CaptureInv, OpIs
  <2>2. QED
    BY <1>4, <2>1, FailingSettles DEF CallRaises
<1>5. CASE UNCHANGED bootVars
  <2>1. UNCHANGED <<runs, op>>
    BY <1>5 DEF bootVars
  <2>2. Run' = Run /\ Source' = Source
    BY <2>1 DEF Run, Source
  <2>3. OpIs(op, Run, Source)'
    BY <2>1, <2>2 DEF OpIs, BootIs, PinIs, CaptureInv
  <2>4. QED
    BY <2>1, <2>3, NoRunKeeps
<1>6. QED
  BY <1>2, <1>3, <1>4, <1>5 DEF StorageNext, storageVars, bootVars

\* However often a bootstrap or a pin is broken off and resumed, it completes
\* only on the raw rows of one set of captures, its manifest and its fingerprint,
\* or on one capture equal to the one it vouches for; and what a completed run
\* rests on stays, whatever other commands do.
THEOREM CompletedCapturesAreSettled == StorageSpec => []CapturesAreSettled
<1>1. StorageInit => BootInv /\ CaptureInv /\ OthersInv
  BY BootStarts, CaptureStarts DEF StorageInit, BootInit, OthersInv
<1>2. BootInv /\ CaptureInv /\ OthersInv /\ [StorageNext]_storageVars
        => (BootInv /\ CaptureInv /\ OthersInv)'
  BY BootContinues, CaptureContinues, OthersContinue
<1>3. CaptureInv => CapturesAreSettled
  BY DEF CaptureInv, Whole, Vouches, CapturesAreSettled, AllMembers
<1>4. QED
  BY <1>1, <1>2, <1>3, PTL DEF StorageSpec

-----------------------------------------------------------------------------
(***************************************************************************)
(* The seasons.  A checkpoint is completed at the end of its season's      *)
(* calls, which may be spread over several processes: each skips what was  *)
(* completed before it and makes the other calls again.  So the invariant  *)
(* has two parts: the rows of completed checkpoints are in the tables, and *)
(* every call before the one at hand has, for the rows of the seasons this *)
(* process does not skip, had its effect.                                  *)
(***************************************************************************)
\* What a call has made of a row.
Effect(f, done, r, a, do, i) ==
  LET row  == Row(a, i)
      line == <<row.game, row.teams>>
      debut == FirstSeason(a, row.player) = row.season
  IN /\ do = "complete" => ChildOf(a, i) \in done
     /\ (do = "exclude" /\ ~Kept(a, i)) => <<r, a, i>> \in f.excluded
     /\ Kept(a, i) =>
          /\ (do = "names" /\ row.member = "allplayers" /\ debut) => f.names[row.player] # 0
          /\ (do = "mappings" /\ debut) => row.player \in f.mapped
          /\ do = "player" => row.player = NoPlayer \/ row.player \in f.mapped
          /\ (do = "games" /\ row.member = "gameinfo") => f.games[row.game] > 0
          /\ do = "statuses" => Stands(f, "status", <<row.game, {}>>, row.value)
          /\ do = "teamSnapshots" => Stands(f, "team", line, row.value)
          /\ (do = "lineups" /\ row.player # NoPlayer) => Stands(f, "lineup", line, row.value)
          /\ do = "playerSnapshots" =>
               Stands(f, row.member, <<row.game, row.teams, row.player, Stint(a, i)>>, row.value)
          /\ (do = "plays" /\ row.member = "plays") => f.plays[PlayOf(a, i)] > 0
          /\ do = "revisions" => Stands(f, "play", PlayOf(a, i), row.value)

StepDone(f, done, r, a, s, skip) ==
  \A i \in RowsOf(a, s.member, s.seasons) :
     ChildOf(a, i) \notin skip => Effect(f, done, r, a, s.do, i)

Passed(f, done, r, a, at, skip) ==
  \A s \in Program[a] : Before(s.at, at) => StepDone(f, done, r, a, s, skip)

HasAll(run) ==
  \A i \in DOMAIN Archives[run.dataset.archive] : ChildOf(run.dataset.archive, i) \in run.done

\* An inventory shows the rows of an archive that are kept.
Shows(inventory, r, a) ==
  \A i \in DOMAIN Archives[a] : Kept(a, i) => RowIsStored(inventory[1], r, a, i)

RunStores(f, r, run) ==
  /\ run.done # {} => run.dataset.status = "completed"
  /\ run.dataset.status = "completed" =>
       run.dataset.archive \in DOMAIN Archives /\ run.dataset.at \in Nat \ {0}
  /\ \A c \in run.done : \A i \in RowsOf(run.dataset.archive, c.member, {c.season}) :
       RowIsStored(f, r, run.dataset.archive, i)
  /\ run.inventory # <<>> =>
       /\ run.dataset.status = "completed" /\ HasAll(run)
       /\ Shows(run.inventory, r, run.dataset.archive)

EntryFields == {"table", "key", "value", "revision", "at", "run"}

\* A lineup that is there is of a player the tables know.
EntryIsKnown(f, e) ==
  /\ DOMAIN e = EntryFields
  /\ e.table = "lineup" => \E row \in AllRows : /\ row.member = "teamstats" /\ row.value = e.value
                                               /\ e.key = <<row.game, row.teams>>
                                               /\ row.player \in f.mapped

\* What a command has in memory holds of the tables, whoever wrote since.
OpStores(f, o, run) ==
  /\ o.place = "raw" => /\ o.archive \in DOMAIN Archives /\ o.at \in Nat \ {0}
                        /\ run.dataset.status # "completed"
  /\ o.place \in BootPlaces \ Captured => o.skip = {} /\ o.players = {} /\ o.lineups = {}
  /\ o.place \in Captured => run.dataset.status = "completed"
  /\ o.place = "persist" =>
       /\ o.archive = run.dataset.archive /\ o.at = run.dataset.at
       /\ o.step \in Program[o.archive] /\ Due(o.step, o.skip)
       /\ o.skip \subseteq run.done /\ o.players \subseteq f.mapped
       /\ o.lineups \subseteq LineupsOf(f)
       /\ Passed(f, run.done, o.run, o.archive, o.step.at, o.skip)
  /\ o.place \in Ending => HasAll(run)
  /\ o.place = "fingerprint" => Shows(o.inventory, o.run, run.dataset.archive)

StoreInv ==
  /\ served \in DOMAIN Archives /\ now \in Nat
  /\ \A r \in StatsRuns : RunStores(facts, r, runs[r])
  /\ \A e \in facts.evidence : EntryIsKnown(facts, e)
  /\ op.place # "idle" => OpStores(facts, op, Run)

WaitingStores == \A o \in waiting : OpStores(facts, o, runs[o.run])

-----------------------------------------------------------------------------
\* The program of an archive: which calls there are, and their places.
LEMMA MembersAre ==
  /\ 1 \in DOMAIN Members /\ 2 \in DOMAIN Members /\ DOMAIN Members = 1 .. Len(Members)
  /\ Len(Members) \in Nat
  /\ \A i \in DOMAIN Members : /\ i \in Nat \ {0} /\ i < Len(Members) + 1
                               /\ Members[i] = "allplayers" <=> i = 1
                               /\ Members[i] = "gameinfo" <=> i = 2
                               /\ Members[i] \in {"allplayers", "gameinfo", "teamstats", "batting",
                                                  "pitching", "fielding", "plays"}
BY MembersAssumption

LEMMA RowsAre ==
  ASSUME NEW a \in DOMAIN Archives, NEW i \in DOMAIN Archives[a]
  PROVE  /\ Row(a, i) \in AllRows /\ i \in Nat
         /\ Row(a, i).season \in Nat /\ Row(a, i).value \in Nat \ {0}
         /\ Row(a, i).member = "allplayers" => Row(a, i).player \in Players
         /\ Row(a, i).member = "gameinfo" => Row(a, i).game \in Games
<1>1. Archives[a] \in Seq(AllRows)
  BY ArchivesAssumption
<1>2. Row(a, i) \in AllRows /\ i \in Nat
  BY <1>1 DEF Row
<1>3. QED
  BY <1>2, ArchivesAssumption DEF Players, Games

LEMMA SeasonsAre ==
  ASSUME NEW a \in DOMAIN Archives, NEW member
  PROVE  SeasonsOf(a, member) \subseteq Nat
BY RowsAre DEF SeasonsOf

\* A call about a season.
IsCall(s, a, i, pass, calls) ==
  \E n \in SeasonsOf(a, Members[i]), k \in DOMAIN calls :
     s = [at |-> <<i, pass, n, k>>, do |-> calls[k], member |-> Members[i], seasons |-> {n}]

LEMMA ProgramIs ==
  ASSUME NEW a \in DOMAIN Archives, NEW s
  PROVE  s \in Program[a] <=>
           \/ s = Step(<<Len(Members) + 1, 1, 0, 0>>, "manifest", "none", {})
           \/ IsCall(s, a, 1, 1, <<"open", "team">>)
           \/ s = Step(<<1, 2, 0, 0>>, "known", "allplayers", {})
           \/ s = Step(<<1, 3, 0, 0>>, "exclude", "allplayers", SeasonsOf(a, "allplayers"))
           \/ IsCall(s, a, 1, 4, <<"names", "canonical", "mappings", "complete">>)
           \/ \E i \in DOMAIN Members \ {1} : IsCall(s, a, i, 1, Calls(Members[i]))
           \/ s = Step(<<2, 2, 0, 0>>, "through", "gameinfo", {})
<1>1. s \in Program[a] <=> \/ \E i \in DOMAIN Members : s \in MemberSteps(a, i)
                           \/ s = Step(<<Len(Members) + 1, 1, 0, 0>>, "manifest", "none", {})
  <2>1. Program[a] = {Step(<<Len(Members) + 1, 1, 0, 0>>, "manifest", "none", {})}
                     \cup UNION {MemberSteps(a, i) : i \in DOMAIN Members}
    BY DEF Program
  <2> HIDE DEF Program
  <2>2. s \in UNION {MemberSteps(a, i) : i \in DOMAIN Members}
          <=> \E i \in DOMAIN Members : s \in MemberSteps(a, i)
    OBVIOUS
  <2>3. QED
    BY <2>1, <2>2
<1>2. \A i, pass, calls : s \in SeasonCalls(a, i, pass, calls) <=> IsCall(s, a, i, pass, calls)
  BY DEF SeasonCalls, IsCall, Step
<1>3. s \in MemberSteps(a, 1) <=>
        \/ IsCall(s, a, 1, 1, <<"open", "team">>)
        \/ s = Step(<<1, 2, 0, 0>>, "known", "allplayers", {})
        \/ s = Step(<<1, 3, 0, 0>>, "exclude", "allplayers", SeasonsOf(a, "allplayers"))
        \/ IsCall(s, a, 1, 4, <<"names", "canonical", "mappings", "complete">>)
  <2>1. MemberSteps(a, 1) = SeasonCalls(a, 1, 1, <<"open", "team">>)
                            \cup OneCall(1, 2, "known", {})
                            \cup OneCall(1, 3, "exclude", SeasonsOf(a, "allplayers"))
                            \cup SeasonCalls(a, 1, 4, <<"names", "canonical", "mappings", "complete">>)
    BY MembersAre DEF MemberSteps
  <2>2. /\ s \in OneCall(1, 2, "known", {}) <=> s = Step(<<1, 2, 0, 0>>, "known", "allplayers", {})
        /\ s \in OneCall(1, 3, "exclude", SeasonsOf(a, "allplayers"))
             <=> s = Step(<<1, 3, 0, 0>>, "exclude", "allplayers", SeasonsOf(a, "allplayers"))
    BY MembersAre DEF OneCall
  <2>3. QED
    BY <1>2, <2>1, <2>2
<1>4. s \in MemberSteps(a, 2) <=>
        \/ IsCall(s, a, 2, 1, Calls(Members[2]))
        \/ s = Step(<<2, 2, 0, 0>>, "through", "gameinfo", {})
  BY <1>2, MembersAre DEF MemberSteps, OneCall
<1>5. \A i \in DOMAIN Members \ {1, 2} :
        s \in MemberSteps(a, i) <=> IsCall(s, a, i, 1, Calls(Members[i]))
  BY <1>2, MembersAre DEF MemberSteps
<1>6. QED
  BY <1>1, <1>3, <1>4, <1>5, MembersAre

Place == Nat \X Nat \X Nat \X Nat

LEMMA OrderIs ==
  ASSUME NEW p \in Place, NEW q \in Place
  PROVE  /\ ~Before(p, p)
         /\ Before(p, q) \/ Before(q, p) \/ p = q
         /\ ~(Before(p, q) /\ Before(q, p))
<1>1. /\ p[1] \in Nat /\ p[2] \in Nat /\ p[3] \in Nat /\ p[4] \in Nat
      /\ q[1] \in Nat /\ q[2] \in Nat /\ q[3] \in Nat /\ q[4] \in Nat
      /\ p = <<p[1], p[2], p[3], p[4]>> /\ q = <<q[1], q[2], q[3], q[4]>>
  BY DEF Place
<1>2. ~Before(p, p)
  BY <1>1 DEF Before
<1>3. ~(Before(p, q) /\ Before(q, p))
  BY <1>1 DEF Before
<1>4. Before(p, q) \/ Before(q, p)
        \/ (p[1] = q[1] /\ p[2] = q[2] /\ p[3] = q[3] /\ p[4] = q[4])
  BY <1>1 DEF Before
<1>5. QED
  BY <1>1, <1>2, <1>3, <1>4

\* Where a call about a season is, and what it is.
LEMMA CallIs ==
  ASSUME NEW a \in DOMAIN Archives, NEW i \in DOMAIN Members, NEW pass \in Nat, NEW calls,
         DOMAIN calls \subseteq Nat, NEW s, IsCall(s, a, i, pass, calls)
  PROVE  \E n \in SeasonsOf(a, Members[i]), k \in DOMAIN calls :
           /\ s.at = <<i, pass, n, k>> /\ s.do = calls[k] /\ s.member = Members[i]
           /\ s.seasons = {n} /\ s.at[1] = i /\ s.at[2] = pass /\ s.at \in Place
           /\ s = [at |-> <<i, pass, n, k>>, do |-> calls[k], member |-> Members[i],
                   seasons |-> {n}]
<1>1. PICK n \in SeasonsOf(a, Members[i]), k \in DOMAIN calls :
        s = [at |-> <<i, pass, n, k>>, do |-> calls[k], member |-> Members[i], seasons |-> {n}]
  BY DEF IsCall
<1>2. i \in Nat /\ n \in Nat /\ k \in Nat
  BY SeasonsAre, MembersAre
<1>3. <<i, pass, n, k>> \in Place /\ s.at = <<i, pass, n, k>>
  BY <1>1, <1>2 DEF Place
<1>4. QED
  BY <1>1, <1>3

LEMMA CallsAre ==
  /\ DOMAIN Calls("gameinfo") = 1 .. 7 /\ DOMAIN Calls("teamstats") = 1 .. 7
  /\ DOMAIN Calls("plays") = 1 .. 7
  /\ \A m \in {"batting", "pitching", "fielding"} : DOMAIN Calls(m) = 1 .. 6
BY DEF Calls

LEMMA CallsAreNumbered ==
  /\ DOMAIN <<"open", "team">> \subseteq Nat
  /\ DOMAIN <<"names", "canonical", "mappings", "complete">> \subseteq Nat
  /\ \A i \in DOMAIN Members \ {1} : DOMAIN Calls(Members[i]) \subseteq Nat
BY CallsAre, MembersAre

\* The kinds of calls are told apart by member and pass.
LEMMA CallsHavePlaces ==
  ASSUME NEW a \in DOMAIN Archives, NEW s \in Program[a]
  PROVE  /\ s.at \in Place
         /\ s.at[1] = Len(Members) + 1 => s = Step(<<Len(Members) + 1, 1, 0, 0>>, "manifest", "none", {})
         /\ (s.at[1] = 1 /\ s.at[2] = 1) => IsCall(s, a, 1, 1, <<"open", "team">>)
         /\ (s.at[1] = 1 /\ s.at[2] = 2) => s = Step(<<1, 2, 0, 0>>, "known", "allplayers", {})
         /\ (s.at[1] = 1 /\ s.at[2] = 3) =>
              s = Step(<<1, 3, 0, 0>>, "exclude", "allplayers", SeasonsOf(a, "allplayers"))
         /\ (s.at[1] = 1 /\ s.at[2] \notin {1, 2, 3}) =>
              IsCall(s, a, 1, 4, <<"names", "canonical", "mappings", "complete">>)
         /\ (s.at[1] = 2 /\ s.at[2] # 1) => s = Step(<<2, 2, 0, 0>>, "through", "gameinfo", {})
         /\ (s.at[1] \notin {1, Len(Members) + 1} /\ s.at[2] = 1) =>
              s.at[1] \in DOMAIN Members \ {1} /\ IsCall(s, a, s.at[1], 1, Calls(Members[s.at[1]]))
         /\ s.at[1] \notin {1, 2} => s.at[2] = 1
<1>1. CASE s = Step(<<Len(Members) + 1, 1, 0, 0>>, "manifest", "none", {})
  BY <1>1, MembersAre DEF Step, Place
<1>2. CASE IsCall(s, a, 1, 1, <<"open", "team">>)
  <2>1. s.at[1] = 1 /\ s.at[2] = 1 /\ s.at \in Place
    BY <1>2, CallIs, CallsAreNumbered, MembersAre
  <2>2. 1 # Len(Members) + 1
    BY MembersAre
  <2>3. QED
    BY <1>2, <2>1, <2>2
<1>3. CASE \/ s = Step(<<1, 2, 0, 0>>, "known", "allplayers", {})
           \/ s = Step(<<1, 3, 0, 0>>, "exclude", "allplayers", SeasonsOf(a, "allplayers"))
  BY <1>3, MembersAre DEF Step, Place
<1>4. CASE IsCall(s, a, 1, 4, <<"names", "canonical", "mappings", "complete">>)
  <2>1. s.at[1] = 1 /\ s.at[2] = 4 /\ s.at \in Place
    BY <1>4, CallIs, CallsAreNumbered, MembersAre
  <2>2. 1 # Len(Members) + 1
    BY MembersAre
  <2>3. QED
    BY <1>4, <2>1, <2>2
<1>5. ASSUME NEW i \in DOMAIN Members \ {1}, IsCall(s, a, i, 1, Calls(Members[i]))
      PROVE  s.at[1] = i /\ s.at[2] = 1 /\ s.at \in Place /\ i # Len(Members) + 1
  BY <1>5, CallIs, CallsAreNumbered, MembersAre
<1>6. CASE \E i \in DOMAIN Members \ {1} : IsCall(s, a, i, 1, Calls(Members[i]))
  BY <1>5, <1>6
<1>7. CASE s = Step(<<2, 2, 0, 0>>, "through", "gameinfo", {})
  BY <1>7, MembersAre DEF Step, Place
<1>8. QED
  BY <1>1, <1>2, <1>3, <1>4, <1>6, <1>7, ProgramIs

LEMMA PlacesAreUnique ==
  ASSUME NEW a \in DOMAIN Archives, NEW s \in Program[a], NEW t \in Program[a], s.at = t.at
  PROVE  s = t
<1>1. ASSUME NEW i \in DOMAIN Members, NEW pass \in Nat, NEW calls, DOMAIN calls \subseteq Nat,
             IsCall(s, a, i, pass, calls), IsCall(t, a, i, pass, calls)
      PROVE  s = t
  <2>1. PICK n \in SeasonsOf(a, Members[i]), k \in DOMAIN calls :
          /\ s.at = <<i, pass, n, k>>
          /\ s = [at |-> <<i, pass, n, k>>, do |-> calls[k], member |-> Members[i],
                  seasons |-> {n}]
    BY <1>1, CallIs
  <2>2. PICK m \in SeasonsOf(a, Members[i]), l \in DOMAIN calls :
          /\ t.at = <<i, pass, m, l>>
          /\ t = [at |-> <<i, pass, m, l>>, do |-> calls[l], member |-> Members[i],
                  seasons |-> {m}]
    BY <1>1, CallIs
  <2>3. n = m /\ k = l
    BY <2>1, <2>2
  <2>4. QED
    BY <2>1, <2>2, <2>3
<1>2. CASE s.at[1] = 1 /\ s.at[2] \in {1, 2, 3}
  BY <1>1, <1>2, CallsHavePlaces, CallsAreNumbered, MembersAre
<1>3. CASE s.at[1] = 1 /\ s.at[2] \notin {1, 2, 3}
  BY <1>1, <1>3, CallsHavePlaces, CallsAreNumbered, MembersAre
<1>4. CASE s.at[1] = Len(Members) + 1 \/ (s.at[1] = 2 /\ s.at[2] # 1)
  BY <1>4, CallsHavePlaces
<1>5. CASE s.at[1] \notin {1, Len(Members) + 1} /\ s.at[2] = 1
  <2>1. PICK i \in DOMAIN Members \ {1} : i = s.at[1]
    BY <1>5, CallsHavePlaces
  <2>2. IsCall(s, a, i, 1, Calls(Members[i])) /\ IsCall(t, a, i, 1, Calls(Members[i]))
    BY <1>5, <2>1, CallsHavePlaces
  <2>3. QED
    BY <1>1, <2>2, CallsAreNumbered
<1>6. QED
  BY <1>2, <1>3, <1>4, <1>5, CallsHavePlaces

-----------------------------------------------------------------------------
\* The tables only grow, and with them what is stored.
FactsGrow(f, g) ==
  /\ f.evidence \subseteq g.evidence /\ f.excluded \subseteq g.excluded
  /\ f.mapped \subseteq g.mapped
  /\ \A p \in Players : f.names[p] # 0 => g.names[p] # 0
  /\ \A game \in Games : f.games[game] > 0 => g.games[game] > 0
  /\ \A y \in Plays : f.plays[y] > 0 => g.plays[y] > 0

LEMMA TablesGrow ==
  ASSUME NEW f, NEW g, TablesAre(f), TablesAre(g), Keeps(f, g)
  PROVE  FactsGrow(f, g)
BY DEF TablesAre, Keeps, NotEarlier, FactsGrow

\* A play that is kept is one of those the tables have a place for.
LEMMA PlayIsThere ==
  ASSUME NEW a \in DOMAIN Archives, NEW i \in DOMAIN Archives[a], Kept(a, i),
         Row(a, i).member = "plays"
  PROVE  PlayOf(a, i) \in Plays /\ PlayOf(a, i)[1] = Row(a, i).game
BY DEF Plays, PlayOf

LEMMA StandingStays ==
  ASSUME NEW f, NEW g, FactsGrow(f, g), NEW table, NEW key, NEW value, Stands(f, table, key, value)
  PROVE  Stands(g, table, key, value)
BY DEF FactsGrow, Stands, Chain

LEMMA EffectStays ==
  ASSUME NEW a \in DOMAIN Archives, NEW i \in DOMAIN Archives[a], NEW f, NEW g, FactsGrow(f, g),
         NEW done, NEW more, done \subseteq more, NEW r, NEW do, Effect(f, done, r, a, do, i)
  PROVE  Effect(g, more, r, a, do, i)
<1> DEFINE row  == Row(a, i)
           line == <<row.game, row.teams>>
           key  == <<row.game, row.teams, row.player, Stint(a, i)>>
<1>1. /\ row.member = "allplayers" => row.player \in Players
      /\ row.member = "gameinfo" => row.game \in Games
  BY RowsAre
<1>2. \A table, k, value : Stands(f, table, k, value) => Stands(g, table, k, value)
  BY StandingStays
<1>3. do = "complete" => ChildOf(a, i) \in more
  BY DEF Effect
<1>4. (do = "exclude" /\ ~Kept(a, i)) => <<r, a, i>> \in g.excluded
  BY DEF Effect, FactsGrow
<1>5. ASSUME Kept(a, i)
      PROVE  /\ (do = "names" /\ row.member = "allplayers" /\ FirstSeason(a, row.player) = row.season)
                   => g.names[row.player] # 0
             /\ (do = "mappings" /\ FirstSeason(a, row.player) = row.season)
                   => row.player \in g.mapped
             /\ do = "player" => row.player = NoPlayer \/ row.player \in g.mapped
             /\ (do = "games" /\ row.member = "gameinfo") => g.games[row.game] > 0
  BY <1>1, <1>5 DEF Effect, FactsGrow
<1>6. ASSUME Kept(a, i)
      PROVE  /\ do = "statuses" => Stands(g, "status", <<row.game, {}>>, row.value)
             /\ do = "teamSnapshots" => Stands(g, "team", line, row.value)
             /\ (do = "lineups" /\ row.player # NoPlayer) => Stands(g, "lineup", line, row.value)
             /\ do = "playerSnapshots" => Stands(g, row.member, key, row.value)
             /\ do = "revisions" => Stands(g, "play", PlayOf(a, i), row.value)
  BY <1>2, <1>6 DEF Effect
<1>7. ASSUME Kept(a, i), do = "plays", row.member = "plays"
      PROVE  g.plays[PlayOf(a, i)] > 0
  BY <1>7, PlayIsThere DEF Effect, FactsGrow
<1>8. QED
  BY <1>3, <1>4, <1>5, <1>6, <1>7 DEF Effect

LEMMA StoredStays ==
  ASSUME NEW a \in DOMAIN Archives, NEW i \in DOMAIN Archives[a], NEW f, NEW g, FactsGrow(f, g),
         NEW r, RowIsStored(f, r, a, i)
  PROVE  RowIsStored(g, r, a, i)
<1> DEFINE row  == Row(a, i)
           line == <<row.game, row.teams>>
<1>1. /\ row.member = "allplayers" => row.player \in Players
      /\ row.member = "gameinfo" => row.game \in Games
  BY RowsAre
<1>2. \A table, k, value : Stands(f, table, k, value) => Stands(g, table, k, value)
  BY StandingStays
<1>3. CASE ~Kept(a, i)
  BY <1>3 DEF RowIsStored, FactsGrow
<1>4. CASE Kept(a, i) /\ row.member \in {"allplayers", "gameinfo", "teamstats"}
  BY <1>1, <1>2, <1>4 DEF RowIsStored, FactsGrow
<1>5. CASE Kept(a, i) /\ row.member = "plays"
  BY <1>2, <1>5 DEF RowIsStored, FactsGrow
<1>6. CASE Kept(a, i) /\ row.member \notin {"allplayers", "gameinfo", "teamstats", "plays"}
  BY <1>6 DEF RowIsStored, FactsGrow
<1>7. QED
  BY <1>3, <1>4, <1>5, <1>6

\* The program goes on: the calls passed over are those of seasons skipped.
LEMMA PassingOn ==
  ASSUME NEW a \in DOMAIN Archives, NEW f, NEW g, FactsGrow(f, g), NEW done, NEW more,
         done \subseteq more, NEW r, NEW skip, NEW left, skip \subseteq left,
         NEW here \in Program[a], NEW next \in Following(a, here.at, left),
         Passed(f, done, r, a, here.at, skip), StepDone(g, more, r, a, here, left)
  PROVE  /\ next \in Program[a] /\ Due(next, left)
         /\ Passed(g, more, r, a, next.at, left)
<1>1. /\ next \in Ahead(a, here.at, left)
      /\ \A s \in Ahead(a, here.at, left) : s = next \/ Before(next.at, s.at)
  BY DEF Following, First
<1>2. next \in Program[a] /\ Due(next, left) /\ Before(here.at, next.at)
  BY <1>1 DEF Ahead
<1>3. ASSUME NEW s \in Program[a], Before(s.at, next.at)
      PROVE  StepDone(g, more, r, a, s, left)
  <2>1. s.at \in Place /\ here.at \in Place /\ next.at \in Place
    BY <1>2, CallsHavePlaces
  <2>2. CASE Before(s.at, here.at)
    <3>1. StepDone(f, done, r, a, s, skip)
      BY <2>2 DEF Passed
    <3>2. \A i \in RowsOf(a, s.member, s.seasons) : i \in DOMAIN Archives[a]
      BY DEF RowsOf
    <3>3. QED
      BY <3>1, <3>2, EffectStays DEF StepDone
  <2>3. CASE s.at = here.at
    BY <2>3, PlacesAreUnique
  <2>4. CASE Before(here.at, s.at)
    <3>1. ~Due(s, left)
      <4>1. s # next /\ ~Before(next.at, s.at)
        BY <1>3, <2>1, OrderIs
      <4>2. QED
        BY <1>1, <2>4, <4>1 DEF Ahead
    <3>2. \A i \in RowsOf(a, s.member, s.seasons) : ChildOf(a, i) \in left
      BY <3>1 DEF Due, RowsOf, ChildOf, Row
    <3>3. QED
      BY <3>2 DEF StepDone
  <2>5. QED
    BY <2>1, <2>2, <2>3, <2>4, OrderIs
<1>4. QED
  BY <1>2, <1>3 DEF Passed

\* The first call of all: nothing is before it.
LEMMA PassingNothing ==
  ASSUME NEW a \in DOMAIN Archives, NEW f, NEW done, NEW r, NEW first \in FirstOf(a)
  PROVE  first \in Program[a] /\ Due(first, {}) /\ Passed(f, done, r, a, first.at, {})
<1>1. PICK start \in Place : start = <<0, 0, 0, 0>>
  BY DEF Place
<1>2. /\ first \in Ahead(a, start, {})
      /\ \A s \in Ahead(a, start, {}) : s = first \/ Before(first.at, s.at)
  BY <1>1 DEF FirstOf, Following, First
<1>3. first \in Program[a] /\ Due(first, {})
  BY <1>2 DEF Ahead
<1>4. ASSUME NEW s \in Program[a], Before(s.at, first.at)
      PROVE  StepDone(f, done, r, a, s, {})
  <2>1. s.at \in Place /\ first.at \in Place
    BY <1>3, CallsHavePlaces
  <2>2. Before(start, s.at)
    <3>1. s.at[1] \in Nat \ {0}
      BY CallsHavePlaces, MembersAre DEF Step, Place
    <3>2. QED
      BY <1>1, <3>1 DEF Before
  <2>3. ~Due(s, {})
    <3>1. s # first /\ ~Before(first.at, s.at)
      BY <1>4, <2>1, OrderIs
    <3>2. QED
      BY <1>2, <2>2, <3>1 DEF Ahead
  <2>4. RowsOf(a, s.member, s.seasons) = {}
    BY <2>3 DEF Due, RowsOf
  <2>5. QED
    BY <2>4 DEF StepDone
<1>5. QED
  BY <1>3, <1>4 DEF Passed

-----------------------------------------------------------------------------
\* A player's first season is one of its rows', and its name is one of theirs.
LEMMA LeastIs ==
  ASSUME NEW S \in SUBSET Nat, S # {}
  PROVE  Min(S) \in S /\ \A y \in S : Min(S) <= y
<1>1. PICK x \in S : \A y \in S : ~ (<<y, x>> \in OpToRel(<, Nat))
  BY NatLessThanWellFounded, WFMin
<1>2. x \in S /\ \A y \in S : x <= y
  <2>1. ASSUME NEW y \in S PROVE x <= y
    <3>1. x \in Nat /\ y \in Nat /\ ~(y < x)
      BY <1>1 DEF OpToRel
    <3>2. QED
      BY <3>1
  <2>2. QED
    BY <2>1
<1>3. QED
  BY <1>2 DEF Min

LEMMA GreatestIs ==
  ASSUME NEW S \in SUBSET Nat, S # {}, NEW bound \in Nat, \A x \in S : x <= bound
  PROVE  Max(S) \in S
<1>1. PICK T \in SUBSET Nat : T = {bound - x : x \in S}
  <2>1. \A x \in S : bound - x \in Nat
    OBVIOUS
  <2>2. QED
    BY <2>1
<1>2. T # {}
  BY <1>1
<1>3. Min(T) \in T /\ \A y \in T : Min(T) <= y
  BY <1>2, LeastIs
<1>4. PICK x \in S : Min(T) = bound - x
  BY <1>1, <1>3
<1>5. ASSUME NEW y \in S PROVE x >= y
  <2>1. bound - y \in T
    BY <1>1
  <2>2. bound - x <= bound - y /\ x \in Nat /\ y \in Nat
    BY <1>3, <1>4, <2>1
  <2>3. QED
    BY <2>2
<1>6. QED
  BY <1>5 DEF Max

LEMMA FirstSeasonIs ==
  ASSUME NEW a \in DOMAIN Archives, NEW i \in DOMAIN Archives[a], Kept(a, i),
         Row(a, i).member = "allplayers"
  PROVE  \E j \in DOMAIN Archives[a] :
           /\ Row(a, j).member = "allplayers" /\ Row(a, j).player = Row(a, i).player
           /\ Kept(a, j) /\ Row(a, j).season = FirstSeason(a, Row(a, i).player)
           /\ Row(a, j).season <= Row(a, i).season
<1> DEFINE p == Row(a, i).player
<1>1. PICK S \in SUBSET Nat : S = {Row(a, j).season : j \in NameRows(a, p)}
  <2>1. \A j \in NameRows(a, p) : Row(a, j).season \in Nat
    BY RowsAre DEF NameRows
  <2>2. QED
    BY <2>1
<1>2. i \in NameRows(a, p)
  BY DEF NameRows
<1>3. Row(a, i).season \in S
  BY <1>1, <1>2
<1>4. Min(S) \in S /\ Min(S) <= Row(a, i).season
  BY <1>3, LeastIs
<1>5. FirstSeason(a, p) = Min(S)
  BY <1>1 DEF FirstSeason
<1>6. PICK j \in NameRows(a, p) : Row(a, j).season = Min(S)
  BY <1>1, <1>4
<1>7. QED
  BY <1>4, <1>5, <1>6 DEF NameRows

LEMMA NamesAreNames ==
  ASSUME NEW a \in DOMAIN Archives, NEW p, NameRows(a, p) # {}
  PROVE  DisplayName(a, p) # 0
<1> DEFINE latest == Max({Row(a, i).season : i \in NameRows(a, p)})
           rows   == {i \in NameRows(a, p) : Row(a, i).season = latest}
           Count(n) == Cardinality({i \in rows : Row(a, i).value = n})
           counts == {Count(Row(a, i).value) : i \in rows}
           most   == Max(counts)
           names  == {n \in {Row(a, i).value : i \in rows} : Count(n) = most}
<1>1. \A i \in NameRows(a, p) : /\ i \in DOMAIN Archives[a]
                                /\ Row(a, i).season \in Nat /\ Row(a, i).season <= ThroughSeason
                                /\ Row(a, i).value \in Nat \ {0}
  BY RowsAre DEF NameRows, Kept, PlayerRowIsKept
<1>2. latest \in {Row(a, i).season : i \in NameRows(a, p)}
  <2>1. {Row(a, i).season : i \in NameRows(a, p)} \in SUBSET Nat
    BY <1>1
  <2>2. QED
    BY <1>1, <2>1, GreatestIs, BootstrapAssumption
<1>3. rows # {}
  BY <1>2
<1>4. IsFiniteSet(DOMAIN Archives[a]) /\ Cardinality(DOMAIN Archives[a]) \in Nat
  <2>1. Archives[a] \in Seq(AllRows)
    BY ArchivesAssumption
  <2>2. DOMAIN Archives[a] = 1 .. Len(Archives[a]) /\ Len(Archives[a]) \in Nat
    BY <2>1
  <2>3. QED
    BY <2>2, FS_Interval, FS_CardinalityType
<1>5. \A n : Count(n) \in Nat /\ Count(n) <= Cardinality(DOMAIN Archives[a])
  <2>1. ASSUME NEW n
        PROVE  {i \in rows : Row(a, i).value = n} \in SUBSET DOMAIN Archives[a]
    BY <1>1
  <2>2. QED
    BY <1>4, <2>1, FS_Subset, FS_CardinalityType
<1> HIDE DEF rows, Count
<1>6. most \in counts
  <2>1. counts \in SUBSET Nat /\ counts # {}
    BY <1>3, <1>5
  <2>2. \A x \in counts : x <= Cardinality(DOMAIN Archives[a])
    BY <1>5
  <2>3. QED
    BY <1>4, <2>1, <2>2, GreatestIs
<1>7. names # {}
  BY <1>6
<1>8. names \in SUBSET Nat /\ 0 \notin names
  BY <1>1 DEF rows
<1>9. Min(names) # 0
  <2> HIDE DEF names
  <2>1. QED
    BY <1>7, <1>8, LeastIs
<1>10. QED
  BY <1>9 DEF DisplayName, rows, Count

-----------------------------------------------------------------------------
\* The calls for a row that come before a place have been made, unless the
\* row's season is skipped.
LEMMA CallsBefore ==
  ASSUME NEW a \in DOMAIN Archives, NEW f, NEW done, NEW r, NEW at, NEW skip,
         Passed(f, done, r, a, at, skip),
         NEW i \in DOMAIN Members, NEW j \in DOMAIN Archives[a], Row(a, j).member = Members[i],
         ChildOf(a, j) \notin skip, NEW pass \in {1, 4}, NEW calls, NEW k \in DOMAIN calls,
         \/ i = 1 /\ pass = 4 /\ calls = <<"names", "canonical", "mappings", "complete">>
         \/ i # 1 /\ pass = 1 /\ calls = Calls(Members[i]),
         Before(<<i, pass, Row(a, j).season, k>>, at)
  PROVE  Effect(f, done, r, a, calls[k], j)
<1>1. PICK n : n = Row(a, j).season
  OBVIOUS
<1>2. n \in SeasonsOf(a, Members[i])
  BY <1>1 DEF SeasonsOf
<1>3. PICK s : s = [at |-> <<i, pass, n, k>>, do |-> calls[k], member |-> Members[i],
                    seasons |-> {n}]
  OBVIOUS
<1>4. IsCall(s, a, i, pass, calls)
  BY <1>2, <1>3 DEF IsCall
<1>5. s \in Program[a]
  BY <1>4, ProgramIs
<1>6. StepDone(f, done, r, a, s, skip)
  BY <1>1, <1>3, <1>5 DEF Passed
<1>7. j \in RowsOf(a, s.member, s.seasons) /\ s.do = calls[k]
  BY <1>1, <1>3 DEF RowsOf, Row
<1>8. QED
  BY <1>6, <1>7 DEF StepDone

\* A player the archive names is mapped by the calls of its first season.
LEMMA FirstSeasonNames ==
  ASSUME NEW a \in DOMAIN Archives, NEW f, NEW done, NEW r, NEW at \in Place, NEW skip,
         Passed(f, done, r, a, at, skip),
         \A i \in DOMAIN Archives[a] : ChildOf(a, i) \in skip => RowIsStored(f, r, a, i),
         NEW i \in DOMAIN Archives[a], Kept(a, i), Row(a, i).member = "allplayers",
         Before(<<1, 4, Row(a, i).season, 3>>, at)
  PROVE  /\ Row(a, i).player \in f.mapped
         /\ f.names[Row(a, i).player] # 0
<1>1. PICK j \in DOMAIN Archives[a] :
        /\ Row(a, j).member = "allplayers" /\ Row(a, j).player = Row(a, i).player
        /\ Kept(a, j) /\ Row(a, j).season = FirstSeason(a, Row(a, i).player)
        /\ Row(a, j).season <= Row(a, i).season
  BY FirstSeasonIs
<1>2. CASE ChildOf(a, j) \in skip
  <2>1. RowIsStored(f, r, a, j)
    BY <1>2
  <2>2. QED
    BY <1>1, <2>1 DEF RowIsStored
<1>3. CASE ChildOf(a, j) \notin skip
  <2> DEFINE calls == <<"names", "canonical", "mappings", "complete">>
  <2>1. Row(a, j).season \in Nat /\ Row(a, i).season \in Nat
    BY RowsAre
  <2>2. Before(<<1, 4, Row(a, j).season, 1>>, at) /\ Before(<<1, 4, Row(a, j).season, 3>>, at)
    BY <1>1, <2>1 DEF Before, Place
  <2>3. 1 \in DOMAIN calls /\ 3 \in DOMAIN calls
    OBVIOUS
  <2>4. Effect(f, done, r, a, calls[1], j) /\ Effect(f, done, r, a, calls[3], j)
    <3> HIDE DEF calls
    <3>1. calls = <<"names", "canonical", "mappings", "complete">>
      BY DEF calls
    <3>2. 1 \in DOMAIN Members /\ Members[1] = "allplayers"
      BY MembersAre
    <3>3. \A k \in {1, 3} : Effect(f, done, r, a, calls[k], j)
      BY <1>1, <1>3, <2>2, <2>3, <3>1, <3>2, CallsBefore
    <3>4. QED
      BY <3>3
  <2>5. Effect(f, done, r, a, "names", j) /\ Effect(f, done, r, a, "mappings", j)
    BY <2>4
  <2>6. QED
    BY <1>1, <2>5 DEF Effect
<1>4. QED
  BY <1>2, <1>3

\* What the calls of a season have made of its rows, by its last call.
LEMMA SeasonOfPlayers ==
  ASSUME NEW a \in DOMAIN Archives, NEW f, NEW done, NEW r, NEW n \in Nat, NEW skip,
         Passed(f, done, r, a, <<1, 4, n, 4>>, skip),
         \A i \in DOMAIN Archives[a] : ChildOf(a, i) \in skip => RowIsStored(f, r, a, i),
         NEW i \in RowsOf(a, "allplayers", {n}), ChildOf(a, i) \notin skip
  PROVE  RowIsStored(f, r, a, i)
<1>1. i \in DOMAIN Archives[a] /\ Row(a, i).member = "allplayers" /\ Row(a, i).season = n
  BY DEF RowsOf, Row
<1>2. CASE Kept(a, i)
  <2>1. PICK at \in Place : at = <<1, 4, n, 4>>
    BY DEF Place
  <2>2. Before(<<1, 4, Row(a, i).season, 3>>, at)
    BY <1>1, <2>1 DEF Before
  <2>3. Row(a, i).player \in f.mapped /\ f.names[Row(a, i).player] # 0
    BY <1>1, <1>2, <2>1, <2>2, FirstSeasonNames
  <2>4. QED
    BY <1>1, <1>2, <2>3 DEF RowIsStored
<1>3. CASE ~Kept(a, i)
  <2>1. PICK s : s = Step(<<1, 3, 0, 0>>, "exclude", "allplayers", SeasonsOf(a, "allplayers"))
    OBVIOUS
  <2>2. s \in Program[a]
    BY <2>1, ProgramIs
  <2>3. s.at = <<1, 3, 0, 0>> /\ s.do = "exclude" /\ s.member = "allplayers"
        /\ s.seasons = SeasonsOf(a, "allplayers")
    BY <2>1 DEF Step
  <2>4. Before(s.at, <<1, 4, n, 4>>)
    BY <2>3 DEF Before
  <2>5. i \in RowsOf(a, s.member, s.seasons)
    BY <1>1, <2>3 DEF RowsOf, SeasonsOf, Row
  <2>6. Effect(f, done, r, a, "exclude", i)
    BY <2>2, <2>3, <2>4, <2>5 DEF Passed, StepDone
  <2>7. QED
    BY <1>3, <2>6 DEF Effect, RowIsStored
<1>4. QED
  BY <1>2, <1>3

LEMMA SeasonOfOthers ==
  ASSUME NEW a \in DOMAIN Archives, NEW f, NEW done, NEW r, NEW n \in Nat, NEW skip,
         NEW m \in DOMAIN Members \ {1}, NEW l \in DOMAIN Calls(Members[m]),
         Calls(Members[m])[l] = "complete",
         Passed(f, done, r, a, <<m, 1, n, l>>, skip),
         NEW i \in RowsOf(a, Members[m], {n}), ChildOf(a, i) \notin skip
  PROVE  RowIsStored(f, r, a, i)
<1>1. i \in DOMAIN Archives[a] /\ Row(a, i).member = Members[m] /\ Row(a, i).season = n
  BY DEF RowsOf, Row
<1>2. ASSUME NEW k \in DOMAIN Calls(Members[m]), k < l
      PROVE  Effect(f, done, r, a, Calls(Members[m])[k], i)
  <2>1. PICK at : at = <<m, 1, n, l>>
    OBVIOUS
  <2>2. PICK calls : calls = Calls(Members[m])
    OBVIOUS
  <2>3. Before(<<m, 1, Row(a, i).season, k>>, at)
    BY <1>1, <1>2, <2>1 DEF Before
  <2>4. k \in DOMAIN calls /\ Passed(f, done, r, a, at, skip)
    BY <1>2, <2>1, <2>2
  <2>5. m \in DOMAIN Members /\ m # 1
    OBVIOUS
  <2>6. Effect(f, done, r, a, calls[k], i)
    BY <1>1, <2>2, <2>3, <2>4, <2>5, CallsBefore
  <2>7. QED
    BY <2>2, <2>6
<1>3. Members[m] \in {"gameinfo", "teamstats", "plays", "batting", "pitching", "fielding"}
  BY MembersAre
<1>4. CASE Members[m] = "gameinfo"
  <2>1. l = 7
    BY <1>4 DEF Calls
  <2>2. \A k \in 1 .. 6 : Effect(f, done, r, a, Calls("gameinfo")[k], i)
    BY <1>2, <1>4, <2>1, CallsAre
  <2>3. /\ Effect(f, done, r, a, "games", i) /\ Effect(f, done, r, a, "statuses", i)
        /\ Effect(f, done, r, a, "exclude", i)
    BY <2>2 DEF Calls
  <2>4. QED
    BY <1>1, <1>4, <2>3 DEF Effect, RowIsStored
<1>5. CASE Members[m] = "teamstats"
  <2>1. l = 7
    BY <1>5 DEF Calls
  <2>2. \A k \in 1 .. 6 : Effect(f, done, r, a, Calls("teamstats")[k], i)
    BY <1>2, <1>5, <2>1, CallsAre
  <2>3. /\ Effect(f, done, r, a, "player", i) /\ Effect(f, done, r, a, "teamSnapshots", i)
        /\ Effect(f, done, r, a, "lineups", i) /\ Effect(f, done, r, a, "exclude", i)
    BY <2>2 DEF Calls
  <2>4. QED
    BY <1>1, <1>5, <2>3 DEF Effect, RowIsStored
<1>6. CASE Members[m] = "plays"
  <2>1. l = 7
    BY <1>6 DEF Calls
  <2>2. \A k \in 1 .. 6 : Effect(f, done, r, a, Calls("plays")[k], i)
    BY <1>2, <1>6, <2>1, CallsAre
  <2>3. /\ Effect(f, done, r, a, "plays", i) /\ Effect(f, done, r, a, "revisions", i)
        /\ Effect(f, done, r, a, "exclude", i)
    BY <2>2 DEF Calls
  <2>4. CASE Kept(a, i)
    <3>1. PICK key \in Plays : key = PlayOf(a, i) /\ key[1] = Row(a, i).game
      BY <1>1, <1>6, <2>4, PlayIsThere
    <3>2. f.plays[key] > 0 /\ Stands(f, "play", key, Row(a, i).value)
      BY <1>1, <1>6, <2>3, <2>4, <3>1 DEF Effect
    <3>3. \E y \in Plays : /\ y[1] = Row(a, i).game /\ f.plays[y] > 0
                            /\ Stands(f, "play", y, Row(a, i).value)
      BY <3>1, <3>2
    <3>4. QED
      BY <1>1, <1>6, <2>4, <3>3 DEF RowIsStored
  <2>5. QED
    BY <1>1, <1>6, <2>3, <2>4 DEF Effect, RowIsStored
<1>7. CASE Members[m] \in {"batting", "pitching", "fielding"}
  <2>1. l = 6
    BY <1>7 DEF Calls
  <2>2. \A k \in 1 .. 5 : Effect(f, done, r, a, Calls(Members[m])[k], i)
    BY <1>2, <1>7, <2>1, CallsAre
  <2>3. Effect(f, done, r, a, "playerSnapshots", i) /\ Effect(f, done, r, a, "exclude", i)
    BY <1>7, <2>2 DEF Calls
  <2>4. CASE Kept(a, i)
    <3>1. PICK key : key = <<Row(a, i).game, Row(a, i).teams, Row(a, i).player, Stint(a, i)>>
      OBVIOUS
    <3>2. Stands(f, Row(a, i).member, key, Row(a, i).value)
          /\ key[1] = Row(a, i).game /\ key[3] = Row(a, i).player
      BY <2>3, <2>4, <3>1 DEF Effect
    <3>3. \E e \in f.evidence : /\ e.table = Row(a, i).member /\ e.value = Row(a, i).value
                                /\ e.key[1] = Row(a, i).game /\ e.key[3] = Row(a, i).player
      BY <3>2 DEF Stands, Chain
    <3>4. QED
      BY <1>1, <1>7, <2>4, <3>3 DEF RowIsStored
  <2>5. QED
    BY <1>1, <1>7, <2>3, <2>4 DEF Effect, RowIsStored
<1>8. QED
  BY <1>3, <1>4, <1>5, <1>6, <1>7

\* Which calls are about what.
LEMMA CallsAreAbout ==
  ASSUME NEW a \in DOMAIN Archives, NEW s \in Program[a]
  PROVE  /\ s.do = "complete" =>
              \E n \in Nat :
                 /\ s.seasons = {n}
                 /\ \/ s.at = <<1, 4, n, 4>> /\ s.member = "allplayers"
                    \/ \E m \in DOMAIN Members \ {1} : \E l \in DOMAIN Calls(Members[m]) :
                          /\ s.at = <<m, 1, n, l>> /\ s.member = Members[m]
                          /\ Calls(Members[m])[l] = "complete"
         /\ s.do = "open" => \E n \in Nat : s.seasons = {n}
         /\ s.do \in {"names", "mappings"} => s.member = "allplayers"
         /\ s.do = "games" => s.member = "gameinfo"
         /\ s.do = "lineups" => s.member = "teamstats"
         /\ s.do = "player" => s.at[1] # 1
         /\ s.do = "playerSnapshots" => s.member # "lineup"
         /\ s.do = "manifest" => s.at = <<Len(Members) + 1, 1, 0, 0>> /\ s.seasons = {}
<1>1. CASE \/ s = Step(<<Len(Members) + 1, 1, 0, 0>>, "manifest", "none", {})
           \/ s = Step(<<1, 2, 0, 0>>, "known", "allplayers", {})
           \/ s = Step(<<1, 3, 0, 0>>, "exclude", "allplayers", SeasonsOf(a, "allplayers"))
           \/ s = Step(<<2, 2, 0, 0>>, "through", "gameinfo", {})
  BY <1>1 DEF Step
<1>2. CASE IsCall(s, a, 1, 1, <<"open", "team">>)
  <2>1. PICK n \in SeasonsOf(a, Members[1]), k \in DOMAIN <<"open", "team">> :
          s.do = <<"open", "team">>[k] /\ s.seasons = {n}
    BY <1>2, CallIs, CallsAreNumbered, MembersAre
  <2>2. n \in Nat /\ s.do \in {"open", "team"}
    BY <2>1, SeasonsAre
  <2>3. QED
    BY <2>1, <2>2
<1>3. CASE IsCall(s, a, 1, 4, <<"names", "canonical", "mappings", "complete">>)
  <2>1. PICK calls : calls = <<"names", "canonical", "mappings", "complete">>
    OBVIOUS
  <2>2. DOMAIN calls \subseteq Nat /\ IsCall(s, a, 1, 4, calls)
    BY <1>3, <2>1, CallsAreNumbered
  <2>3. PICK n \in SeasonsOf(a, Members[1]), k \in DOMAIN calls :
          /\ s.do = calls[k] /\ s.seasons = {n}
          /\ s.at = <<1, 4, n, k>> /\ s.member = Members[1]
    BY <2>2, CallIs, MembersAre
  <2>4. n \in Nat /\ s.do \in {"names", "canonical", "mappings", "complete"}
        /\ (s.do = "complete" => k = 4) /\ s.member = "allplayers"
    BY <2>1, <2>3, SeasonsAre, MembersAre
  <2>5. QED
    BY <2>3, <2>4
<1>4. CASE \E m \in DOMAIN Members \ {1} : IsCall(s, a, m, 1, Calls(Members[m]))
  <2>1. PICK m \in DOMAIN Members \ {1} : IsCall(s, a, m, 1, Calls(Members[m]))
    BY <1>4
  <2>2. PICK n \in SeasonsOf(a, Members[m]), k \in DOMAIN Calls(Members[m]) :
          /\ s.do = Calls(Members[m])[k] /\ s.seasons = {n}
          /\ s.at = <<m, 1, n, k>> /\ s.member = Members[m]
    BY <2>1, CallIs, CallsAreNumbered, MembersAre
  <2>3. n \in Nat
    BY SeasonsAre
  <2>4. /\ s.do \in {"open", "team", "games", "statuses", "links", "exclude", "complete", "player",
                     "teamSnapshots", "lineups", "plays", "latest", "revisions", "playerSnapshots"}
        /\ s.do = "games" => s.member = "gameinfo"
        /\ s.do = "lineups" => s.member = "teamstats"
        /\ s.member # "lineup"
    <3>1. Members[m] \in {"gameinfo", "teamstats", "plays", "batting", "pitching", "fielding"}
      BY MembersAre
    <3>2. CASE Members[m] = "gameinfo"
      BY <2>2, <3>2 DEF Calls
    <3>3. CASE Members[m] = "teamstats"
      BY <2>2, <3>3 DEF Calls
    <3>4. CASE Members[m] = "plays"
      BY <2>2, <3>4 DEF Calls
    <3>5. CASE Members[m] \in {"batting", "pitching", "fielding"}
      BY <2>2, <3>5 DEF Calls
    <3>6. QED
      BY <3>1, <3>2, <3>3, <3>4, <3>5
  <2>5. s.at[1] # 1
    BY <2>2
  <2>6. QED
    BY <2>2, <2>3, <2>4, <2>5
<1>5. QED
  BY <1>1, <1>2, <1>3, <1>4, ProgramIs

\* So a checkpoint is completed over rows that are stored.
LEMMA CompleteMeansStored ==
  ASSUME NEW a \in DOMAIN Archives, NEW f, NEW done, NEW r, NEW skip,
         NEW s \in Program[a], s.do = "complete", Due(s, skip), Passed(f, done, r, a, s.at, skip),
         \A i \in DOMAIN Archives[a] : ChildOf(a, i) \in skip => RowIsStored(f, r, a, i)
  PROVE  \E n \in Nat : /\ s.seasons = {n}
                        /\ \A i \in RowsOf(a, s.member, {n}) : RowIsStored(f, r, a, i)
<1>1. PICK n \in Nat :
        /\ s.seasons = {n}
        /\ \/ s.at = <<1, 4, n, 4>> /\ s.member = "allplayers"
           \/ \E m \in DOMAIN Members \ {1} : \E l \in DOMAIN Calls(Members[m]) :
                 /\ s.at = <<m, 1, n, l>> /\ s.member = Members[m]
                 /\ Calls(Members[m])[l] = "complete"
  BY CallsAreAbout
<1>2. [member |-> s.member, season |-> n] \notin skip
  BY <1>1 DEF Due, Always
<1>3. \A i \in RowsOf(a, s.member, {n}) : ChildOf(a, i) \notin skip
  BY <1>2 DEF RowsOf, ChildOf, Row
<1>4. ASSUME s.at = <<1, 4, n, 4>>, s.member = "allplayers"
      PROVE  \A i \in RowsOf(a, s.member, {n}) : RowIsStored(f, r, a, i)
  BY <1>3, <1>4, SeasonOfPlayers
<1>5. ASSUME NEW m \in DOMAIN Members \ {1}, NEW l \in DOMAIN Calls(Members[m]),
             s.at = <<m, 1, n, l>>, s.member = Members[m], Calls(Members[m])[l] = "complete"
      PROVE  \A i \in RowsOf(a, s.member, {n}) : RowIsStored(f, r, a, i)
  BY <1>3, <1>5, SeasonOfOthers
<1>6. QED
  BY <1>1, <1>4, <1>5

\* After allplayers, the tables know every player the archive names.
LEMMA KnownAreMapped ==
  ASSUME NEW a \in DOMAIN Archives, NEW f, NEW done, NEW r, NEW at \in Place, at[1] > 1, NEW skip,
         Passed(f, done, r, a, at, skip),
         \A i \in DOMAIN Archives[a] : ChildOf(a, i) \in skip => RowIsStored(f, r, a, i),
         NEW p, NameRows(a, p) # {}
  PROVE  p \in f.mapped
<1>1. PICK i \in NameRows(a, p) : TRUE
  OBVIOUS
<1>2. i \in DOMAIN Archives[a] /\ Kept(a, i) /\ Row(a, i).member = "allplayers"
      /\ Row(a, i).player = p
  BY <1>1 DEF NameRows
<1>3. Before(<<1, 4, Row(a, i).season, 3>>, at)
  BY DEF Before, Place
<1>4. QED
  BY <1>2, <1>3, FirstSeasonNames

\* When the last call is reached, every season has its checkpoint.
LEMMA ManifestIsLast ==
  ASSUME NEW a \in DOMAIN Archives, NEW f, NEW done, NEW r, NEW skip, skip \subseteq done,
         NEW s \in Program[a], s.do = "manifest", Passed(f, done, r, a, s.at, skip),
         NEW i \in DOMAIN Archives[a]
  PROVE  ChildOf(a, i) \in done
<1>1. s.at = <<Len(Members) + 1, 1, 0, 0>>
  BY CallsAreAbout
<1>2. PICK m \in DOMAIN Members : Row(a, i).member = Members[m]
  BY RowsAre, ArchivesAssumption
<1>3. CASE ChildOf(a, i) \in skip
  BY <1>3
<1>4. CASE ChildOf(a, i) \notin skip
  <2>1. ASSUME NEW pass \in {1, 4}, NEW calls, NEW k \in DOMAIN calls, calls[k] = "complete",
               \/ m = 1 /\ pass = 4 /\ calls = <<"names", "canonical", "mappings", "complete">>
               \/ m # 1 /\ pass = 1 /\ calls = Calls(Members[m])
        PROVE  ChildOf(a, i) \in done
    <3>1. PICK at : at = s.at
      OBVIOUS
    <3>2. Before(<<m, pass, Row(a, i).season, k>>, at)
      BY <1>1, <3>1, MembersAre DEF Before
    <3>3. Effect(f, done, r, a, calls[k], i)
      BY <1>2, <1>4, <2>1, <3>1, <3>2, CallsBefore
    <3>4. QED
      BY <2>1, <3>3 DEF Effect
  <2>2. CASE m = 1
    <3>1. PICK calls : calls = <<"names", "canonical", "mappings", "complete">>
      OBVIOUS
    <3>2. 4 \in DOMAIN calls /\ calls[4] = "complete"
      BY <3>1
    <3>3. QED
      BY <2>1, <2>2, <3>1, <3>2
  <2>3. CASE m # 1
    <3>1. PICK calls : calls = Calls(Members[m])
      OBVIOUS
    <3>2. \E k \in DOMAIN calls : calls[k] = "complete"
      <4>1. Members[m] \in {"gameinfo", "teamstats", "plays", "batting", "pitching", "fielding"}
        BY <2>3, MembersAre
      <4>2. CASE Members[m] \in {"gameinfo", "teamstats", "plays"}
        <5>1. 7 \in DOMAIN calls /\ calls[7] = "complete"
          BY <3>1, <4>2 DEF Calls
        <5>2. QED
          BY <5>1
      <4>3. CASE Members[m] \in {"batting", "pitching", "fielding"}
        <5>1. 6 \in DOMAIN calls /\ calls[6] = "complete"
          BY <3>1, <4>3 DEF Calls
        <5>2. QED
          BY <5>1
      <4>4. QED
        BY <4>1, <4>2, <4>3
    <3>3. QED
      BY <2>1, <2>3, <3>1, <3>2
  <2>4. QED
    BY <2>2, <2>3
<1>5. QED
  BY <1>3, <1>4

-----------------------------------------------------------------------------
\* What a step keeps of the runs and their seasons, and of what is in memory.
LEMMA RunStoresStays ==
  ASSUME NEW f, NEW g, FactsGrow(f, g), NEW r, NEW run, RunStores(f, r, run),
         NEW next, next.done = run.done, next.dataset = run.dataset,
         next.inventory = run.inventory
  PROVE  RunStores(g, r, next)
<1>1. ASSUME NEW c \in run.done, NEW i \in RowsOf(run.dataset.archive, c.member, {c.season})
      PROVE  RowIsStored(g, r, run.dataset.archive, i)
  <2>1. run.dataset.archive \in DOMAIN Archives /\ RowIsStored(f, r, run.dataset.archive, i)
    BY DEF RunStores
  <2>2. i \in DOMAIN Archives[run.dataset.archive]
    BY DEF RowsOf
  <2>3. QED
    BY <2>1, <2>2, StoredStays
<1>2. QED
  BY <1>1 DEF RunStores, HasAll

LEMMA FactsThatStayGrow == \A f : FactsGrow(f, f)
BY DEF FactsGrow

LEMMA LineupsGrow ==
  ASSUME NEW f, NEW g, FactsGrow(f, g)
  PROVE  LineupsOf(f) \subseteq LineupsOf(g)
BY DEF FactsGrow, LineupsOf

LEMMA PassedStays ==
  ASSUME NEW f, NEW g, FactsGrow(f, g), NEW a \in DOMAIN Archives, NEW done, NEW r, NEW at,
         NEW skip, Passed(f, done, r, a, at, skip)
  PROVE  Passed(g, done, r, a, at, skip)
<1>1. ASSUME NEW s \in Program[a], Before(s.at, at)
      PROVE  StepDone(g, done, r, a, s, skip)
  <2>1. StepDone(f, done, r, a, s, skip)
    BY <1>1 DEF Passed
  <2>2. \A i \in RowsOf(a, s.member, s.seasons) : i \in DOMAIN Archives[a]
    BY DEF RowsOf
  <2>3. QED
    BY <2>1, <2>2, EffectStays DEF StepDone
<1>2. QED
  BY <1>1 DEF Passed

LEMMA MemoryStays ==
  ASSUME NEW f, NEW g, FactsGrow(f, g), NEW o, NEW run, OpStores(f, o, run), NEW r,
         RunStores(f, r, run), NEW next, next.done = run.done, next.dataset = run.dataset
  PROVE  OpStores(g, o, next)
<1>1. run.dataset.status = "completed" => run.dataset.archive \in DOMAIN Archives
  BY DEF RunStores
<1>2. HasAll(run) => HasAll(next)
  BY DEF HasAll
<1>3. o.lineups \subseteq LineupsOf(f) => o.lineups \subseteq LineupsOf(g)
  BY LineupsGrow
<1>4. o.players \subseteq f.mapped => o.players \subseteq g.mapped
  BY DEF FactsGrow
<1>5. ASSUME o.place = "persist"
      PROVE  Passed(g, run.done, o.run, o.archive, o.step.at, o.skip)
  <2>1. o.archive \in DOMAIN Archives /\ Passed(f, run.done, o.run, o.archive, o.step.at, o.skip)
    BY <1>1, <1>5 DEF OpStores, Captured
  <2>2. QED
    BY <2>1, PassedStays
<1>6. QED
  BY <1>2, <1>3, <1>4, <1>5 DEF OpStores

LEMMA StoringKeeps ==
  ASSUME BootInv, StoreInv, FactsGrow(facts, facts'),
         \A e \in facts'.evidence : EntryIsKnown(facts', e),
         served' \in DOMAIN Archives, now' \in Nat,
         \A r \in StatsRuns : /\ runs'[r].done = runs[r].done /\ runs'[r].dataset = runs[r].dataset
                              /\ runs'[r].inventory = runs[r].inventory,
         op'.place # "idle" => OpStores(facts', op', Run')
  PROVE  StoreInv'
<1>1. ASSUME NEW r \in StatsRuns
      PROVE  RunStores(facts', r, runs'[r])
  <2>1. RunStores(facts, r, runs[r])
    BY DEF StoreInv
  <2>2. QED
    BY <2>1, RunStoresStays
<1>2. QED
  BY <1>1 DEF StoreInv

LEMMA StoreStarts ==
  ASSUME BootInit
  PROVE  StoreInv
<1>1. NoRun.done = {} /\ NoRun.dataset.status = "none" /\ NoRun.inventory = <<>>
  BY DEF NoRun
<1>2. /\ LegacyBootstrap.done = {} /\ LegacyBootstrap.dataset.status = "none"
      /\ LegacyBootstrap.inventory = <<>>
  BY <1>1, FieldsOfBoot DEF LegacyBootstrap
<1>3. \A r \in StatsRuns : /\ runs[r].done = {} /\ runs[r].dataset.status = "none"
                           /\ runs[r].inventory = <<>>
  BY <1>1, <1>2 DEF BootInit
<1>4. facts.evidence = {}
  BY DEF BootInit, NoFacts
<1>5. served \in DOMAIN Archives /\ now \in Nat
  BY ArchivesAssumption DEF BootInit
<1>6. op.place = "idle"
  BY FieldsOfBoot DEF BootInit
<1>7. \A r \in StatsRuns : RunStores(facts, r, runs[r])
  BY <1>3 DEF RunStores
<1>8. QED
  BY <1>4, <1>5, <1>6, <1>7 DEF StoreInv

\* A step that leaves the tables alone, and the seasons of all runs.
LEMMA QuietStoring ==
  ASSUME BootInv, StoreInv, UNCHANGED <<facts, served, now>>,
         \A r \in StatsRuns : /\ runs'[r].done = runs[r].done /\ runs'[r].dataset = runs[r].dataset
                              /\ runs'[r].inventory = runs[r].inventory,
         op'.place # "idle" => OpStores(facts', op', Run')
  PROVE  StoreInv'
<1>1. \A e \in facts'.evidence : EntryIsKnown(facts', e)
  BY DEF StoreInv
<1>2. served' \in DOMAIN Archives /\ now' \in Nat
  BY DEF StoreInv
<1>3. FactsGrow(facts, facts')
  BY FactsThatStayGrow
<1>4. QED
  BY <1>1, <1>2, <1>3, StoringKeeps

LEMMA FailingStores ==
  ASSUME BootInv, StoreInv, op.place # "idle", op' = Idle, UNCHANGED <<facts, served, now>>,
         runs' = [runs EXCEPT ![op.run].status = "failed"]
  PROVE  StoreInv'
<1>1. op.run \in StatsRuns /\ op'.place = "idle"
  BY FieldsOfBoot, BootIsTyped
<1>2. \A r \in StatsRuns :
        /\ runs'[r].done = runs[r].done /\ runs'[r].dataset = runs[r].dataset
        /\ runs'[r].inventory = runs[r].inventory
  BY <1>1, FieldsOfBoot, BootIsTyped
<1>3. QED
  BY <1>1, <1>2, QuietStoring

\* The rows of skipped seasons are stored.
LEMMA SkippedAreStored ==
  ASSUME StoreInv, BootInv, op.place = "persist"
  PROVE  /\ op.archive \in DOMAIN Archives /\ op.at \in Nat \ {0}
         /\ op.step \in Program[op.archive] /\ op.run \in StatsRuns
         /\ op.step.at \in Place
         /\ \A i \in DOMAIN Archives[op.archive] :
               ChildOf(op.archive, i) \in op.skip => RowIsStored(facts, op.run, op.archive, i)
<1>1. op.run \in StatsRuns /\ OpStores(facts, op, Run)
  BY BootIsTyped DEF StoreInv
<1>2. RunStores(facts, op.run, Run)
  BY <1>1 DEF StoreInv, Run
<1>3. /\ Run.dataset.status = "completed" /\ op.archive = Run.dataset.archive
      /\ op.at = Run.dataset.at
      /\ op.step \in Program[op.archive] /\ op.skip \subseteq Run.done
  BY <1>1 DEF OpStores, Captured
<1>4. op.archive \in DOMAIN Archives /\ op.at \in Nat \ {0}
  BY <1>2, <1>3 DEF RunStores
<1>5. ASSUME NEW i \in DOMAIN Archives[op.archive], ChildOf(op.archive, i) \in op.skip
      PROVE  RowIsStored(facts, op.run, op.archive, i)
  <2>1. PICK c : c = ChildOf(op.archive, i)
    OBVIOUS
  <2>2. c \in Run.done /\ i \in RowsOf(op.archive, c.member, {c.season})
    BY <1>3, <1>5, <2>1 DEF ChildOf, RowsOf, Row
  <2>3. QED
    BY <1>2, <1>3, <2>2 DEF RunStores
<1>6. QED
  BY <1>1, <1>3, <1>4, <1>5, CallsHavePlaces

\* What a call leaves in memory, over the tables it leaves.
Carries(memory, f) ==
  /\ SameCommand(memory) /\ memory.archive = op.archive
  /\ op.skip \subseteq memory.skip /\ memory.skip \subseteq Run.done
  /\ memory.players \subseteq f.mapped /\ memory.lineups \subseteq LineupsOf(f)

LEMMA MemoryCarries ==
  ASSUME BootInv, StoreInv, op.place = "persist", NEW f, FactsGrow(facts, f), NEW x
  PROVE  /\ Carries(op, f)
         /\ Carries([op EXCEPT !.canonical = x], f)
         /\ Carries([op EXCEPT !.latest = x], f)
         /\ x \subseteq LineupsOf(f) => /\ Carries([op EXCEPT !.lineups = x], f)
                                        /\ Carries([op EXCEPT !.lineups = x, !.canonical = {}], f)
<1>1. OpStores(facts, op, Run)
  BY DEF StoreInv
<1>2. /\ op.skip \subseteq Run.done /\ op.players \subseteq f.mapped
      /\ op.lineups \subseteq LineupsOf(f)
  BY <1>1, LineupsGrow DEF OpStores, FactsGrow
<1>3. SameCommand(op) /\ DOMAIN op = DOMAIN Idle
  BY BootIsTyped DEF SameCommand
<1>4. QED
  BY <1>2, <1>3, FieldsOfBoot DEF Carries, SameCommand

\* A call of the program that has had its effect.
LEMMA CallStores ==
  ASSUME BootInv, StoreInv, op.place = "persist", FactsGrow(facts, facts'),
         \A e \in facts'.evidence : EntryIsKnown(facts', e),
         UNCHANGED <<served, now>>,
         runs' = runs \/ \E open : runs' = [runs EXCEPT ![op.run].open = open],
         NEW memory, Carries(memory, facts'), Goes(memory),
         StepDone(facts', Run.done, op.run, op.archive, op.step, memory.skip)
  PROVE  StoreInv'
<1>1. PICK next \in Following(op.archive, op.step.at, memory.skip) :
        op' = [memory EXCEPT !.step = next]
  BY DEF Goes, Here
<1>2. /\ op'.place = "persist" /\ op'.run = op.run /\ op'.archive = op.archive /\ op'.at = op.at
      /\ op'.skip = memory.skip /\ op'.step = next /\ op'.players = memory.players
      /\ op'.lineups = memory.lineups
  BY <1>1, FieldsOfBoot DEF Carries, SameCommand
<1>3. OpStores(facts, op, Run) /\ op.run \in StatsRuns
  BY BootIsTyped DEF StoreInv
<1>4. \A r \in StatsRuns :
        /\ runs'[r].done = runs[r].done /\ runs'[r].dataset = runs[r].dataset
        /\ runs'[r].inventory = runs[r].inventory
  BY <1>3, FieldsOfBoot, BootIsTyped
<1>5. Run'.done = Run.done /\ Run'.dataset = Run.dataset
  BY <1>2, <1>3, <1>4 DEF Run
<1>6. next \in Program[op.archive] /\ Due(next, memory.skip)
      /\ Passed(facts', Run.done, op.run, op.archive, next.at, memory.skip)
  <2>1. op.archive \in DOMAIN Archives /\ op.step \in Program[op.archive]
    BY SkippedAreStored
  <2>2. Passed(facts, Run.done, op.run, op.archive, op.step.at, op.skip)
    BY <1>3 DEF OpStores
  <2>3. op.skip \subseteq memory.skip
    BY DEF Carries
  <2>4. QED
    BY <2>1, <2>2, <2>3, PassingOn
<1>7. OpStores(facts', op', Run')
  <2>1. Run.dataset.status = "completed" /\ op.archive = Run.dataset.archive
        /\ op.at = Run.dataset.at
    BY <1>3 DEF OpStores, Captured
  <2>2. /\ memory.skip \subseteq Run.done /\ memory.players \subseteq facts'.mapped
        /\ memory.lineups \subseteq LineupsOf(facts')
    BY DEF Carries
  <2>3. QED
    BY <1>2, <1>5, <1>6, <2>1, <2>2 DEF OpStores, BootPlaces, Captured, Ending
<1>8. served' \in DOMAIN Archives /\ now' \in Nat
  BY DEF StoreInv
<1>9. QED
  BY <1>4, <1>7, <1>8, StoringKeeps

\* A call that has still more to do.
LEMMA StayingStores ==
  ASSUME BootInv, StoreInv, op.place = "persist", FactsGrow(facts, facts'),
         facts'.evidence = facts.evidence,
         UNCHANGED <<runs, served, now>>,
         NEW players, players \subseteq op.players \cup facts'.mapped,
         op'.place = op.place, op'.run = op.run, op'.archive = op.archive, op'.at = op.at,
         op'.skip = op.skip, op'.step = op.step, op'.players = players, op'.lineups = op.lineups
  PROVE  StoreInv'
<1>1. OpStores(facts, op, Run) /\ op.run \in StatsRuns
  BY BootIsTyped DEF StoreInv
<1>2. RunStores(facts, op.run, Run)
  BY <1>1 DEF StoreInv, Run
<1>3. OpStores(facts', op, Run)
  BY <1>1, <1>2, MemoryStays
<1>4. Run' = Run
  BY DEF Run
<1>5. OpStores(facts', op', Run')
  BY <1>3, <1>4 DEF OpStores, BootPlaces, Captured, Ending
<1>6. \A e \in facts'.evidence : EntryIsKnown(facts', e)
  BY DEF StoreInv, EntryIsKnown, FactsGrow
<1>7. served' \in DOMAIN Archives /\ now' \in Nat
  BY DEF StoreInv
<1>8. QED
  BY <1>5, <1>6, <1>7, StoringKeeps

-----------------------------------------------------------------------------
\* The calls.  One that accepts nothing fails the run; one that writes goes on.
LEMMA CallThenStores ==
  ASSUME BootInv, StoreInv, op.place = "persist", NEW accepted, NEW result, NEW memory,
         CallThen(accepted, result, memory),
         accepted => /\ FactsGrow(facts, result)
                     /\ \A e \in result.evidence : EntryIsKnown(result, e)
                     /\ Carries(memory, result)
                     /\ StepDone(result, Run.done, op.run, op.archive, op.step, memory.skip)
  PROVE  StoreInv'
<1>1. CASE accepted
  <2>1. facts' = result /\ Goes(memory) /\ UNCHANGED <<runs, served, now>>
    BY <1>1 DEF CallThen
  <2>2. QED
    BY <1>1, <2>1, CallStores
<1>2. CASE ~accepted
  BY <1>2, FailingStores DEF CallThen, Fails
<1>3. QED
  BY <1>1, <1>2

LEMMA CallWritesOrFails ==
  ASSUME BootInv, StoreInv, op.place = "persist", NEW accepted, NEW result,
         Call(accepted, result),
         accepted => /\ FactsGrow(facts, result)
                     /\ \A e \in result.evidence : EntryIsKnown(result, e)
                     /\ StepDone(result, Run.done, op.run, op.archive, op.step, op.skip)
  PROVE  StoreInv'
<1>1. accepted => Carries(op, result)
  BY MemoryCarries
<1>2. QED
  BY <1>1, CallThenStores DEF Call

\* The rows a call is about, and those of them it keeps.
LEMMA PendingAre ==
  ASSUME BootInv, StoreInv, op.place = "persist"
  PROVE  /\ \A i \in RowsOf(op.archive, op.step.member, op.step.seasons) :
              ChildOf(op.archive, i) \notin op.skip =>
                 /\ i \in Pending /\ i \in DOMAIN Archives[op.archive]
                 /\ Kept(op.archive, i) => i \in PendingRows
         /\ PendingRows \subseteq Pending
         /\ \A i \in PendingRows : Kept(op.archive, i)
         /\ \A i \in Pending :
              /\ i \in DOMAIN Archives[op.archive] /\ ChildOf(op.archive, i) \notin op.skip
              /\ i \in RowsOf(op.archive, op.step.member, op.step.seasons)
              /\ Row(op.archive, i).member = op.step.member
              /\ Row(op.archive, i).season \in op.step.seasons
BY DEF Pending, PendingRows, Here, RowsOf, Row

LEMMA RecordingWrites ==
  ASSUME BootInv, NEW entries, \A e \in entries : DOMAIN e = EntryFields
  PROVE  \E g : /\ g = Recorded(facts, entries) /\ FactsGrow(facts, g)
                /\ g.mapped = facts.mapped
                /\ \A e \in entries : Stands(g, e.table, e.key, e.value)
                /\ \A e \in g.evidence : \/ e \in facts.evidence
                                         \/ \E new \in entries :
                                              /\ new.table = e.table /\ new.key = e.key
                                              /\ new.value = e.value
                                              /\ DOMAIN e = DOMAIN new
<1>1. PICK g : g = Recorded(facts, entries)
  OBVIOUS
<1>2. /\ g.evidence = facts.evidence \cup NewEvidence(facts, entries)
      /\ g.mapped = facts.mapped /\ g.names = facts.names /\ g.games = facts.games
      /\ g.plays = facts.plays /\ g.excluded = facts.excluded
  BY <1>1, FieldsOfBoot, BootIsTyped DEF Recorded
<1>3. \A e \in NewEvidence(facts, entries) : \E new \in entries :
         /\ new.table = e.table /\ new.key = e.key /\ new.value = e.value
         /\ DOMAIN e = DOMAIN new
  BY DEF NewEvidence, EntryFields
<1>4. ASSUME NEW e \in entries
      PROVE  Stands(g, e.table, e.key, e.value)
  <2>1. CASE \E old \in Chain(facts, e.table, e.key) : old.value = e.value
    BY <1>2, <2>1 DEF Stands, Chain
  <2>2. CASE \A old \in Chain(facts, e.table, e.key) : old.value # e.value
    <3>1. PICK new : new = [e EXCEPT !.revision = Cardinality(Chain(facts, e.table, e.key)) + 1]
      OBVIOUS
    <3>2. new \in NewEvidence(facts, entries)
      BY <2>2, <3>1 DEF NewEvidence
    <3>3. new.table = e.table /\ new.key = e.key /\ new.value = e.value
      BY <3>1 DEF EntryFields
    <3>4. QED
      BY <1>2, <3>2, <3>3 DEF Stands, Chain
  <2>3. QED
    BY <2>1, <2>2
<1>5. FactsGrow(facts, g)
  BY <1>2 DEF FactsGrow
<1>6. QED
  BY <1>1, <1>2, <1>3, <1>4, <1>5

\* A call that records evidence of its rows.
LEMMA RecordingStores ==
  ASSUME BootInv, StoreInv, op.place = "persist", NEW entries,
         \A e \in entries : EntryIsKnown(facts, e), NEW memory, NEW accepted,
         \A g : (FactsGrow(facts, g) /\ \A e \in entries : Stands(g, e.table, e.key, e.value)) =>
                   /\ Carries(memory, g)
                   /\ StepDone(g, Run.done, op.run, op.archive, op.step, memory.skip),
         CallThen(accepted, Recorded(facts, entries), memory)
  PROVE  StoreInv'
<1>1. PICK g : /\ g = Recorded(facts, entries) /\ FactsGrow(facts, g)
               /\ g.mapped = facts.mapped
               /\ \A e \in entries : Stands(g, e.table, e.key, e.value)
               /\ \A e \in g.evidence : \/ e \in facts.evidence
                                        \/ \E new \in entries :
                                             /\ new.table = e.table /\ new.key = e.key
                                             /\ new.value = e.value
                                             /\ DOMAIN e = DOMAIN new
  BY RecordingWrites DEF EntryIsKnown
<1>2. \A e \in g.evidence : EntryIsKnown(g, e)
  <2>1. ASSUME NEW e \in g.evidence
        PROVE  EntryIsKnown(facts, e)
    <3>1. CASE e \in facts.evidence
      BY <3>1 DEF StoreInv
    <3>2. ASSUME NEW new \in entries, new.table = e.table, new.key = e.key, new.value = e.value,
                 DOMAIN e = DOMAIN new
          PROVE  EntryIsKnown(facts, e)
      BY <3>2 DEF EntryIsKnown
    <3>3. QED
      BY <1>1, <3>1, <3>2
  <2>2. QED
    BY <1>1, <2>1 DEF EntryIsKnown
<1>3. QED
  BY <1>1, <1>2, CallThenStores

\* One that goes on with what it has in memory.
LEMMA PlainRecordingStores ==
  ASSUME BootInv, StoreInv, op.place = "persist", NEW entries,
         \A e \in entries : EntryIsKnown(facts, e),
         \A g : (\A e \in entries : Stands(g, e.table, e.key, e.value)) =>
                   StepDone(g, Run.done, op.run, op.archive, op.step, op.skip),
         Call(TRUE, Recorded(facts, entries))
  PROVE  StoreInv'
<1>1. \A g : FactsGrow(facts, g) => Carries(op, g)
  BY MemoryCarries
<1>2. QED
  BY <1>1, RecordingStores DEF Call

\* A lineup is recorded after the call that makes sure of its player.
LEMMA LineupsComeAfterPlayers ==
  ASSUME NEW a \in DOMAIN Archives, NEW f, NEW done, NEW r, NEW skip,
         NEW s \in Program[a], s.do = "lineups", Passed(f, done, r, a, s.at, skip),
         NEW i \in RowsOf(a, s.member, s.seasons), ChildOf(a, i) \notin skip
  PROVE  Row(a, i).member = "teamstats" /\ Effect(f, done, r, a, "player", i)
<1>1. s.member = "teamstats"
  BY CallsAreAbout
<1>2. PICK m \in DOMAIN Members \ {1} : IsCall(s, a, m, 1, Calls(Members[m]))
  <2>1. s # Step(<<Len(Members) + 1, 1, 0, 0>>, "manifest", "none", {})
    BY DEF Step
  <2>2. /\ s # Step(<<1, 2, 0, 0>>, "known", "allplayers", {})
        /\ s # Step(<<1, 3, 0, 0>>, "exclude", "allplayers", SeasonsOf(a, "allplayers"))
    BY DEF Step
  <2>3. s # Step(<<2, 2, 0, 0>>, "through", "gameinfo", {})
    BY DEF Step
  <2>4. ~IsCall(s, a, 1, 1, <<"open", "team">>)
    BY <1>1, MembersAre DEF IsCall
  <2>5. ~IsCall(s, a, 1, 4, <<"names", "canonical", "mappings", "complete">>)
    BY <1>1, MembersAre DEF IsCall
  <2>6. QED
    BY <2>1, <2>2, <2>3, <2>4, <2>5, ProgramIs
<1>3. PICK n \in SeasonsOf(a, Members[m]), k \in DOMAIN Calls(Members[m]) :
        /\ s.at = <<m, 1, n, k>> /\ s.do = Calls(Members[m])[k] /\ s.member = Members[m]
        /\ s.seasons = {n}
  BY <1>2, CallIs, CallsAreNumbered
<1>4. k = 5 /\ Members[m] = "teamstats"
  BY <1>1, <1>3 DEF Calls
<1>5. i \in DOMAIN Archives[a] /\ Row(a, i).member = Members[m] /\ Row(a, i).season = n
  BY <1>3 DEF RowsOf, Row
<1>6. PICK calls : calls = Calls(Members[m])
  OBVIOUS
<1>7. 3 \in DOMAIN calls /\ calls[3] = "player"
  BY <1>4, <1>6 DEF Calls
<1>8. PICK at : at = s.at
  OBVIOUS
<1>9. Before(<<m, 1, Row(a, i).season, 3>>, at)
  BY <1>3, <1>4, <1>5, <1>8 DEF Before
<1>10. Effect(f, done, r, a, calls[3], i)
  BY <1>5, <1>6, <1>7, <1>8, <1>9, CallsBefore
<1>11. QED
  BY <1>4, <1>5, <1>7, <1>10

\* The five calls that record evidence: each row kept gets its entry.
LEMMA EntriesAre ==
  \A table, key, value :
     /\ DOMAIN Entry(table, key, value) = EntryFields
     /\ Entry(table, key, value).table = table /\ Entry(table, key, value).key = key
     /\ Entry(table, key, value).value = value
     /\ table # "lineup" => EntryIsKnown(facts, Entry(table, key, value))
BY DEF Entry, EntryFields, EntryIsKnown

LEMMA StatusesStore ==
  ASSUME BootInv, StoreInv, RecordStatuses
  PROVE  StoreInv'
<1> DEFINE Key(i) == <<Row(op.archive, i).game, {}>>
<1>1. op.place = "persist" /\ op.step.do = "statuses"
  BY DEF RecordStatuses, Doing, Here
<1>2. PICK entries : entries = {Entry("status", Key(i), Row(op.archive, i).value) :
                                  i \in PendingRows}
  OBVIOUS
<1>3. Call(TRUE, Recorded(facts, entries))
  BY <1>2 DEF RecordStatuses
<1> HIDE DEF Key
<1>4. \A e \in entries : EntryIsKnown(facts, e)
  BY <1>2, EntriesAre
<1>5. ASSUME NEW g, \A e \in entries : Stands(g, e.table, e.key, e.value)
      PROVE  StepDone(g, Run.done, op.run, op.archive, op.step, op.skip)
  <2>1. ASSUME NEW i \in PendingRows
        PROVE  Stands(g, "status", Key(i), Row(op.archive, i).value)
    <3>1. PICK e \in entries : e = Entry("status", Key(i), Row(op.archive, i).value)
      BY <1>2
    <3>2. QED
      BY <1>5, <3>1, EntriesAre
  <2>2. QED
    BY <1>1, <2>1, PendingAre DEF StepDone, Effect, Key
<1>6. QED
  BY <1>1, <1>3, <1>4, <1>5, PlainRecordingStores

LEMMA TeamSnapshotsStore ==
  ASSUME BootInv, StoreInv, RecordTeamSnapshots
  PROVE  StoreInv'
<1>1. op.place = "persist" /\ op.step.do = "teamSnapshots"
  BY DEF RecordTeamSnapshots, Doing, Here
<1>2. PICK entries : entries = {Entry("team", LineKey(i), Row(op.archive, i).value) :
                                  i \in PendingRows}
  OBVIOUS
<1>3. \A e \in entries : EntryIsKnown(facts, e)
  BY <1>2, EntriesAre
<1>4. ASSUME NEW g, \A e \in entries : Stands(g, e.table, e.key, e.value)
      PROVE  StepDone(g, Run.done, op.run, op.archive, op.step, op.skip)
  <2>1. ASSUME NEW i \in PendingRows
        PROVE  Stands(g, "team", LineKey(i), Row(op.archive, i).value)
    <3>1. PICK e \in entries : e = Entry("team", LineKey(i), Row(op.archive, i).value)
      BY <1>2
    <3>2. QED
      BY <1>4, <3>1, EntriesAre
  <2>2. QED
    BY <1>1, <2>1, PendingAre DEF StepDone, Effect, LineKey
<1>5. Call(TRUE, Recorded(facts, entries))
  BY <1>2 DEF RecordTeamSnapshots
<1>6. QED
  BY <1>1, <1>3, <1>4, <1>5, PlainRecordingStores

LEMMA LineupsStore ==
  ASSUME BootInv, StoreInv, RecordLineups
  PROVE  StoreInv'
<1> DEFINE Lineup(i) == <<LineKey(i), Row(op.archive, i).value>>
<1>1. op.place = "persist" /\ op.step.do = "lineups"
  BY DEF RecordLineups, Doing, Here
<1>2. PICK entries : entries = {Entry("lineup", LineKey(i), Row(op.archive, i).value) :
                                  i \in NewLineups}
  OBVIOUS
<1>3. PICK lineups : lineups = op.lineups \cup {Lineup(i) : i \in NewLineups}
  OBVIOUS
<1>4. PICK memory : memory = [op EXCEPT !.lineups = lineups]
  OBVIOUS
<1>5. \E accepted : CallThen(accepted, Recorded(facts, entries), memory)
  <2>1. memory = [op EXCEPT !.lineups =
                    @ \cup {<<LineKey(i), Row(op.archive, i).value>> : i \in NewLineups}]
    BY <1>3, <1>4
  <2>2. QED
    BY <1>2, <2>1 DEF RecordLineups
<1> HIDE DEF Lineup
<1>6. ASSUME NEW i \in NewLineups
      PROVE  EntryIsKnown(facts, Entry("lineup", LineKey(i), Row(op.archive, i).value))
  <2>1. /\ op.archive \in DOMAIN Archives /\ op.step \in Program[op.archive]
        /\ Passed(facts, Run.done, op.run, op.archive, op.step.at, op.skip)
    BY <1>1, SkippedAreStored DEF StoreInv, OpStores
  <2>2. /\ i \in RowsOf(op.archive, op.step.member, op.step.seasons)
        /\ ChildOf(op.archive, i) \notin op.skip /\ Kept(op.archive, i)
        /\ i \in DOMAIN Archives[op.archive]
    BY <1>1, PendingAre DEF NewLineups
  <2>3. Row(op.archive, i).member = "teamstats"
        /\ Effect(facts, Run.done, op.run, op.archive, "player", i)
    BY <1>1, <2>1, <2>2, LineupsComeAfterPlayers
  <2>4. Row(op.archive, i).player \in facts.mapped
    BY <2>2, <2>3 DEF Effect, NewLineups
  <2>5. Row(op.archive, i) \in AllRows
    BY <2>1, <2>2, RowsAre
  <2>6. QED
    BY <2>3, <2>4, <2>5, EntriesAre DEF EntryIsKnown, LineKey
<1>7. \A e \in entries : EntryIsKnown(facts, e)
  BY <1>2, <1>6
<1>8. ASSUME NEW g, FactsGrow(facts, g), \A e \in entries : Stands(g, e.table, e.key, e.value)
      PROVE  /\ Carries(memory, g)
             /\ StepDone(g, Run.done, op.run, op.archive, op.step, memory.skip)
  <2>1. ASSUME NEW i \in NewLineups
        PROVE  Stands(g, "lineup", LineKey(i), Row(op.archive, i).value)
    <3>1. PICK e \in entries : e = Entry("lineup", LineKey(i), Row(op.archive, i).value)
      BY <1>2
    <3>2. QED
      BY <1>8, <3>1, EntriesAre
  <2>2. \A key, value : Stands(g, "lineup", key, value) <=> <<key, value>> \in LineupsOf(g)
    BY DEF Stands, Chain, LineupsOf
  <2>3. op.lineups \subseteq LineupsOf(g)
    BY <1>1, <1>8, MemoryCarries DEF Carries
  <2>4. lineups \subseteq LineupsOf(g)
    BY <1>3, <2>1, <2>2, <2>3 DEF Lineup
  <2>5. Carries(memory, g)
    BY <1>1, <1>4, <1>8, <2>4, MemoryCarries
  <2>6. memory.skip = op.skip
    BY <1>4, FieldsOfBoot, BootIsTyped
  <2>7. ASSUME NEW i \in PendingRows, Row(op.archive, i).player # NoPlayer
        PROVE  Stands(g, "lineup", LineKey(i), Row(op.archive, i).value)
    <3>1. CASE LineupIsNew(i)
      BY <2>1, <2>7, <3>1 DEF NewLineups
    <3>2. CASE ~LineupIsNew(i)
      BY <2>2, <2>3, <3>2 DEF LineupIsNew
    <3>3. QED
      BY <3>1, <3>2
  <2>8. StepDone(g, Run.done, op.run, op.archive, op.step, op.skip)
    BY <1>1, <2>7, PendingAre DEF StepDone, Effect, LineKey
  <2>9. QED
    BY <2>5, <2>6, <2>8
<1>9. QED
  BY <1>1, <1>5, <1>7, <1>8, RecordingStores

LEMMA PlayerSnapshotsStore ==
  ASSUME BootInv, StoreInv, RecordPlayerSnapshots
  PROVE  StoreInv'
<1> DEFINE Key(i) == <<Row(op.archive, i).game, Row(op.archive, i).teams,
                       Row(op.archive, i).player, Stint(op.archive, i)>>
<1>1. op.place = "persist" /\ op.step.do = "playerSnapshots"
  BY DEF RecordPlayerSnapshots, Doing, Here
<1>2. PICK entries : entries = {Entry(Here.member, Key(i), Row(op.archive, i).value) :
                                  i \in PendingRows}
  OBVIOUS
<1>3. Call(TRUE, Recorded(facts, entries))
  BY <1>2 DEF RecordPlayerSnapshots
<1> HIDE DEF Key
<1>4. Here.member # "lineup"
  <2>1. op.archive \in DOMAIN Archives /\ op.step \in Program[op.archive]
    BY <1>1, SkippedAreStored
  <2>2. QED
    BY <1>1, <2>1, CallsAreAbout DEF Here
<1>5. \A e \in entries : EntryIsKnown(facts, e)
  BY <1>2, <1>4, EntriesAre
<1>6. ASSUME NEW g, \A e \in entries : Stands(g, e.table, e.key, e.value)
      PROVE  StepDone(g, Run.done, op.run, op.archive, op.step, op.skip)
  <2>1. ASSUME NEW i \in PendingRows
        PROVE  Stands(g, Row(op.archive, i).member, Key(i), Row(op.archive, i).value)
    <3>1. PICK e \in entries : e = Entry(Here.member, Key(i), Row(op.archive, i).value)
      BY <1>2
    <3>2. Row(op.archive, i).member = Here.member
      BY <1>1, PendingAre DEF Here
    <3>3. QED
      BY <1>6, <3>1, <3>2, EntriesAre
  <2>2. QED
    BY <1>1, <2>1, PendingAre DEF StepDone, Effect, Key
<1>7. QED
  BY <1>1, <1>3, <1>5, <1>6, PlainRecordingStores

LEMMA RevisionsStore ==
  ASSUME BootInv, StoreInv, RecordPlayRevisions
  PROVE  StoreInv'
<1>1. op.place = "persist" /\ op.step.do = "revisions"
  BY DEF RecordPlayRevisions, Doing, Here
<1>2. PICK entries : entries = PlayEntries(PendingRows)
  OBVIOUS
<1>3. \A e \in entries : EntryIsKnown(facts, e)
  BY <1>2, EntriesAre DEF PlayEntries
<1>4. PICK memory : memory = [op EXCEPT !.latest = {}]
  OBVIOUS
<1>5. memory.skip = op.skip
  BY <1>4, FieldsOfBoot, BootIsTyped
<1>6. ASSUME NEW g, \A e \in entries : Stands(g, e.table, e.key, e.value)
      PROVE  StepDone(g, Run.done, op.run, op.archive, op.step, op.skip)
  <2>1. ASSUME NEW i \in PendingRows
        PROVE  Stands(g, "play", PlayOf(op.archive, i), Row(op.archive, i).value)
    <3>1. PICK e \in entries : e = Entry("play", PlayOf(op.archive, i), Row(op.archive, i).value)
      BY <1>2 DEF PlayEntries
    <3>2. QED
      BY <1>6, <3>1, EntriesAre
  <2>2. QED
    BY <1>1, <2>1, PendingAre DEF StepDone, Effect
<1>7. \A g : FactsGrow(facts, g) => Carries(memory, g)
  BY <1>1, <1>4, MemoryCarries
<1>8. \E accepted : CallThen(accepted, Recorded(facts, entries), memory)
  BY <1>2, <1>4 DEF RecordPlayRevisions
<1>9. QED
  BY <1>1, <1>3, <1>5, <1>6, <1>7, <1>8, RecordingStores

\* The other calls of the program.
LEMMA LineupsStayKnown ==
  ASSUME StoreInv, NEW g, FactsGrow(facts, g), g.evidence = facts.evidence
  PROVE  \A e \in g.evidence : EntryIsKnown(g, e)
BY DEF StoreInv, EntryIsKnown, FactsGrow

LEMMA PlayersStore ==
  ASSUME BootInv, StoreInv, UpsertPlayers
  PROVE  StoreInv'
<1> DEFINE Agreed == \A p \in NewPlayers :
                        PlayerAgrees(facts, p, DisplayName(op.archive, p), op.at)
<1>1. op.place = "persist" /\ op.step.do = "names"
  BY DEF UpsertPlayers, Doing, Here
<1>2. PICK g : g = [facts EXCEPT
               !.names = [p \in Players |-> IF p \in NewPlayers
                                            THEN DisplayName(op.archive, p) ELSE @[p]],
               !.seen = [p \in Players |-> IF p \in NewPlayers THEN op.at ELSE @[p]]]
  OBVIOUS
<1>3. Call(Agreed, g)
  BY <1>2 DEF UpsertPlayers
<1>4. /\ g.evidence = facts.evidence /\ g.excluded = facts.excluded /\ g.mapped = facts.mapped
      /\ g.plays = facts.plays /\ g.games = facts.games
      /\ \A p \in Players : g.names[p] = IF p \in NewPlayers THEN DisplayName(op.archive, p)
                                         ELSE facts.names[p]
  BY <1>2, FieldsOfBoot, BootIsTyped
<1>5. ASSUME Agreed
      PROVE  FactsGrow(facts, g)
  <2>1. \A p \in NewPlayers : facts.names[p] \in {0, DisplayName(op.archive, p)}
    BY <1>5 DEF PlayerAgrees
  <2>2. QED
    BY <1>4, <2>1 DEF FactsGrow
<1>6. StepDone(g, Run.done, op.run, op.archive, op.step, op.skip)
  <2>1. ASSUME NEW i \in PendingRows, Row(op.archive, i).member = "allplayers",
               FirstSeason(op.archive, Row(op.archive, i).player) = Row(op.archive, i).season
        PROVE  g.names[Row(op.archive, i).player] # 0
    <3>1. PICK p : p = Row(op.archive, i).player
      OBVIOUS
    <3>2. i \in DOMAIN Archives[op.archive] /\ Kept(op.archive, i)
          /\ Row(op.archive, i).season \in Here.seasons /\ op.archive \in DOMAIN Archives
      BY <1>1, PendingAre, SkippedAreStored DEF Here
    <3>3. p \in NewPlayers
      BY <2>1, <3>1, <3>2 DEF NewPlayers
    <3>4. p \in Players
      BY <2>1, <3>1, <3>2, RowsAre
    <3>5. NameRows(op.archive, p) # {}
      BY <2>1, <3>1, <3>2 DEF NameRows
    <3>6. DisplayName(op.archive, p) # 0
      BY <3>2, <3>5, NamesAreNames
    <3>7. QED
      BY <1>4, <3>1, <3>3, <3>4, <3>6
  <2>2. QED
    BY <1>1, <2>1, PendingAre DEF StepDone, Effect
<1>7. QED
  BY <1>1, <1>3, <1>4, <1>5, <1>6, LineupsStayKnown, CallWritesOrFails

LEMMA MappingsStore ==
  ASSUME BootInv, StoreInv, RecordPlayerMappings
  PROVE  StoreInv'
<1>1. op.place = "persist" /\ op.step.do = "mappings"
  BY DEF RecordPlayerMappings, Doing, Here
<1>2. PICK g : g = [facts EXCEPT !.mapped = @ \cup NewPlayers]
  OBVIOUS
<1>3. \E accepted : Call(accepted, g)
  BY <1>2 DEF RecordPlayerMappings
<1>4. /\ g.evidence = facts.evidence /\ g.excluded = facts.excluded /\ g.names = facts.names
      /\ g.plays = facts.plays /\ g.games = facts.games /\ g.mapped = facts.mapped \cup NewPlayers
  BY <1>2, FieldsOfBoot, BootIsTyped
<1>5. FactsGrow(facts, g)
  BY <1>4 DEF FactsGrow
<1>6. StepDone(g, Run.done, op.run, op.archive, op.step, op.skip)
  <2>1. ASSUME NEW i \in PendingRows,
               FirstSeason(op.archive, Row(op.archive, i).player) = Row(op.archive, i).season
        PROVE  Row(op.archive, i).player \in g.mapped
    <3>1. Row(op.archive, i).season \in Here.seasons
      BY <1>1, PendingAre DEF Here
    <3>2. QED
      BY <1>4, <2>1, <3>1 DEF NewPlayers
  <2>2. QED
    BY <1>1, <2>1, PendingAre DEF StepDone, Effect
<1>7. QED
  BY <1>1, <1>3, <1>4, <1>5, <1>6, LineupsStayKnown, CallWritesOrFails

LEMMA GamesStore ==
  ASSUME BootInv, StoreInv, UpsertGames
  PROVE  StoreInv'
<1>1. op.place = "persist" /\ op.step.do = "games"
  BY DEF UpsertGames, Doing, Here
<1>2. PICK g : g = [facts EXCEPT !.games = [game \in Games |-> IF game \in GamesOfStep
                                                               THEN op.at ELSE @[game]]]
  OBVIOUS
<1>3. \E accepted : Call(accepted, g)
  BY <1>2 DEF UpsertGames
<1>4. /\ g.evidence = facts.evidence /\ g.excluded = facts.excluded /\ g.names = facts.names
      /\ g.plays = facts.plays /\ g.mapped = facts.mapped
      /\ \A game \in Games : g.games[game] = IF game \in GamesOfStep THEN op.at
                                             ELSE facts.games[game]
  BY <1>2, FieldsOfBoot, BootIsTyped
<1>5. op.at > 0 /\ op.archive \in DOMAIN Archives
  BY <1>1, SkippedAreStored
<1>6. FactsGrow(facts, g)
  BY <1>4, <1>5 DEF FactsGrow
<1>7. StepDone(g, Run.done, op.run, op.archive, op.step, op.skip)
  <2>1. ASSUME NEW i \in PendingRows, Row(op.archive, i).member = "gameinfo"
        PROVE  g.games[Row(op.archive, i).game] > 0
    <3>1. Row(op.archive, i).game \in Games
      BY <1>1, <1>5, <2>1, PendingAre, RowsAre
    <3>2. Row(op.archive, i).game \in GamesOfStep
      BY DEF GamesOfStep
    <3>3. QED
      BY <1>4, <1>5, <3>1, <3>2
  <2>2. QED
    BY <1>1, <2>1, PendingAre DEF StepDone, Effect
<1>8. QED
  BY <1>1, <1>3, <1>4, <1>6, <1>7, LineupsStayKnown, CallWritesOrFails

LEMMA PlaysStore ==
  ASSUME BootInv, StoreInv, UpsertPlays
  PROVE  StoreInv'
<1>1. op.place = "persist" /\ op.step.do = "plays"
  BY DEF UpsertPlays, Doing, Here
<1>2. PICK g : g = [facts EXCEPT !.plays = [y \in Plays |-> IF y \in PlaysOfStep
                                                            THEN op.at ELSE @[y]]]
  OBVIOUS
<1>3. \E accepted : Call(accepted, g)
  BY <1>2 DEF UpsertPlays
<1>4. /\ g.evidence = facts.evidence /\ g.excluded = facts.excluded /\ g.names = facts.names
      /\ g.mapped = facts.mapped /\ g.games = facts.games
      /\ \A y \in Plays : g.plays[y] = IF y \in PlaysOfStep THEN op.at ELSE facts.plays[y]
  BY <1>2, FieldsOfBoot, BootIsTyped
<1>5. op.at > 0 /\ op.archive \in DOMAIN Archives
  BY <1>1, SkippedAreStored
<1>6. FactsGrow(facts, g)
  BY <1>4, <1>5 DEF FactsGrow
<1>7. StepDone(g, Run.done, op.run, op.archive, op.step, op.skip)
  <2>1. ASSUME NEW i \in PendingRows, Row(op.archive, i).member = "plays"
        PROVE  g.plays[PlayOf(op.archive, i)] > 0
    <3>1. PlayOf(op.archive, i) \in Plays
      BY <1>1, <1>5, <2>1, PendingAre, PlayIsThere
    <3>2. PlayOf(op.archive, i) \in PlaysOfStep
      BY DEF PlaysOfStep
    <3>3. QED
      BY <1>4, <1>5, <3>1, <3>2
  <2>2. QED
    BY <1>1, <2>1, PendingAre DEF StepDone, Effect
<1>8. QED
  BY <1>1, <1>3, <1>4, <1>6, <1>7, LineupsStayKnown, CallWritesOrFails

LEMMA ExcludedStore ==
  ASSUME BootInv, StoreInv, RecordExcluded
  PROVE  StoreInv'
<1>1. op.place = "persist" /\ op.step.do = "exclude"
  BY DEF RecordExcluded, Doing, Here
<1>2. PICK left : left = {<<op.run, op.archive, i>> : i \in Pending \ PendingRows}
  OBVIOUS
<1>3. PICK g : g = [facts EXCEPT !.excluded = @ \cup left]
  OBVIOUS
<1>4. Call(TRUE, g)
  BY <1>2, <1>3 DEF RecordExcluded
<1>5. /\ g.evidence = facts.evidence /\ g.plays = facts.plays /\ g.names = facts.names
      /\ g.mapped = facts.mapped /\ g.games = facts.games
      /\ g.excluded = facts.excluded \cup left
  BY <1>3, FieldsOfBoot, BootIsTyped
<1>6. FactsGrow(facts, g)
  BY <1>5 DEF FactsGrow
<1>7. StepDone(g, Run.done, op.run, op.archive, op.step, op.skip)
  <2>1. \A i \in Pending : ~Kept(op.archive, i) => <<op.run, op.archive, i>> \in g.excluded
    BY <1>1, <1>2, <1>5, PendingAre
  <2>2. QED
    BY <1>1, <2>1, PendingAre DEF StepDone, Effect
<1>8. QED
  BY <1>1, <1>4, <1>5, <1>6, <1>7, LineupsStayKnown, CallWritesOrFails

\* The calls that write what no season's rows rest on.
LEMMA AsidesStore ==
  ASSUME BootInv, StoreInv, RecordCanonicalPlayers \/ LinkGames
  PROVE  StoreInv'
<1>1. op.place = "persist" /\ op.step.do \in {"canonical", "links"}
  BY DEF RecordCanonicalPlayers, LinkGames, Doing, Here
<1>2. PICK g, memory, accepted :
        /\ CallThen(accepted, g, memory)
        /\ memory = op \/ \E x : memory = [op EXCEPT !.canonical = x]
        /\ \/ \E canonical : g = [facts EXCEPT !.canonical = canonical]
           \/ \E links : g = [facts EXCEPT !.links = links]
  <2>1. CASE RecordCanonicalPlayers
    <3>1. PICK canonical : canonical = [p \in Players |->
                              IF p \in NewPlayers \ op.canonical
                              THEN <<op.run, op.at>> ELSE facts.canonical[p]]
      OBVIOUS
    <3>2. PICK g : g = [facts EXCEPT !.canonical = canonical]
      OBVIOUS
    <3>3. g = [facts EXCEPT !.canonical =
                     [p \in Players |-> IF p \in NewPlayers \ op.canonical
                                        THEN <<op.run, op.at>> ELSE @[p]]]
      BY <3>1, <3>2
    <3>4. PICK memory : memory = [op EXCEPT !.canonical = @ \cup NewPlayers]
      OBVIOUS
    <3>5. \E accepted : CallThen(accepted, g, memory)
      BY <2>1, <3>3, <3>4 DEF RecordCanonicalPlayers
    <3>6. QED
      BY <3>2, <3>4, <3>5
  <2>2. CASE LinkGames
    BY <2>2 DEF LinkGames, Call
  <2>3. QED
    BY <1>1, <2>1, <2>2
<1>3. /\ g.evidence = facts.evidence /\ g.plays = facts.plays /\ g.names = facts.names
      /\ g.mapped = facts.mapped /\ g.games = facts.games /\ g.excluded = facts.excluded
  BY <1>2, FieldsOfBoot, BootIsTyped
<1>4. FactsGrow(facts, g)
  BY <1>3 DEF FactsGrow
<1>5. StepDone(g, Run.done, op.run, op.archive, op.step, memory.skip)
  BY <1>1 DEF StepDone, Effect
<1>6. Carries(memory, g)
  <2>1. Carries(op, g) /\ \A x : Carries([op EXCEPT !.canonical = x], g)
    BY <1>1, <1>4, MemoryCarries
  <2>2. QED
    BY <1>2, <2>1
<1>7. QED
  BY <1>1, <1>2, <1>3, <1>4, <1>5, <1>6, LineupsStayKnown, CallThenStores

\* A call that writes nothing of its own goes on.
LEMMA GoingOnStores ==
  ASSUME BootInv, StoreInv, op.place = "persist", UNCHANGED <<facts, served, now>>,
         runs' = runs \/ \E open : runs' = [runs EXCEPT ![op.run].open = open],
         NEW memory, Carries(memory, facts), Goes(memory),
         StepDone(facts, Run.done, op.run, op.archive, op.step, memory.skip)
  PROVE  StoreInv'
<1>1. FactsGrow(facts, facts') /\ \A e \in facts'.evidence : EntryIsKnown(facts', e)
  BY FactsThatStayGrow DEF StoreInv
<1>2. Carries(memory, facts')
  BY DEF Carries
<1>3. StepDone(facts', Run.done, op.run, op.archive, op.step, memory.skip)
  OBVIOUS
<1>4. QED
  BY <1>1, <1>2, <1>3, CallStores

LEMMA ForwardStores ==
  ASSUME BootInv, StoreInv, op.place = "persist", UNCHANGED <<facts, served, now>>,
         runs' = runs \/ \E open : runs' = [runs EXCEPT ![op.run].open = open], Forward,
         StepDone(facts, Run.done, op.run, op.archive, op.step, op.skip)
  PROVE  StoreInv'
<1>1. Carries(op, facts)
  BY FactsThatStayGrow, MemoryCarries
<1>2. QED
  BY <1>1, GoingOnStores DEF Forward

\* The reads: what they leave in memory is no more than what is there.
LEMMA ReadingStores ==
  ASSUME BootInv, StoreInv, ReadCanonicalPlayers \/ CheckThroughSeason \/ ReadLatestRevisions
  PROVE  StoreInv'
<1>1. op.place = "persist" /\ op.step.do \in {"known", "through", "latest"}
  BY DEF ReadCanonicalPlayers, CheckThroughSeason, ReadLatestRevisions, Doing, Here
<1>2. CASE Fails
  BY <1>1, <1>2, FailingStores DEF Fails
<1>3. CASE ~Fails
  <2>1. PICK memory, x : /\ Remembers(memory)
                         /\ \/ memory = [op EXCEPT !.canonical = x]
                            \/ memory = [op EXCEPT !.latest = x]
                            \/ memory = [op EXCEPT !.lineups = LineupsOf(facts), !.canonical = {}]
    BY <1>3 DEF ReadCanonicalPlayers, CheckThroughSeason, ReadLatestRevisions
  <2>2. Carries(memory, facts)
    <3>1. FactsGrow(facts, facts) /\ LineupsOf(facts) \subseteq LineupsOf(facts)
      BY FactsThatStayGrow
    <3>2. /\ \A y : Carries([op EXCEPT !.canonical = y], facts)
          /\ \A y : Carries([op EXCEPT !.latest = y], facts)
          /\ Carries([op EXCEPT !.lineups = LineupsOf(facts), !.canonical = {}], facts)
      BY <1>1, <3>1, MemoryCarries
    <3>3. QED
      BY <2>1, <3>2
  <2>3. StepDone(facts, Run.done, op.run, op.archive, op.step, memory.skip)
    BY <1>1 DEF StepDone, Effect
  <2>4. QED
    BY <1>1, <2>1, <2>2, <2>3, GoingOnStores DEF Remembers
<1>4. QED
  BY <1>2, <1>3

LEMMA OpeningStores ==
  ASSUME BootInv, StoreInv, OpenSeason
  PROVE  StoreInv'
<1>1. op.place = "persist" /\ op.step.do = "open"
  BY DEF OpenSeason, Doing, Here
<1>2. \A skip : StepDone(facts, Run.done, op.run, op.archive, op.step, skip)
  BY <1>1 DEF StepDone, Effect
<1>3. Carries(op, facts) /\ DOMAIN op = DOMAIN Idle
  BY <1>1, FactsThatStayGrow, MemoryCarries, BootIsTyped
<1>4. CASE Child \in Run.done
  <2>1. PICK memory : memory = [op EXCEPT !.skip = @ \cup {Child}]
    OBVIOUS
  <2>2. Goes(memory) /\ UNCHANGED <<runs, facts, served, now>>
    BY <1>4, <2>1 DEF OpenSeason, Skips
  <2>3. Carries(memory, facts)
    BY <1>3, <1>4, <2>1, FieldsOfBoot DEF Carries, SameCommand
  <2>4. QED
    BY <1>1, <1>2, <2>2, <2>3, GoingOnStores
<1>5. CASE Child \notin Run.done
  <2>1. Forward /\ UNCHANGED <<facts, served, now>>
        /\ \E open : runs' = [runs EXCEPT ![op.run].open = open]
    BY <1>5 DEF OpenSeason
  <2>2. QED
    BY <1>1, <1>2, <2>1, ForwardStores
<1>6. QED
  BY <1>4, <1>5

LEMMA CompletingStores ==
  ASSUME BootInv, StoreInv, CompleteSeason
  PROVE  StoreInv'
<1>1. op.place = "persist" /\ op.step.do = "complete" /\ op.run \in StatsRuns
      /\ OpStores(facts, op, Run)
  BY BootIsTyped DEF CompleteSeason, Doing, Here, StoreInv
<1>2. PICK a, r : a = op.archive /\ r = op.run
  OBVIOUS
<1>3. /\ a \in DOMAIN Archives /\ op.step \in Program[a]
      /\ \A i \in DOMAIN Archives[a] : ChildOf(a, i) \in op.skip => RowIsStored(facts, r, a, i)
  BY <1>1, <1>2, SkippedAreStored
<1>4. /\ Due(op.step, op.skip) /\ op.skip \subseteq Run.done
      /\ Passed(facts, Run.done, r, a, op.step.at, op.skip)
      /\ Run.dataset.status = "completed" /\ a = Run.dataset.archive /\ op.at = Run.dataset.at
      /\ op.players \subseteq facts.mapped /\ op.lineups \subseteq LineupsOf(facts)
  BY <1>1, <1>2 DEF OpStores, Captured
<1>5. PICK n \in Nat : /\ op.step.seasons = {n}
                       /\ \A i \in RowsOf(a, op.step.member, {n}) : RowIsStored(facts, r, a, i)
  BY <1>1, <1>3, <1>4, CompleteMeansStored
<1>6. PICK child : child = [member |-> op.step.member, season |-> n] /\ child = Child
  BY <1>5 DEF Child, Here
<1>7. PICK done : done = Run.done \cup {child} /\ runs' = [runs EXCEPT ![op.run].done = done]
  BY <1>6 DEF CompleteSeason, Run
<1>8. /\ runs'[r].done = done /\ runs'[r].dataset = runs[r].dataset
      /\ runs'[r].inventory = runs[r].inventory
      /\ \A q \in StatsRuns \ {r} : runs'[q] = runs[q]
  BY <1>1, <1>2, <1>7, FieldsOfBoot, BootIsTyped
<1>9. UNCHANGED <<facts, served, now>> /\ Goes(op)
  BY DEF CompleteSeason, Forward
<1>10. RunStores(facts', r, runs'[r])
  <2>1. RunStores(facts, r, Run) /\ Run = runs[r]
    BY <1>1, <1>2 DEF StoreInv, Run
  <2>2. \A i \in RowsOf(a, child.member, {child.season}) : RowIsStored(facts, r, a, i)
    BY <1>5, <1>6
  <2>3. HasAll(runs[r]) => HasAll(runs'[r])
    BY <1>2, <1>7, <1>8 DEF HasAll, Run
  <2>4. QED
    BY <1>4, <1>7, <1>8, <1>9, <2>1, <2>2, <2>3 DEF RunStores
<1>11. \A q \in StatsRuns : RunStores(facts', q, runs'[q])
  BY <1>8, <1>9, <1>10 DEF StoreInv
<1>12. PICK next \in Following(a, op.step.at, op.skip) :
         op' = [op EXCEPT !.step = next]
  BY <1>2, <1>9 DEF Goes, Here
<1>13. /\ op'.place = "persist" /\ op'.run = r /\ op'.archive = a /\ op'.at = op.at
       /\ op'.skip = op.skip /\ op'.step = next /\ op'.players = op.players
       /\ op'.lineups = op.lineups
  BY <1>1, <1>2, <1>12, FieldsOfBoot, BootIsTyped
<1>14. StepDone(facts, done, r, a, op.step, op.skip)
  <2>1. \A i \in RowsOf(a, op.step.member, op.step.seasons) : ChildOf(a, i) \in done
    BY <1>5, <1>6, <1>7 DEF RowsOf, ChildOf, Row
  <2>2. QED
    BY <1>1, <2>1 DEF StepDone, Effect
<1>15. next \in Program[a] /\ Due(next, op.skip) /\ Passed(facts, done, r, a, next.at, op.skip)
  <2>1. Run.done \subseteq done
    BY <1>7
  <2>2. QED
    BY <1>3, <1>4, <1>12, <1>14, <2>1, FactsThatStayGrow, PassingOn
<1>16. OpStores(facts', op', Run')
  <2>1. Run'.done = done /\ Run'.dataset = Run.dataset
    BY <1>2, <1>8, <1>13 DEF Run
  <2>2. op.skip \subseteq done
    BY <1>4, <1>7
  <2>3. QED
    BY <1>4, <1>9, <1>13, <1>15, <2>1, <2>2 DEF OpStores, BootPlaces, Captured, Ending
<1>17. QED
  BY <1>9, <1>11, <1>16 DEF StoreInv

LEMMA TeamsStore ==
  ASSUME BootInv, StoreInv, UpsertTeam
  PROVE  StoreInv'
<1>1. op.place = "persist" /\ op.step.do = "team"
  BY DEF UpsertTeam, Doing, Here
<1>2. CASE Forward /\ UNCHANGED <<runs, facts, served, now>>
  <2>1. StepDone(facts, Run.done, op.run, op.archive, op.step, op.skip)
    BY <1>1 DEF StepDone, Effect
  <2>2. QED
    BY <1>1, <1>2, <2>1, ForwardStores
<1>3. ASSUME NEW t, facts' = [facts EXCEPT !.teams[t] = op.at],
             op' = [op EXCEPT !.teams = @ \cup {t}], UNCHANGED <<runs, served, now>>
      PROVE  StoreInv'
  <2>1. /\ facts'.evidence = facts.evidence /\ facts'.plays = facts.plays
        /\ facts'.names = facts.names /\ facts'.mapped = facts.mapped
        /\ facts'.games = facts.games /\ facts'.excluded = facts.excluded
    BY <1>3, FieldsOfBoot, BootIsTyped
  <2>2. FactsGrow(facts, facts')
    BY <2>1 DEF FactsGrow
  <2>3. /\ op'.place = op.place /\ op'.run = op.run /\ op'.archive = op.archive /\ op'.at = op.at
        /\ op'.skip = op.skip /\ op'.step = op.step /\ op'.players = op.players
        /\ op'.lineups = op.lineups
    BY <1>3, FieldsOfBoot, BootIsTyped
  <2>4. QED
    BY <1>1, <1>3, <2>1, <2>2, <2>3, StayingStores
<1>4. CASE Fails
  BY <1>1, <1>4, FailingStores DEF Fails
<1>5. QED
  BY <1>2, <1>3, <1>4 DEF UpsertTeam

\* When no player is left to make sure of, those of the rows are mapped.
LEMMA PlayersAreEnsured ==
  ASSUME BootInv, StoreInv, op.place = "persist", op.step.do = "player", PlayersOfStep = {}
  PROVE  StepDone(facts, Run.done, op.run, op.archive, op.step, op.skip)
<1>1. PICK a : a = op.archive
  OBVIOUS
<1>2. /\ a \in DOMAIN Archives /\ op.step \in Program[a] /\ op.step.at \in Place
      /\ \A i \in DOMAIN Archives[a] : ChildOf(a, i) \in op.skip => RowIsStored(facts, op.run, a, i)
  BY <1>1, SkippedAreStored
<1>3. OpStores(facts, op, Run)
  BY DEF StoreInv
<1>4. /\ Passed(facts, Run.done, op.run, a, op.step.at, op.skip)
      /\ op.players \subseteq facts.mapped /\ op.lineups \subseteq LineupsOf(facts)
  BY <1>1, <1>3 DEF OpStores
<1>5. op.step.at[1] > 1
  <2>1. op.step.at[1] \in Nat \ {0}
    BY <1>2, CallsHavePlaces, MembersAre DEF Step, Place
  <2>2. QED
    BY <1>2, <2>1, CallsAreAbout
<1>6. KnownPlayers \subseteq facts.mapped
  <2>1. \A p : NameRows(a, p) # {} => p \in facts.mapped
    BY <1>2, <1>4, <1>5, KnownAreMapped
  <2>2. QED
    BY <1>1, <1>4, <2>1 DEF KnownPlayers
<1>7. ASSUME NEW i \in PendingRows
      PROVE  Row(a, i).player = NoPlayer \/ Row(a, i).player \in facts.mapped
  <2>1. i \in DOMAIN Archives[a] /\ Row(a, i).member = Here.member
    BY <1>1, PendingAre DEF Here
  <2>2. CASE Here.member = "teamstats" => LineupIsNew(i)
    BY <1>1, <1>6, <2>2 DEF PlayersOfStep
  <2>3. CASE Here.member = "teamstats" /\ ~LineupIsNew(i)
    <3>1. PICK e \in facts.evidence : /\ e.table = "lineup"
                                      /\ e.key = <<Row(a, i).game, Row(a, i).teams>>
                                      /\ e.value = Row(a, i).value
      BY <1>1, <1>4, <2>3 DEF LineupIsNew, LineKey, LineupsOf
    <3>2. PICK row \in AllRows : /\ row.member = "teamstats" /\ row.value = e.value
                                 /\ e.key = <<row.game, row.teams>> /\ row.player \in facts.mapped
      BY <3>1 DEF StoreInv, EntryIsKnown
    <3>3. row.game = Row(a, i).game /\ row.teams = Row(a, i).teams
      BY <3>1, <3>2
    <3>4. Row(a, i) \in AllRows
      BY <1>2, <2>1, RowsAre
    <3>5. row.player = Row(a, i).player
      BY <2>1, <2>3, <3>1, <3>2, <3>3, <3>4, ArchivesAssumption
    <3>6. QED
      BY <3>2, <3>5
  <2>4. QED
    BY <2>2, <2>3
<1>8. QED
  BY <1>1, <1>7, PendingAre DEF StepDone, Effect

LEMMA EnsuringStores ==
  ASSUME BootInv, StoreInv, EnsurePlayer \/ ResolvePlayer \/ EnsureCanonical \/ EnsureMapping
  PROVE  StoreInv'
<1>1. op.place = "persist" /\ op.step.do = "player"
  BY DEF EnsurePlayer, ResolvePlayer, EnsureCanonical, EnsureMapping, Doing, Here
<1>2. CASE PlayersOfStep = {} /\ Forward /\ UNCHANGED <<runs, facts, served, now>>
  BY <1>1, <1>2, PlayersAreEnsured, ForwardStores
<1>3. CASE Fails
  BY <1>1, <1>3, FailingStores DEF Fails
<1>4. ASSUME NEW p, PlayerAgrees(facts, p, IdentifierOf(p), op.at),
             facts' = [facts EXCEPT !.names[p] = IdentifierOf(p), !.seen[p] = op.at],
             op' = [op EXCEPT !.ensuring = p, !.half = "identity"],
             UNCHANGED <<runs, served, now>>
      PROVE  StoreInv'
  <2>1. /\ facts'.evidence = facts.evidence /\ facts'.plays = facts.plays
        /\ facts'.mapped = facts.mapped
        /\ facts'.games = facts.games /\ facts'.excluded = facts.excluded
    BY <1>4, FieldsOfBoot, BootIsTyped
  <2>2. \A q \in Players : facts'.names[q] = IF q = p THEN 0 - 1 ELSE facts.names[q]
    BY <1>4, FieldsOfBoot, BootIsTyped DEF IdentifierOf
  <2>3. FactsGrow(facts, facts')
    BY <2>1, <2>2 DEF FactsGrow
  <2>4. /\ op'.place = op.place /\ op'.run = op.run /\ op'.archive = op.archive /\ op'.at = op.at
        /\ op'.skip = op.skip /\ op'.step = op.step /\ op'.players = op.players
        /\ op'.lineups = op.lineups
    BY <1>4, FieldsOfBoot, BootIsTyped
  <2>5. QED
    BY <1>1, <1>4, <2>1, <2>3, <2>4, StayingStores
<1>5. CASE EnsurePlayer
  BY <1>2, <1>3, <1>4, <1>5 DEF EnsurePlayer
<1>6. CASE ResolvePlayer
  <2>1. UNCHANGED <<runs, facts, served, now>>
    BY <1>6 DEF ResolvePlayer
  <2>2. FactsGrow(facts, facts') /\ facts'.evidence = facts.evidence
    BY <2>1, FactsThatStayGrow
  <2>3. CASE op.ensuring \in facts.mapped
    <3>1. op' = [op EXCEPT !.players = op.players \cup {op.ensuring},
                           !.ensuring = NoPlayer, !.half = "none"]
      BY <1>6, <2>3 DEF ResolvePlayer
    <3>2. /\ op'.place = op.place /\ op'.run = op.run /\ op'.archive = op.archive
          /\ op'.at = op.at /\ op'.skip = op.skip /\ op'.step = op.step
          /\ op'.lineups = op.lineups /\ op'.players = op.players \cup {op.ensuring}
      BY <3>1, FieldsOfBoot, BootIsTyped
    <3>3. op'.players \subseteq op.players \cup facts'.mapped
      BY <2>1, <2>3, <3>2
    <3>4. QED
      BY <1>1, <2>1, <2>2, <3>2, <3>3, StayingStores
  <2>4. CASE op.ensuring \notin facts.mapped
    <3>1. op' = [op EXCEPT !.half = "unresolved"]
      BY <1>6, <2>4 DEF ResolvePlayer
    <3>2. /\ op'.place = op.place /\ op'.run = op.run /\ op'.archive = op.archive
          /\ op'.at = op.at /\ op'.skip = op.skip /\ op'.step = op.step
          /\ op'.lineups = op.lineups /\ op'.players = op.players
      BY <3>1, FieldsOfBoot, BootIsTyped
    <3>3. QED
      BY <1>1, <2>1, <2>2, <3>2, StayingStores
  <2>5. QED
    BY <2>3, <2>4
<1>7. CASE EnsureCanonical /\ ~Fails
  <2>1. /\ facts' = [facts EXCEPT !.canonical[op.ensuring] = <<op.run, op.at>>]
        /\ op' = [op EXCEPT !.half = "canonical"] /\ UNCHANGED <<runs, served, now>>
    BY <1>7 DEF EnsureCanonical
  <2>2. /\ facts'.evidence = facts.evidence /\ facts'.plays = facts.plays
        /\ facts'.mapped = facts.mapped /\ facts'.names = facts.names
        /\ facts'.games = facts.games /\ facts'.excluded = facts.excluded
    BY <2>1, FieldsOfBoot, BootIsTyped
  <2>3. FactsGrow(facts, facts')
    BY <2>2 DEF FactsGrow
  <2>4. /\ op'.place = op.place /\ op'.run = op.run /\ op'.archive = op.archive /\ op'.at = op.at
        /\ op'.skip = op.skip /\ op'.step = op.step /\ op'.players = op.players
        /\ op'.lineups = op.lineups
    BY <2>1, FieldsOfBoot, BootIsTyped
  <2>5. QED
    BY <1>1, <2>1, <2>2, <2>3, <2>4, StayingStores
<1>8. CASE EnsureMapping
  <2>1. /\ facts' = [facts EXCEPT !.mapped = @ \cup {op.ensuring}]
        /\ op' = [op EXCEPT !.players = op.players \cup {op.ensuring},
                            !.ensuring = NoPlayer, !.half = "none"]
        /\ UNCHANGED <<runs, served, now>>
    BY <1>8 DEF EnsureMapping
  <2>2. /\ facts'.evidence = facts.evidence /\ facts'.plays = facts.plays
        /\ facts'.mapped = facts.mapped \cup {op.ensuring} /\ facts'.names = facts.names
        /\ facts'.games = facts.games /\ facts'.excluded = facts.excluded
    BY <2>1, FieldsOfBoot, BootIsTyped
  <2>3. FactsGrow(facts, facts')
    BY <2>2 DEF FactsGrow
  <2>4. /\ op'.place = op.place /\ op'.run = op.run /\ op'.archive = op.archive /\ op'.at = op.at
        /\ op'.skip = op.skip /\ op'.step = op.step /\ op'.lineups = op.lineups
        /\ op'.players = op.players \cup {op.ensuring}
    BY <2>1, FieldsOfBoot, BootIsTyped
  <2>5. op'.players \subseteq op.players \cup facts'.mapped
    BY <2>2, <2>4
  <2>6. QED
    BY <1>1, <2>1, <2>2, <2>3, <2>4, <2>5, StayingStores
<1>9. QED
  BY <1>3, <1>5, <1>6, <1>7, <1>8

-----------------------------------------------------------------------------
\* Before and after the program, and the other commands.
KeepsSeasons ==
  \A r \in StatsRuns : /\ runs'[r].done = runs[r].done /\ runs'[r].dataset = runs[r].dataset
                       /\ runs'[r].inventory = runs[r].inventory

\* A command that is not in its program, nor about to capture the archive.
LEMMA OutsideStores ==
  ASSUME BootInv, StoreInv, UNCHANGED <<facts, served, now>>, KeepsSeasons,
         op'.place \notin {"raw"} \cup Captured,
         op'.place \in BootPlaces => op'.skip = {} /\ op'.players = {} /\ op'.lineups = {}
  PROVE  StoreInv'
<1>1. OpStores(facts', op', Run')
  BY DEF OpStores, BootPlaces, Captured, Ending
<1>2. QED
  BY <1>1, QuietStoring DEF KeepsSeasons

LEMMA RegisterStores ==
  ASSUME BootInv, StoreInv, OpenRegister \/ PersistRegister \/ CompleteRegister
  PROVE  StoreInv'
<1>1. op.place \in {"register", "registerRaw", "registerDone"} /\ op.place # "idle"
      /\ op.run \in StatsRuns
  BY BootIsTyped DEF OpenRegister, PersistRegister, CompleteRegister
<1>2. op.skip = {} /\ op.players = {} /\ op.lineups = {}
  BY <1>1 DEF StoreInv, OpStores, BootPlaces, Captured, Ending
<1>3. CASE Fails
  BY <1>1, <1>3, FailingStores DEF Fails
<1>4. ASSUME NEW place \in {"registerRaw", "registerDone", "dataset"}, Moves(place),
             UNCHANGED <<facts, served, now>>,
             runs' = runs \/ \E register : runs' = [runs EXCEPT ![op.run].register = register]
      PROVE  StoreInv'
  <2>1. op'.place = place /\ op'.skip = {} /\ op'.players = {} /\ op'.lineups = {}
    BY <1>2, <1>4, FieldsOfBoot, BootIsTyped DEF Moves
  <2>2. KeepsSeasons
    BY <1>1, <1>4, FieldsOfBoot, BootIsTyped DEF KeepsSeasons
  <2>3. QED
    BY <1>4, <2>1, <2>2, OutsideStores DEF Captured, Ending
<1>5. CASE OpenRegister
  <2>1. CASE Moves("dataset") /\ UNCHANGED <<runs, facts, served, now>>
    BY <1>4, <2>1
  <2>2. CASE /\ runs' = [runs EXCEPT ![op.run].register.status = "running"]
             /\ Moves("registerRaw") /\ UNCHANGED <<facts, served, now>>
    <3>1. \E register : runs' = [runs EXCEPT ![op.run].register = register]
      BY <2>2
    <3>2. QED
      BY <1>4, <2>2, <3>1
  <2>3. QED
    BY <1>3, <1>5, <2>1, <2>2 DEF OpenRegister
<1>6. CASE PersistRegister \/ CompleteRegister
  <2>1. \E register : runs' = [runs EXCEPT ![op.run].register = register]
    BY <1>6 DEF PersistRegister, CompleteRegister
  <2>2. QED
    BY <1>4, <1>6, <2>1 DEF PersistRegister, CompleteRegister
<1>7. QED
  BY <1>5, <1>6

\* The dataset of a run that has no season yet is captured; its first call is
\* the first of the program, and nothing is before it.
LEMMA BeginningProgramStores ==
  ASSUME BootInv, StoreInv, NEW a \in DOMAIN Archives, NEW at,
         op.run \in StatsRuns, op'.place = "persist", op'.run = op.run,
         op'.archive = a, op'.at = at, op'.skip = {}, op'.players = {}, op'.lineups = {},
         op'.step \in FirstOf(a),
         Run'.dataset.status = "completed", Run'.dataset.archive = a, Run'.dataset.at = at
  PROVE  OpStores(facts', op', Run')
<1>1. PICK first : first = op'.step
  OBVIOUS
<1>2. \A f, done, r : /\ first \in Program[a] /\ Due(first, {})
                      /\ Passed(f, done, r, a, first.at, {})
  BY <1>1, PassingNothing
<1>3. QED
  BY <1>1, <1>2 DEF OpStores, BootPlaces, Captured, Ending

LEMMA DatasetStores ==
  ASSUME BootInv, StoreInv, CaptureInv, OpenDataset \/ PersistMember \/ CompleteDataset
  PROVE  StoreInv'
<1>1. op.place \in {"dataset", "raw"} /\ op.run \in StatsRuns /\ OpStores(facts, op, Run)
  BY BootIsTyped DEF OpenDataset, PersistMember, CompleteDataset, StoreInv
<1>2. op.skip = {} /\ op.players = {} /\ op.lineups = {} /\ RunStores(facts, op.run, Run)
  BY <1>1 DEF StoreInv, OpStores, BootPlaces, Captured, Ending, Run
<1>3. ASSUME NEW dataset, runs' = [runs EXCEPT ![op.run].dataset = dataset],
             Run.dataset.status # "completed", UNCHANGED facts,
             dataset.status = "completed" =>
                dataset.archive \in DOMAIN Archives /\ dataset.at \in Nat \ {0},
             served' \in DOMAIN Archives, now' \in Nat, OpStores(facts', op', Run')
      PROVE  StoreInv'
  <2>1. Run.done = {} /\ Run.inventory = <<>>
    BY <1>2, <1>3 DEF RunStores
  <2>2. /\ runs'[op.run].done = {} /\ runs'[op.run].dataset = dataset
        /\ runs'[op.run].inventory = <<>>
        /\ \A r \in StatsRuns \ {op.run} : runs'[r] = runs[r]
    BY <1>1, <1>3, <2>1, FieldsOfBoot, BootIsTyped DEF Run
  <2>3. \A r \in StatsRuns : RunStores(facts', r, runs'[r])
    BY <1>3, <2>2 DEF RunStores, StoreInv
  <2>4. \A e \in facts'.evidence : EntryIsKnown(facts', e)
    BY <1>3 DEF StoreInv
  <2>5. QED
    BY <1>3, <2>3, <2>4 DEF StoreInv
<1>4. CASE OpenDataset
  <2>1. CASE Run.dataset.status = "completed"
    <3>1. UNCHANGED <<runs, facts, served, now>>
      BY <1>4, <2>1 DEF OpenDataset
    <3>2. PICK first \in FirstOf(Run.dataset.archive) :
             op' = [op EXCEPT !.place = "persist", !.step = first,
                              !.archive = Run.dataset.archive, !.at = Run.dataset.at]
      BY <1>4, <2>1 DEF OpenDataset
    <3>3. /\ op'.place = "persist" /\ op'.run = op.run /\ op'.archive = Run.dataset.archive
          /\ op'.at = Run.dataset.at /\ op'.skip = {} /\ op'.players = {} /\ op'.lineups = {}
          /\ op'.step = first
      BY <1>2, <3>2, FieldsOfBoot, BootIsTyped
    <3>4. Run' = Run
      BY <3>1, <3>3 DEF Run
    <3>5. Run.dataset.archive \in DOMAIN Archives
      BY <1>2, <2>1 DEF RunStores
    <3>6. OpStores(facts', op', Run')
      BY <1>1, <2>1, <3>3, <3>4, <3>5, BeginningProgramStores
    <3>7. KeepsSeasons
      BY <3>1 DEF KeepsSeasons
    <3>8. QED
      BY <3>1, <3>6, <3>7, QuietStoring DEF KeepsSeasons
  <2>2. CASE Run.dataset.status # "completed"
    <3>1. /\ runs' = [runs EXCEPT ![op.run].dataset.status = "running"]
          /\ now' = now + 1 /\ served' \in served..Len(Archives)
          /\ op' = [op EXCEPT !.place = "raw", !.archive = served', !.at = now + 1]
          /\ UNCHANGED facts
      BY <1>4, <2>2 DEF OpenDataset
    <3>2. PICK dataset : dataset = [Run.dataset EXCEPT !.status = "running"]
      OBVIOUS
    <3>3. runs' = [runs EXCEPT ![op.run].dataset = dataset]
      BY <3>1, <3>2 DEF Run
    <3>4. dataset.status = "running"
      BY <1>1, <3>2, RunOf DEF RunIs
    <3>5. served \in DOMAIN Archives /\ now \in Nat
      BY DEF StoreInv
    <3>6. served' \in DOMAIN Archives /\ now' \in Nat /\ now + 1 \in Nat \ {0}
      BY <3>1, <3>5, ArchivesAssumption
    <3>7. /\ op'.place = "raw" /\ op'.run = op.run /\ op'.archive = served'
          /\ op'.at = now + 1 /\ op'.skip = {} /\ op'.players = {} /\ op'.lineups = {}
      BY <1>2, <3>1, FieldsOfBoot, BootIsTyped
    <3>8. Run'.dataset = dataset
      BY <1>1, <3>3, <3>7, FieldsOfBoot, BootIsTyped DEF Run
    <3>9. OpStores(facts', op', Run')
      BY <3>4, <3>6, <3>7, <3>8 DEF OpStores, BootPlaces, Captured, Ending
    <3>10. QED
      BY <1>3, <2>2, <3>1, <3>3, <3>4, <3>6, <3>9
  <2>3. QED
    BY <2>1, <2>2
<1>5. CASE PersistMember
  <2>1. /\ op.place = "raw" /\ runs' = [runs EXCEPT ![op.run].dataset.raws = @ + 1]
        /\ op' = [op EXCEPT !.raws = @ + 1] /\ UNCHANGED <<facts, served, now>>
    BY <1>5 DEF PersistMember
  <2>2. PICK dataset : dataset = [Run.dataset EXCEPT !.raws = @ + 1]
    OBVIOUS
  <2>3. runs' = [runs EXCEPT ![op.run].dataset = dataset]
    BY <2>1, <2>2 DEF Run
  <2>4. dataset.status = Run.dataset.status
    BY <2>2
  <2>5. op.archive \in DOMAIN Archives /\ op.at \in Nat \ {0} /\ Run.dataset.status # "completed"
    BY <1>1, <2>1 DEF OpStores
  <2>6. /\ op'.place = "raw" /\ op'.run = op.run /\ op'.archive = op.archive
        /\ op'.at = op.at /\ op'.skip = {} /\ op'.players = {} /\ op'.lineups = {}
    BY <1>2, <2>1, FieldsOfBoot, BootIsTyped
  <2>7. Run'.dataset = dataset
    BY <1>1, <2>3, <2>6, FieldsOfBoot, BootIsTyped DEF Run
  <2>8. OpStores(facts', op', Run')
    BY <2>4, <2>5, <2>6, <2>7 DEF OpStores, BootPlaces, Captured, Ending
  <2>9. served' \in DOMAIN Archives /\ now' \in Nat
    BY <2>1 DEF StoreInv
  <2>10. QED
    BY <1>3, <2>1, <2>3, <2>4, <2>5, <2>8, <2>9
<1>6. CASE CompleteDataset
  <2>1. /\ op.place = "raw" /\ UNCHANGED <<facts, served, now>>
        /\ runs' = [runs EXCEPT ![op.run].dataset =
                      [@ EXCEPT !.status = "completed", !.archive = op.archive, !.at = op.at]]
    BY <1>6 DEF CompleteDataset
  <2>2. PICK first \in FirstOf(op.archive) : op' = [op EXCEPT !.place = "persist", !.step = first]
    BY <1>6 DEF CompleteDataset
  <2>3. PICK dataset : dataset = [Run.dataset EXCEPT !.status = "completed",
                                                     !.archive = op.archive, !.at = op.at]
    OBVIOUS
  <2>4. runs' = [runs EXCEPT ![op.run].dataset = dataset]
    BY <2>1, <2>3 DEF Run
  <2>5. op.archive \in DOMAIN Archives /\ op.at \in Nat \ {0} /\ Run.dataset.status # "completed"
    BY <1>1, <2>1 DEF OpStores
  <2>6. dataset.status = "completed" /\ dataset.archive = op.archive /\ dataset.at = op.at
    BY <1>1, <2>3, RunOf DEF RunIs
  <2>7. /\ op'.place = "persist" /\ op'.run = op.run /\ op'.archive = op.archive
        /\ op'.at = op.at /\ op'.skip = {} /\ op'.players = {} /\ op'.lineups = {}
          /\ op'.step = first
    BY <1>2, <2>2, FieldsOfBoot, BootIsTyped
  <2>8. Run'.dataset = dataset
    BY <1>1, <2>4, <2>7, FieldsOfBoot, BootIsTyped DEF Run
  <2>9. OpStores(facts', op', Run')
    BY <1>1, <2>5, <2>6, <2>7, <2>8, BeginningProgramStores
  <2>10. served' \in DOMAIN Archives /\ now' \in Nat
    BY <2>1 DEF StoreInv
  <2>11. QED
    BY <1>3, <2>1, <2>4, <2>5, <2>6, <2>9, <2>10
<1>7. QED
  BY <1>4, <1>5, <1>6

\* An inventory read over tables that have all rows shows those that are kept.
LEMMA InventoriesShow ==
  ASSUME NEW f, TablesAre(f), \A e \in f.evidence : DOMAIN e = EntryFields,
         NEW a \in DOMAIN Archives, NEW i \in DOMAIN Archives[a], Kept(a, i), NEW r,
         RowIsStored(f, r, a, i)
  PROVE  RowIsStored(InventoryOf(f), r, a, i)
<1> DEFINE row  == Row(a, i)
           line == <<row.game, row.teams>>
<1>1. PICK g : g = InventoryOf(f)
  OBVIOUS
<1>2. /\ g.mapped = f.mapped /\ g.names = f.names
      /\ g.games = Seen(f.games) /\ g.plays = Seen(f.plays)
      /\ g.evidence = {[e EXCEPT !.at = 0, !.run = Nobody] : e \in f.evidence}
  BY <1>1 DEF InventoryOf
<1>3. \A S : \A times \in [S -> Nat] : \A x \in S : times[x] > 0 => Seen(times)[x] > 0
  BY DEF Seen
<1>4. ASSUME NEW e \in f.evidence
      PROVE  \E shown \in g.evidence :
               shown.table = e.table /\ shown.key = e.key /\ shown.value = e.value
  <2>1. PICK shown : shown = [e EXCEPT !.at = 0, !.run = Nobody]
    OBVIOUS
  <2>2. shown.table = e.table /\ shown.key = e.key /\ shown.value = e.value
    BY <2>1 DEF EntryFields
  <2>3. QED
    BY <1>2, <2>1, <2>2
<1>5. \A table, k, value : Stands(f, table, k, value) => Stands(g, table, k, value)
  BY <1>4 DEF Stands, Chain
<1>6. CASE row.member \in {"allplayers", "teamstats"}
  BY <1>2, <1>5, <1>6, <1>1 DEF RowIsStored
<1>7. CASE row.member = "gameinfo"
  <2>1. row.game \in Games /\ f.games \in [Games -> Nat]
    BY <1>7, RowsAre DEF TablesAre
  <2>2. f.games[row.game] > 0 /\ Stands(f, "status", <<row.game, {}>>, row.value)
    BY <1>7 DEF RowIsStored
  <2>3. g.games[row.game] > 0
    BY <1>2, <1>3, <2>1, <2>2
  <2>4. QED
    BY <1>1, <1>5, <1>7, <2>2, <2>3 DEF RowIsStored
<1>8. CASE row.member = "plays"
  <2>1. PICK key \in Plays : key[1] = row.game /\ f.plays[key] > 0
                             /\ Stands(f, "play", key, row.value)
    BY <1>8 DEF RowIsStored
  <2>2. g.plays[key] > 0
    BY <1>2, <1>3, <2>1 DEF TablesAre
  <2>3. QED
    BY <1>1, <1>5, <1>8, <2>1, <2>2 DEF RowIsStored
<1>9. CASE row.member \notin {"allplayers", "gameinfo", "teamstats", "plays"}
  <2>1. PICK e \in f.evidence : /\ e.table = row.member /\ e.value = row.value
                                /\ e.key[1] = row.game /\ e.key[3] = row.player
    BY <1>9 DEF RowIsStored
  <2>2. PICK shown \in g.evidence :
               shown.table = e.table /\ shown.key = e.key /\ shown.value = e.value
    BY <1>4
  <2>3. QED
    BY <1>1, <1>9, <2>1, <2>2 DEF RowIsStored
<1>10. QED
  BY <1>6, <1>7, <1>8, <1>9

\* A run with all its seasons has all its rows in the tables.
LEMMA AllIsStored ==
  ASSUME NEW f, NEW r, NEW run, RunStores(f, r, run), run.dataset.status = "completed",
         HasAll(run), NEW i \in DOMAIN Archives[run.dataset.archive]
  PROVE  RowIsStored(f, r, run.dataset.archive, i)
<1>1. PICK c : c = ChildOf(run.dataset.archive, i)
  OBVIOUS
<1>2. c \in run.done /\ i \in RowsOf(run.dataset.archive, c.member, {c.season})
  BY <1>1 DEF HasAll, ChildOf, RowsOf, Row
<1>3. QED
  BY <1>2 DEF RunStores

LEMMA EndingStores ==
  ASSUME BootInv, StoreInv, CaptureInv,
         CompleteManifest \/ ReadInventory \/ CompleteInventory \/ Finalize
  PROVE  StoreInv'
<1>1. op.place \in Captured /\ op.run \in StatsRuns /\ OpStores(facts, op, Run)
      /\ DOMAIN op = DOMAIN Idle /\ op.place # "idle"
  BY BootIsTyped DEF CompleteManifest, ReadInventory, CompleteInventory, Finalize, StoreInv,
     Captured, Ending, Doing
<1>2. Run.dataset.status = "completed" /\ RunStores(facts, op.run, Run)
      /\ Run.dataset.archive \in DOMAIN Archives
  BY <1>1 DEF OpStores, StoreInv, RunStores, Run
<1>3. CASE Fails
  BY <1>1, <1>3, FailingStores DEF Fails
<1>4. CASE CompleteManifest
  <2>1. op.place = "persist" /\ op.step.do = "manifest"
    BY <1>4 DEF CompleteManifest, Doing, Here
  <2>2. HasAll(Run)
    <3>1. op.archive \in DOMAIN Archives /\ op.step \in Program[op.archive]
      BY <2>1, SkippedAreStored
    <3>2. /\ op.archive = Run.dataset.archive /\ op.skip \subseteq Run.done
          /\ Passed(facts, Run.done, op.run, op.archive, op.step.at, op.skip)
      BY <1>1, <2>1 DEF OpStores
    <3>3. QED
      BY <2>1, <3>1, <3>2, ManifestIsLast DEF HasAll
  <2>3. /\ runs' = [runs EXCEPT ![op.run].manifest = "completed"]
        /\ Moves("inventory") /\ UNCHANGED <<facts, served, now>>
    BY <1>4 DEF CompleteManifest
  <2>4. KeepsSeasons
    BY <1>1, <2>3, FieldsOfBoot, BootIsTyped DEF KeepsSeasons
  <2>5. op'.place = "inventory" /\ op'.run = op.run
    BY <2>3, PlaceMoves
  <2>6. Run'.dataset = Run.dataset /\ Run'.done = Run.done
    BY <1>1, <2>4, <2>5 DEF Run, KeepsSeasons
  <2>7. OpStores(facts', op', Run')
    BY <1>2, <2>2, <2>5, <2>6 DEF OpStores, BootPlaces, Captured, Ending, HasAll
  <2>8. QED
    BY <2>3, <2>4, <2>7, QuietStoring DEF KeepsSeasons
<1>5. CASE ReadInventory
  <2>1. HasAll(Run)
    BY <1>1, <1>5 DEF OpStores, ReadInventory, Ending
  <2>2. op' = [op EXCEPT !.place = "fingerprint", !.inventory = <<InventoryOf(facts)>>]
        /\ UNCHANGED <<runs, facts, served, now>>
    BY <1>5 DEF ReadInventory
  <2>3. op'.place = "fingerprint" /\ op'.run = op.run /\ op'.inventory = <<InventoryOf(facts)>>
    BY <1>1, <2>2, FieldsOfBoot
  <2>4. Run' = Run
    BY <2>2, <2>3 DEF Run
  <2>5. Shows(op'.inventory, op.run, Run.dataset.archive)
    <3>1. ASSUME NEW i \in DOMAIN Archives[Run.dataset.archive], Kept(Run.dataset.archive, i)
          PROVE  RowIsStored(InventoryOf(facts), op.run, Run.dataset.archive, i)
      <4>1. RowIsStored(facts, op.run, Run.dataset.archive, i)
        BY <1>2, <2>1, AllIsStored
      <4>2. \A e \in facts.evidence : DOMAIN e = EntryFields
        BY DEF StoreInv, EntryIsKnown
      <4>3. TablesAre(facts)
        BY DEF BootInv
      <4>4. QED
        BY <1>2, <3>1, <4>1, <4>2, <4>3, InventoriesShow
    <3>2. op'.inventory[1] = InventoryOf(facts)
      BY <2>3
    <3>3. QED
      BY <3>1, <3>2 DEF Shows
  <2>6. OpStores(facts', op', Run')
    BY <1>2, <2>1, <2>3, <2>4, <2>5 DEF OpStores, BootPlaces, Captured, Ending
  <2>7. QED
    BY <2>2, <2>6, QuietStoring
<1>6. CASE CompleteInventory /\ ~Fails
  <2>1. /\ runs' = [runs EXCEPT ![op.run].inventory = op.inventory]
        /\ Moves("finalize") /\ UNCHANGED <<facts, served, now>>
    BY <1>6 DEF CompleteInventory
  <2>2. op.place = "fingerprint" /\ HasAll(Run) /\ Shows(op.inventory, op.run, Run.dataset.archive)
    BY <1>1, <1>6 DEF OpStores, CompleteInventory, Ending
  <2>3. /\ runs'[op.run].done = Run.done /\ runs'[op.run].dataset = Run.dataset
        /\ runs'[op.run].inventory = op.inventory
        /\ \A r \in StatsRuns \ {op.run} : runs'[r] = runs[r]
    BY <1>1, <2>1, FieldsOfBoot, BootIsTyped DEF Run
  <2>4. RunStores(facts', op.run, runs'[op.run])
    BY <1>2, <2>1, <2>2, <2>3 DEF RunStores, HasAll
  <2>5. \A r \in StatsRuns : RunStores(facts', r, runs'[r])
    BY <2>1, <2>3, <2>4 DEF StoreInv
  <2>6. op'.place = "finalize" /\ op'.run = op.run
    BY <2>1, PlaceMoves
  <2>7. Run'.dataset = Run.dataset /\ Run'.done = Run.done
    BY <2>3, <2>6 DEF Run
  <2>8. OpStores(facts', op', Run')
    BY <1>2, <2>2, <2>6, <2>7 DEF OpStores, BootPlaces, Captured, Ending, HasAll
  <2>9. QED
    BY <2>1, <2>5, <2>8 DEF StoreInv
<1>7. CASE Finalize /\ ~Fails
  <2>1. /\ runs' = [runs EXCEPT ![op.run].status = "completed"] /\ op' = Idle
        /\ UNCHANGED <<facts, served, now>>
    BY <1>7 DEF Finalize
  <2>2. KeepsSeasons
    BY <1>1, <2>1, FieldsOfBoot, BootIsTyped DEF KeepsSeasons
  <2>3. op'.place = "idle"
    BY <2>1, FieldsOfBoot
  <2>4. QED
    BY <2>1, <2>2, <2>3, QuietStoring DEF KeepsSeasons
<1>8. QED
  BY <1>3, <1>4, <1>5, <1>6, <1>7

LEMMA WritingStores ==
  ASSUME BootInv, StoreInv,
         \/ UpsertTeam \/ UpsertPlayers \/ RecordCanonicalPlayers \/ RecordPlayerMappings
         \/ EnsurePlayer \/ ResolvePlayer \/ EnsureCanonical \/ EnsureMapping
         \/ UpsertGames \/ RecordStatuses \/ LinkGames
         \/ RecordTeamSnapshots \/ RecordLineups \/ RecordPlayerSnapshots
         \/ UpsertPlays \/ RecordPlayRevisions \/ RecordExcluded
  PROVE  StoreInv'
BY TeamsStore, PlayersStore, AsidesStore, MappingsStore, EnsuringStores, GamesStore,
   StatusesStore, TeamSnapshotsStore, LineupsStore, PlayerSnapshotsStore, PlaysStore,
   RevisionsStore, ExcludedStore

\* A pinned register is of a run that has no seasons.
LEMMA PinStores ==
  ASSUME BootInv, StoreInv, Pin
  PROVE  StoreInv'
<1>1. /\ op.place \in PinPlaces /\ op.place # "idle" /\ op.run \in StatsRuns
  BY BootIsTyped DEF Pin, FindEvidence, CapturePinned, CompareInventories, SettlePin, PinPlaces
<1>2. CASE Fails
  BY <1>1, <1>2, FailingStores DEF Fails
<1>3. ASSUME op'.place \in PinPlaces \cup {"idle"}, UNCHANGED <<facts, served, now>>,
             \/ \E register : runs' = [runs EXCEPT ![op.run].register = register]
             \/ \E status : runs' = [runs EXCEPT ![op.run].status = status]
      PROVE  StoreInv'
  <2>1. KeepsSeasons
    BY <1>1, <1>3, FieldsOfBoot, BootIsTyped DEF KeepsSeasons
  <2>2. QED
    BY <1>3, <2>1, OutsideStores DEF PinPlaces, BootPlaces, Captured, Ending
<1>4. ASSUME NEW place \in PinPlaces, Moves(place)
      PROVE  op'.place \in PinPlaces
  BY <1>4, PlaceMoves
<1>5. CASE FindEvidence /\ ~Fails
  <2>1. UNCHANGED <<facts, served, now>> /\ \E place \in {"compare", "capture"} : Moves(place)
    BY <1>5 DEF FindEvidence
  <2>2. \E register : runs' = [runs EXCEPT ![op.run].register = register]
    BY <1>5 DEF FindEvidence
  <2>3. QED
    BY <1>3, <1>4, <2>1, <2>2 DEF PinPlaces
<1>6. CASE CapturePinned
  <2>1. UNCHANGED <<facts, served, now>> /\ Moves("compare")
    BY <1>6 DEF CapturePinned
  <2>2. PICK content : runs' = [runs EXCEPT ![op.run].register.raws = @ + 1,
                                            ![op.run].register.content = content]
    BY <1>6 DEF CapturePinned
  <2>3. KeepsSeasons
    BY <1>1, <2>2, FieldsOfBoot, BootIsTyped DEF KeepsSeasons
  <2>4. op'.place = "compare"
    BY <2>1, PlaceMoves
  <2>5. QED
    BY <2>1, <2>3, <2>4, OutsideStores DEF BootPlaces, Captured, Ending
<1>7. CASE CompareInventories /\ ~Fails
  <2>1. UNCHANGED <<facts, served, now>> /\ Moves("settle")
    BY <1>7 DEF CompareInventories
  <2>2. \E register : runs' = [runs EXCEPT ![op.run].register = register]
    BY <1>7 DEF CompareInventories
  <2>3. QED
    BY <1>3, <1>4, <2>1, <2>2 DEF PinPlaces
<1>8. CASE SettlePin
  <2>1. UNCHANGED <<facts, served, now>> /\ op'.place = "idle"
    BY <1>8, FieldsOfBoot DEF SettlePin
  <2>2. \E status : runs' = [runs EXCEPT ![op.run].status = status]
    BY <1>8 DEF SettlePin
  <2>3. QED
    BY <1>3, <2>1, <2>2
<1>9. QED
  BY <1>2, <1>5, <1>6, <1>7, <1>8 DEF Pin

LEMMA BeginningStores ==
  ASSUME BootInv, StoreInv, NEW r \in StatsRuns,
         \/ Start(r) \/ Resume(r) \/ ResumePin(r)
         \/ \E source \in StatsRuns : StartPin(r, source)
  PROVE  StoreInv'
<1>1. UNCHANGED <<facts, served, now>>
  BY DEF Start, Resume, ResumePin, StartPin
<1>2. op' = [Idle EXCEPT !.run = r, !.place = "register"]
      \/ op' = [Idle EXCEPT !.run = r, !.place = "evidence"]
  BY DEF Start, Resume, ResumePin, StartPin
<1>3. /\ op'.place \in {"register", "evidence"} /\ op'.skip = {} /\ op'.players = {} /\ op'.lineups = {}
  BY <1>2, FieldsOfBoot DEF Idle
<1>4. \/ runs' = runs
      \/ runs' = [runs EXCEPT ![r].status = "running"]
      \/ \E source : runs' = [runs EXCEPT ![r].status = "running", ![r].kind = "pin",
                                          ![r].source = source]
  BY DEF Start, Resume, ResumePin, StartPin
<1>5. \A q \in StatsRuns :
        /\ runs'[q].done = runs[q].done /\ runs'[q].dataset = runs[q].dataset
        /\ runs'[q].inventory = runs[q].inventory
  BY <1>4, FieldsOfBoot, BootIsTyped
<1>6. OpStores(facts', op', Run')
  BY <1>3 DEF OpStores, BootPlaces, Captured, Ending
<1>7. QED
  BY <1>1, <1>5, <1>6, QuietStoring

\* The command that goes on has in memory what it waited with.
LEMMA TurningStores ==
  ASSUME BootInv, StoreInv, WaitingStores, TakesTurns
  PROVE  StoreInv' /\ WaitingStores'
<1>1. /\ UNCHANGED <<runs, facts, served, now>> /\ (op' \in waiting \/ op' = Idle)
      /\ waiting' \subseteq waiting \cup {op} /\ (op \in waiting' => op.place # "idle")
  BY TurnIs DEF BootInv
<1>2. op'.place # "idle" => OpStores(facts', op', Run')
  BY <1>1, FieldsOfBoot DEF WaitingStores, Run
<1>3. StoreInv'
  BY <1>1, <1>2, QuietStoring
<1>4. op \in waiting' => OpStores(facts, op, runs[op.run])
  BY <1>1 DEF StoreInv, Run
<1>5. WaitingStores'
  BY <1>1, <1>4 DEF WaitingStores
<1>6. QED
  BY <1>3, <1>5

\* What a waiting command has in memory holds when others have written.
LEMMA WaitingContinues ==
  ASSUME BootInv, OthersInv, StoreInv, WaitingStores, [StorageNext]_storageVars
  PROVE  WaitingStores'
<1>1. FactsGrow(facts, facts')
  BY BootContinues, TablesGrow DEF BootInv, EvidenceStays
<1>2. ASSUME UNCHANGED waiting,
             \A o \in waiting : /\ runs'[o.run].done = runs[o.run].done
                                /\ runs'[o.run].dataset = runs[o.run].dataset
      PROVE  WaitingStores'
  <2>1. ASSUME NEW o \in waiting
        PROVE  OpStores(facts', o, runs'[o.run])
    <3>1. OpStores(facts, o, runs[o.run]) /\ RunStores(facts, o.run, runs[o.run])
      BY DEF WaitingStores, StoreInv, BootInv, MemoryIs
    <3>2. QED
      BY <1>1, <1>2, <3>1, MemoryStays
  <2>2. QED
    BY <1>2, <2>1 DEF WaitingStores
<1>3. CASE Bootstrap \/ Pin \/ Dies \/ CallRaises
  <2>1. \A o \in waiting : o.run \in StatsRuns /\ o.run # op.run
    BY DEF OthersInv, BootInv, MemoryIs
  <2>2. UNCHANGED waiting /\ \A o \in waiting : runs'[o.run] = runs[o.run]
    BY <1>3, <2>1, OtherRunsStay
  <2>3. QED
    BY <1>2, <2>2
<1>4. CASE TakesTurns
  BY <1>4, TurningStores
<1>5. ASSUME NEW r \in StatsRuns,
             \/ Start(r) \/ Resume(r) \/ ResumePin(r)
             \/ \E source \in StatsRuns : StartPin(r, source)
      PROVE  WaitingStores'
  <2>1. \/ runs' = runs
        \/ runs' = [runs EXCEPT ![r].status = "running"]
        \/ \E source : runs' = [runs EXCEPT ![r].status = "running", ![r].kind = "pin",
                                            ![r].source = source]
    BY <1>5 DEF Start, Resume, ResumePin, StartPin
  <2>2. \A q \in StatsRuns : runs'[q].done = runs[q].done /\ runs'[q].dataset = runs[q].dataset
    BY <2>1, FieldsOfBoot, BootIsTyped
  <2>3. \A o \in waiting : o.run \in StatsRuns
    BY DEF BootInv, MemoryIs
  <2>4. UNCHANGED waiting
    BY <1>5 DEF Start, Resume, ResumePin, StartPin
  <2>5. QED
    BY <1>2, <2>2, <2>3, <2>4
<1>6. CASE UNCHANGED bootVars
  BY <1>6 DEF bootVars, WaitingStores
<1>7. QED
  BY <1>3, <1>4, <1>5, <1>6 DEF StorageNext, storageVars, bootVars, Commands

LEMMA StoreContinues ==
  ASSUME BootInv, CaptureInv, StoreInv, WaitingStores, [StorageNext]_storageVars
  PROVE  StoreInv'
<1>1. CASE Bootstrap
  BY <1>1, RegisterStores, DatasetStores, OpeningStores, ReadingStores, CompletingStores,
     EndingStores, WritingStores DEF Bootstrap
<1>2. CASE Commands
  BY <1>1, <1>2, PinStores, BeginningStores, TurningStores DEF Commands
<1>3. CASE Dies
  <2>1. op'.place = "idle" /\ UNCHANGED <<runs, facts, served, now>>
    BY <1>3, FieldsOfBoot DEF Dies
  <2>2. QED
    BY <2>1, QuietStoring
<1>4. CASE CallRaises
  <2>1. op.place # "idle"
    BY <1>4 DEF CallRaises, CaptureInv, OpIs
  <2>2. QED
    BY <1>4, <2>1, FailingStores DEF CallRaises
<1>5. CASE UNCHANGED bootVars
  <2>1. UNCHANGED <<runs, facts, op, served, now>>
    BY <1>5 DEF bootVars
  <2>2. Run' = Run
    BY <2>1 DEF Run
  <2>3. op'.place # "idle" => OpStores(facts', op', Run')
    BY <2>1, <2>2 DEF StoreInv
  <2>4. QED
    BY <2>1, <2>3, QuietStoring
<1>6. QED
  BY <1>2, <1>3, <1>4, <1>5 DEF StorageNext, storageVars, bootVars

\* Every row of a season whose checkpoint is completed is in the tables or among
\* the excluded, however commands overlap, are broken off and resumed; a
\* completed run has all its seasons, and the inventory it completed on shows
\* every row of its archive, whoever wrote between; and it rests on exactly the
\* raw rows of its captures.
THEOREM CompletedSeasonsAreStored == StorageSpec => []BootstrapIsWhole
<1>1. StorageInit => BootInv /\ CaptureInv /\ OthersInv /\ StoreInv /\ WaitingStores
  BY BootStarts, CaptureStarts, StoreStarts
  DEF StorageInit, BootInit, OthersInv, WaitingStores
<1>2. BootInv /\ CaptureInv /\ OthersInv /\ StoreInv /\ WaitingStores
        /\ [StorageNext]_storageVars
        => (BootInv /\ CaptureInv /\ OthersInv /\ StoreInv /\ WaitingStores)'
  BY BootContinues, CaptureContinues, OthersContinue, StoreContinues, WaitingContinues
<1>3. CaptureInv => CapturesAreSettled
  BY DEF CaptureInv, Whole, Vouches, CapturesAreSettled, AllMembers
<1>4. CaptureInv /\ StoreInv => SeasonsAreStored
  BY DEF CaptureInv, Whole, StoreInv, RunStores, HasAll, Shows, SeasonsAreStored
<1>5. CaptureInv /\ StoreInv => BootstrapIsWhole
  BY <1>3, <1>4 DEF BootstrapIsWhole
<1>6. QED
  BY <1>1, <1>2, <1>5, PTL DEF StorageSpec

-----------------------------------------------------------------------------
(***************************************************************************)
(* The chains of revisions.  Any command may add the next revision to what *)
(* others recorded, in whatever order they captured it.  But a value that  *)
(* stands in the chain is not recorded again, and all that a run records   *)
(* stems from the one archive of its dataset checkpoint, which has one     *)
(* value for a key: so two revisions differ in number, in value and in the *)
(* run they are of.                                                        *)
(***************************************************************************)
\* The evidence a row becomes.
EntryOf(a, i, table, key) ==
  LET row == Row(a, i) IN
  \/ table = "status" /\ row.member = "gameinfo" /\ key = <<row.game, {}>>
  \/ table \in {"team", "lineup"} /\ row.member = "teamstats" /\ key = <<row.game, row.teams>>
  \/ /\ table \in {"batting", "pitching", "fielding"} /\ row.member = table
     /\ key = <<row.game, row.teams, row.player, Stint(a, i)>>
  \/ table = "play" /\ row.member = "plays" /\ key = PlayOf(a, i)

StemsFrom(a, e) ==
  \E i \in DOMAIN Archives[a] : /\ Kept(a, i) /\ EntryOf(a, i, e.table, e.key)
                                /\ e.value = Row(a, i).value

Numbered(chain) ==
  /\ IsFiniteSet(chain)
  /\ \A e \in chain : e.revision \in 1 .. Cardinality(chain)
  /\ \A k \in 1 .. Cardinality(chain) : \E e \in chain : e.revision = k
  /\ \A e, other \in chain :
        e = other \/ (e.revision # other.revision /\ e.value # other.value /\ e.run # other.run)

HasDataset(run) == run.dataset.status = "completed"

EvidenceIs(f, all, e) ==
  /\ e.run \in StatsRuns /\ HasDataset(all[e.run]) /\ StemsFrom(all[e.run].dataset.archive, e)
  /\ Numbered(Chain(f, e.table, e.key))

ChainInv == \A e \in facts.evidence : EvidenceIs(facts, runs, e)

\* Counting what came before tells the like apart.
LEMMA CountsDiffer ==
  ASSUME NEW i \in Nat, NEW j \in Nat, i < j, NEW S, NEW T,
         S \subseteq 1 .. i, S \subseteq T, T \subseteq 1 .. j, j \in T
  PROVE  Cardinality(S) # Cardinality(T)
<1>1. IsFiniteSet(1 .. j)
  BY FS_Interval
<1>2. S \cup {j} \subseteq T /\ j \notin S
  OBVIOUS
<1>3. IsFiniteSet(T) /\ IsFiniteSet(S)
  BY <1>1, <1>2, FS_Subset
<1>4. Cardinality(S \cup {j}) <= Cardinality(T)
  BY <1>2, <1>3, FS_Subset
<1>5. Cardinality(S \cup {j}) = Cardinality(S) + 1
  BY <1>2, <1>3, FS_AddElement
<1>6. Cardinality(S) \in Nat /\ Cardinality(T) \in Nat
  BY <1>3, FS_CardinalityType
<1>7. QED
  BY <1>4, <1>5, <1>6

LEMMA StintsDiffer ==
  ASSUME NEW a \in DOMAIN Archives, NEW i \in DOMAIN Archives[a], NEW j \in DOMAIN Archives[a],
         i < j, Kept(a, j), Row(a, i).member = Row(a, j).member, Row(a, i).game = Row(a, j).game
  PROVE  /\ (Row(a, i).player = Row(a, j).player /\ Row(a, i).teams = Row(a, j).teams) =>
               Stint(a, i) # Stint(a, j)
         /\ Row(a, j).member = "plays" => PlayIndex(a, i) # PlayIndex(a, j)
<1>1. i \in Nat /\ j \in Nat /\ 1 <= i
  <2>1. Archives[a] \in Seq(AllRows)
    BY ArchivesAssumption
  <2>2. QED
    BY <2>1
<1>2. ASSUME Row(a, i).player = Row(a, j).player, Row(a, i).teams = Row(a, j).teams
      PROVE  Stint(a, i) # Stint(a, j)
  <2> DEFINE Like(n) == {x \in 1 .. n : /\ Kept(a, x)
                                       /\ Row(a, x).member = Row(a, n).member
                                       /\ Row(a, x).game = Row(a, n).game
                                       /\ Row(a, x).player = Row(a, n).player
                                       /\ Row(a, x).teams = Row(a, n).teams}
  <2>1. Like(i) \subseteq 1 .. i /\ Like(i) \subseteq Like(j) /\ Like(j) \subseteq 1 .. j
        /\ j \in Like(j)
    BY <1>1, <1>2
  <2>2. Cardinality(Like(i)) # Cardinality(Like(j))
    <3> HIDE DEF Like
    <3>1. QED
      BY <1>1, <2>1, CountsDiffer
  <2>3. QED
    BY <2>2 DEF Stint
<1>3. ASSUME Row(a, j).member = "plays"
      PROVE  PlayIndex(a, i) # PlayIndex(a, j)
  <2> DEFINE Like(n) == {x \in 1 .. n : /\ Row(a, x).member = "plays" /\ Kept(a, x)
                                       /\ Row(a, x).game = Row(a, n).game}
  <2>1. Like(i) \subseteq 1 .. i /\ Like(i) \subseteq Like(j) /\ Like(j) \subseteq 1 .. j
        /\ j \in Like(j)
    BY <1>1, <1>3
  <2>2. Cardinality(Like(i)) # Cardinality(Like(j))
    <3> HIDE DEF Like
    <3>1. QED
      BY <1>1, <2>1, CountsDiffer
  <2>3. QED
    BY <2>2 DEF PlayIndex
<1>4. QED
  BY <1>2, <1>3

\* An archive has one value for a key.
LEMMA OneValueForAKey ==
  ASSUME NEW a \in DOMAIN Archives, NEW i \in DOMAIN Archives[a], NEW j \in DOMAIN Archives[a],
         Kept(a, i), Kept(a, j), NEW table, NEW key,
         EntryOf(a, i, table, key), EntryOf(a, j, table, key)
  PROVE  Row(a, i).value = Row(a, j).value
<1>1. Row(a, i) \in AllRows /\ Row(a, j) \in AllRows /\ i \in Nat /\ j \in Nat
  BY RowsAre
<1>2. CASE table = "status"
  <2>1. /\ Row(a, i).member = "gameinfo" /\ Row(a, j).member = "gameinfo"
        /\ Row(a, i).game = Row(a, j).game
    BY <1>2 DEF EntryOf
  <2>2. Row(a, i).regular /\ Row(a, j).regular
    BY <2>1 DEF Kept, GameIsKept
  <2>3. Row(a, i).teams = Row(a, j).teams
    BY <1>1, <2>1, <2>2, LinesAssumption
  <2>4. QED
    BY <2>1, <2>3, LinesAssumption DEF Row
<1>3. CASE table \in {"team", "lineup"}
  <2>1. /\ Row(a, i).member = "teamstats" /\ Row(a, j).member = "teamstats"
        /\ Row(a, i).game = Row(a, j).game /\ Row(a, i).teams = Row(a, j).teams
    BY <1>3 DEF EntryOf
  <2>2. QED
    BY <2>1, LinesAssumption DEF Row
<1>4. CASE table \in {"batting", "pitching", "fielding"}
  <2>1. /\ Row(a, i).member = table /\ Row(a, j).member = table
        /\ key = <<Row(a, i).game, Row(a, i).teams, Row(a, i).player, Stint(a, i)>>
        /\ key = <<Row(a, j).game, Row(a, j).teams, Row(a, j).player, Stint(a, j)>>
    BY <1>4 DEF EntryOf
  <2>2. /\ Row(a, i).game = Row(a, j).game /\ Row(a, i).teams = Row(a, j).teams
        /\ Row(a, i).player = Row(a, j).player /\ Stint(a, i) = Stint(a, j)
    BY <2>1
  <2>3. i = j
    BY <1>1, <2>1, <2>2, StintsDiffer
  <2>4. QED
    BY <2>3
<1>5. CASE table = "play"
  <2>1. /\ Row(a, i).member = "plays" /\ Row(a, j).member = "plays"
        /\ key = <<Row(a, i).game, PlayIndex(a, i)>> /\ key = <<Row(a, j).game, PlayIndex(a, j)>>
    BY <1>5 DEF EntryOf, PlayOf
  <2>2. Row(a, i).game = Row(a, j).game /\ PlayIndex(a, i) = PlayIndex(a, j)
    BY <2>1
  <2>3. i = j
    BY <1>1, <2>1, <2>2, StintsDiffer
  <2>4. QED
    BY <2>3
<1>6. QED
  BY <1>2, <1>3, <1>4, <1>5 DEF EntryOf

\* Which calls record evidence, and of what.
EvidenceCalls == {"statuses", "teamSnapshots", "lineups", "playerSnapshots", "revisions"}

LEMMA EvidenceCallsAre ==
  ASSUME NEW a \in DOMAIN Archives, NEW s \in Program[a], s.do \in EvidenceCalls
  PROVE  /\ s.do = "statuses" => s.member = "gameinfo"
         /\ s.do \in {"teamSnapshots", "lineups"} => s.member = "teamstats"
         /\ s.do = "playerSnapshots" => s.member \in {"batting", "pitching", "fielding"}
         /\ s.do = "revisions" => s.member = "plays"
<1>1. PICK m \in DOMAIN Members \ {1} : IsCall(s, a, m, 1, Calls(Members[m]))
  <2>1. s # Step(<<Len(Members) + 1, 1, 0, 0>>, "manifest", "none", {})
    BY DEF Step, EvidenceCalls
  <2>2. s # Step(<<1, 3, 0, 0>>, "exclude", "allplayers", SeasonsOf(a, "allplayers"))
    BY DEF Step, EvidenceCalls
  <2>3. s # Step(<<2, 2, 0, 0>>, "through", "gameinfo", {})
    BY DEF Step, EvidenceCalls
  <2>4. ~IsCall(s, a, 1, 1, <<"open", "team">>)
    BY DEF IsCall, EvidenceCalls
  <2>5. ~IsCall(s, a, 1, 4, <<"names", "canonical", "mappings", "complete">>)
    BY DEF IsCall, EvidenceCalls
  <2>6. s # Step(<<1, 2, 0, 0>>, "known", "allplayers", {})
    BY DEF Step, EvidenceCalls
  <2>7. QED
    BY <2>1, <2>2, <2>3, <2>4, <2>5, <2>6, ProgramIs
<1>2. PICK k \in DOMAIN Calls(Members[m]) : s.do = Calls(Members[m])[k] /\ s.member = Members[m]
  BY <1>1, CallIs, CallsAreNumbered
<1>3. Members[m] \in {"gameinfo", "teamstats", "plays", "batting", "pitching", "fielding"}
  BY MembersAre
<1>4. CASE Members[m] = "gameinfo"
  BY <1>2, <1>4 DEF Calls, EvidenceCalls
<1>5. CASE Members[m] = "teamstats"
  BY <1>2, <1>5 DEF Calls, EvidenceCalls
<1>6. CASE Members[m] = "plays"
  BY <1>2, <1>6 DEF Calls, EvidenceCalls
<1>7. CASE Members[m] \in {"batting", "pitching", "fielding"}
  BY <1>2, <1>7 DEF Calls, EvidenceCalls
<1>8. QED
  BY <1>3, <1>4, <1>5, <1>6, <1>7

\* One more revision, of another value and another run.
LEMMA NumberedGrows ==
  ASSUME NEW C, Numbered(C), NEW x, x.revision = Cardinality(C) + 1,
         \A e \in C : e.value # x.value /\ e.run # x.run
  PROVE  Numbered(C \cup {x})
<1>1. IsFiniteSet(C) /\ Cardinality(C) \in Nat
  BY FS_CardinalityType DEF Numbered
<1>2. \A e \in C : e.revision \in 1 .. Cardinality(C)
  BY DEF Numbered
<1>3. x \notin C
  BY <1>1, <1>2
<1>4. PICK D : D = C \cup {x}
  OBVIOUS
<1>5. IsFiniteSet(D) /\ Cardinality(D) = Cardinality(C) + 1
  BY <1>1, <1>3, <1>4, FS_AddElement
<1>6. \A e \in D : e.revision \in 1 .. Cardinality(D)
  BY <1>1, <1>2, <1>4, <1>5
<1>7. \A k \in 1 .. Cardinality(D) : \E e \in D : e.revision = k
  <2>1. ASSUME NEW k \in 1 .. Cardinality(D)
        PROVE  \E e \in D : e.revision = k
    <3>1. CASE k = Cardinality(D)
      BY <1>4, <1>5, <3>1
    <3>2. CASE k # Cardinality(D)
      <4>1. k \in 1 .. Cardinality(C)
        BY <1>1, <1>5, <3>2
      <4>2. QED
        BY <1>4, <4>1 DEF Numbered
    <3>3. QED
      BY <3>1, <3>2
  <2>2. QED
    BY <2>1
<1>8. \A e, other \in D :
        e = other \/ (e.revision # other.revision /\ e.value # other.value /\ e.run # other.run)
  <2>1. \A e \in C : e.revision # x.revision /\ e.value # x.value /\ e.run # x.run
    BY <1>1, <1>2
  <2>2. QED
    BY <1>4, <2>1 DEF Numbered
<1>9. QED
  BY <1>4, <1>5, <1>6, <1>7, <1>8 DEF Numbered

LEMMA NothingIsNumbered == Numbered({})
<1>1. IsFiniteSet({}) /\ Cardinality({}) = 0
  BY FS_EmptySet
<1>2. QED
  BY <1>1 DEF Numbered

\* What a call is about to record is of a row of the archive.
StemsHere(e) ==
  \E i \in PendingRows : \E table, key :
     e = Entry(table, key, Row(op.archive, i).value) /\ EntryOf(op.archive, i, table, key)

LEMMA NewStems ==
  ASSUME BootInv, StoreInv, op.place = "persist", NEW e, StemsHere(e)
  PROVE  /\ DOMAIN e = EntryFields /\ e.run = op.run /\ StemsFrom(op.archive, e)
         /\ op.archive \in DOMAIN Archives /\ op.run \in StatsRuns
         /\ HasDataset(Run) /\ op.archive = Run.dataset.archive
<1>1. PICK i \in PendingRows : \E table, key :
        e = Entry(table, key, Row(op.archive, i).value) /\ EntryOf(op.archive, i, table, key)
  BY DEF StemsHere
<1>2. PICK table, key :
        e = Entry(table, key, Row(op.archive, i).value) /\ EntryOf(op.archive, i, table, key)
  BY <1>1
<1>3. /\ op.archive \in DOMAIN Archives /\ op.run \in StatsRuns
      /\ i \in DOMAIN Archives[op.archive] /\ Kept(op.archive, i)
  BY SkippedAreStored, PendingAre
<1>4. /\ DOMAIN e = EntryFields /\ e.run = op.run
      /\ e.table = table /\ e.key = key /\ e.value = Row(op.archive, i).value
  BY <1>2 DEF Entry, EntryFields
<1>5. StemsFrom(op.archive, e)
  BY <1>2, <1>3, <1>4 DEF StemsFrom
<1>6. HasDataset(Run) /\ op.archive = Run.dataset.archive
  BY DEF StoreInv, OpStores, Captured, HasDataset
<1>7. QED
  BY <1>3, <1>4, <1>5, <1>6

\* What stems from one archive has one value for a key.
LEMMA OneValue ==
  ASSUME NEW a \in DOMAIN Archives, NEW e, NEW other, StemsFrom(a, e), StemsFrom(a, other),
         e.table = other.table, e.key = other.key
  PROVE  e.value = other.value
<1>1. PICK i \in DOMAIN Archives[a] : /\ Kept(a, i) /\ EntryOf(a, i, e.table, e.key)
                                      /\ e.value = Row(a, i).value
  BY DEF StemsFrom
<1>2. PICK j \in DOMAIN Archives[a] : /\ Kept(a, j) /\ EntryOf(a, j, e.table, e.key)
                                      /\ other.value = Row(a, j).value
  BY DEF StemsFrom
<1>3. QED
  BY <1>1, <1>2, OneValueForAKey

\* No run corrects what it recorded itself.
LEMMA NewIsOfAnotherRun ==
  ASSUME BootInv, StoreInv, ChainInv, op.place = "persist", NEW e, StemsHere(e),
         NEW old \in Chain(facts, e.table, e.key), old.value # e.value
  PROVE  old.run # op.run
<1>1. old \in facts.evidence /\ old.table = e.table /\ old.key = e.key
  BY DEF Chain
<1>2. EvidenceIs(facts, runs, old)
  BY <1>1 DEF ChainInv
<1>3. ASSUME old.run = op.run
      PROVE  FALSE
  <2>1. StemsFrom(op.archive, old)
    BY <1>2, <1>3, NewStems DEF EvidenceIs, Run
  <2>2. QED
    BY <1>1, <2>1, NewStems, OneValue
<1>4. QED
  BY <1>3

\* A batch has one value for a key, and so one revision.
LEMMA NewIsOne ==
  ASSUME BootInv, StoreInv, op.place = "persist", NEW e, StemsHere(e), NEW other, StemsHere(other),
         e.table = other.table, e.key = other.key
  PROVE  e = other
<1>1. e.value = other.value
  BY NewStems, OneValue
<1>2. PICK table, key, value, table2, key2, value2 :
        e = Entry(table, key, value) /\ other = Entry(table2, key2, value2)
  BY DEF StemsHere
<1>3. table = table2 /\ key = key2 /\ value = value2
  BY <1>1, <1>2, EntriesAre
<1>4. QED
  BY <1>2, <1>3

LEMMA ChainsAreNumbered ==
  ASSUME ChainInv, NEW table, NEW key
  PROVE  Numbered(Chain(facts, table, key))
<1>1. CASE Chain(facts, table, key) = {}
  BY <1>1, NothingIsNumbered
<1>2. ASSUME NEW e \in Chain(facts, table, key)
      PROVE  Numbered(Chain(facts, table, key))
  <2>1. e \in facts.evidence /\ e.table = table /\ e.key = key
    BY DEF Chain
  <2>2. QED
    BY <2>1 DEF ChainInv, EvidenceIs
<1>3. QED
  BY <1>1, <1>2

LEMMA NewEvidenceIs ==
  ASSUME NEW entries, \A e \in entries : DOMAIN e = EntryFields, NEW x \in NewEvidence(facts, entries)
  PROVE  \E e \in entries :
           /\ x = [e EXCEPT !.revision = Cardinality(Chain(facts, e.table, e.key)) + 1]
           /\ x.table = e.table /\ x.key = e.key /\ x.value = e.value /\ x.run = e.run
           /\ x.revision = Cardinality(Chain(facts, e.table, e.key)) + 1
           /\ \A old \in Chain(facts, e.table, e.key) : old.value # e.value
BY DEF NewEvidence, EntryFields

\* A step that records entries.
Records(entries) ==
  /\ op.place = "persist" /\ \A e \in entries : StemsHere(e)
  /\ facts'.evidence = facts.evidence \cup NewEvidence(facts, entries)

LEMMA ChainsGrow ==
  ASSUME BootInv, StoreInv, ChainInv, NEW entries, Records(entries), NEW table, NEW key
  PROVE  Numbered(Chain(facts', table, key))
<1>1. facts'.evidence = facts.evidence \cup NewEvidence(facts, entries)
  BY DEF Records
<1>2. op.place = "persist" /\ \A e \in entries : StemsHere(e) /\ DOMAIN e = EntryFields /\ e.run = op.run
  BY NewStems DEF Records
<1>3. CASE \A x \in NewEvidence(facts, entries) : x.table # table \/ x.key # key
  <2>1. Chain(facts', table, key) = Chain(facts, table, key)
    BY <1>1, <1>3 DEF Chain
  <2>2. QED
    BY <2>1, ChainsAreNumbered
<1>4. ASSUME NEW x \in NewEvidence(facts, entries), x.table = table, x.key = key
      PROVE  Numbered(Chain(facts', table, key))
  <2>1. PICK e \in entries :
          /\ x = [e EXCEPT !.revision = Cardinality(Chain(facts, e.table, e.key)) + 1]
          /\ e.table = table /\ e.key = key /\ x.value = e.value /\ x.run = e.run
          /\ x.revision = Cardinality(Chain(facts, table, key)) + 1
          /\ \A old \in Chain(facts, table, key) : old.value # e.value
    BY <1>2, <1>4, NewEvidenceIs
  <2>2. ASSUME NEW y \in NewEvidence(facts, entries), y.table = table, y.key = key
        PROVE  y = x
    <3>1. PICK other \in entries :
            /\ y = [other EXCEPT !.revision =
                      Cardinality(Chain(facts, other.table, other.key)) + 1]
            /\ other.table = table /\ other.key = key
      BY <1>2, <2>2, NewEvidenceIs
    <3>2. other = e
      BY <1>2, <2>1, <3>1, NewIsOne
    <3>3. QED
      BY <2>1, <3>1, <3>2
  <2>3. Chain(facts', table, key) = Chain(facts, table, key) \cup {x}
    BY <1>1, <1>4, <2>2 DEF Chain
  <2>4. \A old \in Chain(facts, table, key) : old.value # x.value /\ old.run # x.run
    BY <1>2, <2>1, NewIsOfAnotherRun
  <2>5. PICK chain : chain = Chain(facts, table, key)
    OBVIOUS
  <2>6. Numbered(chain) /\ x.revision = Cardinality(chain) + 1
        /\ \A old \in chain : old.value # x.value /\ old.run # x.run
    BY <2>1, <2>4, <2>5, ChainsAreNumbered
  <2>7. Numbered(chain \cup {x})
    BY <2>6, NumberedGrows
  <2>8. QED
    BY <2>3, <2>5, <2>7
<1>5. QED
  BY <1>3, <1>4

-----------------------------------------------------------------------------
\* The steps that record evidence.
LEMMA StatusesRecord ==
  ASSUME BootInv, StoreInv, RecordStatuses
  PROVE  \E entries : Records(entries)
<1> DEFINE Key(i) == <<Row(op.archive, i).game, {}>>
<1>1. op.place = "persist" /\ op.step.do = "statuses" /\ op.step.do \in EvidenceCalls
  BY DEF RecordStatuses, Doing, Here, EvidenceCalls
<1>2. PICK entries : entries = {Entry("status", Key(i), Row(op.archive, i).value) :
                                  i \in PendingRows}
  OBVIOUS
<1>3. facts' = Recorded(facts, entries)
  BY <1>2 DEF RecordStatuses, Call, CallThen
<1>4. ASSUME NEW i \in PendingRows
      PROVE  EntryOf(op.archive, i, "status", Key(i))
  <2>1. op.archive \in DOMAIN Archives /\ op.step \in Program[op.archive]
    BY <1>1, SkippedAreStored
  <2>2. Row(op.archive, i).member = "gameinfo"
    BY <1>1, <2>1, PendingAre, EvidenceCallsAre
  <2>3. QED
    BY <2>2 DEF EntryOf
<1> HIDE DEF Key
<1>5. \A e \in entries : StemsHere(e)
  BY <1>2, <1>4 DEF StemsHere
<1>6. QED
  BY <1>1, <1>3, <1>5, BootIsTyped, FieldsOfBoot DEF Records, Recorded

LEMMA LinesRecord ==
  ASSUME BootInv, StoreInv, RecordTeamSnapshots \/ RecordLineups, facts' # facts
  PROVE  \E entries : Records(entries)
<1>1. /\ op.place = "persist" /\ op.step.do \in {"teamSnapshots", "lineups"}
      /\ op.step.do \in EvidenceCalls
  BY DEF RecordTeamSnapshots, RecordLineups, Doing, Here, EvidenceCalls
<1>2. PICK table \in {"team", "lineup"}, rows \in SUBSET PendingRows :
        facts' = Recorded(facts, {Entry(table, LineKey(i), Row(op.archive, i).value) : i \in rows})
  <2>1. CASE RecordTeamSnapshots
    BY <2>1 DEF RecordTeamSnapshots, Call, CallThen
  <2>2. CASE RecordLineups
    <3>1. NewLineups \subseteq PendingRows
      BY DEF NewLineups
    <3>2. QED
      BY <2>2, <3>1 DEF RecordLineups, CallThen, Fails
  <2>3. QED
    BY <2>1, <2>2
<1>3. PICK entries : entries = {Entry(table, LineKey(i), Row(op.archive, i).value) : i \in rows}
  OBVIOUS
<1>4. ASSUME NEW i \in PendingRows
      PROVE  EntryOf(op.archive, i, table, LineKey(i))
  <2>1. op.archive \in DOMAIN Archives /\ op.step \in Program[op.archive]
    BY <1>1, SkippedAreStored
  <2>2. Row(op.archive, i).member = "teamstats"
    BY <1>1, <2>1, PendingAre, EvidenceCallsAre
  <2>3. QED
    BY <2>2 DEF EntryOf, LineKey
<1>5. \A e \in entries : StemsHere(e)
  BY <1>3, <1>4 DEF StemsHere
<1>6. QED
  BY <1>1, <1>2, <1>3, <1>5, BootIsTyped, FieldsOfBoot DEF Records, Recorded

LEMMA PlayerSnapshotsRecord ==
  ASSUME BootInv, StoreInv, RecordPlayerSnapshots
  PROVE  \E entries : Records(entries)
<1> DEFINE Key(i) == <<Row(op.archive, i).game, Row(op.archive, i).teams,
                       Row(op.archive, i).player, Stint(op.archive, i)>>
<1>1. op.place = "persist" /\ op.step.do = "playerSnapshots" /\ op.step.do \in EvidenceCalls
  BY DEF RecordPlayerSnapshots, Doing, Here, EvidenceCalls
<1>2. PICK entries : entries = {Entry(Here.member, Key(i), Row(op.archive, i).value) :
                                  i \in PendingRows}
  OBVIOUS
<1>3. facts' = Recorded(facts, entries)
  BY <1>2 DEF RecordPlayerSnapshots, Call, CallThen
<1>4. ASSUME NEW i \in PendingRows
      PROVE  EntryOf(op.archive, i, Here.member, Key(i))
  <2>1. op.archive \in DOMAIN Archives /\ op.step \in Program[op.archive]
    BY <1>1, SkippedAreStored
  <2>2. op.step.member \in {"batting", "pitching", "fielding"}
    BY <1>1, <2>1, EvidenceCallsAre
  <2>3. Row(op.archive, i).member = op.step.member
    BY <1>1, PendingAre
  <2>4. QED
    BY <2>2, <2>3 DEF EntryOf, Here
<1> HIDE DEF Key
<1>5. \A e \in entries : StemsHere(e)
  BY <1>2, <1>4 DEF StemsHere
<1>6. QED
  BY <1>1, <1>3, <1>5, BootIsTyped, FieldsOfBoot DEF Records, Recorded

LEMMA PlayRevisionsRecord ==
  ASSUME BootInv, StoreInv, RecordPlayRevisions, facts' # facts
  PROVE  \E entries : Records(entries)
<1>1. op.place = "persist" /\ op.step.do = "revisions" /\ op.step.do \in EvidenceCalls
  BY DEF RecordPlayRevisions, Doing, Here, EvidenceCalls
<1>2. PICK entries : entries = PlayEntries(PendingRows)
  OBVIOUS
<1>3. facts' = Recorded(facts, entries)
  BY <1>2 DEF RecordPlayRevisions, CallThen, Fails
<1>4. ASSUME NEW i \in PendingRows
      PROVE  EntryOf(op.archive, i, "play", PlayOf(op.archive, i))
  <2>1. op.archive \in DOMAIN Archives /\ op.step \in Program[op.archive]
    BY <1>1, SkippedAreStored
  <2>2. Row(op.archive, i).member = "plays"
    BY <1>1, <2>1, PendingAre, EvidenceCallsAre
  <2>3. QED
    BY <2>2 DEF EntryOf
<1>5. \A e \in entries : StemsHere(e)
  BY <1>2, <1>4 DEF StemsHere, PlayEntries
<1>6. QED
  BY <1>1, <1>3, <1>5, BootIsTyped, FieldsOfBoot DEF Records, Recorded

\* The other calls write other tables.
LEMMA OtherCallsRecordNone ==
  ASSUME BootInv,
         \/ UpsertTeam \/ UpsertPlayers \/ RecordCanonicalPlayers \/ RecordPlayerMappings
         \/ EnsurePlayer \/ ResolvePlayer \/ EnsureCanonical \/ EnsureMapping
         \/ UpsertGames \/ LinkGames \/ UpsertPlays \/ RecordExcluded
  PROVE  facts'.evidence = facts.evidence
<1>1. CASE Fails
  BY <1>1 DEF Fails
<1>2. CASE (UpsertTeam \/ EnsurePlayer \/ EnsureCanonical) /\ ~Fails
  <2>1. \/ facts' = facts
        \/ \E t : facts' = [facts EXCEPT !.teams[t] = op.at]
        \/ \E p, x : facts' = [facts EXCEPT !.names[p] = x, !.seen[p] = op.at]
        \/ \E p, x : facts' = [facts EXCEPT !.canonical[p] = x]
    <3>1. CASE UpsertTeam
      BY <1>2, <3>1 DEF UpsertTeam
    <3>2. CASE EnsurePlayer
      BY <1>2, <3>2 DEF EnsurePlayer
    <3>3. CASE EnsureCanonical
      BY <1>2, <3>3 DEF EnsureCanonical
    <3>4. QED
      BY <1>2, <3>1, <3>2, <3>3
  <2>2. QED
    BY <2>1, BootIsTyped, FieldsOfBoot
<1>3. CASE ResolvePlayer \/ EnsureMapping
  <2>1. facts' = facts \/ \E more : facts' = [facts EXCEPT !.mapped = @ \cup more]
    BY <1>3 DEF ResolvePlayer, EnsureMapping
  <2>2. QED
    BY <2>1, BootIsTyped, FieldsOfBoot
<1>4. CASE (RecordPlayerMappings \/ LinkGames \/ RecordExcluded) /\ ~Fails
  <2>1. \/ \E more : facts' = [facts EXCEPT !.mapped = @ \cup more]
        \/ \E more : facts' = [facts EXCEPT !.links = @ \cup more]
        \/ \E more : facts' = [facts EXCEPT !.excluded = @ \cup more]
    BY <1>4 DEF RecordPlayerMappings, LinkGames, RecordExcluded, Call, CallThen
  <2>2. QED
    BY <2>1, BootIsTyped, FieldsOfBoot
<1>5. CASE UpsertPlayers /\ ~Fails
  <2>1. PICK names, seen :
          /\ names = [p \in Players |-> IF p \in NewPlayers
                                        THEN DisplayName(op.archive, p) ELSE facts.names[p]]
          /\ seen = [p \in Players |-> IF p \in NewPlayers THEN op.at ELSE facts.seen[p]]
    OBVIOUS
  <2>2. facts' = [facts EXCEPT !.names = names, !.seen = seen]
    BY <1>5, <2>1 DEF UpsertPlayers, Call, CallThen
  <2>3. QED
    BY <2>2, BootIsTyped, FieldsOfBoot
<1>6. CASE RecordCanonicalPlayers /\ ~Fails
  <2>1. PICK canonical :
          canonical = [p \in Players |-> IF p \in NewPlayers \ op.canonical
                                         THEN <<op.run, op.at>> ELSE facts.canonical[p]]
    OBVIOUS
  <2>2. facts' = [facts EXCEPT !.canonical = canonical]
    BY <1>6, <2>1 DEF RecordCanonicalPlayers, CallThen
  <2>3. QED
    BY <2>2, BootIsTyped, FieldsOfBoot
<1>7. CASE UpsertGames /\ ~Fails
  <2>1. PICK times : times = [g \in Games |-> IF g \in GamesOfStep THEN op.at ELSE facts.games[g]]
    OBVIOUS
  <2>2. facts' = [facts EXCEPT !.games = times]
    BY <1>7, <2>1 DEF UpsertGames, Call, CallThen
  <2>3. QED
    BY <2>2, BootIsTyped, FieldsOfBoot
<1>8. CASE UpsertPlays /\ ~Fails
  <2>1. PICK times : times = [y \in Plays |-> IF y \in PlaysOfStep THEN op.at ELSE facts.plays[y]]
    OBVIOUS
  <2>2. facts' = [facts EXCEPT !.plays = times]
    BY <1>8, <2>1 DEF UpsertPlays, Call, CallThen
  <2>3. QED
    BY <2>2, BootIsTyped, FieldsOfBoot
<1>9. QED
  BY <1>1, <1>2, <1>3, <1>4, <1>5, <1>6, <1>7, <1>8

LEMMA EvidenceIsRecorded ==
  ASSUME BootInv, StoreInv, [StorageNext]_storageVars
  PROVE  facts'.evidence = facts.evidence \/ \E entries : Records(entries)
<1>1. CASE \/ OpenRegister \/ PersistRegister \/ CompleteRegister
           \/ OpenDataset \/ PersistMember \/ CompleteDataset
           \/ OpenSeason \/ ReadCanonicalPlayers \/ CheckThroughSeason \/ ReadLatestRevisions
           \/ CompleteSeason \/ CompleteManifest \/ ReadInventory \/ CompleteInventory \/ Finalize
  BY <1>1 DEF OpenRegister, PersistRegister, CompleteRegister, OpenDataset, PersistMember,
     CompleteDataset, OpenSeason, ReadCanonicalPlayers, CheckThroughSeason,
     ReadLatestRevisions, CompleteSeason, CompleteManifest, ReadInventory, CompleteInventory,
     Finalize, Fails, Remembers
<1>2. CASE \/ RecordStatuses \/ RecordTeamSnapshots \/ RecordLineups
           \/ RecordPlayerSnapshots \/ RecordPlayRevisions
  BY <1>2, StatusesRecord, LinesRecord, PlayerSnapshotsRecord, PlayRevisionsRecord
<1>3. CASE Bootstrap
  BY <1>1, <1>2, <1>3, OtherCallsRecordNone DEF Bootstrap
<1>4. CASE Pin
  BY <1>4 DEF Pin, FindEvidence, CapturePinned, CompareInventories, SettlePin, Fails
<1>5. CASE \/ TakesTurns \/ Dies \/ CallRaises \/ UNCHANGED bootVars
           \/ \E r \in StatsRuns : \/ Start(r) \/ Resume(r) \/ ResumePin(r)
                                   \/ \E source \in StatsRuns : StartPin(r, source)
  BY <1>5 DEF TakesTurns, Turn, Dies, CallRaises, bootVars, Start, Resume, ResumePin, StartPin
<1>6. QED
  BY <1>3, <1>4, <1>5 DEF StorageNext, storageVars, bootVars, Commands

\* The archive of a dataset checkpoint that is completed is not replaced.
LEMMA OtherRowsStay ==
  ASSUME BootInv, NEW x, NEW y, NEW r,
         \/ UNCHANGED runs
         \/ runs' = [runs EXCEPT ![r].register = x]
         \/ runs' = [runs EXCEPT ![r].open = x]
         \/ runs' = [runs EXCEPT ![r].done = x]
         \/ runs' = [runs EXCEPT ![r].manifest = x]
         \/ runs' = [runs EXCEPT ![r].inventory = x]
         \/ runs' = [runs EXCEPT ![r].status = x]
         \/ runs' = [runs EXCEPT ![r].status = x, ![r].kind = "pin", ![r].source = y]
  PROVE  \A q \in StatsRuns : runs'[q].dataset = runs[q].dataset
BY FieldsOfBoot, BootIsTyped

LEMMA DatasetsStay ==
  ASSUME BootInv, StoreInv, [StorageNext]_storageVars
  PROVE  \A r \in StatsRuns : HasDataset(runs[r]) => runs'[r].dataset = runs[r].dataset
<1>1. CASE OpenDataset \/ PersistMember \/ CompleteDataset
  <2>1. op.run \in StatsRuns /\ op.place \in {"dataset", "raw"} /\ op.place # "idle"
    BY <1>1, BootIsTyped DEF OpenDataset, PersistMember, CompleteDataset
  <2>2. op.place = "raw" => ~HasDataset(Run)
    BY <2>1 DEF StoreInv, OpStores, HasDataset
  <2>3. runs' = runs \/ (~HasDataset(Run) /\ \E dataset : runs' = [runs EXCEPT ![op.run].dataset = dataset])
    <3>1. CASE OpenDataset
      BY <3>1 DEF OpenDataset, HasDataset, Run
    <3>2. CASE PersistMember \/ CompleteDataset
      BY <2>2, <3>2 DEF PersistMember, CompleteDataset, HasDataset, Run
    <3>3. QED
      BY <1>1, <3>1, <3>2
  <2>4. QED
    BY <2>1, <2>3, FieldsOfBoot, BootIsTyped DEF Run
<1>2. CASE Fails \/ CallRaises \/ Dies \/ UNCHANGED bootVars \/ TakesTurns
  <2>1. UNCHANGED runs \/ runs' = [runs EXCEPT ![op.run].status = "failed"]
    BY <1>2 DEF Fails, CallRaises, Dies, bootVars, TakesTurns, Turn
  <2>2. QED
    BY <2>1, OtherRowsStay
<1>3. CASE (OpenRegister \/ PersistRegister \/ CompleteRegister) /\ ~Fails
  <2>1. UNCHANGED runs \/ \E register : runs' = [runs EXCEPT ![op.run].register = register]
    BY <1>3 DEF OpenRegister, PersistRegister, CompleteRegister
  <2>2. QED
    BY <2>1, OtherRowsStay
<1>4. CASE \/ OpenSeason \/ CompleteSeason \/ CompleteManifest \/ ReadInventory
           \/ CompleteInventory \/ Finalize
  <2>1. \/ Fails \/ UNCHANGED runs
        \/ \E x : \/ runs' = [runs EXCEPT ![op.run].open = x]
                  \/ runs' = [runs EXCEPT ![op.run].done = x]
                  \/ runs' = [runs EXCEPT ![op.run].manifest = x]
                  \/ runs' = [runs EXCEPT ![op.run].inventory = x]
                  \/ runs' = [runs EXCEPT ![op.run].status = x]
    BY <1>4 DEF OpenSeason, CompleteSeason, CompleteManifest, ReadInventory, CompleteInventory,
       Finalize
  <2>2. QED
    BY <1>2, <2>1, OtherRowsStay
<1>5. CASE Bootstrap /\ ~(\/ OpenDataset \/ PersistMember \/ CompleteDataset
                          \/ OpenRegister \/ PersistRegister \/ CompleteRegister
                          \/ OpenSeason \/ CompleteSeason \/ CompleteManifest \/ ReadInventory
                          \/ CompleteInventory \/ Finalize)
  <2>1. Fails \/ UNCHANGED runs
    <3>1. CASE \/ UpsertTeam \/ EnsurePlayer \/ ResolvePlayer \/ EnsureCanonical \/ EnsureMapping
               \/ ReadCanonicalPlayers \/ CheckThroughSeason \/ ReadLatestRevisions
      BY <3>1 DEF UpsertTeam, EnsurePlayer, ResolvePlayer, EnsureCanonical, EnsureMapping,
         ReadCanonicalPlayers, CheckThroughSeason, ReadLatestRevisions, Remembers
    <3>2. CASE \/ UpsertPlayers \/ RecordCanonicalPlayers \/ RecordPlayerMappings
               \/ UpsertGames \/ RecordStatuses \/ LinkGames \/ RecordTeamSnapshots
               \/ RecordLineups \/ RecordPlayerSnapshots \/ UpsertPlays
               \/ RecordPlayRevisions \/ RecordExcluded
      <4>1. \E accepted, result, memory : CallThen(accepted, result, memory)
        BY <3>2 DEF UpsertPlayers, RecordCanonicalPlayers, RecordPlayerMappings, UpsertGames,
           RecordStatuses, LinkGames, RecordTeamSnapshots, RecordLineups,
           RecordPlayerSnapshots, UpsertPlays, RecordPlayRevisions, RecordExcluded, Call
      <4>2. QED
        BY <4>1 DEF CallThen
    <3>3. QED
      BY <1>5, <3>1, <3>2 DEF Bootstrap
  <2>2. QED
    BY <1>2, <2>1, OtherRowsStay
<1>6. CASE Bootstrap
  BY <1>1, <1>2, <1>3, <1>4, <1>5, <1>6
<1>7. CASE Pin
  <2>1. CASE (FindEvidence \/ CompareInventories \/ SettlePin) /\ ~Fails
    <3>1. \E x : \/ runs' = [runs EXCEPT ![op.run].register = x]
                 \/ runs' = [runs EXCEPT ![op.run].status = x]
      BY <2>1 DEF FindEvidence, CompareInventories, SettlePin
    <3>2. QED
      BY <3>1, OtherRowsStay
  <2>2. CASE CapturePinned
    <3>1. PICK content : runs' = [runs EXCEPT ![op.run].register.raws = @ + 1,
                                              ![op.run].register.content = content]
      BY <2>2 DEF CapturePinned
    <3>2. QED
      BY <3>1, FieldsOfBoot, BootIsTyped
  <2>3. QED
    BY <1>2, <1>7, <2>1, <2>2 DEF Pin
<1>8. ASSUME NEW r \in StatsRuns,
             \/ Start(r) \/ Resume(r) \/ ResumePin(r)
             \/ \E source \in StatsRuns : StartPin(r, source)
      PROVE  \A q \in StatsRuns : HasDataset(runs[q]) => runs'[q].dataset = runs[q].dataset
  <2>1. \/ UNCHANGED runs
        \/ runs' = [runs EXCEPT ![r].status = "running"]
        \/ \E source : runs' = [runs EXCEPT ![r].status = "running", ![r].kind = "pin",
                                            ![r].source = source]
    BY <1>8 DEF Start, Resume, ResumePin, StartPin
  <2>2. QED
    BY <2>1, OtherRowsStay
<1>9. QED
  BY <1>2, <1>6, <1>7, <1>8 DEF StorageNext, storageVars, bootVars, Commands

LEMMA ChainsContinue ==
  ASSUME BootInv, StoreInv, ChainInv, [StorageNext]_storageVars
  PROVE  ChainInv'
<1>1. ASSUME NEW e \in facts.evidence, Numbered(Chain(facts', e.table, e.key))
      PROVE  EvidenceIs(facts', runs', e)
  BY <1>1, DatasetsStay DEF ChainInv, EvidenceIs, HasDataset
<1>2. CASE facts'.evidence = facts.evidence
  <2>1. \A table, key : Chain(facts', table, key) = Chain(facts, table, key)
    BY <1>2 DEF Chain
  <2>2. QED
    BY <1>1, <1>2, <2>1, ChainsAreNumbered DEF ChainInv
<1>3. ASSUME NEW entries, Records(entries)
      PROVE  ChainInv'
  <2>1. \A table, key : Numbered(Chain(facts', table, key))
    BY <1>3, ChainsGrow
  <2>2. ASSUME NEW x \in NewEvidence(facts, entries)
        PROVE  EvidenceIs(facts', runs', x)
    <3>1. op.place = "persist" /\ \A e \in entries : StemsHere(e) /\ DOMAIN e = EntryFields
      BY <1>3, NewStems DEF Records
    <3>2. PICK e \in entries : /\ x.table = e.table /\ x.key = e.key /\ x.value = e.value
                               /\ x.run = e.run
      BY <3>1, NewEvidenceIs
    <3>3. /\ x.run = op.run /\ op.run \in StatsRuns /\ HasDataset(Run)
          /\ StemsFrom(Run.dataset.archive, e)
      BY <3>1, <3>2, NewStems
    <3>4. StemsFrom(Run.dataset.archive, x)
      BY <3>2, <3>3 DEF StemsFrom
    <3>5. HasDataset(runs'[x.run]) /\ runs'[x.run].dataset = Run.dataset
      BY <3>3, DatasetsStay DEF HasDataset, Run
    <3>6. QED
      BY <2>1, <3>3, <3>4, <3>5 DEF EvidenceIs
  <2>3. QED
    BY <1>1, <1>3, <2>1, <2>2 DEF Records, ChainInv
<1>4. QED
  BY <1>2, <1>3, EvidenceIsRecorded

\* The revisions of a thing form one chain, numbered without gaps, no two of one
\* value or of one run: however bootstraps overlap and overtake one another,
\* whatever each had read before others wrote, and wherever one is broken off,
\* resumed or refused.
THEOREM RevisionsStayChained == StorageSpec => []RevisionsAreChained
<1>1. StorageInit => /\ BootInv /\ CaptureInv /\ OthersInv /\ StoreInv /\ WaitingStores
                     /\ ChainInv
  BY BootStarts, CaptureStarts, StoreStarts
  DEF StorageInit, BootInit, OthersInv, WaitingStores, ChainInv, NoFacts
<1>2. BootInv /\ CaptureInv /\ OthersInv /\ StoreInv /\ WaitingStores /\ ChainInv
        /\ [StorageNext]_storageVars
        => (BootInv /\ CaptureInv /\ OthersInv /\ StoreInv /\ WaitingStores /\ ChainInv)'
  BY BootContinues, CaptureContinues, OthersContinue, StoreContinues, WaitingContinues,
     ChainsContinue
<1>3. ChainInv => RevisionsAreChained
  <2>1. ASSUME ChainInv, NEW e \in facts.evidence, NEW other \in facts.evidence,
               e.table = other.table, e.key = other.key
        PROVE  /\ e = other \/ (/\ e.revision # other.revision /\ e.value # other.value
                                /\ e.run # other.run)
               /\ e.revision > 1 =>
                    \E before \in Chain(facts, e.table, e.key) :
                       before.revision = e.revision - 1
    <3>1. PICK chain : chain = Chain(facts, e.table, e.key)
      OBVIOUS
    <3>2. Numbered(chain) /\ e \in chain /\ other \in chain
      BY <2>1, <3>1, ChainsAreNumbered DEF Chain
    <3>3. ASSUME e.revision > 1
          PROVE  \E before \in chain : before.revision = e.revision - 1
      <4>1. Cardinality(chain) \in Nat /\ e.revision \in 1 .. Cardinality(chain)
        BY <3>2, FS_CardinalityType DEF Numbered
      <4>2. e.revision - 1 \in 1 .. Cardinality(chain)
        BY <3>3, <4>1
      <4>3. QED
        BY <3>2, <4>2 DEF Numbered
    <3>4. QED
      BY <3>1, <3>2, <3>3 DEF Numbered
  <2>2. QED
    BY <2>1 DEF RevisionsAreChained
<1>4. QED
  BY <1>1, <1>2, <1>3, PTL DEF StorageSpec

=============================================================================
