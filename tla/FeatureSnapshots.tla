-------------------------- MODULE FeatureSnapshots --------------------------
(***************************************************************************)
(* Feature snapshots (app/stats): an acquisition persists what it          *)
(* collected, reads the evidence known at its cutoff and records features  *)
(* under a checksum of their sources; FeatureMaterializationService        *)
(* records them again for a run that is over, from what the database       *)
(* holds.  Every transaction is one step, every read a step of its own.    *)
(*                                                                         *)
(* All runs are about the same day.  There is one aggregate page and one   *)
(* pitch; a content is the value it stands for, and the response that      *)
(* carried it has the same checksum.  The two rows of a run, its           *)
(* checkpoints and its reconciliation are those of StatsAcquisition.       *)
(***************************************************************************)
EXTENDS Naturals, Sequences, FiniteSets

CONSTANTS Workers,     \* operating system processes
          MaxJobs,     \* bound: runs are numbered in the order of their creation
          Contents,    \* what the providers may serve, for the page and the pitch
          MaxDeaths    \* bound: processes that die

ASSUME FeatureAssumption == MaxJobs \in Nat /\ MaxDeaths \in Nat

VARIABLES history,     \* statcast_pitch_revisions of the pitch, by revision_number
          seasons,     \* stats_season_snapshots: each page and the run that recorded it
          features,    \* stats_feature_snapshots of a player
          jobs,        \* stats_ingestion_runs
          worker,      \* what each process is doing
          ticks,       \* the clock: responses retrieved so far
          deaths
featureVars == <<history, seasons, features, jobs, worker, ticks, deaths>>
featureTables == <<history, seasons, features>>

Nothing == 0
Resting == [at |-> "rest", job |-> Nothing, next |-> 0, known |-> 0, counted |-> 0]
NoJobYet == [kind |-> "none", status |-> "none", source |-> Nothing, page |-> Nothing,
             pitch |-> Nothing, cutoff |-> 0, collected |-> FALSE]

FeatureInit ==
    /\ history = <<>> /\ seasons = {} /\ features = {}
    /\ jobs = [r \in 1..MaxJobs |-> NoJobYet]
    /\ worker = [w \in Workers |-> Resting]
    /\ ticks = 0 /\ deaths = 0

-----------------------------------------------------------------------------
(* What is known, and the row it makes.                                    *)

\* A mutant of KnownAt: the latest revision, whenever it was retrieved.
LatestRevision(cutoff) == Len(history)

\* The highest revision_number among those retrieved by the cutoff, or 0.
KnownAt(cutoff) ==
    LET known == {i \in DOMAIN history : history[i].at <= cutoff}
    IN  IF known = {} THEN 0 ELSE CHOOSE i \in known : \A j \in known : j <= i

\* _known_by: the builders leave out what was not available by the cutoff.
KnownBy(known, cutoff) == known # 0 /\ history[known].at <= cutoff

\* What build_aggregate_player_feature_payloads makes of a page and a revision;
\* the payload, and so feature_checksum, names the knowledge_cutoff.
Payload(page, known, cutoff) ==
    [page |-> page, cutoff |-> cutoff,
     revision |-> IF KnownBy(known, cutoff) THEN known ELSE 0]

\* input_checksum covers the responses of the run and the revision it read.
FeatureRow(r, known) ==
    LET run   == jobs[r]
        pitch == IF known = 0 THEN Nothing ELSE history[known].pitch
    IN  [sources |-> <<run.page, run.pitch, pitch>>,
         payload |-> Payload(run.page, known, run.cutoff),
         by |-> r]

SameSources(row) == {f \in features : f.sources = row.sources}

\* A mutant of Agrees: a row that is there counts, whatever it says.
AgreesAnyhow(row) == TRUE

\* _record_feature_snapshot_on_connection compares all but who recorded it.
Agrees(row) == \A f \in SameSources(row) : f.payload = row.payload

-----------------------------------------------------------------------------
(* Steps of a process.                                                     *)

Stands(w, place) == worker[w].at = place
Steps(w, place) == worker' = [worker EXCEPT ![w].at = place]
Rests(w) == worker' = [worker EXCEPT ![w] = Resting]
JobOf(w) == worker[w].job
MyJob(w) == jobs[JobOf(w)]
FreshJob(r) == jobs[r].kind = "none" /\ \A q \in 1..r - 1 : jobs[q].kind # "none"
AtWork(r) == \E w \in Workers : JobOf(w) = r

\* _fail, and _fail_run: the command ends, its writes stand.
FailsJob(w) == /\ jobs' = [jobs EXCEPT ![JobOf(w)].status = "failed"]
               /\ Rests(w)

\* The responses of an acquisition; the latest of them sets its cutoff.
AcquireResponses(w) ==
    /\ Stands(w, "rest")
    /\ \E r \in DOMAIN jobs, page \in Contents, pitch \in Contents :
          /\ FreshJob(r)
          /\ jobs' = [jobs EXCEPT ![r] = [@ EXCEPT !.kind = "acquisition",
                         !.status = "running", !.page = page, !.pitch = pitch,
                         !.cutoff = ticks + 1]]
          /\ worker' = [worker EXCEPT ![w] = [Resting EXCEPT !.at = "seasons", !.job = r]]
    /\ ticks' = ticks + 1
    /\ UNCHANGED <<featureTables, deaths>>

\* record_season_snapshots: a page that any run recorded is not recorded again.
RecordSeasons(w) ==
    /\ Stands(w, "seasons")
    /\ seasons' = IF \E s \in seasons : s.page = MyJob(w).page THEN seasons
                  ELSE seasons \cup {[page |-> MyJob(w).page, run |-> JobOf(w)]}
    /\ Steps(w, "number")
    /\ UNCHANGED <<history, features, jobs, ticks, deaths>>

\* get_latest_statcast_revisions: the number the correction will have.
NumberRevision(w) ==
    /\ Stands(w, "number")
    /\ worker' = [worker EXCEPT ![w].at = "revise", ![w].next = Len(history) + 1]
    /\ UNCHANGED <<featureTables, jobs, ticks, deaths>>

\* record_statcast_revisions: a content anywhere in the history is not recorded
\* again, a number another run took meanwhile is refused.
RecordRevision(w) ==
    /\ Stands(w, "revise")
    /\ LET stored == \E i \in DOMAIN history : history[i].pitch = MyJob(w).pitch
           taken  == worker[w].next # Len(history) + 1
       IN  \/ /\ stored \/ ~taken
              /\ history' = IF stored THEN history
                            ELSE Append(history, [pitch |-> MyJob(w).pitch, at |-> MyJob(w).cutoff])
              /\ jobs' = [jobs EXCEPT ![JobOf(w)].collected = TRUE]
              /\ Steps(w, "load")
           \/ /\ ~stored /\ taken
              /\ UNCHANGED history
              /\ FailsJob(w)
    /\ UNCHANGED <<seasons, features, ticks, deaths>>

\* _load_statcast_feature_inputs, or _statcast_inputs, which insists on some.
LoadKnown(w) ==
    /\ Stands(w, "load")
    /\ LET known == KnownAt(MyJob(w).cutoff)
       IN  IF MyJob(w).kind = "derived" /\ known = 0
           THEN FailsJob(w)
           ELSE /\ worker' = [worker EXCEPT ![w].known = known,
                      ![w].at = IF MyJob(w).kind = "derived" THEN "count" ELSE "record"]
                /\ UNCHANGED jobs
    /\ UNCHANGED <<featureTables, ticks, deaths>>

\* record_feature_snapshots.
RecordFeatures(w) ==
    /\ Stands(w, "record")
    /\ LET row == FeatureRow(JobOf(w), worker[w].known)
       IN  IF Agrees(row)
           THEN /\ features' = IF SameSources(row) # {} THEN features ELSE features \cup {row}
                /\ Steps(w, IF MyJob(w).kind = "derived" THEN "recount" ELSE "end")
                /\ UNCHANGED jobs
           ELSE FailsJob(w) /\ UNCHANGED features
    /\ UNCHANGED <<history, seasons, ticks, deaths>>

\* transition_ingestion_run: the run is over.
EndJob(w) ==
    /\ Stands(w, "end")
    /\ jobs' = [jobs EXCEPT ![JobOf(w)].status = "completed"]
    /\ Rests(w)
    /\ UNCHANGED <<featureTables, ticks, deaths>>

-----------------------------------------------------------------------------
(* FeatureMaterializationService.materialize.                              *)

\* _source_run and what else it validates of the source, then _begin; the
\* cutoff is the source's, and so are the responses its checksums name.
BeginMaterialization(w) ==
    /\ Stands(w, "rest")
    /\ \E r, s \in DOMAIN jobs :
          /\ FreshJob(r)
          /\ jobs[s].kind = "acquisition" /\ jobs[s].status = "completed"
          /\ jobs' = [jobs EXCEPT ![r] = [jobs[s] EXCEPT !.kind = "derived",
                         !.status = "running", !.source = s]]
          /\ worker' = [worker EXCEPT ![w] = [Resting EXCEPT !.at = "aggregates", !.job = r]]
    /\ UNCHANGED <<featureTables, ticks, deaths>>

\* _aggregate_inputs: the rows must bear the source's own id.
ReadAggregates(w) ==
    /\ Stands(w, "aggregates")
    /\ IF \E s \in seasons : s.run = MyJob(w).source
       THEN Steps(w, "load") /\ UNCHANGED jobs
       ELSE FailsJob(w)
    /\ UNCHANGED <<featureTables, ticks, deaths>>

\* revisions_before, and revisions_after, which must not differ.
CountRevisions(w) ==
    /\ Stands(w, "count")
    /\ worker' = [worker EXCEPT ![w].at = "record", ![w].counted = Len(history)]
    /\ UNCHANGED <<featureTables, jobs, ticks, deaths>>

RecountRevisions(w) ==
    /\ Stands(w, "recount")
    /\ IF worker[w].counted = Len(history)
       THEN Steps(w, "end") /\ UNCHANGED jobs
       ELSE FailsJob(w)
    /\ UNCHANGED <<featureTables, ticks, deaths>>

-----------------------------------------------------------------------------
\* The process is killed; nobody records it.
DiesAtWork(w) ==
    /\ ~Stands(w, "rest") /\ deaths < MaxDeaths
    /\ deaths' = deaths + 1
    /\ Rests(w)
    /\ UNCHANGED <<featureTables, jobs, ticks>>

\* An acquisition is resumed from its completed datasets, with the retrieval
\* times they were collected at.  A derived run is not resumed by anyone, and a
\* dataset that was not completed is StatsAcquisition's subject.
ResumeAcquisition(w) ==
    /\ Stands(w, "rest")
    /\ \E r \in DOMAIN jobs :
          /\ jobs[r].kind = "acquisition" /\ jobs[r].status = "running"
          /\ jobs[r].collected /\ ~AtWork(r)
          /\ worker' = [worker EXCEPT ![w] = [Resting EXCEPT !.at = "load", !.job = r]]
    /\ UNCHANGED <<featureTables, jobs, ticks, deaths>>

FeatureNext ==
    \E w \in Workers :
        \/ AcquireResponses(w) \/ RecordSeasons(w) \/ NumberRevision(w) \/ RecordRevision(w)
        \/ LoadKnown(w) \/ RecordFeatures(w) \/ EndJob(w)
        \/ BeginMaterialization(w) \/ ReadAggregates(w)
        \/ CountRevisions(w) \/ RecountRevisions(w)
        \/ DiesAtWork(w) \/ ResumeAcquisition(w)

FeatureSpec == FeatureInit /\ [][FeatureNext]_featureVars

-----------------------------------------------------------------------------
\* Features stand on evidence of their time: whatever order runs persist in what
\* they retrieved, a row is computed from the page and the revision that its
\* checksum of sources names, and from nothing retrieved after its cutoff; one
\* set of sources has one row; and a run that completed, resumed or derived, has
\* the row of its own sources.
FeaturesStandOnEvidence ==
    /\ \A f \in features :
          /\ f.payload.page = f.sources[1]
          /\ SameSources(f) = {f}
          /\ IF f.payload.revision = 0 THEN f.sources[3] = Nothing
             ELSE /\ history[f.payload.revision].at <= f.payload.cutoff
                  /\ history[f.payload.revision].pitch = f.sources[3]
    /\ \A r \in DOMAIN jobs : jobs[r].status = "completed" =>
          \E f \in features : /\ f.payload.cutoff = jobs[r].cutoff
                              /\ f.sources[1] = jobs[r].page /\ f.sources[2] = jobs[r].pitch

\* tests/stats/test_stats_acquisition.py:1205: a rerun over the responses of a
\* completed run is idempotent; it does not fail.
RerunIsIdempotent ==
    \A r, s \in DOMAIN jobs :
        (/\ jobs[r].kind = "acquisition" /\ jobs[s].kind = "acquisition"
         /\ jobs[s].status = "completed"
         /\ jobs[r].page = jobs[s].page /\ jobs[r].pitch = jobs[s].pitch)
           => jobs[r].status # "failed"
=============================================================================
