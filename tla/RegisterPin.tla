---------------------------- MODULE RegisterPin ----------------------------
(***************************************************************************)
(* reconcile-player-register-pin (src/app/stats/acquisition.py): a         *)
(* bootstrap of an older release took its player register from a branch    *)
(* that moves.  This command captures the register at the pinned commit    *)
(* and completes when both captures hold the same members and mappings.    *)
(***************************************************************************)
EXTENDS RetrosheetBootstrap

StartPin(r, source) ==
    /\ op = Idle /\ IsFresh(r)
    /\ runs' = [runs EXCEPT ![r].status = "running", ![r].kind = "pin",
                            ![r].source = source]
    /\ op' = [Idle EXCEPT !.run = r, !.place = "evidence"]
    /\ UNCHANGED <<facts, waiting, served, now, breaks>>

ResumePin(r) ==
    /\ op = Idle /\ ~Locked(r) /\ runs[r].status = "running" /\ runs[r].kind = "pin"
    /\ op' = [Idle EXCEPT !.run = r, !.place = "evidence"]
    /\ UNCHANGED <<runs, facts, waiting, served, now, breaks>>

Source == runs[Run.source]

\* _source_player_register_evidence: a completed bootstrap, its register
\* checkpoint completed on one archive, taken from the moving branch.
SourceIsLegacyEvidence ==
    /\ Source.kind = "bootstrap" /\ Source.status = "completed"
    /\ Source.register.status = "completed" /\ Source.register.raws = 1
    /\ ~Source.register.pinned

\* The pinned archive a killed process left behind is used again, once it is
\* verified; two of them are refused.
FindEvidence ==
    /\ op.place = "evidence"
    /\ IF SourceIsLegacyEvidence /\ Run.register.raws <= 1
       THEN /\ runs' = [runs EXCEPT ![op.run].register.status =
                           IF @ = "none" THEN "running" ELSE @]
            /\ Moves(IF Run.register.raws = 1 THEN "compare" ELSE "capture")
            /\ UNCHANGED <<facts, waiting, served, now, breaks>>
       ELSE Fails

\* The commit may hold what the branch held then, or not.
CapturePinned ==
    /\ op.place = "capture"
    /\ \E content \in {"branch", "pinned"} :
          runs' = [runs EXCEPT ![op.run].register.raws = @ + 1,
                               ![op.run].register.content = content]
    /\ Moves("compare")
    /\ UNCHANGED <<facts, waiting, served, now, breaks>>

\* inventories_match: the members byte for byte, and the mappings in them.
InventoriesMatch(a, b) == a.content = b.content

CompareInventories ==
    /\ op.place = "compare"
    /\ IF InventoriesMatch(Source.register, Run.register)
       THEN /\ runs' = [runs EXCEPT ![op.run].register.status = "completed"]
            /\ Moves("settle")
            /\ UNCHANGED <<facts, waiting, served, now, breaks>>
       ELSE Fails

SettlePin ==
    /\ op.place = "settle"
    /\ runs' = [runs EXCEPT ![op.run].status = "completed"]
    /\ op' = Idle
    /\ UNCHANGED <<facts, waiting, served, now, breaks>>

Pin == FindEvidence \/ CapturePinned \/ CompareInventories \/ SettlePin

Commands == \/ Bootstrap \/ Pin \/ TakesTurns
            \/ \E r \in StatsRuns : \/ Start(r) \/ Resume(r) \/ ResumePin(r)
                                    \/ \E source \in StatsRuns : StartPin(r, source)
Continues == \/ Bootstrap \/ Pin
             \/ \E r \in StatsRuns : Resume(r) \/ ResumePin(r)

-----------------------------------------------------------------------------
\* What a row of the archive has become in the tables.
Stands(f, table, key, value) == \E e \in Chain(f, table, key) : e.value = value

RowIsStored(f, r, a, i) ==
    LET row  == Row(a, i)
        line == <<row.game, row.teams>>
    IN  IF ~Kept(a, i) THEN <<r, a, i>> \in f.excluded
        ELSE CASE row.member = "allplayers" ->
                    row.player \in f.mapped /\ f.names[row.player] # 0
               [] row.member = "gameinfo" ->
                    f.games[row.game] > 0 /\ Stands(f, "status", <<row.game, {}>>, row.value)
               [] row.member = "teamstats" ->
                    /\ Stands(f, "team", line, row.value)
                    /\ row.player # NoPlayer =>
                         Stands(f, "lineup", line, row.value) /\ row.player \in f.mapped
               [] row.member = "plays" ->
                    \E key \in Plays : /\ key[1] = row.game /\ f.plays[key] > 0
                                       /\ Stands(f, "play", key, row.value)
               [] OTHER ->
                    \E e \in f.evidence : /\ e.table = row.member /\ e.value = row.value
                                         /\ e.key[1] = row.game /\ e.key[3] = row.player

\* A checkpoint speaks for its rows: every row of a season whose checkpoint
\* is completed is in the tables or among the excluded, however often the run
\* was broken off and whoever else wrote; a completed run has all its seasons,
\* and the inventory it completed on shows every row of its archive.
SeasonsAreStored ==
    \A r \in StatsRuns \ {LegacyRun} :
        LET run == runs[r]
            a   == run.dataset.archive
        IN  /\ \A c \in run.done : \A i \in RowsOf(a, c.member, {c.season}) :
                 RowIsStored(facts, r, a, i)
            /\ (run.status = "completed" /\ run.kind = "bootstrap") =>
                  \A i \in DOMAIN Archives[a] :
                     /\ ChildOf(a, i) \in run.done
                     /\ Kept(a, i) => RowIsStored(run.inventory[1], r, a, i)

\* A completed run rests on exactly the raw rows of its captures, none of them
\* taken twice by a command that was broken off, and on its manifest; a pinned
\* register on one capture equal to the one it vouches for, of a run that is
\* completed still.
CapturesAreSettled ==
    \A r \in StatsRuns \ {LegacyRun} :
        LET run == runs[r] IN
        /\ (run.status = "completed" /\ run.kind = "bootstrap") =>
              /\ run.register.raws = 1 /\ run.dataset.raws = 1 + Len(Members)
              /\ run.manifest = "completed" /\ run.inventory # <<>>
        /\ (run.status = "completed" /\ run.kind = "pin") =>
              /\ run.register.raws = 1 /\ runs[run.source].status = "completed"
              /\ runs[run.source].register.content = run.register.content

\* What a checkpoint or a completed run says of the tables and the captures is so.
BootstrapIsWhole == SeasonsAreStored /\ CapturesAreSettled

\* The revisions of a thing form one chain, whichever commands wrote them and
\* whatever they had read before: they are numbered without gaps, two of them
\* have different numbers and values, and no run corrects what it recorded
\* itself.  (Not that a later one was captured later: a bootstrap past its team
\* calls may be overtaken and append its older capture.)
RevisionsAreChained ==
    \A e, other \in facts.evidence :
        (e.table = other.table /\ e.key = other.key) =>
            /\ e = other \/ (/\ e.revision # other.revision /\ e.value # other.value
                             /\ e.run # other.run)
            /\ e.revision > 1 => \E before \in Chain(facts, e.table, e.key) :
                                     before.revision = e.revision - 1

\* No earlier time replaces a later one.
NotEarlier(times, later) == \A x \in DOMAIN times : times[x] <= later[x]

\* What was recorded stays as it was, however commands overlap and whatever
\* they had read before others wrote, and nothing is seen earlier than it was.
Keeps(f, g) ==
    /\ f.evidence \subseteq g.evidence /\ f.excluded \subseteq g.excluded
    /\ f.links \subseteq g.links /\ f.mapped \subseteq g.mapped
    /\ \A p \in Players : /\ f.names[p] # 0 => g.names[p] = f.names[p]
                          /\ f.canonical[p] # <<>> => g.canonical[p] = f.canonical[p]
    /\ NotEarlier(f.teams, g.teams) /\ NotEarlier(f.seen, g.seen)
    /\ NotEarlier(f.games, g.games) /\ NotEarlier(f.plays, g.plays)
EvidenceStays == Keeps(facts, facts')

\* No run is in progress, or left to be resumed.
NoRunIsLeft == \A r \in StatsRuns : runs[r].status # "running"
=============================================================================
