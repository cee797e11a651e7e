------------------------ MODULE RetrosheetBootstrap ------------------------
(***************************************************************************)
(* bootstrap-retrosheet (src/app/stats/acquisition.py): the historical     *)
(* archive is captured, its members become evidence in the shared          *)
(* statistics tables (src/app/stats/repository.py), season by season under *)
(* checkpoints, and the run completes on an inventory of those tables.     *)
(* A killed process leaves its run running, to be resumed; an exception    *)
(* fails the run for good.  Every repository call is one transaction and   *)
(* one action; what the process keeps in memory dies with it.              *)
(*                                                                         *)
(* Commands overlap: the lock is one of a run, and the tables are shared.  *)
(* op is the memory of the command whose transaction is next, waiting the  *)
(* memories of the others, and Turn goes over to another one.              *)
(*                                                                         *)
(* A checksum is the value it stands for.  The rows of a member's season   *)
(* are contiguous in its file, and a batch never outgrows its limit.       *)
(***************************************************************************)
EXTENDS Integers, Sequences, FiniteSets, FiniteSetsExt, SequencesExt

CONSTANTS StatsRuns,      \* ids of ingestion runs
          LegacyRun,      \* a bootstrap an older release completed
          Archives,       \* what the provider serves, one after the other
          Members,        \* the members of an archive, in the order they are read
          ThroughSeason,  \* the season of requested_through_date
          NoPlayer, Nobody,
          MaxDisturbances \* bound: commands that wait and breaks so far, together

ASSUME BootstrapAssumption == /\ LegacyRun \in StatsRuns /\ Nobody \notin StatsRuns
                              /\ ThroughSeason \in Nat /\ MaxDisturbances \in Nat

\* RETROSHEET_SEVEN_MEMBERS, or some of them: players and games come first.
ASSUME MembersAssumption ==
    /\ Members \in Seq({"allplayers", "gameinfo", "teamstats", "batting", "pitching",
                        "fielding", "plays"})
    /\ Len(Members) >= 2 /\ Members[1] = "allplayers" /\ Members[2] = "gameinfo"
    /\ \A i, j \in DOMAIN Members : Members[i] = Members[j] => i = j

VARIABLES runs,      \* stats_ingestion_runs with their checkpoints and raw rows
          facts,     \* the shared statistics tables
          op,        \* the command whose turn it is
          waiting,   \* the other commands in progress
          served,    \* the last archive the provider served
          now,       \* the provider's clock: captures so far
          breaks
bootVars == <<runs, facts, op, waiting, served, now, breaks>>

AllRows   == UNION {{a[i] : i \in DOMAIN a} : a \in {Archives[n] : n \in DOMAIN Archives}}
Teams     == UNION {r.teams : r \in AllRows}
Players   == {r.player : r \in AllRows} \ {NoPlayer}
Games     == {r.game : r \in {r \in AllRows : r.member = "gameinfo"}}

\* Every row belongs to a member; a row of allplayers names its player, and the
\* checksum of a lineup stands for the player in it.
ASSUME ArchivesAssumption ==
    /\ Archives \in Seq(Seq(AllRows)) /\ Archives # <<>>
    /\ \A r \in AllRows :
          /\ r.season \in Nat /\ r.value \in Nat \ {0}
          /\ \E i \in DOMAIN Members : r.member = Members[i]
          /\ r.member = "allplayers" => r.player # NoPlayer
    /\ \A r, s \in AllRows :
          (r.member = "teamstats" /\ s.member = "teamstats" /\ r.game = s.game
             /\ r.teams = s.teams /\ r.value = s.value) => r.player = s.player

\* An archive has one line for a game and one for a team in it: two that differ
\* are refused for a game, and for a team taken not to occur (they would become
\* two revisions of one run).  The teams of a game are facts that stay, or the
\* game's identity is refused.
ASSUME LinesAssumption ==
    /\ \A n \in DOMAIN Archives : \A i, j \in DOMAIN Archives[n] :
          LET r == Archives[n][i]
              s == Archives[n][j]
          IN  (r.member = s.member /\ r.game = s.game /\ r.teams = s.teams
                 /\ r.member \in {"gameinfo", "teamstats"}) => r.value = s.value
    /\ \A r, s \in AllRows :
          (r.member = "gameinfo" /\ s.member = "gameinfo" /\ r.game = s.game
             /\ r.regular /\ s.regular) => r.teams = s.teams /\ r.teams # {}

(***************************************************************************)
(* What an archive means.                                                  *)
(***************************************************************************)
RowsOf(a, member, seasons) ==
    {i \in DOMAIN Archives[a] : /\ Archives[a][i].member = member
                                /\ Archives[a][i].season \in seasons}
Row(a, i) == Archives[a][i]
ChildOf(a, i) == [member |-> Row(a, i).member, season |-> Row(a, i).season]

\* _normalize_games and _normalize_player_mappings: regular games and players
\* of the seasons asked for; the rows of other members follow their game.
GameIsKept(r) == r.regular /\ r.season <= ThroughSeason
KeptGames(a)  == {Row(a, i).game : i \in {i \in DOMAIN Archives[a] :
                     Row(a, i).member = "gameinfo" /\ GameIsKept(Row(a, i))}}
PlayerRowIsKept(r) == r.season <= ThroughSeason
LineIsKept(a, r)   == r.game \in KeptGames(a)

Kept(a, i) ==
    LET r == Row(a, i) IN
    CASE r.member = "allplayers" -> PlayerRowIsKept(r)
      [] r.member = "gameinfo"   -> GameIsKept(r)
      [] OTHER                   -> LineIsKept(a, r)

SeasonsOf(a, member) == {Row(a, i).season : i \in {i \in DOMAIN Archives[a] :
                                                     Row(a, i).member = member}}

\* A player is shown under the name most frequent in the latest season, the
\* lexicographically first among equals.
NameRows(a, p) == {i \in DOMAIN Archives[a] : /\ Row(a, i).member = "allplayers"
                                              /\ Row(a, i).player = p /\ Kept(a, i)}
DisplayName(a, p) ==
    LET latest == Max({Row(a, i).season : i \in NameRows(a, p)})
        rows   == {i \in NameRows(a, p) : Row(a, i).season = latest}
        Count(n) == Cardinality({i \in rows : Row(a, i).value = n})
        most   == Max({Count(Row(a, i).value) : i \in rows})
    IN  Min({n \in {Row(a, i).value : i \in rows} : Count(n) = most})
FirstSeason(a, p) == Min({Row(a, i).season : i \in NameRows(a, p)})

\* source_row_key: a player's rows in one game are told apart by position and
\* by their place among their like.
Stint(a, i) ==
    Cardinality({j \in 1..i : /\ Kept(a, j)
                              /\ Row(a, j).member = Row(a, i).member
                              /\ Row(a, j).game = Row(a, i).game
                              /\ Row(a, j).player = Row(a, i).player
                              /\ Row(a, j).teams = Row(a, i).teams})
\* play_indexes: a play is its place among the plays of its game.
PlayIndex(a, i) ==
    Cardinality({j \in 1..i : /\ Row(a, j).member = "plays" /\ Kept(a, j)
                              /\ Row(a, j).game = Row(a, i).game})
PlayOf(a, i) == <<Row(a, i).game, PlayIndex(a, i)>>
Plays == UNION {{PlayOf(a, i) : i \in {i \in DOMAIN Archives[a] : /\ Row(a, i).member = "plays"
                                                                 /\ Kept(a, i)}} :
                a \in DOMAIN Archives}

(***************************************************************************)
(* The statistics tables.                                                  *)
(***************************************************************************)
NoRun == [status |-> "none", kind |-> "bootstrap", source |-> Nobody,
          register |-> [status |-> "none", raws |-> 0, pinned |-> TRUE, content |-> "pinned"],
          dataset |-> [status |-> "none", raws |-> 0, archive |-> 0, at |-> 0],
          open |-> {}, done |-> {}, manifest |-> "none", inventory |-> <<>>]

\* The older release followed the register's moving branch.
LegacyBootstrap ==
    [NoRun EXCEPT !.status = "completed",
                  !.register = [status |-> "completed", raws |-> 1,
                                pinned |-> FALSE, content |-> "branch"]]

NoFacts == [teams |-> [t \in Teams |-> 0],
            names |-> [p \in Players |-> 0], seen |-> [p \in Players |-> 0],
            canonical |-> [p \in Players |-> <<>>], mapped |-> {},
            games |-> [g \in Games |-> 0], links |-> {}, excluded |-> {},
            plays |-> [y \in Plays |-> 0], evidence |-> {}]

\* upsert_*_identity: the first sighting inserts, a later one may neither be
\* older than the last nor change a fact.
SeenInOrder(last, at) == last <= at

\* The facts are fixed: the provider's name of a player is one of them.
PlayerAgrees(f, p, name, at) == /\ SeenInOrder(f.seen[p], at)
                                /\ f.names[p] \in {0, name}

Chain(f, table, key) == {e \in f.evidence : e.table = table /\ e.key = key}

\* _record_versioned_snapshot and _record_revision_from_history: a value that
\* stands anywhere in the chain is not recorded again, any other one becomes
\* the next revision.
NewEvidence(f, entries) ==
    {[e EXCEPT !.revision = Cardinality(Chain(f, e.table, e.key)) + 1] :
        e \in {e \in entries : \A old \in Chain(f, e.table, e.key) : old.value # e.value}}

Recorded(f, entries) == [f EXCEPT !.evidence = @ \cup NewEvidence(f, entries)]

Entry(table, key, value) == [table |-> table, key |-> key, value |-> value,
                             revision |-> 0, at |-> op.at, run |-> op.run]

\* The analytical inventory leaves out when a thing was last seen.
Seen(times) == [x \in DOMAIN times |-> IF times[x] > 0 THEN 1 ELSE 0]
InventoryOf(f) == [teams |-> Seen(f.teams), names |-> f.names, mapped |-> f.mapped,
                   games |-> Seen(f.games), plays |-> Seen(f.plays),
                   evidence |-> {[e EXCEPT !.at = 0, !.run = Nobody] : e \in f.evidence}]

LineupsOf(f) == {<<e.key, e.value>> : e \in {e \in f.evidence : e.table = "lineup"}}

(***************************************************************************)
(* The rows of a member: the order of the calls.  Opening a season looks   *)
(* at its checkpoint; the rows of a completed one are read again for the   *)
(* teams, players and games they name, and written no more.                *)
(***************************************************************************)
\* A call has its place: which member it is about, which of the passes over
\* it, which season, and which of the calls for that season.
Before(p, q) ==
    \/ p[1] < q[1]
    \/ p[1] = q[1] /\ p[2] < q[2]
    \/ p[1] = q[1] /\ p[2] = q[2] /\ p[3] < q[3]
    \/ p[1] = q[1] /\ p[2] = q[2] /\ p[3] = q[3] /\ p[4] < q[4]

Step(at, do, member, seasons) ==
    [at |-> at, do |-> do, member |-> member, seasons |-> seasons]

\* A pass makes its calls season after season, or one call for all of them.
SeasonCalls(a, i, pass, calls) ==
    {Step(<<i, pass, n, k>>, calls[k], Members[i], {n}) :
        n \in SeasonsOf(a, Members[i]), k \in DOMAIN calls}
OneCall(i, pass, do, seasons) == {Step(<<i, pass, 0, 0>>, do, Members[i], seasons)}

Calls(member) ==
    CASE member = "gameinfo" ->
           <<"open", "team", "games", "statuses", "links", "exclude", "complete">>
      [] member = "teamstats" ->
           <<"open", "team", "player", "teamSnapshots", "lineups", "exclude", "complete">>
      [] member = "plays" ->
           <<"open", "team", "plays", "latest", "revisions", "exclude", "complete">>
      [] OTHER ->
           <<"open", "team", "player", "playerSnapshots", "exclude", "complete">>

\* All the rows of allplayers are read before the first season is written.
MemberSteps(a, i) ==
    IF Members[i] = "allplayers"
    THEN SeasonCalls(a, i, 1, <<"open", "team">>)
         \cup OneCall(i, 2, "known", {})
         \cup OneCall(i, 3, "exclude", SeasonsOf(a, "allplayers"))
         \cup SeasonCalls(a, i, 4, <<"names", "canonical", "mappings", "complete">>)
    ELSE SeasonCalls(a, i, 1, Calls(Members[i]))
         \cup (IF Members[i] = "gameinfo" THEN OneCall(i, 2, "through", {}) ELSE {})

Program == [a \in DOMAIN Archives |->
               {Step(<<Len(Members) + 1, 1, 0, 0>>, "manifest", "none", {})}
               \cup UNION {MemberSteps(a, i) : i \in DOMAIN Members}]

Always == {"open", "team", "known", "through", "manifest"}
Due(step, skip) == step.do \in Always
                   \/ \E n \in step.seasons : [member |-> step.member, season |-> n] \notin skip

Ahead(a, at, skip) == {s \in Program[a] : Before(at, s.at) /\ Due(s, skip)}
First(steps) == {next \in steps : \A s \in steps : s = next \/ Before(next.at, s.at)}

\* The first of the calls after a place that are due; the union names the
\* calls ahead once, or TLC would look for them again and again.
Following(a, at, skip) == UNION {First(steps) : steps \in {Ahead(a, at, skip)}}
FirstOf(a) == Following(a, <<0, 0, 0, 0>>, {})

(***************************************************************************)
(* The command.                                                            *)
(***************************************************************************)
NoStep == [at |-> <<0, 0, 0, 0>>, do |-> "none", member |-> "none", seasons |-> {}]
Idle == [run |-> Nobody, place |-> "idle", step |-> NoStep, archive |-> 0, at |-> 0,
         raws |-> 0, skip |-> {}, teams |-> {}, players |-> {},
         ensuring |-> NoPlayer, half |-> "none",
         canonical |-> {}, lineups |-> {}, latest |-> {}, inventory |-> <<>>]

BootInit == /\ runs = [r \in StatsRuns |-> IF r = LegacyRun
                                           THEN LegacyBootstrap ELSE NoRun]
            /\ facts = NoFacts
            /\ op = Idle /\ waiting = {} /\ served = 1 /\ now = 0 /\ breaks = 0

\* The database serves one command at a time; one that goes on after others
\* has its memory of what it read before, and a new one may begin.
Turn(o) ==
    /\ o # op
    /\ op = Idle \/ o # Idle \/ Cardinality(waiting) + breaks < MaxDisturbances
    /\ op' = o
    /\ waiting' = (waiting \ {o}) \cup (IF op = Idle THEN {} ELSE {op})
    /\ UNCHANGED <<runs, facts, served, now, breaks>>
TakesTurns == \E o \in waiting \cup {Idle} : Turn(o)

\* StatsRunExecutionLock: the command in progress for a run holds its lock.
Locked(r) == \E o \in waiting : o.run = r

\* A mutant of Fails: the exception leaves the run as it was.
StaysRunning == op' = Idle /\ UNCHANGED <<runs, facts, waiting, served, now, breaks>>

\* _fail_run; the checkpoints that fail with the run are read by nobody.
Fails == /\ runs' = [runs EXCEPT ![op.run].status = "failed"]
         /\ op' = Idle
         /\ UNCHANGED <<facts, waiting, served, now, breaks>>

Moves(place) == op' = [op EXCEPT !.place = place]

\* A run id is fresh: which one it is does not matter.
IsFresh(r) == /\ runs[r].status = "none"
              /\ r = CHOOSE q \in StatsRuns : runs[q].status = "none"

\* A new run, or one a killed process left running, which is refused while
\* another command holds its lock.  Creating a run and taking its lock are one
\* step here (StatsAcquisition has the gap between them).
Start(r) == /\ op = Idle /\ IsFresh(r)
            /\ runs' = [runs EXCEPT ![r].status = "running"]
            /\ op' = [Idle EXCEPT !.run = r, !.place = "register"]
            /\ UNCHANGED <<facts, waiting, served, now, breaks>>

Resume(r) == /\ op = Idle /\ ~Locked(r)
             /\ runs[r].status = "running" /\ runs[r].kind = "bootstrap"
             /\ op' = [Idle EXCEPT !.run = r, !.place = "register"]
             /\ UNCHANGED <<runs, facts, waiting, served, now, breaks>>

Run == runs[op.run]

(***************************************************************************)
(* The two captures.                                                       *)
(***************************************************************************)
\* A completed register checkpoint must stand on exactly one raw archive;
\* an incomplete one is collected again.
OpenRegister ==
    /\ op.place = "register"
    /\ IF Run.register.status = "completed"
       THEN IF Run.register.raws = 1
            THEN Moves("dataset") /\ UNCHANGED <<runs, facts, waiting, served, now, breaks>>
            ELSE Fails
       ELSE /\ runs' = [runs EXCEPT ![op.run].register.status = "running"]
            /\ Moves("registerRaw")
            /\ UNCHANGED <<facts, waiting, served, now, breaks>>

PersistRegister ==
    /\ op.place = "registerRaw"
    /\ runs' = [runs EXCEPT ![op.run].register.raws = @ + 1]
    /\ Moves("registerDone")
    /\ UNCHANGED <<facts, waiting, served, now, breaks>>

CompleteRegister ==
    /\ op.place = "registerDone"
    /\ runs' = [runs EXCEPT ![op.run].register.status = "completed"]
    /\ Moves("dataset")
    /\ UNCHANGED <<facts, waiting, served, now, breaks>>

\* collect_regular_season_major_league, or the dataset restored from the
\* cursor of its checkpoint.
OpenDataset ==
    /\ op.place = "dataset"
    /\ IF Run.dataset.status = "completed"
       THEN /\ \E first \in FirstOf(Run.dataset.archive) :
                  op' = [op EXCEPT !.place = "persist", !.step = first,
                                   !.archive = Run.dataset.archive, !.at = Run.dataset.at]
            /\ UNCHANGED <<runs, facts, waiting, served, now, breaks>>
       ELSE /\ runs' = [runs EXCEPT ![op.run].dataset.status = "running"]
            /\ now' = now + 1
            /\ served' \in served..Len(Archives)
            /\ op' = [op EXCEPT !.place = "raw", !.archive = served', !.at = now + 1]
            /\ UNCHANGED <<facts, waiting, breaks>>

\* The archive and each member: a raw row, a transaction.
PersistMember ==
    /\ op.place = "raw" /\ op.raws <= Len(Members)
    /\ runs' = [runs EXCEPT ![op.run].dataset.raws = @ + 1]
    /\ op' = [op EXCEPT !.raws = @ + 1]
    /\ UNCHANGED <<facts, waiting, served, now, breaks>>

CompleteDataset ==
    /\ op.place = "raw" /\ op.raws > Len(Members)
    /\ runs' = [runs EXCEPT ![op.run].dataset =
                   [@ EXCEPT !.status = "completed", !.archive = op.archive, !.at = op.at]]
    /\ \E first \in FirstOf(op.archive) :
          op' = [op EXCEPT !.place = "persist", !.step = first]
    /\ UNCHANGED <<facts, waiting, served, now, breaks>>

(***************************************************************************)
(* The calls, one by one.                                                  *)
(***************************************************************************)
Here == op.step
Doing(do) == op.place = "persist" /\ Here.do = do
Child == [member |-> Here.member, season |-> CHOOSE n \in Here.seasons : TRUE]

\* The rows the step is about, without those of completed seasons.
Pending == {i \in RowsOf(op.archive, Here.member, Here.seasons) :
              ChildOf(op.archive, i) \notin op.skip}
PendingRows == {i \in Pending : Kept(op.archive, i)}

\* On to the next call that is due, with what this one leaves in memory.
Goes(memory) == \E next \in Following(op.archive, Here.at, memory.skip) :
                   op' = [memory EXCEPT !.step = next]
Forward == Goes(op)
Skips(child) == Goes([op EXCEPT !.skip = @ \cup {child}])

\* A repository call: one transaction that writes or raises.
CallThen(accepted, result, memory) ==
    IF accepted THEN /\ facts' = result
                     /\ Goes(memory)
                     /\ UNCHANGED <<runs, waiting, served, now, breaks>>
    ELSE Fails
Call(accepted, result) == CallThen(accepted, result, op)

\* A read of its own, which later calls go by.
Remembers(memory) == Goes(memory) /\ UNCHANGED <<runs, facts, waiting, served, now, breaks>>

\* A mutant of OpenSeason: a checkpoint that exists is taken for a completed one.
OpenUnfinishedSeason ==
    /\ Doing("open")
    /\ IF Child \in Run.done \cup Run.open
       THEN /\ Skips(Child)
            /\ UNCHANGED runs
       ELSE /\ runs' = [runs EXCEPT ![op.run].open = @ \cup {Child}]
            /\ Forward
    /\ UNCHANGED <<facts, waiting, served, now, breaks>>

\* _retrosheet_child_checkpoint
OpenSeason ==
    /\ Doing("open")
    /\ IF Child \in Run.done
       THEN /\ Skips(Child)
            /\ UNCHANGED runs
       ELSE /\ runs' = [runs EXCEPT ![op.run].open = @ \cup {Child}]
            /\ Forward
    /\ UNCHANGED <<facts, waiting, served, now, breaks>>

\* team_identity: once for each team and process, completed seasons included.
TeamsOfStep == (UNION {Row(op.archive, i).teams :
                  i \in {i \in RowsOf(op.archive, Here.member, Here.seasons) :
                           Kept(op.archive, i)}}) \ op.teams
UpsertTeam ==
    /\ Doing("team")
    /\ \/ /\ TeamsOfStep = {}
          /\ Forward
          /\ UNCHANGED <<runs, facts, waiting, served, now, breaks>>
       \/ \E t \in TeamsOfStep :
             IF SeenInOrder(facts.teams[t], op.at)
             THEN /\ facts' = [facts EXCEPT !.teams[t] = op.at]
                  /\ op' = [op EXCEPT !.teams = @ \cup {t}]
                  /\ UNCHANGED <<runs, waiting, served, now, breaks>>
             ELSE Fails

\* allplayers.csv: the players whose first season this is.
NewPlayers == {p \in {Row(op.archive, i).player : i \in PendingRows} :
                 FirstSeason(op.archive, p) \in Here.seasons}
UpsertPlayers ==
    /\ Doing("names")
    /\ Call(\A p \in NewPlayers :
                PlayerAgrees(facts, p, DisplayName(op.archive, p), op.at),
            [facts EXCEPT
               !.names = [p \in Players |-> IF p \in NewPlayers
                                            THEN DisplayName(op.archive, p) ELSE @[p]],
               !.seen = [p \in Players |-> IF p \in NewPlayers THEN op.at ELSE @[p]]])

\* _insert_once: a row that is already there must be the same in every field;
\* that of a canonical player another run recorded names that run.
InsertedOnce(row, new) == row \in {<<>>, new}

\* existing_canonical_players, read once for all seasons.
ReadCanonicalPlayers ==
    /\ Doing("known")
    /\ Remembers([op EXCEPT !.canonical = {p \in Players : facts.canonical[p] # <<>>}])

\* A mutant of RecordCanonicalPlayers: the row is written over.
RecordTheirOwn ==
    /\ Doing("canonical")
    /\ CallThen(TRUE, [facts EXCEPT !.canonical =
                         [p \in Players |-> IF p \in NewPlayers \ op.canonical
                                            THEN <<op.run, op.at>> ELSE @[p]]],
                [op EXCEPT !.canonical = @ \cup NewPlayers])

\* Those it did not read: one recorded by another run meanwhile is refused.
RecordCanonicalPlayers ==
    /\ Doing("canonical")
    /\ CallThen(\A p \in NewPlayers \ op.canonical :
                    InsertedOnce(facts.canonical[p], <<op.run, op.at>>),
                [facts EXCEPT !.canonical =
                    [p \in Players |-> IF p \in NewPlayers \ op.canonical
                                       THEN <<op.run, op.at>> ELSE @[p]]],
                [op EXCEPT !.canonical = @ \cup NewPlayers])

RecordPlayerMappings ==
    /\ Doing("mappings")
    /\ Call(\A p \in NewPlayers : facts.canonical[p] # <<>>,
            [facts EXCEPT !.mapped = @ \cup NewPlayers])

\* ensure_player: a player the archive's own list does not name, or names
\* only after ThroughSeason, goes by the identifier; four transactions.
KnownPlayers == {p \in Players : NameRows(op.archive, p) # {}} \cup op.players
LineKey(i) == <<Row(op.archive, i).game, Row(op.archive, i).teams>>
LineupIsNew(i) == <<LineKey(i), Row(op.archive, i).value>> \notin op.lineups
PlayersOfStep == {Row(op.archive, i).player :
                    i \in {i \in PendingRows : Here.member = "teamstats" => LineupIsNew(i)}}
                 \ (KnownPlayers \cup {NoPlayer})
IdentifierOf(p) == 0 - 1

EnsurePlayer ==
    /\ Doing("player") /\ op.half = "none"
    /\ \/ /\ PlayersOfStep = {}
          /\ Forward
          /\ UNCHANGED <<runs, facts, waiting, served, now, breaks>>
       \/ \E p \in PlayersOfStep :
             IF PlayerAgrees(facts, p, IdentifierOf(p), op.at)
             THEN /\ facts' = [facts EXCEPT !.names[p] = IdentifierOf(p), !.seen[p] = op.at]
                  /\ op' = [op EXCEPT !.ensuring = p, !.half = "identity"]
                  /\ UNCHANGED <<runs, waiting, served, now, breaks>>
             ELSE Fails

\* resolve_canonical_player
ResolvePlayer ==
    /\ Doing("player") /\ op.half = "identity"
    /\ op' = IF op.ensuring \in facts.mapped
             THEN [op EXCEPT !.players = @ \cup {op.ensuring},
                             !.ensuring = NoPlayer, !.half = "none"]
             ELSE [op EXCEPT !.half = "unresolved"]
    /\ UNCHANGED <<runs, facts, waiting, served, now, breaks>>

EnsureCanonical ==
    /\ Doing("player") /\ op.half = "unresolved"
    /\ IF InsertedOnce(facts.canonical[op.ensuring], <<op.run, op.at>>)
       THEN /\ facts' = [facts EXCEPT !.canonical[op.ensuring] = <<op.run, op.at>>]
            /\ op' = [op EXCEPT !.half = "canonical"]
            /\ UNCHANGED <<runs, waiting, served, now, breaks>>
       ELSE Fails

EnsureMapping ==
    /\ Doing("player") /\ op.half = "canonical"
    /\ facts' = [facts EXCEPT !.mapped = @ \cup {op.ensuring}]
    /\ op' = [op EXCEPT !.players = @ \cup {op.ensuring},
                        !.ensuring = NoPlayer, !.half = "none"]
    /\ UNCHANGED <<runs, waiting, served, now, breaks>>

\* gameinfo.csv: identities, then statuses, then links to the raw file.
GamesOfStep == {Row(op.archive, i).game : i \in PendingRows}
UpsertGames ==
    /\ Doing("games")
    /\ Call(\A g \in GamesOfStep : SeenInOrder(facts.games[g], op.at),
            [facts EXCEPT !.games = [g \in Games |-> IF g \in GamesOfStep
                                                     THEN op.at ELSE @[g]]])
RecordStatuses ==
    /\ Doing("statuses")
    /\ Call(TRUE, Recorded(facts, {Entry("status", <<Row(op.archive, i).game, {}>>,
                                         Row(op.archive, i).value) : i \in PendingRows}))
LinkGames ==
    /\ Doing("links")
    /\ Call(TRUE, [facts EXCEPT !.links = @ \cup {<<op.run, g>> : g \in GamesOfStep}])

\* The archive must reach the season asked for; existing_lineups is read, once.
CheckThroughSeason ==
    /\ Doing("through")
    /\ IF \E i \in DOMAIN Archives[op.archive] :
            /\ Row(op.archive, i).member = "gameinfo" /\ Kept(op.archive, i)
            /\ Row(op.archive, i).season = ThroughSeason
       THEN Remembers([op EXCEPT !.lineups = LineupsOf(facts), !.canonical = {}])
       ELSE Fails

RecordTeamSnapshots ==
    /\ Doing("teamSnapshots")
    /\ Call(TRUE, Recorded(facts, {Entry("team", LineKey(i), Row(op.archive, i).value) :
                                     i \in PendingRows}))

\* A lineup is known by its checksum; a later one stands beside it.  One that
\* another run recorded since existing_lineups was read is refused: the row
\* names that run.
NewLineups == {i \in PendingRows : Row(op.archive, i).player # NoPlayer /\ LineupIsNew(i)}
RecordLineups ==
    /\ Doing("lineups")
    /\ CallThen(\A i \in NewLineups : <<LineKey(i), Row(op.archive, i).value>>
                                         \notin LineupsOf(facts),
                Recorded(facts, {Entry("lineup", LineKey(i), Row(op.archive, i).value) :
                                    i \in NewLineups}),
                [op EXCEPT !.lineups =
                    @ \cup {<<LineKey(i), Row(op.archive, i).value>> : i \in NewLineups}])

RecordPlayerSnapshots ==
    /\ Doing("playerSnapshots")
    /\ Call(TRUE, Recorded(facts,
            {Entry(Here.member,
                   <<Row(op.archive, i).game, Row(op.archive, i).teams,
                     Row(op.archive, i).player, Stint(op.archive, i)>>,
                   Row(op.archive, i).value) : i \in PendingRows}))

\* plays.csv: the plays; their latest revisions, read; and the revisions that
\* follow those, refused where another run was faster.  What else a play's
\* identity holds is a function of its key.
PlaysOfStep == {PlayOf(op.archive, i) : i \in PendingRows}
UpsertPlays ==
    /\ Doing("plays")
    /\ Call(\A y \in PlaysOfStep : SeenInOrder(facts.plays[y], op.at),
            [facts EXCEPT !.plays = [y \in Plays |-> IF y \in PlaysOfStep
                                                     THEN op.at ELSE @[y]]])

IsLatest(f, e) == \A later \in Chain(f, e.table, e.key) : later.revision <= e.revision
ReadLatestRevisions ==
    /\ Doing("latest")
    /\ Remembers([op EXCEPT !.latest = {e \in facts.evidence :
                      e.table = "play" /\ e.key \in PlaysOfStep /\ IsLatest(facts, e)}])

\* A value that stands is kept under its number; any other one must have the
\* next number, which it has when the revision read is the latest still.
NextRevision(key) == LET prior == {e \in op.latest : e.key = key} IN
                     IF prior = {} THEN 1 ELSE Max({e.revision : e \in prior}) + 1
RevisionIsNext(i) ==
    LET chain == Chain(facts, "play", PlayOf(op.archive, i)) IN
    \/ \E e \in chain : e.value = Row(op.archive, i).value
    \/ NextRevision(PlayOf(op.archive, i)) = Cardinality(chain) + 1

PlayEntries(rows) == {Entry("play", PlayOf(op.archive, i), Row(op.archive, i).value) : i \in rows}

\* A mutant of RecordPlayRevisions: a revision has the number that followed when
\* the latest one was read.
RecordAsNumbered ==
    /\ Doing("revisions")
    /\ CallThen(TRUE,
                [facts EXCEPT !.evidence = @ \cup
                    {[e EXCEPT !.revision = NextRevision(e.key)] :
                        e \in NewEvidence(facts, PlayEntries(PendingRows))}],
                [op EXCEPT !.latest = {}])

\* A mutant of RecordPlayRevisions: where another run was faster it passes over.
RecordUnlessOvertaken ==
    /\ Doing("revisions")
    /\ CallThen(TRUE,
                Recorded(facts, PlayEntries({i \in PendingRows : RevisionIsNext(i)})),
                [op EXCEPT !.latest = {}])

RecordPlayRevisions ==
    /\ Doing("revisions")
    /\ CallThen(\A i \in PendingRows : RevisionIsNext(i),
                Recorded(facts, PlayEntries(PendingRows)),
                [op EXCEPT !.latest = {}])

\* Rows left out are kept with the raw file they came from.
RecordExcluded ==
    /\ Doing("exclude")
    /\ Call(TRUE, [facts EXCEPT !.excluded = @ \cup
                     {<<op.run, op.archive, i>> : i \in Pending \ PendingRows}])

CompleteSeason ==
    /\ Doing("complete")
    /\ runs' = [runs EXCEPT ![op.run].done = @ \cup {Child}]
    /\ Forward
    /\ UNCHANGED <<facts, waiting, served, now, breaks>>

(***************************************************************************)
(* The end of the run.                                                     *)
(***************************************************************************)
CompleteManifest ==
    /\ Doing("manifest")
    /\ runs' = [runs EXCEPT ![op.run].manifest = "completed"]
    /\ Moves("inventory")
    /\ UNCHANGED <<facts, waiting, served, now, breaks>>

\* _retrosheet_analytical_inventory
ReadInventory ==
    /\ op.place = "inventory"
    /\ op' = [op EXCEPT !.place = "fingerprint", !.inventory = <<InventoryOf(facts)>>]
    /\ UNCHANGED <<runs, facts, waiting, served, now, breaks>>

\* A resumed run must find the tables as it fingerprinted them.
CompleteInventory ==
    /\ op.place = "fingerprint"
    /\ IF Run.inventory \in {<<>>, op.inventory}
       THEN /\ runs' = [runs EXCEPT ![op.run].inventory = op.inventory]
            /\ Moves("finalize")
            /\ UNCHANGED <<facts, waiting, served, now, breaks>>
       ELSE Fails

\* _finalize_run reconciles the raw rows with the two archives and the
\* members (its watermark and the outer run are StatsAcquisition's).
RawRowsReconcile(run) == run.register.raws + run.dataset.raws = 2 + Len(Members)
Finalize ==
    /\ op.place = "finalize"
    /\ IF RawRowsReconcile(Run)
       THEN /\ runs' = [runs EXCEPT ![op.run].status = "completed"]
            /\ op' = Idle
            /\ UNCHANGED <<facts, waiting, served, now, breaks>>
       ELSE Fails

(***************************************************************************)
(* The surroundings.                                                       *)
(***************************************************************************)
\* The process is killed, or a call raises (a lock that stays busy, a full disk).
Dies == /\ op # Idle /\ Cardinality(waiting) + breaks < MaxDisturbances
        /\ breaks' = breaks + 1
        /\ op' = Idle
        /\ UNCHANGED <<runs, facts, waiting, served, now>>
CallRaises == /\ op # Idle /\ Cardinality(waiting) + breaks < MaxDisturbances
           /\ breaks' = breaks + 1
           /\ runs' = [runs EXCEPT ![op.run].status = "failed"]
           /\ op' = Idle
           /\ UNCHANGED <<facts, waiting, served, now>>

Bootstrap ==
    \/ OpenRegister \/ PersistRegister \/ CompleteRegister
    \/ OpenDataset \/ PersistMember \/ CompleteDataset
    \/ OpenSeason \/ UpsertTeam
    \/ UpsertPlayers \/ ReadCanonicalPlayers \/ RecordCanonicalPlayers \/ RecordPlayerMappings
    \/ EnsurePlayer \/ ResolvePlayer \/ EnsureCanonical \/ EnsureMapping
    \/ UpsertGames \/ RecordStatuses \/ LinkGames \/ CheckThroughSeason
    \/ RecordTeamSnapshots \/ RecordLineups \/ RecordPlayerSnapshots
    \/ UpsertPlays \/ ReadLatestRevisions \/ RecordPlayRevisions \/ RecordExcluded \/ CompleteSeason
    \/ CompleteManifest \/ ReadInventory \/ CompleteInventory \/ Finalize
=============================================================================
