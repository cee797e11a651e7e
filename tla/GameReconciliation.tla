------------------------- MODULE GameReconciliation -------------------------
(***************************************************************************)
(* How a day's games of two clubs are told apart: the two clubs' schedule  *)
(* pages are merged by the order of their rows, and the Statcast feeds are *)
(* matched to the merged games by final score or by an explicit number     *)
(* (stats/acquisition.py _collect_schedules,                               *)
(* _reconcile_completed_statcast_games).                                   *)
(*                                                                         *)
(* One date, a home and an away club, so that a game is known by its       *)
(* occurrence, the number in its identity bref:date:away:home:n.  A value  *)
(* that may be missing is a sequence of at most one element.  A row and a  *)
(* feed carry the game they really are about, which no rule reads.         *)
(***************************************************************************)
EXTENDS Integers, Sequences, SequencesExt, FiniteSets

Clubs == {"home", "away"}
None == <<>>
Only(S) == CHOOSE x \in S : TRUE

-----------------------------------------------------------------------------
(* One row of a club's page.                                               *)

RegularLabels == {"r", "regular", "regular_season"}
OtherLabels == {"postseason", "exhibition", "spring_training", "all_star"}

\* The first label a row carries decides; a row without one needs a positive
\* ordinal, and two ordinals must agree.
ClassifyRow(row) ==
  CASE row.labels # <<>> ->
         (CASE row.labels[1].value \in RegularLabels       -> "regular_season"
            [] row.labels[1].field = "postseason_round"
               \/ row.labels[1].value \in OtherLabels      -> "excluded"
            [] OTHER                                       -> "malformed")
    [] row.labels = <<>> ->
         IF Cardinality(row.ordinals) = 1 /\ row.ordinals \subseteq Nat \ {0}
           THEN "regular_season" ELSE "malformed"

NoteStatus ==
  [ suspended |-> "suspended_pending", postponed |-> "postponed_rescheduled",
    cancelled |-> "cancelled_no_game", abandoned |-> "abandoned",
    live |-> "in_progress" ]

\* An explicit status, then the notes, then result and scores.
StatusOf(row) ==
  IF row.status # "" THEN row.status
  ELSE IF row.note \in DOMAIN NoteStatus THEN NoteStatus[row.note]
  ELSE IF row.result /\ row.runs # None /\ row.against # None THEN "final"
  ELSE IF ~row.result /\ row.runs = None /\ row.against = None THEN "scheduled"
  ELSE "source_incomplete"

\* A page is written from its own club's side.
NormalizedGame(row, club) ==
  [ status |-> StatusOf(row), box |-> row.box, of |-> row.of,
    score |-> IF club = "home" THEN <<row.runs, row.against>>
                               ELSE <<row.against, row.runs>> ]

-----------------------------------------------------------------------------
(* The pages merged: _collect_schedules, _reconcile_schedule_group.        *)

RegularGames(pages, club) ==
  LET regular(row) == ClassifyRow(row) = "regular_season"
      rows         == SelectSeq(pages[club], regular)
  IN  [k \in DOMAIN rows |-> NormalizedGame(rows[k], club)]

Occurrences(pages) == UNION {DOMAIN RegularGames(pages, c) : c \in Clubs}

Observed(pages, k) == {c \in Clubs : k \in DOMAIN RegularGames(pages, c)}

ObservedGames(pages, k) == {RegularGames(pages, c)[k] : c \in Observed(pages, k)}

NoScore == <<None, None>>
ScoreFacts(games) == {g.score : g \in games} \ {NoScore}

\* _schedule_facts: the clubs agree on status and on score.
FactsAgree(games) ==
  /\ Cardinality({g.status : g \in games}) = 1
  /\ Cardinality(ScoreFacts(games)) <= 1
  /\ {g.status : g \in games} = {"final"} =>
       /\ Cardinality(ScoreFacts(games)) = 1
       /\ \A s \in ScoreFacts(games) : None \notin {s[1], s[2]}

BoxIdentities(games) == {g.box : g \in games} \ {None}

\* reconcile_schedule_pair: both clubs list the game, field by field alike.
PairPasses(pages, k) ==
  /\ Observed(pages, k) = Clubs
  /\ RegularGames(pages, "home")[k].status = RegularGames(pages, "away")[k].status
  /\ RegularGames(pages, "home")[k].score = RegularGames(pages, "away")[k].score

GroupAccepted(pages, k) ==
  /\ Cardinality(BoxIdentities(ObservedGames(pages, k))) <= 1
  /\ FactsAgree(ObservedGames(pages, k))
  /\ PairPasses(pages, k)

ScheduleAccepted(pages) == \A k \in Occurrences(pages) : GroupAccepted(pages, k)

\* The row of the page retrieved last stands for the game; every row is a
\* status observation of it.
Representative(pages, k, last) ==
  LET game == RegularGames(pages, IF last \in Observed(pages, k) THEN last
                                  ELSE Only(Observed(pages, k)))[k]
  IN  [ id |-> k, status |-> game.status, score |-> game.score, box |-> game.box,
        of |-> {g.of : g \in ObservedGames(pages, k)} ]

DaySchedule(pages, last) ==
  IF ScheduleAccepted(pages)
    THEN {Representative(pages, k, last) : k \in Occurrences(pages)}
    ELSE {}

-----------------------------------------------------------------------------
(* A feed: the half innings that its pitches form, in at-bat order.        *)

HalfOf(k) == << (k + 1) \div 2, IF k % 2 = 1 THEN "top" ELSE "bottom" >>

\* Every half inning from the first on, each begun with nobody out, no pitch
\* missing within an at-bat, at least five innings and no tie.  Whether the
\* last half inning is over, the schedule is left to say.
ConfirmedGame(feed) ==
  feed.halves # <<>> /\
  LET last == Last(feed.halves)
  IN  /\ \A k \in DOMAIN feed.halves :
           /\ <<feed.halves[k].inning, feed.halves[k].half>> = HalfOf(k)
           /\ feed.halves[k].outs = 0
           /\ feed.halves[k].whole
      /\ last.inning >= 5
      /\ last.home # last.away

FeedScore(feed) == << <<Last(feed.halves).home>>, <<Last(feed.halves).away>> >>

\* The number of the game if every pitch names it, and the same one.
ExplicitSequence(feed) ==
  LET numbers == {feed.halves[k].number : k \in DOMAIN feed.halves}
  IN  IF Cardinality(numbers) = 1 /\ numbers \subseteq {<<1>>, <<2>>}
        THEN Only(numbers) ELSE None

\* The last digit of the box score's identity.
BoxSequence(game) == IF game.box \in {<<1>>, <<2>>} THEN game.box ELSE None

-----------------------------------------------------------------------------
(* _reconcile_completed_statcast_games.                                    *)

FinalGames(schedule) == {g \in schedule : g.status = "final"}

Evidence(feeds) == {f \in feeds : ConfirmedGame(f)}

\* A mistake: the games in order of their identifiers.
PairedInOrder(games, feeds) ==
  LET nth(S, x, key(_)) == Cardinality({y \in S : key(y) <= key(x)})
      id(g) == g.id
      pk(f) == f.pk
  IN  {m \in games \X feeds : nth(games, m[1], id) = nth(feeds, m[2], pk)}

\* As many different numbers as games on both sides, and the same numbers.
PairedBySequence(games, feeds) ==
  LET numbersOf(S, seq(_)) == {seq(x) : x \in S} \ {None}
      scheduled == numbersOf(games, BoxSequence)
  IN  IF /\ Cardinality(scheduled) = Cardinality(games)
         /\ scheduled = numbersOf(feeds, ExplicitSequence)
        THEN {m \in games \X feeds : BoxSequence(m[1]) = ExplicitSequence(m[2])}
        ELSE {}

MatchedAt(score, schedule, feeds, conflicts) ==
  LET games  == {g \in FinalGames(schedule) : g.score = score}
      usable == {f \in Evidence(feeds) : FeedScore(f) = score /\ f.pk \notin conflicts}
  IN  IF Cardinality(games) # Cardinality(usable) THEN {}
      ELSE IF Cardinality(games) = 1 THEN games \X usable
      ELSE PairedBySequence(games, usable)

Matches(schedule, feeds, conflicts) ==
  {<<m[1].id, m[2].pk>> : m \in
     UNION {MatchedAt(s, schedule, feeds, conflicts) :
              s \in {g.score : g \in FinalGames(schedule)}}}

\* A complete feed with a score no scheduled game has puts all of them in
\* doubt, and a conflicted feed the one game it may be.
ValidationFailed(schedule, feeds, conflicts) ==
  LET final   == FinalGames(schedule)
      like(f) == {g \in final : g.score = FeedScore(f)}
  IN  {g.id : g \in {g \in final : \E f \in Evidence(feeds) :
         \/ f.pk \notin conflicts /\ like(f) = {}
         \/ f.pk \in conflicts /\ like(f) = {g}}}

-----------------------------------------------------------------------------
(* _schedule_states: what the completeness rule is told of every game.     *)

GameStates(schedule, feeds, conflicts) ==
  LET failed  == ValidationFailed(schedule, feeds, conflicts)
      covered == {m[1] : m \in Matches(schedule, feeds, conflicts)}
  IN  [id \in {g.id : g \in schedule} |->
         LET game == CHOOSE g \in schedule : g.id = id
         IN  [ validated |-> id \notin failed /\
                             (game.status = "final" => None \notin {game.score[1], game.score[2]}),
               complete  |-> id \notin failed /\ game.status = "final" /\ id \in covered ]]

-----------------------------------------------------------------------------
(* What is asked of the rules.                                             *)

\* The game a schedule entry is about, if its rows are all about one.
IsOf(entry, g) == entry.of = {g}

\* An entry has the score of the games its rows are about.
ScoresAreReal(schedule, scores) ==
  \A entry \in FinalGames(schedule) : \A g \in entry.of : entry.score = scores[g]

MatchesAreOneToOne(matches, conflicts) ==
  /\ \A m, n \in matches : (m[1] = n[1]) <=> (m[2] = n[2])
  /\ \A m \in matches : m[2] \notin conflicts

\* An entry is matched with the feed of its own game.
MatchesAreOwn(schedule, matches, gameOf) ==
  \A m \in matches : \A entry \in schedule : entry.id = m[1] => IsOf(entry, gameOf[m[2]])
=============================================================================
