------------------------ MODULE MCGameReconciliation ------------------------
(***************************************************************************)
(* The rules of GameReconciliation over bounded doubleheaders: two games   *)
(* that ended alike or not, pages that list, lag behind, leave out or      *)
(* number them differently, and feeds that are missing, cut short or in    *)
(* conflict.  After five innings the longer game stood as the other ended. *)
(***************************************************************************)
EXTENDS GameReconciliation

VARIABLE day   \* what a day's pages and feeds show, or NoDay

Games == {1, 2}
Shorter == [home |-> 3, away |-> 2]
Longer == [home |-> 4, away |-> 2]

FullRow(g, club, final) ==
  [ of |-> g, labels |-> <<>>, ordinals |-> {g}, status |-> "", note |-> "",
    result |-> TRUE, box |-> <<g>>,
    runs    |-> IF club = "home" THEN <<final.home>> ELSE <<final.away>>,
    against |-> IF club = "home" THEN <<final.away>> ELSE <<final.home>> ]

\* What a page may show of a game.
Shown(g, club, final, how) ==
  LET full == FullRow(g, club, final)
  IN  CASE how = "full"      -> <<full>>
        [] how = "nobox"     -> << [full EXCEPT !.box = None] >>
        [] how = "scheduled" -> << [full EXCEPT !.result = FALSE, !.runs = None,
                                                !.against = None, !.box = None] >>
        [] how = "suspended" -> << [full EXCEPT !.note = "suspended"] >>
        [] how = "unclear"   -> << [full EXCEPT !.ordinals = {g, g + 1}] >>
        [] how = "playoff"   ->
             << [full EXCEPT !.labels =
                   << [field |-> "game_type", value |-> "postseason"] >>] >>

\* By the home club's page and by the away club's.
Showings ==
  { <<"full", "full">>, <<"nobox", "nobox">>, <<"full", "nobox">>,
    <<"scheduled", "scheduled">>, <<"scheduled", "full">>,
    <<"suspended", "suspended">>, <<"unclear", "nobox">>,
    <<"nobox", "unclear">>, <<"unclear", "unclear">>, <<"playoff", "playoff">> }

PagesOf(finals, shown) ==
  [c \in Clubs |->
     LET side == IF c = "home" THEN 1 ELSE 2
     IN  Shown(1, c, finals[1], shown[1][side]) \o Shown(2, c, finals[2], shown[2][side])]

\* A feed of twelve half innings, or of the first ten of them.  Identifiers
\* do not follow the order of play.
PkOf(g) == 3 - g
GameOf == [pk \in {PkOf(g) : g \in Games} |-> 3 - pk]

FeedKinds == {"none", "numbered", "plain", "short"}

FeedOf(g, final, kind) ==
  [ pk |-> PkOf(g),
    halves |-> [k \in 1 .. (IF kind = "short" THEN 10 ELSE 12) |->
      [ inning |-> HalfOf(k)[1], half |-> HalfOf(k)[2], outs |-> 0, whole |-> TRUE,
        number |-> IF kind = "plain" THEN None ELSE <<g>>,
        home |-> IF k < 11 THEN final.home - 1 ELSE final.home,
        away |-> final.away ]] ]

FeedsOf(finals, kinds) ==
  {FeedOf(g, finals[g], kinds[g]) : g \in {h \in Games : kinds[h] # "none"}}

NoDay == <<>>
DaysShown ==
  [finals : [Games -> {Shorter, Longer}], shown : [Games -> Showings], last : Clubs,
   kinds : [Games -> FeedKinds], conflicts : SUBSET {PkOf(g) : g \in Games}]

-----------------------------------------------------------------------------
ScoreOf(final) == << <<final.home>>, <<final.away>> >>

\* An entry joins rows of two games only if they ended alike and no page
\* gives it a second box score.
EntriesAreReal(schedule, finals) ==
  /\ ScoresAreReal(schedule, [g \in Games |-> ScoreOf(finals[g])])
  /\ finals[1] # finals[2] =>
       \A entry \in FinalGames(schedule) : Cardinality(entry.of) = 1

\* When no feed is cut short and none is ahead of the schedule.
FeedsFit(schedule, kinds) ==
  \A g \in Games : kinds[g] # "none" =>
    kinds[g] # "short" /\ \E entry \in FinalGames(schedule) : IsOf(entry, g)

\* Nothing stands in the way of matching the whole day.
Distinct(schedule, finals, kinds) ==
  \/ finals[1] # finals[2]
  \/ /\ \A entry \in schedule : BoxSequence(entry) # None
     /\ \A g \in Games : kinds[g] = "numbered"

JudgesRight(finals, shown, last, kinds, conflicts) ==
  LET pages    == PagesOf(finals, shown)
      schedule == DaySchedule(pages, last)
      feeds    == FeedsOf(finals, kinds)
      matches  == Matches(schedule, feeds, conflicts)
      states   == GameStates(schedule, feeds, conflicts)
      complete == {id \in DOMAIN states : states[id].complete}
      fit      == FeedsFit(schedule, kinds)
  IN  /\ EntriesAreReal(schedule, finals)
      /\ MatchesAreOneToOne(matches, conflicts)
      /\ fit => MatchesAreOwn(schedule, matches, GameOf)
      /\ complete \subseteq {m[1] : m \in matches}
      /\ \A id \in complete : states[id].validated
      /\ /\ fit /\ conflicts = {} /\ Distinct(schedule, finals, kinds)
         /\ \A g \in Games : kinds[g] # "none"
         => complete = {entry.id : entry \in schedule}

(***************************************************************************)
(* Whatever two clubs' pages leave out or lag behind with, an accepted     *)
(* schedule entry has the score of the games its rows are about and mixes  *)
(* two games only if they ended alike; no feed serves two entries and a    *)
(* conflicted one none.  When every feed is whole and of a game scheduled  *)
(* as final, a match joins an entry with its own game, two games that      *)
(* ended alike stay unmatched unless both sources number them, and a day   *)
(* with nothing missing is complete (stats/acquisition.py                  *)
(* _reconcile_completed_statcast_games, _schedule_states).                 *)
(***************************************************************************)
GamesAreToldApart ==
  day # NoDay =>
    JudgesRight(day.finals, day.shown, day.last, day.kinds, day.conflicts)
=============================================================================
