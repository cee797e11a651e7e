--------------------------- MODULE MCOddsConsensus ---------------------------
(***************************************************************************)
(* The two computations of OddsConsensus over bounded captures of one      *)
(* game: two books with one spreads market each, in and out of shape, with *)
(* and without times; three books with a single quote each; and pairs of   *)
(* captures of the same teams.                                             *)
(***************************************************************************)
EXTENDS OddsConsensus

VARIABLE captures   \* what was captured of the game, one after the other

Quote(name, point, price) ==
  [wellFormed |-> TRUE, name |-> name, point |-> point, price |-> price]
Garbled(quote) == [quote EXCEPT !.wellFormed = FALSE]
Spreads(stamp, outcomes) ==
  [wellFormed |-> TRUE, key |-> "spreads", stamp |-> stamp, outcomes |-> outcomes]
Book(stamp, market) == [wellFormed |-> TRUE, stamp |-> stamp, markets |-> <<market>>]
CaptureAt(t, books) == ValidatedGame([home |-> "t1", at |-> t, books |-> books])

Stamps == {Missing, <<1>>, <<2>>}
Lines == {<<-1>>, <<1>>}
Prices == {-150, 120}

\* One quote, or a home and an away quote at opposite points.
Singles == {<<Quote(n, p, 120)>> : n \in {"t1", "t2"}, p \in Lines}
Pairs ==
  {<<Quote("t1", <<p>>, x), Quote("t2", <<-p>>, y)>> : p \in {-1, 1}, x, y \in Prices}

\* A price that is none, a missing point, a stranger, one point for both, and
\* an outcome the collector leaves out.
OutOfShape ==
  { <<Quote("t1", <<1>>, 50)>>,
    <<Quote("t1", Missing, 120), Quote("t2", <<1>>, 120)>>,
    <<Quote("t1", <<1>>, 120), Quote("other", <<-1>>, 120)>>,
    <<Quote("t1", <<1>>, -150), Quote("t2", <<1>>, 120)>>,
    <<Garbled(Quote("other", <<1>>, 120)), Quote("t2", <<1>>, 120)>> }

MarketsFor(shapes) == {Spreads(t, shape) : t \in Stamps, shape \in shapes}

TwoBooks ==
  {CaptureAt(3, [b \in {1, 2} |-> IF b = 1 THEN Book(stamp, m) ELSE Book(Missing, n)]) :
     stamp \in {Missing, <<2>>},
     m \in MarketsFor(Singles \cup Pairs \cup OutOfShape),
     n \in MarketsFor(Singles \cup Pairs \cup OutOfShape)}

ThreeBooks ==
  {CaptureAt(3, [b \in {1, 2, 3} |-> Book(Missing, ms[b])]) :
     ms \in [{1, 2, 3} -> MarketsFor(Singles)]}

OneBookAt(t) ==
  {CaptureAt(t, [b \in {1} |-> Book(Missing, m)]) :
     m \in {Spreads(Missing, s) : s \in Singles \cup Pairs \cup OutOfShape}}

NoCaptures == <<>>
CapturesShown ==
  {<<c>> : c \in TwoBooks \cup ThreeBooks} \cup {<<c, d>> : c \in OneBookAt(3), d \in OneBookAt(4)}

\* process_game and _primary_market_movement, for one capture.
DecidesAlike(c, all) ==
  ProcessMarket(c, "spreads") = ShownAt(all, "spreads", c.at)

\* What moved between two captures is what process_game saw in each.
UsedPrice(c, name, point) ==
  LET prices == PricesByBook(MarketOffers(c, "spreads"),
                             CanonicalLine("spreads", name, point, c.home), name)
  IN  IF 1 \in DOMAIN prices THEN {prices[1]} ELSE {}

MovesAlike(c, d) ==
  LET from == ProcessMarket(c, "spreads").primary
      to   == ProcessMarket(d, "spreads").primary
  IN  /\ PointMovement(<<c, d>>, "spreads") =
           IF from # Missing /\ to # Missing THEN <<to[1] - from[1]>> ELSE Missing
      /\ \A n \in {"t1", "t2"}, p \in Lines :
           LET moved == OfferMovement(<<c, d>>, "spreads", 1, n, p)
               first == UsedPrice(c, n, p)
               last  == UsedPrice(d, n, p)
           IN  IF first \cup last = {} THEN moved = Missing
               ELSE /\ moved[1] \in IF first # {} THEN first ELSE last
                    /\ moved[2] \in IF last # {} THEN last ELSE first

\* A market without reservations has a primary line on which enough books
\* quote either side, and on which most books meet.
SoundIfUnreserved(c) ==
  LET offers == MarketOffers(c, "spreads")
      doubts == {w[1] : w \in MarketWarnings(c, "spreads")}
      line   == SelectPrimaryLine(offers)
  IN  offers # {} /\ doubts \subseteq {"missing_provider_timestamp"} =>
        /\ line = ModalPoint(offers)
        /\ AlternateLines(offers) \cap {line[1]} = {}
        /\ \A n \in {"t1", "t2"} :
             Cardinality(SummarizeOutcome(offers, line, n).books) >= MinimumBooks

\* The best price costs least, the margin is taken out of both sides, and the
\* sides of a line are paired only when one book quotes both.
PricesAgree(c) ==
  LET offers == MarketOffers(c, "spreads")
  IN  \A l \in LinesOf(offers) :
        LET side(n) == PricesByBook(offers, <<l>>, n)
            best(n) == SummarizeOutcome(offers, <<l>>, n).best
            paired  == PairLine(offers, <<l>>, ExpectedSides("spreads", c.home))
        IN  /\ \A n \in {"t1", "t2"} : \A b \in DOMAIN side(n) :
                 Probability(best(n)[1]) <= Probability(side(n)[b])
            /\ \A b \in DOMAIN paired :
                 /\ paired[b].noVig[1] + paired[b].noVig[2] \in 9998 .. 10000
                 /\ paired[b].hold > 0 =>
                      \A i \in {1, 2} : paired[b].noVig[i] <=
                        Probability(side(ExpectedSides("spreads", c.home)[i])[b])

(***************************************************************************)
(* The primary line and the consensus probability of each of its sides     *)
(* that process_game reports for a capture are those that the history      *)
(* shows for it, now and in every later run: two computations, one over    *)
(* nested objects and one over flat rows, with their own rules for shape,  *)
(* missing times, away points and ties (process_game,                      *)
(* _primary_market_movement).  The movement between two captures is the    *)
(* difference of what each showed, the prices of a line fit together, and  *)
(* a market without warnings is quoted on both sides by enough books.      *)
(***************************************************************************)
OddsDecisionsAgree ==
  /\ \A i \in DOMAIN captures : DecidesAlike(captures[i], captures)
  /\ \A i \in DOMAIN captures : Cardinality(DOMAIN captures[i].books) = 2 =>
       (captures[i].books[1].stamp = Missing =>
          PricesAgree(captures[i]) /\ SoundIfUnreserved(captures[i]))
  /\ Len(captures) = 2 => MovesAlike(captures[1], captures[2])
=============================================================================
