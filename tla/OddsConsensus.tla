--------------------------- MODULE OddsConsensus ---------------------------
(***************************************************************************)
(* What one capture of a game's odds says of its markets, computed twice:  *)
(* process_game reads the provider's nested payload, calculate_line_       *)
(* movement reads the rows that persist_game_with_odds stored, in the      *)
(* capture's own run and in every later one (odds_processor.py, called     *)
(* from pipeline.py 472-503).                                              *)
(*                                                                         *)
(* A price is an American price, a point and a time are integers, and a    *)
(* value that may be missing is a sequence of at most one element.  A      *)
(* probability is in basis points, a median is kept doubled.  Text that    *)
(* does not parse is missing.  A line of the h2h market is <<0>>, the      *)
(* "moneyline".                                                            *)
(***************************************************************************)
EXTENDS Integers, Sequences, FiniteSets

CONSTANTS
  FreshSeconds,     \* fresh_seconds, stale_seconds and
  StaleSeconds,     \* future_tolerance_seconds: FreshnessThresholds
  FutureTolerance,
  MinimumBooks      \* minimum_books: ConsensusThresholds

ASSUME OddsAssumption ==
  /\ FreshSeconds \in Nat /\ StaleSeconds \in Nat /\ FreshSeconds < StaleSeconds
  /\ FutureTolerance \in Nat
  /\ MinimumBooks \in Nat \ {0}

Missing == <<>>
Magnitude(n) == IF n < 0 THEN -n ELSE n
Greatest(S) == CHOOSE n \in S : \A k \in S : k <= n
Least(S) == CHOOSE n \in S : \A k \in S : n <= k

\* The k-th smallest value of f, and twice the median of its values.
Ranked(f, k) ==
  CHOOSE v \in {f[x] : x \in DOMAIN f} :
    /\ Cardinality({x \in DOMAIN f : f[x] < v}) < k
    /\ Cardinality({x \in DOMAIN f : f[x] <= v}) >= k

TwiceMedian(f) ==
  LET n == Cardinality(DOMAIN f)
  IN  Ranked(f, (n + 1) \div 2) + Ranked(f, n \div 2 + 1)

-----------------------------------------------------------------------------
(* Prices and times.                                                       *)

IsAmerican(price) == Magnitude(price) >= 100

Probability(price) ==
  IF price > 0 THEN 1000000 \div (price + 100)
  ELSE (-10000 * price) \div (100 - price)

BestPrice(prices) == Greatest({prices[b] : b \in DOMAIN prices})

NoVig(first, second) ==
  << (10000 * first) \div (first + second), (10000 * second) \div (first + second) >>

Hold(first, second) == first + second - 10000

\* A time too far ahead of the capture is treated as missing.
UsableTime(stamp, now) ==
  IF stamp # Missing /\ stamp[1] - now > FutureTolerance THEN Missing ELSE stamp

MarketTime(book, market, now) ==
  IF UsableTime(market.stamp, now) # Missing
    THEN UsableTime(market.stamp, now)
    ELSE UsableTime(book.stamp, now)

Freshness(stamp, now) ==
  CASE stamp = Missing                    -> "unknown"
    [] stamp # Missing /\ now - stamp[1] <= FreshSeconds -> "fresh"
    [] stamp # Missing /\ now - stamp[1] \in FreshSeconds + 1 .. StaleSeconds -> "aging"
    [] OTHER                              -> "stale"

-----------------------------------------------------------------------------
(* The payload: capture.books[b].markets[j].outcomes[k].                   *)

\* The collector leaves out whatever has not the provider's shape, each at its
\* level, and keeps the rest of the event.
WellFormed(x) == x.wellFormed

ValidatedGame(capture) ==
  LET market(m) == [m EXCEPT !.outcomes = SelectSeq(m.outcomes, WellFormed)]
      kept(b)   == SelectSeq(capture.books[b].markets, WellFormed)
  IN  [capture EXCEPT !.books =
         [b \in {b \in DOMAIN capture.books : WellFormed(capture.books[b])} |->
            [capture.books[b] EXCEPT !.markets =
               [j \in DOMAIN kept(b) |-> market(kept(b)[j])]]]]

AwayTeam(home) == IF home = "t1" THEN "t2" ELSE "t1"

AllowedNames(key) == IF key = "totals" THEN {"Over", "Under"} ELSE {"t1", "t2"}

\* The two sides whose prices are paired: home and away, or Over and Under.
ExpectedSides(key, home) ==
  IF key = "totals" THEN <<"Over", "Under">> ELSE <<home, AwayTeam(home)>>

\* An away team's point is the home team's with the sign changed.
CanonicalLine(key, name, point, home) ==
  IF key = "h2h" THEN <<0>>
  ELSE IF point = Missing \/ name \notin AllowedNames(key) THEN Missing
  ELSE IF key = "spreads" /\ name # home THEN <<-point[1]>>
  ELSE point

\* One outcome outside the two-way shape takes the whole market object out.
CalculationEligible(market) ==
  /\ \A k \in DOMAIN market.outcomes :
       market.outcomes[k].name \in AllowedNames(market.key)
  /\ market.key = "h2h" =>
       \A k \in DOMAIN market.outcomes : market.outcomes[k].point = Missing

OfferAt(capture, b, j, k) ==
  LET market == capture.books[b].markets[j]
      quote  == market.outcomes[k]
  IN  [ book |-> b, order |-> <<j, k>>, side |-> quote.name,
        price |-> quote.price, point |-> quote.point,
        line |-> CanonicalLine(market.key, quote.name, quote.point, capture.home),
        time |-> MarketTime(capture.books[b], market, capture.at),
        eligible |-> CalculationEligible(market) ]

\* The offers of one market: a team's name must be one of the game's.
AllOffers(capture, key) ==
  {o \in UNION {UNION {{OfferAt(capture, b, j, k) :
                          k \in DOMAIN capture.books[b].markets[j].outcomes} :
                       j \in {j \in DOMAIN capture.books[b].markets :
                                capture.books[b].markets[j].key = key}} :
                b \in DOMAIN capture.books} :
     o.side \in AllowedNames(key) \/ key = "totals"}

\* Those with a line.  Each of the others is a group of its own, which takes
\* no part in any decision.
MarketOffers(capture, key) == {o \in AllOffers(capture, key) : o.line # Missing}

GroupOf(o, offers) ==
  IF o.line = Missing THEN {o} ELSE {p \in offers : p.line = o.line}

Valid(offers) == {o \in offers : o.eligible /\ IsAmerican(o.price)}

-----------------------------------------------------------------------------
(* One side of one line: one offer per book, and what the books say.       *)

Before(p, q) == p[1] < q[1] \/ (p[1] = q[1] /\ p[2] < q[2])

Preferred(o, than) ==
  \/ o.time # Missing /\ than.time = Missing
  \/ o.time # Missing /\ than.time # Missing /\ o.time[1] > than.time[1]
  \/ o.time = than.time /\ Before(than.order, o.order)

ChooseOffer(offers) ==
  CHOOSE o \in offers : \A than \in offers \ {o} : Preferred(o, than)

\* The price of every book whose chosen offer can be used.
PricesByBook(offers, line, side) ==
  LET here     == {o \in offers : o.line = line /\ o.side = side}
      chosen   == {ChooseOffer({o \in here : o.book = b}) : b \in {o.book : o \in here}}
  IN  [b \in {o.book : o \in Valid(chosen)} |->
         (CHOOSE o \in Valid(chosen) : o.book = b).price]

ImpliedProbabilities(prices) == [b \in DOMAIN prices |-> Probability(prices[b])]

SummarizeOutcome(offers, line, side) ==
  LET prices == PricesByBook(offers, line, side)
      some   == DOMAIN prices # {}
  IN  [ books |-> DOMAIN prices,
        insufficient |-> Cardinality(DOMAIN prices) < MinimumBooks,
        best |-> IF some THEN <<BestPrice(prices)>> ELSE Missing,
        bestBooks |-> {b \in DOMAIN prices : prices[b] = BestPrice(prices)},
        consensus |-> IF some THEN <<TwiceMedian(ImpliedProbabilities(prices))>>
                              ELSE Missing ]

\* The books that quote both sides of the line, with the margin taken out.
PairLine(offers, line, sides) ==
  LET first  == PricesByBook(offers, line, sides[1])
      second == PricesByBook(offers, line, sides[2])
  IN  [b \in DOMAIN first \cap DOMAIN second |->
         [ noVig |-> NoVig(Probability(first[b]), Probability(second[b])),
           hold  |-> Hold(Probability(first[b]), Probability(second[b])) ]]

-----------------------------------------------------------------------------
(* The lines of a market and the choice of the primary one.                *)

LinesOf(offers) == {o.line[1] : o \in offers}

LineBooks(offers, line) == {o.book : o \in {v \in Valid(offers) : v.line = <<line>>}}

\* The latest usable time of each book on the line, over the known ones.
LineTimes(offers, line) ==
  LET known == {o \in Valid(offers) : o.line = <<line>> /\ o.time # Missing}
  IN  [b \in {o.book : o \in known} |->
         Greatest({o.time[1] : o \in {k \in known : k.book = b}})]

\* Most books, then the newest median time among those that have one, then
\* the lowest number.  A mistake: the lowest one, however old its prices are.
MostBooks(offers) ==
  LET quoted == {l \in LinesOf(offers) : LineBooks(offers, l) # {}}
  IN  {l \in quoted : \A k \in quoted :
         Cardinality(LineBooks(offers, k)) <= Cardinality(LineBooks(offers, l))}

NewestAmong(times) ==
  LET known == {l \in DOMAIN times : DOMAIN times[l] # {}}
  IN  IF known = {} THEN DOMAIN times
      ELSE {l \in known : \A k \in known : TwiceMedian(times[k]) <= TwiceMedian(times[l])}

LowestOfMost(offers) ==
  IF MostBooks(offers) = {} THEN Missing ELSE <<Least(MostBooks(offers))>>

SelectPrimaryLine(offers) ==
  LET tied     == MostBooks(offers)
      newest   == IF Cardinality(tied) > 1
                  THEN NewestAmong([l \in tied |-> LineTimes(offers, l)]) ELSE tied
  IN  IF tied = {} THEN Missing ELSE <<Least(newest)>>

AlternateLines(offers) ==
  {l \in LinesOf(offers) :
     LineBooks(offers, l) # {} /\ <<l>> # SelectPrimaryLine(offers)}

\* The point most books quote, by number of books alone.
ModalPoint(offers) ==
  IF MostBooks(offers) = {} THEN Missing ELSE <<Least(MostBooks(offers))>>

\* A book whose two sides have no pair of points that fit together.
UnpairedBooks(offers, key, sides) ==
  LET of(b, s) == {o \in offers : o.book = b /\ o.side = s}
      fit(x, y) == /\ x.point # Missing /\ y.point # Missing
                   /\ x.point[1] = IF key = "spreads" THEN -y.point[1] ELSE y.point[1]
  IN  {b \in {o.book : o \in offers} :
         /\ key # "h2h" /\ of(b, sides[1]) # {} /\ of(b, sides[2]) # {}
         /\ ~\E x \in of(b, sides[1]), y \in of(b, sides[2]) : fit(x, y)}

\* The reservations process_game records about a market.
MarketWarnings(capture, key) ==
  LET offers  == AllOffers(capture, key)
      sides   == ExpectedSides(key, capture.home)
      markets == UNION {{<<b, j>> : j \in {j \in DOMAIN capture.books[b].markets :
                                             capture.books[b].markets[j].key = key}} :
                        b \in DOMAIN capture.books}
      at(m)   == capture.books[m[1]].markets[m[2]]
      time(m) == MarketTime(capture.books[m[1]], at(m), capture.at)
  IN  {w \in { <<"malformed_outcome", \E m \in markets : ~CalculationEligible(at(m))>>,
               <<"missing_provider_timestamp", \E m \in markets : time(m) = Missing>>,
               <<"stale_market", \E m \in markets :
                   Freshness(time(m), capture.at) = "stale">>,
               <<"invalid_pair", UnpairedBooks(offers, key, sides) # {}>>,
               <<"duplicate_normalized_offer", \E o, p \in MarketOffers(capture, key) :
                   o.order # p.order /\ <<o.book, o.line, o.side>> = <<p.book, p.line, p.side>> >>,
               <<"insufficient_bookmakers", \E o \in offers :
                   SummarizeOutcome(GroupOf(o, offers), o.line, o.side).insufficient>>,
               <<"incomplete_two_way_market", \E o \in offers :
                   o.line = Missing \/ DOMAIN PairLine(offers, o.line, sides) = {}>>,
               <<"primary_line_tie",
                   key # "h2h" /\ Cardinality(MostBooks(MarketOffers(capture, key))) > 1>> } :
         w[2]}

\* process_game, for one of the markets that have points.
ProcessMarket(capture, key) ==
  LET offers  == MarketOffers(capture, key)
      primary == SelectPrimaryLine(offers)
      sides   == {o.side : o \in offers}
  IN  [ primary |-> primary,
        consensus |-> [s \in {s \in sides : PricesByBook(offers, primary, s) # Missing} |->
                         SummarizeOutcome(offers, primary, s).consensus] ]

-----------------------------------------------------------------------------
(* The rows: one per outcome, with the times as the provider sent them.    *)

SnapshotRow(capture, b, j, k) ==
  LET market == capture.books[b].markets[j]
      quote  == market.outcomes[k]
  IN  [ at |-> capture.at, book |-> b, market |-> market.key, order |-> <<j, k>>,
        name |-> quote.name, price |-> quote.price, point |-> quote.point,
        time |-> IF market.stamp # Missing THEN market.stamp
                                           ELSE capture.books[b].stamp ]

SnapshotRows(capture) ==
  UNION {UNION {{SnapshotRow(capture, b, j, k) :
                   k \in DOMAIN capture.books[b].markets[j].outcomes} :
                j \in DOMAIN capture.books[b].markets} :
         b \in DOMAIN capture.books}

\* get_odds_history: every capture's rows, beside the game's present teams.
OddsHistory(captures) == UNION {SnapshotRows(captures[i]) : i \in DOMAIN captures}
PresentHome(captures) == captures[Len(captures)].home

\* A book counts in a capture if all its rows of the market are in shape.
EligibleRows(rows, key) ==
  {r \in rows : \A other \in rows :
     other.book = r.book /\ other.at = r.at =>
       /\ other.name \in AllowedNames(key)
       /\ key = "h2h" => other.point = Missing}

\* The row that represents a book's offer: only rows with a price take part.
SameOffer(r, s) ==
  r.at = s.at /\ r.book = s.book /\ r.name = s.name /\ r.point = s.point

SelectedRows(rows, key) ==
  LET priced == {r \in EligibleRows(rows, key) : IsAmerican(r.price)}
  IN  {r \in priced : \A s \in priced \ {r} : SameOffer(r, s) => Preferred(r, s)}

\* _primary_market_movement, for the rows of one capture.
HistoryLine(r, home) == CanonicalLine(r.market, r.name, r.point, home)

PrimaryMovement(rows, home, key) ==
  LET selected  == {r \in SelectedRows(rows, key) : HistoryLine(r, home) # Missing}
      lines     == {HistoryLine(r, home)[1] : r \in selected}
      on(l)     == {r \in selected : HistoryLine(r, home) = <<l>>}
      books(l)  == {r.book : r \in on(l)}
      known(l)  == {r \in on(l) : r.time # Missing}
      times(l)  == [b \in {r.book : r \in known(l)} |->
                      Greatest({r.time[1] : r \in {k \in known(l) : k.book = b}})]
      most      == {l \in lines : \A k \in lines :
                      Cardinality(books(k)) <= Cardinality(books(l))}
      primary   == Least(NewestAmong([l \in most |-> times(l)]))
      quotes(s) == {r \in on(primary) : r.name = s}
  IN  IF lines = {} THEN [primary |-> Missing, consensus |-> Missing]
      ELSE [ primary |-> <<primary>>,
             consensus |-> [s \in {r.name : r \in on(primary)} |->
               << TwiceMedian([b \in {r.book : r \in quotes(s)} |->
                    Probability((CHOOSE r \in quotes(s) : r.book = b).price)]) >>] ]

\* The observations of a market, one per capture that yields a line, and the
\* first and the latest of them.
Observations(captures, key) ==
  LET rows  == {r \in OddsHistory(captures) : r.market = key}
      at(t) == PrimaryMovement({r \in rows : r.at = t}, PresentHome(captures), key)
  IN  [t \in {t \in {r.at : r \in rows} : at(t).primary # Missing} |-> at(t)]

PointMovement(captures, key) ==
  LET seen == Observations(captures, key)
  IN  IF Cardinality(DOMAIN seen) < 2 THEN Missing
      ELSE << seen[Greatest(DOMAIN seen)].primary[1] - seen[Least(DOMAIN seen)].primary[1] >>

\* One book's offer on one side and point, from its first capture to its last.
OfferMovement(captures, key, b, name, point) ==
  LET rows  == {r \in OddsHistory(captures) : r.market = key}
      mine  == {r \in SelectedRows(rows, key) :
                  r.book = b /\ r.name = name /\ r.point = point}
      at(t) == CHOOSE r \in mine : r.at = t
      times == {r.at : r \in mine}
  IN  IF times = {} THEN Missing
      ELSE << at(Least(times)).price, at(Greatest(times)).price >>

\* What the rows of all the captures say of the one retrieved at t.
ShownAt(captures, key, t) ==
  LET seen == Observations(captures, key)
  IN  IF t \in DOMAIN seen THEN seen[t] ELSE [primary |-> Missing, consensus |-> Missing]
=============================================================================
