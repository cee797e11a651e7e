------------------------- MODULE MCProviderTransport -------------------------
(***************************************************************************)
(* Two processes, one page they both want and one Statcast query; and what *)
(* is made of what providers show: the rules that tell a day's games apart *)
(* for every bounded doubleheader, those that compute a game's odds for    *)
(* every bounded capture or pair of them.                                  *)
(***************************************************************************)
EXTENDS ProviderTransport, MCGameReconciliation, MCOddsConsensus

CONSTANTS p1, p2, page, query

TwoProcs == {p1, p2}
OnePage == {page}
OneQuery == {query}

\* A behaviour follows requests, or shows a day or captures to be judged.
NothingShown == day = NoDay /\ captures = NoCaptures
ProvidersInit ==
  /\ Init
  /\ \/ day \in {NoDay} \cup DaysShown /\ captures = NoCaptures
     \/ day = NoDay /\ captures \in CapturesShown
ProvidersNext == NothingShown /\ Next /\ UNCHANGED <<day, captures>>
ProvidersSpec ==
  ProvidersInit /\ [][ProvidersNext]_<<vars, day, captures>> /\ TransportFairness
=============================================================================
