-------------------------- MODULE MCStatsAcquisition --------------------------
(***************************************************************************)
(* Two processes, two days of the season, two runs, one crash; the same    *)
(* two with three runs of one day and the features they record.            *)
(***************************************************************************)
EXTENDS StatsAcquisition, FeatureSnapshots, TLC

CONSTANTS e1, e2

TwoProcesses == {e1, e2}
BackfillThenDaily ==
  [r \in Runs |-> [command |-> IF r = 1 THEN "backfill" ELSE "daily",
                  through |-> MaxDay]]
Symmetry == Permutations(TwoProcesses)

\* Bound: a behaviour follows the runs, or the features recorded for them.
RunsFollowed == ticks = 0
FeaturesFollowed == \A r \in Runs : outer[r] = "absent"

\* Bound: aggregate rows are rejected, a fault occurs or a game is cancelled,
\* one of the three.
OneMishap == LET rejected == \E e \in Executors : proc[e].rejected
                 cancelled == \E r \in Runs : cancels[r] # {}
             IN  /\ faults = 0 \/ (~rejected /\ ~cancelled)
                 /\ ~rejected \/ ~cancelled

AcquisitionInit == Init /\ FeatureInit
AcquisitionNext ==
  \/ RunsFollowed /\ Next /\ UNCHANGED featureVars
  \/ FeaturesFollowed /\ FeatureNext /\ UNCHANGED vars
AcquisitionSpec == AcquisitionInit /\ [][AcquisitionNext]_<<vars, featureVars>>
=============================================================================
