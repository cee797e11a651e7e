--------------------------- MODULE MCStatsStorage ---------------------------
(***************************************************************************)
(* Two processes opening a file, three schema versions of which the second *)
(* rebuilds the player snapshots; two archives of one season (and a player *)
(* row of the season before), two runs and one an older release left.      *)
(***************************************************************************)
EXTENDS StatsStorage

Snapshot(id, role, position, revision) ==
    [id |-> id, player |-> 1, role |-> role, position |-> position,
     stint |-> 0, revision |-> revision]
\* A fielding chain that mixes two positions, beside a batting chain; and a
\* fielding row without a position.
MCSnapshotSets ==
    {{}, {Snapshot(1, "fielding", "P", 1), Snapshot(2, "fielding", "P", 2),
          Snapshot(3, "fielding", "C", 3),
          Snapshot(4, "batting", NoPosition, 1), Snapshot(5, "batting", NoPosition, 2)},
     {Snapshot(1, "fielding", NoPosition, 1)}}

ArchiveRow(member, season, game, teams, player, value) ==
    [member |-> member, season |-> season, game |-> game, teams |-> teams,
     player |-> player, value |-> value, regular |-> game # "G2"]
\* P2 starts a game and is not in allplayers; G2 is not a regular game.
FirstArchive ==
    <<ArchiveRow("allplayers", 1, "", {"A"}, "P1", 1),
      ArchiveRow("allplayers", 2, "", {"A"}, "P1", 1),
      ArchiveRow("gameinfo", 2, "G1", {"A", "B"}, "none", 1),
      ArchiveRow("gameinfo", 2, "G2", {"A", "B"}, "none", 1),
      ArchiveRow("teamstats", 2, "G1", {"A"}, "P1", 1),
      ArchiveRow("teamstats", 2, "G1", {"B"}, "P2", 1),
      ArchiveRow("teamstats", 2, "G2", {"B"}, "P2", 1),
      ArchiveRow("batting", 2, "G1", {"A"}, "P1", 1),
      ArchiveRow("plays", 2, "G1", {}, "none", 1),
      ArchiveRow("plays", 2, "G2", {}, "none", 1)>>
\* The provider corrects a batting line and a play.
MCArchives == <<FirstArchive, [FirstArchive EXCEPT ![8].value = 2, ![9].value = 2]>>
MCMembers == <<"allplayers", "gameinfo", "teamstats", "batting", "plays">>
=============================================================================
