SPECIFICATION StorageSpec
CONSTANTS
    Starters = {service, operator}
    Runs = {l1}
    Endings = {"failed", "aborted"}
    Current = 3
    GrainVersion = 2
    SnapshotSets <- MCSnapshotSets
    MaxFaults = 1
    StatsRuns = {"old", "r1", "r2"}
    LegacyRun = "old"
    Nobody = "nobody"
    NoPlayer = "none"
    Archives <- MCArchives
    Members <- MCMembers
    ThroughSeason = 2
    MaxDisturbances = 1
INVARIANTS NothingIsLost SoloStartSucceeds BootstrapIsWhole RevisionsAreChained
PROPERTIES EvidenceIsKept StorageEnds
CHECK_DEADLOCK FALSE
