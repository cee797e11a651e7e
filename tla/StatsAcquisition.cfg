\* Two processes over one statistics database, one of which may die.
CONSTANTS
  e1 = e1
  e2 = e2
  Executors <- TwoProcesses
  MaxRuns = 2
  MaxDay = 2
  MaxFaults = 1
  RequestOf <- BackfillThenDaily
  Workers <- TwoProcesses
  MaxJobs = 3
  Contents = {1, 2}
  MaxDeaths = 1
SYMMETRY Symmetry
CONSTRAINT OneMishap
SPECIFICATION AcquisitionSpec
INVARIANTS
  CompletedRunReconciles
  WatermarkIsBacked
  OuterFollowsStats
  FeaturesStandOnEvidence
PROPERTIES
  WatermarkNeverRegresses
CHECK_DEADLOCK FALSE
