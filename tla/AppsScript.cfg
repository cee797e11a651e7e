SPECIFICATION FairSpec
CONSTANTS
  r1 = r1
  r2 = r2
  NoRun = NoRun
  Runs <- TwoRuns
  MaxPolls = 3
  CutOff = TRUE
CHECK_DEADLOCK FALSE
INVARIANTS
  SavedOnceWhenComplete
PROPERTIES
  PollingEnds
