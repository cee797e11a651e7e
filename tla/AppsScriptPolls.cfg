SPECIFICATION FairSpec
CONSTANTS
  r1 = r1
  r2 = r2
  NoRun = NoRun
  Runs <- TwoRuns
  MaxPolls = 3
  CutOff = FALSE
CHECK_DEADLOCK FALSE
INVARIANTS
  ActiveRunIsPolled
