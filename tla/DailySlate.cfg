\* One controller process with a slate handler and one operator, the slate phase
\* alone; reuse between two runs by repository calls.
CONSTANTS
  r1 = r1
  r2 = r2
  p1 = p1
  d1 = d1
  c1 = c1
  c2 = c2
  NoRun = NoRun
  Runs <- TwoRuns
  Dates <- OneDate
  DateOf <- SameDate
  Procs <- OneProc
  Handled <- AllPhases
  NumPhases = 1
  MaxAttempts = 3
  SlatePhase = 1
  Players <- TwoPlayers
CONSTRAINT Bound
SPECIFICATION SlateSpec
INVARIANTS
  ReuseIsSound
  OutputIsSealed
PROPERTIES
  RunFollowsPhases
