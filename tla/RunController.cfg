\* Two processes, one run of two phases, each phase tried at most twice.
CONSTANTS
  r1 = r1
  r2 = r2
  p1 = p1
  p2 = p2
  d1 = d1
  NoRun = NoRun
  Runs <- OneRun
  Dates <- OneDate
  DateOf <- SameDate
  Procs <- TwoProcs
  Handled <- AllPhases
  NumPhases = 2
  MaxAttempts = 2
SPECIFICATION FairSpec
INVARIANTS
  TypeOK
  Ownership
  TablesOK
  ResumableIsActionable
PROPERTIES
  SettledRowsStay
  ImplementsSerialRun
  CommandEnds
