SPECIFICATION Spec
CONSTANTS
  r1 = r1
  r2 = r2
  s1 = s1
  t1 = t1
  c1 = c1
  c2 = c2
  NoRun = NoRun
  Nowhere = Nowhere
  Runs <- TwoRuns
  Services <- OneService
  Tools <- OneTool
  Payloads <- OnePayload
  MaxCaptures = 2
SYMMETRY RunSymmetry
CHECK_DEADLOCK FALSE
INVARIANTS
  CompletedIsBacked
  NeverStartedNeverRan
  IncompleteIsAttended
PROPERTIES
  ImplementsRunLifecycle
