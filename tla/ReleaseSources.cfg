SPECIFICATION Spec
CONSTANTS
  sh1 = sh1
  sh2 = sh2
  v1 = v1
  v2 = v2
  e1 = e1
  Shells <- TwoShells
  Reviewers <- OneReviewer
  Evidence <- OneEvidence
  EventCount = 1
  MaxAssemblies = 2
  MaxEvaluations = 2
  MaxDrafts = 2
  MaxApprovals = 2
  MaxSettlements = 2
SYMMETRY ReleaseSymmetry
CHECK_DEADLOCK FALSE
INVARIANTS
  PlayIsSound
  ArtifactsFollowDatabase
  LedgerIsCoherent
