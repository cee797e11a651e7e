SPECIFICATION Spec
CONSTANTS
  sh1 = sh1
  sh2 = sh2
  v1 = v1
  v2 = v2
  e1 = e1
  Shells <- TwoShells
  Reviewers <- TwoReviewers
  Evidence <- OneEvidence
  EventCount = 2
  MaxAssemblies = 1
  MaxEvaluations = 2
  MaxDrafts = 2
  MaxApprovals = 2
  MaxSettlements = 0
SYMMETRY ReleaseSymmetry
CHECK_DEADLOCK FALSE
INVARIANTS
  ReviewIsWhole
  HalfReviewedIsExplained
