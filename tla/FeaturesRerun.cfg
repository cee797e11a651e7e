\* One process, no deaths: what a rerun over the same responses does.
CONSTANTS
  Workers = {w1}
  MaxJobs = 2
  Contents = {1}
  MaxDeaths = 0
SPECIFICATION FeatureSpec
INVARIANTS
  RerunIsIdempotent
CHECK_DEADLOCK FALSE
