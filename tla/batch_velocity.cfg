SPECIFICATION Spec
CONSTANTS
  config <- TightConfig
  Batch <- WithinTheDelay
  bucket <- Buckets
  Plans <- OnePlan
  MaxRuns = 1
  Grid = {1}
  Effects = {0}
CHECK_DEADLOCK FALSE
INVARIANTS
  BinVelocityEnforced
