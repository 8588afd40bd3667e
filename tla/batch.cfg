SPECIFICATION Spec
CONSTANTS
  config <- TightConfig
  Batch <- AroundTheEdges
  bucket <- Buckets
  Plans <- FourPlans
  MaxRuns = 2
  Grid = {1, 2, 3}
  Effects = {0, 1, 2, 3, 4}
CHECK_DEADLOCK FALSE
INVARIANTS
  TypeOK
  EveryActuationIsAuthorised
  OutcomesAreAttributed
  CapBindsOnThePast
  CountersAreActuations
  CountIsExact
  EstimateReadsItsExperiment
  LedgerAgreesWithSealedTruth
  AblationIsPaired
  MissesAreBehind
