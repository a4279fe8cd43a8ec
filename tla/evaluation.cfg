SPECIFICATION MCSpec
CONSTANTS
  None = None
  FAMILIES = {"exact", "negative"}
  _NEGATIVE_FAMILIES = {"negative"}
  SEEDS <- MCSeeds
  Sizes <- MCSizes
  _ARMS <- MCArms
  KeyOrder <- MCKeyOrder
  Installations <- MCInstallations
  Score <- MCScore
  _EXPECTED_WINNERS <- MCWinners
  Baseline = "embed-fp32"
  Candidate = "embed-int8"
INVARIANTS
  EveryFamilyIsReported
  ThresholdIsBest
  TotalsAddUp
  UndefinedIsNotZero
  PooledBetweenSeeds
  ComparisonsAgree
  TablesTellTheRun
