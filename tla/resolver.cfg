SPECIFICATION MCSpec
CONSTANTS
  None = None
  Sources <- MCSources
  Names <- MCNames
  Keys <- MCKeys
  Values <- MCValues
  Rows <- MCRows
  Digest <- MCDigest
  Lefts <- MCLefts
  Rights <- MCRights
  Score <- MCScore
  Distance <- MCDistance
  Threshold = 50
  CellSize = 2
  MaxClaims = 2
  MaxTies = 3
INVARIANTS
  EveryRecordAccounted
  ReasonsAreTrue
  LinkedToTheBest
  ComparisonsBoundedByOccupancy
  BlockingIsExact
PROPERTY
  ImplementsLinkage
