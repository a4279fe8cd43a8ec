SPECIFICATION Spec
CHECK_DEADLOCK FALSE
CONSTANTS
  None = None
  Undefined = Undefined
  Sources <- MCSources
  Names <- MCNames
  Keys <- MCKeys
  Values <- MCValues
  Rows <- MCRows
  Digest <- MCDigest
  CellSize = 2
  Blank <- MCBlank
  _normalise <- MCNormalise
  Alike <- MCAlike
  Encode <- MCEncode
  Graph <- MCGraph
  Padding <- MCPadding
  Cosine <- MCCosine
  GroupSizes <- MCGroupSizes
  Degree = 4
  Calls <- MCCalls
  MaxLeft = 3
  MaxRight = 2
  MaxSamples = 5
  MaxDuration = 2
INVARIANTS
  MergeIsSymmetric
  MergeLosesNothing
  PathsAgree
  NoInformationNoMatch
  OccupancyExplainsTheCost
  PercentileIsARank
  ColdStartAccountsForTime
