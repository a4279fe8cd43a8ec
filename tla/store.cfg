SPECIFICATION MCSpec
CHECK_DEADLOCK FALSE
CONSTANTS
  r1 = r1
  r2 = r2
  p1 = p1
  p2 = p2
  None = None
  Legacy = Legacy
  Runs <- TwoRuns
  Readers <- TwoReaders
  Publishers <- TwoReaders
  Drafts <- MCDrafts
  Buffer = 3
  MaxEdits = 1
  Seconds = {1, 2, 3}
  Old = {2}
  Chunks = 2
INVARIANTS
  TruncatedOnlyByCrash
  ReportsAreFaithful
  ReadmeCitesRecords
  ProseSurvives
PROPERTIES
  RecordsAreFinal
  CompleteRecordsRender
