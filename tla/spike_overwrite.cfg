SPECIFICATION MCSpec
CONSTANTS
  MaxRevision = 2
  MaxSecond = 2
  MaxStarts = 9
  MaxOrphans = 1
  MaxReruns = 4
  CutOff = CutOff
  NoStep = NoStep
CHECK_DEADLOCK FALSE
PROPERTY RecordsAreNeverOverwritten
