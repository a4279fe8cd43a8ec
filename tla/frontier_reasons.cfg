SPECIFICATION Spec
CONSTANTS
  None = None
  ArmCount = 3
  Families = {"character noise"}
  Scale = 1
  Records <- MCRecords
  Readers <- MCReaders
  F1s = {None, 0, 1}
  FalsePositives = {0, 1}
  Memories = {0, 1}
  Latencies = {0, 1}
  Floors = {None}
  Ceilings = {None}
INVARIANT
  ReasonsNameSurvivors
