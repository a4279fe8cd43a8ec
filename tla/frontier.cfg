SPECIFICATION Spec
CONSTANTS
  None = None
  ArmCount = 3
  Families = {"character noise"}
  Scale = 1
  Records <- MCRecords
  Readers <- MCReaders
  F1s = {None, 0, 1}
  FalsePositives = {0, 1}
  Memories = {None, 0, 1}
  Latencies = {None, 0, 1}
  Floors = {None, 1}
  Ceilings = {None, 0}
INVARIANTS
  FrontierSatisfiesConstraints
  FrontierCoversCandidates
