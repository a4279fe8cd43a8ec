SPECIFICATION Spec
CONSTANTS
  Unavailable = Unavailable
  _ARMS <- Both
  Files = {"fp32 model", "int8 model", "tokenizer"}
  Needs <- MCNeeds
  _CLASSICAL_ARMS = {"overlap", "fuzzy"}
  _NEURAL_ARMS = {"embed-fp32", "embed-int8"}
  Fp32 = "embed-fp32"
  Int8 = "embed-int8"
  MaxReplacements = 1
  MaxCrashes = 2
INVARIANTS
  TypeOK
  EveryArmHasARow
  FiguresArePinned
  CensusSpeaksForTheRun
PROPERTIES
  RunEnds
  ImplementsStore
