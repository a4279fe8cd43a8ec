SPECIFICATION Spec
CONSTANTS
  Missing = Missing
  Paths <- MCPaths
  Contents = {"row"}
  Inputs <- MCInputs
INVARIANTS
  CommandTypeOK
  OnlyTheOutputChanges
  OutputAccountsForBothFiles
