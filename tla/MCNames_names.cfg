SPECIFICATION Spec
CONSTANTS
  Jobs = {1, 2}
  FileNames = {"f", "g", "h"}
  Scenarios <- MCScenarios
  MaxIndex = 4
  MaxCmds = 4
INVARIANTS
  PartOwned
PROPERTIES
  FilesKept
CHECK_DEADLOCK FALSE
