SPECIFICATION Spec
CONSTANTS
  Jobs = {1, 2}
  FileNames = {"f", "g", "h"}
  Scenarios <- OneName
  MaxIndex = 4
  MaxCmds = 2
INVARIANTS
  HeldApart
CHECK_DEADLOCK FALSE
