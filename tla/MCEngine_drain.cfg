SPECIFICATION Spec
CONSTANTS
  Jobs = {j1}
  Loaded <- Queue
  Events <- Quits
  MaxConc = 1
  MaxCmds = 2
  MaxEra = 1
  MaxAttempts = 0
  MaxCrashes = 0
  StoreFails = FALSE
PROPERTY DrainQuiet
CHECK_DEADLOCK FALSE
