SPECIFICATION Spec
CONSTANTS
  Jobs = {j1}
  Loaded <- Queue
  Events <- Restarts
  MaxConc = 1
  MaxCmds = 2
  MaxEra = 2
  MaxAttempts = 0
  MaxCrashes = 0
  StoreFails = FALSE
PROPERTY DeletesExclusive
CHECK_DEADLOCK FALSE
