SPECIFICATION Spec
CONSTANTS
  Jobs = {j1}
  Loaded <- Queue
  Events <- Crashes
  MaxConc = 1
  MaxCmds = 0
  MaxEra = 0
  MaxAttempts = 0
  MaxCrashes = 1
  StoreFails = FALSE
INVARIANT NoHoleResume
CHECK_DEADLOCK FALSE
