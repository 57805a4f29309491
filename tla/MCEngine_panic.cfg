SPECIFICATION Spec
CONSTANTS
  Jobs = {j1}
  Loaded <- Queue
  Events <- Cancels
  MaxConc = 1
  MaxCmds = 1
  MaxEra = 1
  MaxAttempts = 0
  MaxCrashes = 0
  StoreFails = FALSE
INVARIANT WorkersSurvive
CHECK_DEADLOCK FALSE
