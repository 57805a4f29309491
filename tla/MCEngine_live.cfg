SPECIFICATION FairSpec
CONSTANTS
  Jobs = {j1}
  Loaded <- Queue
  Events <- Controlled
  MaxConc = 1
  MaxCmds = 2
  MaxEra = 1
  MaxAttempts = 1
  MaxCrashes = 0
  StoreFails = TRUE
PROPERTIES StopTakesEffect QueuedServed
CHECK_DEADLOCK FALSE
