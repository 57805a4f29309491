SPECIFICATION Spec
CONSTANTS
  j1 = j1
  j2 = j2
  Jobs = {j1, j2}
  Loaded <- BrokenRow
  Events <- QueueEvents
  MaxConc = 2
  MaxCmds = 3
  MaxEra = 2
  MaxAttempts = 1
  MaxCrashes = 1
  StoreFails = FALSE
SYMMETRY Symmetry
CONSTRAINT QueueBounds
INVARIANTS SlotOwned NoResurrect CredentialsDropped OutputsAccounted RestartDefers NoLostWakeup
PROPERTIES PersistBeforeDelete StartingStopKept OnlyRestartsStart
CHECK_DEADLOCK FALSE
