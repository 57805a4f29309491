SPECIFICATION FairSpec
CONSTANTS
  Clients = {c1, c2}
  QueueCap = 1
  MaxMutations = 3
  MaxOld = 1
  MaxCrashes = 1
  MaxFailures = 2
PROPERTIES Implements ReadableKept Answered
CHECK_DEADLOCK FALSE
