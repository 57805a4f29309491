SPECIFICATION FairSpec
CONSTANTS
  a = a
  b = b
  NoEntity = NoEntity
  Hole = Hole
  Nil = Nil
  NoMap = NoMap
  Entities = {a, b}
  Scenarios <- MCScenarios
  Faults = {"crash", "power", "sync", "commit", "discard", "replace", "space", "rename"}
  ReconnectMax = 2
  RejectMax = 1
  FreshMax = 1
  MismatchMax = 1
  MaxSegments = 2
  MaxAttempts = 2
  MaxChanges = 1
  MaxFaults = 1
  MaxShort = 1
  MaxRestarts = 1
INVARIANTS
  TypeOK
  WholeEntity
  MapSynced
  PartialMatches
  OldKept
PROPERTIES
  ConfirmedKept
  AttemptEnds
CHECK_DEADLOCK FALSE
