SPECIFICATION LimitsSpec
CONSTANTS
  Tasks = {t1, t2}
  Hosts = {h1}
  Global = global
  TotalCap = 2
  HostCap = 2
  Limits <- MCLimits
  MaxUpdates = 3
  Rates = {0, 1, 2}
  Quantum = 3
  Chunks = {3, 6}
  MaxLag = 3
  Scenarios <- MCScenarios
INVARIANTS Conserved
PROPERTIES Settles LimiterImplements Served StopEndsEveryWait
CHECK_DEADLOCK FALSE
