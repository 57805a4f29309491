SPECIFICATION FairSpec
CONSTANTS
  u1 = u1
  u2 = u2
  Urls = {u1, u2}
  Scenarios <- MCScenarios
  Published <- MCPublished
  MaxItems = 4
  MaxReqs = 2
  MaxJobs = 3
  RetryMax = 2
  PromptMax = 2
  PendingMax = 2
  WatchMax = 2
  MaxFaults = 1
  MaxHides = 1
  MaxPopups = 1
INVARIANTS
  OneCapture
  NotBoth
  OneJob
  PromptShown
  HudOwned
  WaitingHasWindow
  NoLostWake
  OfferCurrent
PROPERTIES
  NothingLost
  RequestsEnd
  ProgressShown
  AppReturns
CHECK_DEADLOCK FALSE
