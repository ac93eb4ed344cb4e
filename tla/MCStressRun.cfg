SPECIFICATION StressSpec
CONSTANTS
  Workloads <- MCWorkloads
  BurstSizes = {2}
  MaxSeen = 2
  KeepSeen = 1
  MaxTries = 2
  ChaosKinds = {"none", "throttle"}
  Batch = 2
  Budget = 2
  MaxCall = 2
  MockTokens = 1
  Threads = 3
  Keep = 2
  MaxAgain = 1
INVARIANTS StressTypeOK RatiosAreShares EveryEventRecorded DuplicatesRepeat
  FailuresExplained RetriesAdd OvershootBounded TokensReported ReportAgrees
PROPERTIES StreamStops ReportWritten
CHECK_DEADLOCK FALSE
