SPECIFICATION AgentsSpec
CONSTANTS
  Latencies = {1, 2, 4}
  Targets = {"server", "ai"}
  Codes = {0, 429, 500, 503}
  MaxResults = 4
  Slow = 2
  High = 75
  Rate = 50
  Many429 = 0
  Many500 = 1
  Trigger429 = 2
  Agent429 = 1
  Agent5xx = 1
INVARIANTS PercentilesSplit SlowRunIsExplained QuietReportIsQuiet
CHECK_DEADLOCK FALSE
