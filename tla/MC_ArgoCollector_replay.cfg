CONSTANTS
  Revisions = {r1, r2}
  MaxCommits = 2
  MaxSyncs = 3
  MaxClock = 3
  MaxQueue = 2
  MaxFailures = 1
  MaxRestarts = 1
  MaxGaps = 1
  InMemoryRepository = FALSE
SPECIFICATION SpecRestart
INVARIANT HistoryIngestedOnce
