CONSTANTS
  Revisions = {r1, r2}
  MaxCommits = 1
  MaxSyncs = 2
  MaxClock = 3
  MaxQueue = 2
  MaxFailures = 1
  MaxRestarts = 1
  MaxGaps = 1
  InMemoryRepository = FALSE
SPECIFICATION SpecRestart
INVARIANT TypeOK
INVARIANT HistoryIngestedOncePerRun
INVARIANT CheckpointBehindStore
PROPERTY LatestDeploymentRecorded
