CONSTANTS
  Revisions = {r1, r2}
  MaxCommits = 2
  MaxSyncs = 3
  MaxClock = 3
  MaxQueue = 2
  MaxFailures = 0
  MaxRestarts = 0
  MaxGaps = 1
  InMemoryRepository = FALSE
SPECIFICATION Spec
INVARIANT TerminalResultRecorded
