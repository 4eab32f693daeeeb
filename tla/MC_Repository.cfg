CONSTANTS
  Ids = {i1, i2}
  Bodies = {b1, b2}
  Times = {1}
  NoTime = NoTime
  Clients = {c1, c2}
  MaxBatch = 2
  MaxClock = 2
  MaxResponses = 3
  Posts <- MixedPosts
SPECIFICATION Spec
SYMMETRY Symmetry
INVARIANT TypeOK
INVARIANT FirstAcceptedWins
INVARIANT RedeliveryConflictsOnlyWhenRestamped
CHECK_DEADLOCK FALSE
