CONSTANTS
  Ids = {i1, i2}
  Bodies = {b1, b2}
  Times = {}
  NoTime = NoTime
  Clients = {c1, c2}
  MaxBatch = 2
  MaxClock = 1
  MaxResponses = 3
  Posts <- AnyPosts
SPECIFICATION Spec
SYMMETRY Symmetry
INVARIANT TypeOK
INVARIANT SQLFirstAcceptedWins
PROPERTY SQLDivergesOnlyByIndexRace
CHECK_DEADLOCK FALSE
