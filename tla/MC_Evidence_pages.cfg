CONSTANTS
  Universe <- MCUniverse
  StableHash <- MCStableHash
  ToLower <- MCToLower
  NoValue = NoValue
  QueryLimit = 3
  PageLimit = 1
  ChangeFilters <- MCAllChanges
  c1 = c1
  c2 = c2
  Clients = {c1}
  Filters = {"complete"}
  MaxJobs = 1
SPECIFICATION EvidenceSpec
INVARIANT ChangePagesNeverRepeat
CHECK_DEADLOCK FALSE
