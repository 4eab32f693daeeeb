CONSTANTS
  Universe <- MCUniverse
  StableHash <- MCStableHash
  ToLower <- MCToLower
  NoValue = NoValue
  QueryLimit = 3
  PageLimit = 1
  ChangeFilters <- MCChangeFilters
  c1 = c1
  c2 = c2
  Clients <- MCClients
  Filters = {"complete", "partial"}
  MaxJobs = 2
SYMMETRY ClientSymmetry
SPECIFICATION EvidenceSpec
INVARIANT TypeOK
INVARIANT ArtifactMatchesJob
INVARIANT NoOrphanPending
INVARIANT ChangeSummaryMatchesSpec
INVARIANT ChangePagesEqualSingleQuery
INVARIANT EvidenceViewMatchesSpec
PROPERTY ExportJobsSettleOnce
CHECK_DEADLOCK FALSE
