CONSTANTS
  Envs <- MCEnvs
  Candidates <- MCCandidates
  Kids = {"k1", "k2"}
  Jwt <- MCJwt
  NotJwt = NotJwt
  NoHeader = NoHeader
  Canon <- MCCanon
  RefreshEvery = 1
  MaxMinute = 2
SPECIFICATION Spec
INVARIANT TypeOK
INVARIANT AdmissionFollowsPolicy
INVARIANT AnonymousRequestsDenied
PROPERTY WithdrawnKeyExpires
PROPERTY PublishedKeyResolves
