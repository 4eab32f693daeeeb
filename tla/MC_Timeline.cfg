CONSTANTS
  Ids = {1, 2, 3}
  Seconds = {0, 1}
  Fractions <- MCFractionsTwo
  Limit = 1
  MaxItems = 4
  Dialects = {"memory"}
  Supporting <- MCSupportingMixed
  Canon <- MCCanon
SPECIFICATION FairSpec
INVARIANT TypeOK
INVARIANT TimelineStrictlyOrdered
INVARIANT TimelineMatchesQuery
INVARIANT PagesEqualSingleQuery
PROPERTY PagingTerminates
CHECK_DEADLOCK FALSE
