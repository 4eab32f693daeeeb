CONSTANTS
  Ids = {1, 2, 3}
  Seconds = {0, 1}
  Fractions <- MCFractions
  Limit = 1
  MaxItems = 4
  Dialects = {"sqlite", "postgres"}
  Supporting <- MCSupportingStrings
  Canon <- MCCanon
SPECIFICATION Spec
CHECK_DEADLOCK FALSE
INVARIANT TimelineMatchesSpec
