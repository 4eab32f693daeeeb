CONSTANTS
  Requests = {1, 2, 3}
  Keys = {"read|10.0.0.1"}
  Limit = 1
  Enabled = TRUE
  MaxMinute = 1
SPECIFICATION Spec
CHECK_DEADLOCK FALSE
INVARIANT AllowedWithinLimit
