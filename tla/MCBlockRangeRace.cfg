\* The chain reaches the range between the two searches: violated.
SPECIFICATION Spec
CONSTANTS
  MaxBlock = 3
  MaxTime = 4
  MaxCalls = 1
INVARIANT RangeIsOfTheTimestamps
CHECK_DEADLOCK FALSE
