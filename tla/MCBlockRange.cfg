\* Two searches of a growing chain, with whatever the first one cached.
SPECIFICATION LiveSpec
CONSTANTS
  MaxBlock = 4
  MaxTime = 5
  MaxCalls = 2
INVARIANTS RangeExact ErrorsJustified
PROPERTY SearchEnds
CHECK_DEADLOCK FALSE
