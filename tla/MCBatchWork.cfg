\* Batches of two and one, up to four of them, one more than there are permits.
SPECIFICATION LiveSpec
CONSTANTS
  Workers = {w1, w2}
  NumItems = 5
  MaxBatchSize = 2
  MaxRetries = 2
  NoBatch = NoBatch
INVARIANTS PermitsBalance ExactlyOnce FailureSurfaces BatchSizeInRange
PROPERTY Terminates
CHECK_DEADLOCK FALSE
