\* The checkpoint file after the process is gone: violated.
SPECIFICATION Spec
CONSTANTS
  StartBlock = 1
  Lag = 0
  BlockBatchSize = 2
  EndBlock = NoEnd
  NoEndBlock = NoEnd
  RetryErrors = TRUE
  MaxHead = 2
  Missing = Missing
  Torn = Torn
INVARIANT CheckpointSurvives
CHECK_DEADLOCK FALSE
