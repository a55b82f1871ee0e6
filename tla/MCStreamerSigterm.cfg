\* Exports of a process that was sent SIGTERM: violated.
SPECIFICATION LiveSpec
CONSTANTS
  StartBlock = 1
  Lag = 0
  BlockBatchSize = 2
  EndBlock = NoEnd
  NoEndBlock = NoEnd
  RetryErrors = TRUE
  MaxHead = 2
  Missing = Missing
  Torn = Torn
PROPERTY SigtermStops
CHECK_DEADLOCK FALSE
