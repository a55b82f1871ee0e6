\* Ranges of two blocks, one behind the head; one reorganisation.
SPECIFICATION LiveSpec
CONSTANTS
  t1 = t1
  None = None
  Tx <- OneTransaction
  Creators <- OneTransaction
  Lag = 1
  BlockBatchSize = 2
  EntityTypeSets <- SomeTypes
  MaxHead = 4
  MaxForks = 1
  MaxDepth = 3
INVARIANTS SinkIsChain NoTransactionTwice
PROPERTIES CatchesUp
CHECK_DEADLOCK FALSE
