\* One block behind the head, with an end block that is not a multiple of the
\* batch and that the chain outgrows; until the stream gets there it is the
\* unbounded stream.
SPECIFICATION LiveSpec
CONSTANTS
  StartBlock = 1
  Lag = 1
  BlockBatchSize = 2
  EndBlock = 4
  NoEndBlock = NoEnd
  RetryErrors = TRUE
  MaxHead = 6
  Missing = Missing
  Torn = Torn
INVARIANTS NoGap BoundsRespected
PROPERTIES SignalObeyed ImplementsStream EventuallyDelivered
CHECK_DEADLOCK FALSE
