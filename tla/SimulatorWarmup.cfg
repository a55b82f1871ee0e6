\* A warm-up of two transactions: the second is evaluated.
SPECIFICATION SimSpec
CONSTANTS
  MaxEvents = 3
  LastTimestamp = 1
  Warmup = 2
  MaxDelay = 1
  Replay = TRUE
  Labelled = TRUE
INVARIANT WarmupFirst
CHECK_DEADLOCK FALSE
