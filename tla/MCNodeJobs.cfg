\* Both jobs, nodes that agree on eth_newFilter or not, three faults.
SPECIFICATION LiveSpec
CONSTANTS
  w1 = w1
  w2 = w2
  Workers <- Threads
  LastBlock = 3
  BatchSize = 2
  MaxRetries = 2
  MaxFaults = 3
INVARIANTS AnswerIsOurs RetriesBounded EndedIsComplete
PROPERTIES RunEnds
CHECK_DEADLOCK FALSE
