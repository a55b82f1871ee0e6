\* The bounds of each part; MaxTime is the index's, and CascadeTime the cascade's.
SPECIFICATION OfflineSpec
CONSTANTS
  CallKinds <- ThreeKinds
  RewardKeys = {0, 1}
  MaxTraces = 4
  Threads = {t1, t2, t3}
  Share = 2
  Chain <- SomeDays
  Requests <- BlocksAndDates
  MaxRuns = 2
  MaxTorn = 1
  n1 = n1
  n2 = n2
  n3 = n3
  Accounts <- ThreeAccounts
  KnownLabels <- NoneOrAll
  MaxTransfers = 3
  LastTransfer = 2
  Scale = 2
  Loops <- ThreeLoops
  Batches = 2
  MaxScore = 2
  Vertices = {0, 1, 2}
  FraudSet = {0}
  NumEdges = 4
  LastTime = 1
  Recent = 1
  Caps = {2, 3}
  MaxEvents = 5
  LastTimestamp = 4
  Warmup = 2
  MaxDelay = 3
  Replay = TRUE
  Labelled = TRUE
  Nodes = {0, 1, 2}
  MaxTime = 4
  MaxEdges = 3
  Gap = 2
  Window = 3
  EvictEvery = 3
  FanDegrees = {1, 2}
  BurstWindow = 1
  BurstEdges = 2
  CascadeTime = 1
  Sorted = TRUE
  Vectors <- TwoLengths
  MaxSubset = 2
  Tier2Model = TRUE
  Tier3Model = TRUE
  HalfEscalates = TRUE
INVARIANTS
  StatusesDecide IdsIdentifyTraces FileIsWhole PartitionsComplete DiskIsClean
  RingsExact TimelinessHolds EarlyStopping TalliesAgree SubgraphTimes EvaluatesTheRest NeverSlower
  EvictionTransparent CyclesSeenWhenClosed CountsBalance NodeTimeIsLatest RingMembersComplete
SYMMETRY AccountsAlike
CHECK_DEADLOCK FALSE
