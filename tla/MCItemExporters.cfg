\* Two cycles of one block with items of three types; two failures.
SPECIFICATION LiveSpec
CONSTANTS
  Outputs <- OutputLists
  TypeOrder <- ItemTypes
  TableOrder <- ItemTypes
  Bundled <- BundledTypes
  BlockBatchSize = 1
  ChunkSize = 2
  LastBlock = 2
  MaxFailures = 2
INVARIANTS NothingSkipped NothingHalf
PROPERTIES EverythingSent
CHECK_DEADLOCK FALSE
