SPECIFICATION FairSpec
CONSTANTS
  Workers = {0, 1}
  Writers = {w1, w2}
  MainThread = mainThread
  NoThread = NoThread
  NoLocation = NoLocation
  QUEUE_SIZE = 2
  NUM_BUCKETS = 3
  CUP_SIZE = 2
  CHUNKS = 1
  Uninitialised = Uninitialised
  Hashed = Hashed
  Hole = Hole
  NewArray <- MCNewArray
INVARIANTS TypeOK HashesCounted ChunksQueuedOnce WritesWhereItSought FlushesCounted
PROPERTIES HandsOutInOrder EndsUnlessQueueFull
CHECK_DEADLOCK FALSE
