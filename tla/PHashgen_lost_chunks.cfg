SPECIFICATION Spec
CONSTANTS
  Workers = {0, 1}
  Writers = {w1, w2}
  MainThread = mainThread
  NoThread = NoThread
  NoLocation = NoLocation
  Uninitialised = Uninitialised
  Hashed = Hashed
  Hole = Hole
  NewArray <- MCNewArray
  QUEUE_SIZE = 2
  NUM_BUCKETS = 2
  CUP_SIZE = 2
  CHUNKS = 1
INVARIANT ChunksReachDisk
CHECK_DEADLOCK FALSE
