SPECIFICATION Spec
CONSTANTS
  Producers = {0, 1, 2}
  Main = mainThread
  NoThread = NoThread
  Uninitialised = Uninitialised
  HASHGEN_THREADS_BUFFER = 16
  NUM_HASHES = 30
  BATCH_SIZE = 5
  MaxSpurious = 0
INVARIANT NothingLost
CHECK_DEADLOCK FALSE
