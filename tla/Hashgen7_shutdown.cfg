SPECIFICATION FairSpec
CONSTANTS
  Producers = {0, 1}
  Main = mainThread
  NoThread = NoThread
  Uninitialised = Uninitialised
  HASHGEN_THREADS_BUFFER = 4
  NUM_HASHES = 8
  BATCH_SIZE = 2
  MaxSpurious = 1
PROPERTY ShutdownCompletes
CHECK_DEADLOCK FALSE
