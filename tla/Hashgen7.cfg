SPECIFICATION FairSpec
CONSTANTS
  Producers = {0, 1, 2}
  Main = mainThread
  NoThread = NoThread
  Uninitialised = Uninitialised
  HASHGEN_THREADS_BUFFER = 6
  NUM_HASHES = 6
  BATCH_SIZE = 2
  MaxSpurious = 1
INVARIANTS TypeOK NeverAllAsleep SleepersHaveCause NoLostWakeup NothingLost
PROPERTIES MergesStreams AllConsumed ShutdownCompletesUnlessRaced
CHECK_DEADLOCK FALSE
