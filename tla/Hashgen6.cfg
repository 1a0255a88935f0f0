SPECIFICATION Spec
CONSTANTS
  Producers = {0, 1, 2}
  Main = mainThread
  NoThread = NoThread
  Uninitialised = Uninitialised
  HASHGEN_THREADS_BUFFER = 4
  NUM_HASHES = 12
  BATCH_SIZE = 2
  MaxSpurious = 1
INVARIANTS MainIsServed EveryIndexOnce FlagIsIdle
PROPERTY Terminates
