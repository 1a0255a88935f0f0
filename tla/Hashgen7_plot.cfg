SPECIFICATION Spec
CONSTANTS
  NUM_BUCKETS = 2
  Plots <- MCHashgen7
  Uninitialised = Uninitialised
  Hole = Hole
  MaxShort = 1
  NUM_THREADS = 1
  SHRT_MAX = 3
INVARIANT BufferIsWritten
