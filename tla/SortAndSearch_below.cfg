SPECIFICATION FairSpec
CONSTANTS
  NUM_BUCKETS = 1
  BUCKET_SIZE = 3
  HASHES_PER_CHUNK_SORT = 3
  Length = 3
  NUM_THREADS = 1
  Records = {1, 3}
  Keys = {0, 1, 2, 3, 4}
  INT = 16
  SIZE_T = 256
PROPERTY SearchEnds
CHECK_DEADLOCK FALSE
