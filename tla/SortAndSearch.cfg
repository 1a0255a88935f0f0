SPECIFICATION MCSpec
CONSTANTS
  NUM_BUCKETS = 2
  BUCKET_SIZE = 12
  HASHES_PER_CHUNK_SORT = 3
  Length = 3
  NUM_THREADS = 3
  Records = {1, 3}
  Keys = {0, 1, 2, 3, 4}
  INT = 16
  SIZE_T = 256
INVARIANTS TypeOK SortedSoFar RestUntouched NotPassedBy ReturnsMatch LeavesArrayOnlyBelow AnswersAreRight
PROPERTY SearchEndsInside
CHECK_DEADLOCK FALSE
