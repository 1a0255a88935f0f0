SPECIFICATION Spec
CONSTANTS
  BLOCK_LEN = 2
  CHUNK_LEN = 4
  KEY_LEN = 1
  ContextLen = 9
  MaxLen = 73
  Hashers <- MCHashers
INVARIANTS
  TypeOK
  DigestIsTheTree
  SubtreesOfAnyLength
  StackIsReady
  StackFits
