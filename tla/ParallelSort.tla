----------------------------- MODULE ParallelSort -----------------------------
(***************************************************************************)
(* psort of hashgen7.c, and psort.c, which has the same steps: the plot is *)
(* sorted in place, chunk by chunk.  A group of chunks, one per thread, is *)
(* read, each thread sorts its own part of the memory, and when all are    *)
(* joined the group is written back.  sort.c is the case of one thread.    *)
(*                                                                         *)
(* A record is its byteArray, an integer in the order of memcmp.  qsort is *)
(* external.  The sizes are those of psort.c; in hashgen7.c a bucket is a  *)
(* chunk, of the size of the file divided by the number of buckets.        *)
(***************************************************************************)
EXTENDS Integers, FiniteSets

CONSTANTS
  NUM_BUCKETS,
  BUCKET_SIZE,           \* records of a bucket
  HASHES_PER_CHUNK_SORT, \* records of a chunk
  NUM_THREADS,
  Records

ASSUME SortAssumption ==
  /\ NUM_BUCKETS \in Nat \ {0} /\ NUM_THREADS \in Nat \ {0}
  /\ BUCKET_SIZE \in Nat \ {0} /\ HASHES_PER_CHUNK_SORT \in 1..BUCKET_SIZE
  /\ Records \subseteq Int

VARIABLES
  file,
  buckets,  \* the memory of the group
  i,        \* the group
  phase,    \* "read", "sort", "done" or "failed"
  sorting,  \* the threads not yet finished
  plot      \* history: the file before

sortVars == <<file, buckets, i, phase, sorting, plot>>

NUM_CHUNKS_SORT == (BUCKET_SIZE \div HASHES_PER_CHUNK_SORT) * NUM_BUCKETS
Groups == NUM_CHUNKS_SORT \div NUM_THREADS
GroupSize == HASHES_PER_CHUNK_SORT * NUM_THREADS

Threads == 0..NUM_THREADS - 1
Chunks == 0..NUM_CHUNKS_SORT - 1
Offsets == 0..NUM_BUCKETS * BUCKET_SIZE - 1
InChunk == 0..HASHES_PER_CHUNK_SORT - 1

initSort ==
  /\ plot \in [Offsets -> Records]
  /\ file = plot
  /\ buckets = <<>>
  /\ i = 0
  /\ phase = "read"
  /\ sorting = {}

------------------------------------------------------------------------------
\* Seeded faults.
bucket_Overlaps(t) == t * (HASHES_PER_CHUNK_SORT - 1)
bucket_location_OneOff == i * GroupSize + 1
bucket_location_OneThread == i * HASHES_PER_CHUNK_SORT

------------------------------------------------------------------------------
\* Where the part of a thread begins in memory, and the group in the file.
bucket(t) == t * HASHES_PER_CHUNK_SORT
bucket_location == i * GroupSize

Read ==
  /\ phase = "read" /\ i < Groups
  /\ buckets' = [s \in 0..GroupSize - 1 |-> file[bucket_location + s]]
  /\ phase' = "sort"
  /\ sorting' = Threads
  /\ UNCHANGED <<file, i, plot>>

\* The seek or the read fails.
ReadFails ==
  /\ phase = "read" /\ i < Groups
  /\ phase' = "failed"
  /\ UNCHANGED <<file, buckets, i, sorting, plot>>

\* What qsort makes of a chunk: the same records, in order.
InOrder(chunk) == \A k \in InChunk \ {0} : chunk[k - 1] <= chunk[k]
SameRecords(chunk, other) ==
  \A r \in Records :
    Cardinality({k \in InChunk : chunk[k] = r}) = Cardinality({k \in InChunk : other[k] = r})

\* A thread sorts its part.
sortBucket(t) ==
  /\ t \in sorting
  /\ \E sorted \in [InChunk -> Records] :
       /\ InOrder(sorted)
       /\ SameRecords(sorted, [k \in InChunk |-> buckets[bucket(t) + k]])
       /\ buckets' = [s \in DOMAIN buckets |->
                        IF s - bucket(t) \in InChunk THEN sorted[s - bucket(t)]
                        ELSE buckets[s]]
  /\ sorting' = sorting \ {t}
  /\ UNCHANGED <<file, i, phase, plot>>

\* The file after n records of the group are written.
written(n) ==
  [o \in Offsets |-> IF o - bucket_location \in 0..n - 1
                     THEN buckets[o - bucket_location] ELSE file[o]]

Write ==
  /\ phase = "sort" /\ sorting = {}
  /\ file' = written(GroupSize)
  /\ buckets' = <<>>
  /\ i' = i + 1
  /\ phase' = "read"
  /\ UNCHANGED <<sorting, plot>>

\* The seek or the write fails, the write possibly half way.
WriteFails ==
  /\ phase = "sort" /\ sorting = {}
  /\ \E n \in 0..GroupSize - 1 : file' = written(n)
  /\ phase' = "failed"
  /\ UNCHANGED <<buckets, i, sorting, plot>>

LeaveLoop ==
  /\ phase = "read" /\ i = Groups
  /\ phase' = "done"
  /\ UNCHANGED <<file, buckets, i, sorting, plot>>

SortNext ==
  \/ Read \/ ReadFails \/ Write \/ WriteFails \/ LeaveLoop
  \/ \E t \in Threads : sortBucket(t)

------------------------------------------------------------------------------
SortTypeOK ==
  /\ file \in [Offsets -> Records]
  /\ buckets = <<>> \/ buckets \in [0..GroupSize - 1 -> Records]
  /\ i \in 0..Groups
  /\ phase \in {"read", "sort", "done", "failed"}
  /\ sorting \subseteq Threads
  /\ plot \in [Offsets -> Records]

\* Chunk c of a file.
Chunk(f, c) == [k \in InChunk |-> f[c * HASHES_PER_CHUNK_SORT + k]]

\* The chunks of the groups before this one are sorted and hold the records they
\* held before, whatever failed since.
SortedSoFar ==
  \A c \in Chunks : c < i * NUM_THREADS =>
    InOrder(Chunk(file, c)) /\ SameRecords(Chunk(file, c), Chunk(plot, c))

\* What follows is as it was: a failure damages one group, and the chunks left
\* over when the threads do not divide the chunks are never touched.
RestUntouched ==
  \A o \in Offsets :
    o >= (IF phase = "failed" THEN i + 1 ELSE i) * GroupSize => file[o] = plot[o]
==============================================================================
