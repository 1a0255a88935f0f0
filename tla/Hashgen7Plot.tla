----------------------------- MODULE Hashgen7Plot -----------------------------
(***************************************************************************)
(* What main of hashgen7.c does with the hashes the ring serves it (module *)
(* Hashgen7): it fills buckets like hashgen3.c, but counts in batches, so  *)
(* that it may make more hashes than it was asked for, and the sizes come  *)
(* from the command line.  When the buckets are written it calls psort on  *)
(* the file (module ParallelSort has the steps of it), which takes the     *)
(* size of a bucket from the size of the file.                             *)
(***************************************************************************)
EXTENDS BucketPlot

CONSTANT NUM_THREADS \* threads that sort

Init == initBuckets

\* Seeded fault: the size of a record in memory, for that of one in the file.
HASHES_PER_CHUNK_SORT_OfMemory == ((Cardinality(DOMAIN file) \div NUM_BUCKETS) * 2) \div 3

\* The loop is left between two batches only.
MoreToMake ==
  phase = "generate" /\ (NONCE < MAX_HASHES \/ NONCE % BATCH_SIZE # 0)

Generate ==
  /\ MoreToMake
  /\ \E b \in Buckets : Store(b) \/ StoreAndFlush(b, CUP_SIZE)
  /\ UNCHANGED <<phase, i>>

GenerateFails ==
  /\ MoreToMake
  /\ \E b \in Buckets, n \in 0..CUP_SIZE - 1 : StoreAndFail(b, n)
  /\ phase' = "failed"
  /\ UNCHANGED i

LeaveLoop ==
  /\ phase = "generate" /\ ~MoreToMake
  /\ phase' = "flush"
  /\ UNCHANGED <<bucketVars, i>>

FinalFlush == FlushRest(CUP_SIZE)
FinalFails == \E n \in 0..CUP_SIZE - 1 : FailRest(n)

HASHES_PER_CHUNK_SORT == Cardinality(DOMAIN file) \div NUM_BUCKETS
Groups == NUM_BUCKETS \div NUM_THREADS

\* The records of the groups: a left-over of the chunks is not sorted.
toSort == Groups * NUM_THREADS * HASHES_PER_CHUNK_SORT

\* The order of the hashes is any order: two, for instance, of what memcmp finds
\* in the first word of a record, the byteArray or whatever was written there.
key(r) ==
  CASE r = Hole -> -1
    [] r # Hole /\ r[1].of = Uninitialised -> -2
    [] OTHER -> 3 * r[1].of.value
                  + (CASE r[1].field = "byteArray" -> 0
                       [] r[1].field = "NONCE"     -> 1
                       [] r[1].field = "prefix"    -> 2)
before(up, r, s) == IF up THEN key(r) < key(s) ELSE key(s) < key(r)

\* Record k of chunk c, and how many records sorting puts in front of it: those that come
\* before, and of the equal ones those in front already.
InChunk == 0..HASHES_PER_CHUNK_SORT - 1
at(c, k) == file[c * HASHES_PER_CHUNK_SORT + k]
precedes(up, c, q, k) ==
  \/ before(up, at(c, q), at(c, k))
  \/ q < k /\ ~before(up, at(c, k), at(c, q))
rank(up, c, k) == Cardinality({q \in InChunk : precedes(up, c, q, k)})

\* The file with the first n of its records taken from the sorted chunks.
sorted(n, up) ==
  [o \in DOMAIN file |->
     IF o < n
     THEN LET c == o \div HASHES_PER_CHUNK_SORT
          IN at(c, CHOOSE k \in InChunk : rank(up, c, k) = o % HASHES_PER_CHUNK_SORT)
     ELSE file[o]]

psort ==
  /\ phase = "written"
  /\ \E up \in BOOLEAN : file' = sorted(toSort, up)
  /\ phase' = "sorted"
  /\ UNCHANGED <<bufferVars, plot, NONCE, arrivals, i>>

\* The open, a seek, a read or a write fails, and main does not ask.  The groups
\* are written one after the other, so that the beginning of what was to be
\* written is in the file: a write that fails stops at any record of its group.
psortFails ==
  /\ phase = "written"
  /\ \E n \in {0} \cup 0..toSort - 1, up \in BOOLEAN : file' = sorted(n, up)
  /\ phase' = "sort failed"
  /\ UNCHANGED <<bufferVars, plot, NONCE, arrivals, i>>

Next ==
  \/ Generate \/ GenerateFails \/ LeaveLoop
  \/ FinalFlush \/ SkipRest \/ FinalFails \/ FinishRest
  \/ psort \/ psortFails

Spec == Init /\ [][Next]_plotVars
==============================================================================
