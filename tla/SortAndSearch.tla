---------------------------- MODULE SortAndSearch ----------------------------
(***************************************************************************)
(* A plot is sorted (ParallelSort) and then searched: main of bsearch.c    *)
(* looks for a target in the chunks of the bucket of its prefix, one after *)
(* the other, with binarySearch (BinarySearch).  The programs meet in the  *)
(* file; the constants, which each program defines for its own plot, are   *)
(* taken to be the same here.                                              *)
(***************************************************************************)
EXTENDS ParallelSort, BinarySearch

ASSUME SortAndSearchAssumption ==
  /\ Records \subseteq Keys /\ Length = HASHES_PER_CHUNK_SORT
  /\ BUCKET_SIZE % HASHES_PER_CHUNK_SORT = 0

VARIABLES
  main,   \* "start", "read", "call", "found", "not found" or "failed"
  goal,   \* the hash searched for
  prefix, \* its bucket
  j       \* the chunk of the bucket

mainVars == <<main, goal, prefix, j>>
vars == <<sortVars, searchVars, mainVars>>

numberOfSortedBuckets == BUCKET_SIZE \div HASHES_PER_CHUNK_SORT

Init ==
  /\ initSort /\ initSearch
  /\ main = "start" /\ goal = 0 /\ prefix = 0 /\ j = 0

Sort == SortNext /\ UNCHANGED <<searchVars, mainVars>>

\* Seeded fault.
chunk_location_FirstOnly == prefix * BUCKET_SIZE
------------------------------------------------------------------------------
\* An iteration of main's loop, for any target.
Start ==
  /\ phase = "done" /\ main = "start"
  /\ main' = "read"
  /\ goal' \in Keys /\ prefix' \in 0..NUM_BUCKETS - 1
  /\ UNCHANGED <<sortVars, searchVars, j>>

chunk_location == prefix * BUCKET_SIZE + j * HASHES_PER_CHUNK_SORT

ReadChunk ==
  /\ main = "read" /\ j < numberOfSortedBuckets
  /\ Call([k \in Places |-> file[chunk_location + k]], goal)
  /\ main' = "call"
  /\ UNCHANGED <<sortVars, goal, prefix, j>>

\* The seek or the read fails.
ReadChunkFails ==
  /\ main = "read" /\ j < numberOfSortedBuckets
  /\ main' = "failed"
  /\ UNCHANGED <<sortVars, searchVars, goal, prefix, j>>

Search ==
  /\ Iterate
  /\ UNCHANGED <<sortVars, mainVars>>

ChunkHasIt ==
  /\ Back
  /\ result # -1
  /\ main' = "found"
  /\ UNCHANGED <<sortVars, goal, prefix, j>>

NextChunk ==
  /\ Back
  /\ result = -1
  /\ j' = j + 1
  /\ main' = "read"
  /\ UNCHANGED <<sortVars, goal, prefix>>

NoChunkLeft ==
  /\ main = "read" /\ j = numberOfSortedBuckets
  /\ main' = "not found"
  /\ UNCHANGED <<sortVars, searchVars, goal, prefix, j>>

MainStep ==
  \/ Start \/ ReadChunk \/ ReadChunkFails \/ Search
  \/ ChunkHasIt \/ NextChunk \/ NoChunkLeft

Next == Sort \/ MainStep

Spec == Init /\ [][Next]_vars

\* The programs keep running.
FairSpec == Spec /\ WF_vars(Next)
------------------------------------------------------------------------------
TypeOK ==
  /\ SortTypeOK /\ SearchTypeOK
  /\ main \in {"start", "read", "call", "found", "not found", "failed"}
  /\ goal \in Keys \cup {0}
  /\ prefix \in 0..NUM_BUCKETS - 1
  /\ j \in 0..numberOfSortedBuckets

Bucket(b) == {plot[o] : o \in b * BUCKET_SIZE..(b + 1) * BUCKET_SIZE - 1}
SortedBucket(b) == (b + 1) * numberOfSortedBuckets <= Groups * NUM_THREADS

\* The answer about the sorted plot is the right one for the plot as it was
\* generated: what is found was in the bucket, and what is not found was not,
\* if the sort has come to all chunks of the bucket.
AnswersAreRight ==
  /\ main = "found" => goal \in Bucket(prefix)
  /\ main = "not found" /\ SortedBucket(prefix) => goal \notin Bucket(prefix)

\* A search ends, unless it has read what is in front of the array.
SearchEndsInside ==
  main = "read" ~>
    \/ main \in {"found", "not found", "failed"}
    \/ place = "search" /\ left <= right /\ middle \notin Places

\* "Element not found, return -1" (bsearch.c:87): a search that finds nothing
\* returns too.
SearchEnds == main = "read" ~> main \in {"found", "not found", "failed"}
==============================================================================
