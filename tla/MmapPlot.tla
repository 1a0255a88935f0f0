------------------------------- MODULE MmapPlot -------------------------------
(***************************************************************************)
(* mmap-example.c: the plot is a mapped file, and a hash is stored in its  *)
(* place at once, or dropped if its bucket is full.  bucket_size is a      *)
(* number from the command line; bucket_offsets are shorts, and one that   *)
(* has come to SHRT_MAX is negative next: the place it stands for lies in  *)
(* front of the bucket, for the first bucket in front of the mapping.      *)
(***************************************************************************)
EXTENDS BucketPlot

CONSTANT SHRT_MAX \* the largest short, scaled down

VARIABLES
  bucket_offsets,
  bucketFull       \* hashes dropped
  \* i counts the hashes of the loop, file is the mapping

mmapVars == <<bucket_offsets, bucketFull, plotVars>>

hashesToGenerate == MAX_HASHES

\* ++ of a short: the conversion back from int wraps.
increment(n) == IF n = SHRT_MAX THEN -SHRT_MAX - 1 ELSE n + 1

\* ftruncate gives the file its size before it is mapped.
Init ==
  /\ initBuckets
  /\ bucket_offsets = [b \in Buckets |-> 0]
  /\ bucketFull = 0

\* open, ftruncate or mmap fails.
MapFails ==
  /\ phase = "generate" /\ i = 0
  /\ phase' = "failed"
  /\ UNCHANGED <<bucket_offsets, bucketFull, bucketVars, i>>

\* Seeded fault.
HasRoom_OneMore(b) == bucket_offsets[b] <= BUCKET_SIZE

HasRoom(b) == bucket_offsets[b] < BUCKET_SIZE
cur_offset(b) == b * BUCKET_SIZE + bucket_offsets[b]

\* memcpy into the mapping and the counters.
store(b) ==
  /\ file' = [file EXCEPT ![cur_offset(b)] = [prefix |-> b, value |-> NONCE]]
  /\ NONCE' = NONCE + 1
  /\ bucket_offsets' = [bucket_offsets EXCEPT ![b] = increment(@)]
  /\ arrivals' = [arrivals EXCEPT ![b] = Append(@, NONCE)]
  /\ UNCHANGED <<bucketFull, bufferVars, plot>>

Skip(b) ==
  /\ bucketFull' = bucketFull + 1
  /\ UNCHANGED <<bucket_offsets, bufferVars, plot, NONCE, file, arrivals>>

\* An iteration of the loop.
Generate ==
  /\ phase = "generate" /\ i < hashesToGenerate
  /\ \E b \in Buckets :
       \/ HasRoom(b) /\ cur_offset(b) \in DOMAIN file /\ store(b)
       \/ ~HasRoom(b) /\ Skip(b)
  /\ i' = i + 1
  /\ UNCHANGED phase

\* In front of the mapping nothing need be mapped: the process is killed.
Crash ==
  /\ phase = "generate" /\ i < hashesToGenerate
  /\ \E b \in Buckets : HasRoom(b) /\ cur_offset(b) \notin DOMAIN file
  /\ phase' = "failed"
  /\ UNCHANGED <<bucket_offsets, bucketFull, bucketVars, i>>

\* msync and munmap, whose errors are reported only.
Finish ==
  /\ phase = "generate" /\ i = hashesToGenerate
  /\ phase' = "written"
  /\ UNCHANGED <<bucket_offsets, bucketFull, bucketVars, i>>

Next == MapFails \/ Generate \/ Crash \/ Finish

Spec == Init /\ [][Next]_mmapVars
==============================================================================
