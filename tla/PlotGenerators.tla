---------------------------- MODULE PlotGenerators ----------------------------
(***************************************************************************)
(* The sequential plot generators, and what they promise of the plot: one  *)
(* of Plots runs, with the buckets of BucketPlot or, as mmap-example.c,    *)
(* without.  The ring that serves hashgen7 its hashes is module Hashgen7;  *)
(* here every prefix may come next.                                        *)
(***************************************************************************)
EXTENDS BucketPlot

CONSTANTS MaxShort, NUM_THREADS, SHRT_MAX

ASSUME GeneratorsAssumption ==
  /\ MaxShort \in Nat /\ NUM_THREADS \in Nat \ {0} /\ SHRT_MAX \in Nat
  /\ \A p \in Plots : p.program \in BucketPrograms \cup {"mmap-example"}
  \* common.c: a bucket of these programs is a whole number of cups.
  /\ \A p \in Plots : p.program \in {"hashgen", "hashgen2", "hashgen3"} =>
                        p.BUCKET_SIZE % p.CUP_SIZE = 0

VARIABLES short, bucket_offsets, bucketFull

ownVars == <<short, bucket_offsets, bucketFull>>
vars == <<plotVars, ownVars>>

FixedSizes == INSTANCE Hashgen3
FreeSizes  == INSTANCE Hashgen2024
FromRing   == INSTANCE Hashgen7Plot
Mapped     == INSTANCE MmapPlot

Init == FixedSizes!Init /\ FreeSizes!Init /\ FromRing!Init /\ Mapped!Init

Exited ==
  \/ phase \in {"failed", "sorted", "sort failed"}
  \/ phase = "written" /\ program # "hashgen7"

Next ==
  \/ /\ program \in {"hashgen", "hashgen2", "hashgen3"}
     /\ FixedSizes!Next
     /\ UNCHANGED <<bucket_offsets, bucketFull>>
  \/ /\ program = "blake3_hashgen_2024"
     /\ FreeSizes!Next
     /\ UNCHANGED ownVars
  \/ /\ program = "hashgen7"
     /\ FromRing!Next
     /\ UNCHANGED ownVars
  \/ /\ program = "mmap-example"
     /\ Mapped!Next
     /\ UNCHANGED short
  \/ Exited /\ UNCHANGED vars

Spec == Init /\ [][Next]_vars

------------------------------------------------------------------------------
TypeOK ==
  /\ BucketTypeOK
  /\ short \in 0..MaxShort
  /\ bucket_offsets \in [Buckets -> -SHRT_MAX - 1..SHRT_MAX]
  /\ bucketFull \in Nat

\* No hash and no chunk goes missing from the counters before the final loop:
\* all that was made is in a cup, in a chunk that was flushed, or was dropped.
Accounting ==
  phase = "generate" =>
    IF program = "mmap-example" THEN NONCE + bucketFull = i ELSE Accounted

\* The region of a bucket holds exactly what Expected says, as long as no
\* earlier bucket has spilled into it: chunks are neither swapped, overwritten
\* nor left out, duplicates appear only behind the last hash of a bucket, and
\* of a cup of hashgen7 the first two thirds are in the file.
PlotMatchesArrivals ==
  program \in BucketPrograms /\ short = 0 /\ phase \in {"generate", "flush", "written"} =>
    \A b \in Intact, r \in 0..BUCKET_SIZE - 1 : record(b, r) = Expected(b, r)

\* When a program with a final loop is done, every hash that fits in the region
\* of its bucket is there, in the place of its arrival: the final loop leaves
\* out no bucket with hashes in memory, and what is dropped came too late to fit.
WhatFitsIsWritten ==
  program \in {"hashgen", "hashgen2", "hashgen3"} /\ short = 0 /\ phase = "written" =>
    \A b \in Intact : \A k \in 1..Len(arrivals[b]) :
      k <= BUCKET_SIZE =>
        record(b, k - 1) = [prefix |-> b, value |-> arrivals[b][k]]

\* A short write leaves holes and does nothing worse: in a region no other
\* bucket has spilled into, every record is the expected one or still a hole.
ShortWritesLeaveHoles ==
  program = "hashgen2" /\ phase # "failed" =>
    \A b \in Intact, r \in 0..BUCKET_SIZE - 1 : record(b, r) \in {Expected(b, r), Hole}

\* However the prefixes fall, the loop of blake3_hashgen_2024.c ends: it never
\* makes more hashes than fill the chunks it waits for and all but one place of
\* the other cups.
EndsInTime ==
  program = "blake3_hashgen_2024" =>
    NONCE <= FreeSizes!ideal_number_of_flushes * CUP_SIZE
               + (NUM_BUCKETS - 1) * (CUP_SIZE - 1)

\* A bucket of the mapped plot holds its hashes in the order they came and
\* nothing else.  Where its size is more than a short can count to, its hashes
\* stop at the largest short: those that come next are written over the bucket
\* before and no other, up to where the offset is 0 again.  Only the first
\* bucket, with none before it, takes the process down.
MappedInPlace ==
  program = "mmap-example" =>
    /\ phase = "failed" => i = 0 \/ Len(arrivals[0]) > SHRT_MAX
    /\ \A b \in Buckets, r \in 0..BUCKET_SIZE - 1 :
         /\ Len(arrivals[b]) <= 2 * (SHRT_MAX + 1)
         /\ b + 1 \in Buckets => Len(arrivals[b + 1]) <= SHRT_MAX + 1
         => record(b, r) = IF r < Len(arrivals[b]) /\ r <= SHRT_MAX
                           THEN [prefix |-> b, value |-> arrivals[b][r + 1]] ELSE Hole

------------------------------------------------------------------------------
\* A file that psort will cut at the borders of the buckets.
Complete == Cardinality(DOMAIN file) = MAX_HASHES

SameBag(b) ==
  LET offsets == b * BUCKET_SIZE..(b + 1) * BUCKET_SIZE - 1
  IN \A o \in offsets : Cardinality({p \in offsets : file'[p] = file[o]})
                          = Cardinality({p \in offsets : file[p] = file[o]})

\* "Function to sort a bucket" (hashgen7.c:276): sorting leaves every record in
\* its bucket, if the file ends where the last bucket does.  A sort that fails,
\* half way through a write of several buckets even, loses and doubles records
\* of one bucket at most.
SortKeepsBuckets ==
  [][phase = "written" /\ phase' \in {"sorted", "sort failed"} /\ Complete =>
       \E damaged \in Buckets : \A b \in Buckets :
         b # damaged \/ phase' = "sorted" => SameBag(b)]_vars

\* "Write the buffer to the file" (hashgen7.c:841): a hash in a chunk that was
\* written is in the file, where no other bucket has spilled over it.
BufferIsWritten ==
  program = "hashgen7" /\ phase = "written" =>
    \A b \in Intact : \A k \in 1..Len(arrivals[b]) :
      k <= bucketFlush[b] * CUP_SIZE /\ k <= BUCKET_SIZE =>
        \E r \in 0..BUCKET_SIZE - 1 :
          record(b, r) # Hole /\ \E w \in 1..2 :
            record(b, r)[w] = [field |-> "byteArray",
                               of |-> [prefix |-> b, value |-> arrivals[b][k]]]
==============================================================================
