----------------------------- MODULE BucketPlot -----------------------------
(***************************************************************************)
(* The buckets of the sequential plot generators and the file they fill.   *)
(* hashgen.c, hashgen2.c, hashgen3.c, blake3_hashgen_2024.c and main of    *)
(* hashgen7.c have the same loop; the lines mapped are those of hashgen.c. *)
(* A hash goes to the bucket of its prefix; a full bucket is written, as a *)
(* chunk of CUP_SIZE records, behind the earlier chunks of that bucket.    *)
(* The programs differ in when they stop, in how they check a write and in *)
(* what they do afterwards: Hashgen3, Hashgen2024 and Hashgen7Plot extend  *)
(* this module, PlotGenerators puts them together.                         *)
(*                                                                         *)
(* A record in memory is [prefix, value]: the value is the NONCE, the rest *)
(* of the hash is left out.  The file is a function on 0..size - 1 to what *)
(* is in the place of each record of it.                                   *)
(***************************************************************************)
EXTENDS Integers, Sequences, FiniteSetsExt

CONSTANTS
  NUM_BUCKETS,
  Plots,         \* what may run: [program, CUP_SIZE, BUCKET_SIZE, BATCH_SIZE]
  Uninitialised, \* a record of malloc'ed memory
  Hole           \* a record of the file that was never written

\* The programs whose buckets are these.
BucketPrograms ==
  {"hashgen", "hashgen2", "hashgen3", "blake3_hashgen_2024", "hashgen7"}

ASSUME PlotAssumption ==
  /\ NUM_BUCKETS \in Nat \ {0}
  /\ \A p \in Plots :
       p.CUP_SIZE \in Nat \ {0} /\ p.BUCKET_SIZE \in Nat \ {0} /\ p.BATCH_SIZE \in Nat \ {0}

VARIABLES
  plot,     \* which of Plots runs: some programs find their sizes at run time
  phase,    \* "generate", "flush", "written", "sorted", "sort failed" or "failed"
  bucketIndex, bucketFlush, array2D,
  totalFlushes, NONCE,
  file,
  i,        \* the bucket the final loop has come to
  arrivals  \* history: the values each bucket was given

bufferVars == <<bucketIndex, bucketFlush, array2D, totalFlushes>>
bucketVars == <<bufferVars, plot, NONCE, file, arrivals>>
plotVars == <<bucketVars, phase, i>>

program     == plot.program
CUP_SIZE    == plot.CUP_SIZE    \* records of a chunk
BUCKET_SIZE == plot.BUCKET_SIZE \* records of the region of a bucket in the file
BATCH_SIZE  == plot.BATCH_SIZE  \* hashes main gets at a time, in hashgen7

Buckets == 0..NUM_BUCKETS - 1
Slots == 0..CUP_SIZE - 1

MAX_HASHES == NUM_BUCKETS * BUCKET_SIZE

\* The file after records first, first + 1, ... are put into it; what is between
\* the end of the file and the first of them is a hole.
put(first, records, n) ==
  LET end == IF n = 0 THEN 0 ELSE first + n
  IN [o \in DOMAIN file \cup 0..end - 1 |->
        IF o - first \in 0..n - 1 THEN records[o - first]
        ELSE IF o \in DOMAIN file THEN file[o] ELSE Hole]

\* These programs seek to the last byte of the plot and write it, so that the
\* file has its size; hashgen2 only seeks, and hashgen7 truncates the file it
\* has sized when it opens it a second time.
initFile ==
  IF program \in {"hashgen", "hashgen3", "blake3_hashgen_2024", "mmap-example"}
  THEN [o \in 0..MAX_HASHES - 1 |-> Hole] ELSE <<>>

initBuckets ==
  /\ plot \in Plots
  /\ phase = "generate"
  /\ bucketIndex = [b \in Buckets |-> 0]
  /\ bucketFlush = [b \in Buckets |-> 0]
  /\ array2D = [b \in Buckets |-> [s \in Slots |-> Uninitialised]]
  /\ totalFlushes = 0
  /\ NONCE = 0
  /\ file = initFile
  /\ i = 0
  /\ arrivals = [b \in Buckets |-> <<>>]

------------------------------------------------------------------------------
\* Seeded faults.
write_location_NoFlush(b) == b * BUCKET_SIZE
countFlush_NoReset(b) ==
  /\ totalFlushes' = totalFlushes + 1
  /\ bucketFlush' = [bucketFlush EXCEPT ![b] = @ + 1]
  /\ bucketIndex' = [bucketIndex EXCEPT ![b] = @ + 1]
countFlush_NoTotal(b) ==
  /\ UNCHANGED totalFlushes
  /\ bucketFlush' = [bucketFlush EXCEPT ![b] = @ + 1]
  /\ bucketIndex' = [bucketIndex EXCEPT ![b] = 0]

------------------------------------------------------------------------------
\* Where the next chunk of bucket b goes.
write_location(b) == b * BUCKET_SIZE + bucketFlush[b] * CUP_SIZE

\* The buckets with the new hash in its place.
stored(b) ==
  [array2D EXCEPT ![b][bucketIndex[b]] = [prefix |-> b, value |-> NONCE]]

\* The records of hashgen7 are three words long in memory (byteArray, NONCE and
\* prefix, with padding) and two in the file (byteArray and NONCE): the bytes
\* written are the first two thirds of the cup, whatever words these are.
word(cup, w) ==
  [field |-> <<"byteArray", "NONCE", "prefix">>[(w % 3) + 1], of |-> cup[w \div 3]]
packed(cup) == [k \in Slots |-> <<word(cup, 2 * k), word(cup, 2 * k + 1)>>]

\* A cup as it is written.
chunk(cup) == IF program = "hashgen7" THEN packed(cup) ELSE cup

countFlush(b) ==
  /\ totalFlushes' = totalFlushes + 1
  /\ bucketFlush' = [bucketFlush EXCEPT ![b] = @ + 1]
  /\ bucketIndex' = [bucketIndex EXCEPT ![b] = 0]

\* A new hash, of prefix b.
Arrive(b) ==
  /\ NONCE' = NONCE + 1
  /\ array2D' = stored(b)
  /\ arrivals' = [arrivals EXCEPT ![b] = Append(@, NONCE)]
  /\ UNCHANGED plot

LastPlace(b) == bucketIndex[b] + 1 = CUP_SIZE

\* It does not fill its bucket.
Store(b) ==
  /\ ~LastPlace(b)
  /\ Arrive(b)
  /\ bucketIndex' = [bucketIndex EXCEPT ![b] = @ + 1]
  /\ UNCHANGED <<bucketFlush, totalFlushes, file>>

\* It does, and n records of the chunk are written before the program goes on.
StoreAndFlush(b, n) ==
  /\ LastPlace(b)
  /\ Arrive(b)
  /\ file' = put(write_location(b), chunk(stored(b)[b]), n)
  /\ countFlush(b)

\* It does, and the seek or the write fails, the write possibly half way.
StoreAndFail(b, n) ==
  /\ LastPlace(b)
  /\ Arrive(b)
  /\ bucketIndex' = [bucketIndex EXCEPT ![b] = @ + 1]
  /\ file' = put(write_location(b), chunk(stored(b)[b]), n)
  /\ UNCHANGED <<bucketFlush, totalFlushes>>

\* The chunks the region of a bucket has room for.
CHUNKS == BUCKET_SIZE \div CUP_SIZE

\* Seeded fault.
Short_OneLess(b) == bucketFlush[b] < CHUNKS - 1

\* The condition of the final loop.
Short(b) == bucketFlush[b] < CHUNKS

\* The final loop: one more chunk for bucket i, however little of it is new.
FlushRest(n) ==
  /\ phase = "flush" /\ i < NUM_BUCKETS
  /\ Short(i)
  /\ file' = put(write_location(i), chunk(array2D[i]), n)
  /\ countFlush(i)
  /\ i' = i + 1
  /\ UNCHANGED <<plot, phase, array2D, NONCE, arrivals>>

SkipRest ==
  /\ phase = "flush" /\ i < NUM_BUCKETS
  /\ ~Short(i)
  /\ i' = i + 1
  /\ UNCHANGED <<bucketVars, phase>>

FailRest(n) ==
  /\ phase = "flush" /\ i < NUM_BUCKETS
  /\ Short(i)
  /\ file' = put(write_location(i), chunk(array2D[i]), n)
  /\ phase' = "failed"
  /\ UNCHANGED <<bufferVars, plot, NONCE, arrivals, i>>

\* fclose, free and return.
FinishRest ==
  /\ phase = "flush" /\ i = NUM_BUCKETS
  /\ phase' = "written"
  /\ UNCHANGED <<bucketVars, i>>

------------------------------------------------------------------------------
Memory == [prefix : Buckets, value : Nat] \cup {Uninitialised}
Words == [field : {"byteArray", "NONCE", "prefix"}, of : Memory]

BucketTypeOK ==
  /\ plot \in Plots
  /\ phase \in {"generate", "flush", "written", "sorted", "sort failed", "failed"}
  /\ bucketIndex \in [Buckets -> 0..CUP_SIZE]
  /\ bucketFlush \in [Buckets -> Nat]
  /\ array2D \in [Buckets -> [Slots -> Memory]]
  /\ totalFlushes \in Nat /\ NONCE \in Nat /\ i \in Nat
  /\ DOMAIN file = 0..Cardinality(DOMAIN file) - 1
  /\ \A o \in DOMAIN file :
       \/ file[o] = Hole
       \/ file[o] \in IF program = "hashgen7" THEN Words \X Words ELSE Memory
  /\ arrivals \in [Buckets -> Seq(Nat)]

\* Every hash made is in a chunk that was flushed or below the bucketIndex of
\* its bucket, and totalFlushes counts the chunks of all buckets (the counters
\* of main, hashgen.c:153-196).
Accounted ==
  /\ \A b \in Buckets :
       /\ Len(arrivals[b]) = bucketFlush[b] * CUP_SIZE + bucketIndex[b]
       /\ bucketIndex[b] < CUP_SIZE
  /\ NONCE = SumFunction([b \in Buckets |-> Len(arrivals[b])])
  /\ totalFlushes = SumFunction(bucketFlush)

\* The cup that bucket b should have written as its chunk c.  All cups hold the
\* hashes in the order they came; the one of the final loop is filled up with
\* what the cup before left in memory, or with memory nobody initialised.
Cup(b, c) ==
  [s \in Slots |->
    LET came == Len(arrivals[b])
        k    == c * CUP_SIZE + s + 1
    IN CASE k <= came -> [prefix |-> b, value |-> arrivals[b][k]]
         [] k > came /\ c > 0 -> [prefix |-> b, value |-> arrivals[b][k - CUP_SIZE]]
         [] k > came /\ c = 0 -> Uninitialised]

\* The r-th record that bucket b should have in the file, had no other bucket
\* written there; what comes after the last chunk is a hole.
Expected(b, r) ==
  IF r \div CUP_SIZE < bucketFlush[b]
  THEN chunk(Cup(b, r \div CUP_SIZE))[r % CUP_SIZE] ELSE Hole

\* Bucket c has written past its region, into the one of bucket b or further.
SpilledInto(c, b) == c * BUCKET_SIZE + bucketFlush[c] * CUP_SIZE > b * BUCKET_SIZE
Intact == {b \in Buckets : \A c \in 0..b - 1 : ~SpilledInto(c, b)}

\* What is read in the region of bucket b; behind the end of the file, nothing.
record(b, r) ==
  IF b * BUCKET_SIZE + r \in DOMAIN file THEN file[b * BUCKET_SIZE + r] ELSE Hole
==============================================================================
