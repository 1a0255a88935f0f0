------------------------ MODULE PlotGenerators_proofs ------------------------
(***************************************************************************)
(* Theorems about the plot generators, for any number of buckets, any      *)
(* sizes of chunks and regions, and any order of the prefixes.             *)
(***************************************************************************)
EXTENDS PlotGenerators, SumTheorems, SequenceTheorems

FlushingPrograms == {"hashgen", "hashgen2", "hashgen3"}
FileRecords == IF program = "hashgen7" THEN Words \X Words ELSE Memory

\* The file has a size, and is not only a function.
FileOK ==
  /\ \E size \in Nat : DOMAIN file = 0..size - 1
  /\ \A o \in DOMAIN file : file[o] = Hole \/ file[o] \in FileRecords

Phases == {"generate", "flush", "written", "sorted", "sort failed", "failed"}

TypeInv ==
  /\ plot \in Plots
  /\ phase \in Phases
  /\ bucketIndex \in [Buckets -> 0..CUP_SIZE]
  /\ bucketFlush \in [Buckets -> Nat]
  /\ array2D \in [Buckets -> [Slots -> Memory]]
  /\ totalFlushes \in Nat /\ NONCE \in Nat /\ i \in Nat
  /\ FileOK
  /\ arrivals \in [Buckets -> Seq(Nat)]
  /\ short \in 0..MaxShort
  /\ bucket_offsets \in [Buckets -> -SHRT_MAX - 1..SHRT_MAX]
  /\ bucketFull \in Nat

\* The cup of a bucket holds what its next chunk should: this is what makes a chunk right
\* when it is written, the one of the final loop included.
InMemory(b) ==
  /\ Len(arrivals[b]) = bucketFlush[b] * CUP_SIZE + bucketIndex[b]
  /\ bucketIndex[b] < CUP_SIZE
  /\ array2D[b] = Cup(b, bucketFlush[b])

MemoryInv ==
  program \in BucketPrograms =>
    \A b \in Buckets : phase = "generate" \/ (phase = "flush" /\ i <= b) => InMemory(b)

CountInv ==
  program \in BucketPrograms /\ phase = "generate" =>
    /\ NONCE = SumFunction([b \in Buckets |-> Len(arrivals[b])])
    /\ totalFlushes = SumFunction(bucketFlush)

\* The final loop leaves no hash behind that has a place in the region of its bucket.
NoneLeft(b) == bucketFlush[b] >= CHUNKS \/ bucketFlush[b] * CUP_SIZE >= Len(arrivals[b])

RestInv ==
  program \in FlushingPrograms =>
    /\ phase \notin {"sorted", "sort failed"}
    /\ phase = "generate" => i = 0
    /\ phase \in {"flush", "written"} => \A b \in Buckets : b < i => NoneLeft(b)
    /\ phase = "written" => i = NUM_BUCKETS

\* PlotMatchesArrivals and ShortWritesLeaveHoles in one.
Right(b, r) ==
  /\ record(b, r) \in {Expected(b, r), Hole}
  /\ short = 0 => record(b, r) = Expected(b, r)

FileInv ==
  program \in BucketPrograms /\ phase \in {"generate", "flush", "written"} =>
    \A b \in Intact, r \in 0..BUCKET_SIZE - 1 : Right(b, r)

EndInv ==
  program = "blake3_hashgen_2024" =>
    /\ phase # "flush"
    /\ totalFlushes <= FreeSizes!ideal_number_of_flushes
    /\ EndsInTime

\* In the mapped plot the offset of a bucket counts its hashes, up to the largest short; more
\* come only to buckets of a larger size, where the offset then counts up to 0 again.
OffsetOK(b) ==
  LET offset == bucket_offsets[b]
      n      == Len(arrivals[b])
  IN /\ offset <= BUCKET_SIZE
     /\ n <= SHRT_MAX => offset = n
     /\ n > SHRT_MAX => BUCKET_SIZE > SHRT_MAX
     /\ n > SHRT_MAX /\ n <= 2 * (SHRT_MAX + 1) => offset = n - 2 * (SHRT_MAX + 1)

MapInv ==
  program = "mmap-example" =>
    /\ DOMAIN file = 0..MAX_HASHES - 1
    /\ \A b \in Buckets : OffsetOK(b)
    /\ MappedInPlace

MapCount == program = "mmap-example" /\ phase = "generate" => NONCE + bucketFull = i

Inv ==
  /\ TypeInv /\ MemoryInv /\ CountInv /\ RestInv /\ FileInv
  /\ EndInv /\ MapInv /\ MapCount

------------------------------------------------------------------------------
(* The steps of the programs with buckets, in one list.                    *)

\* n records of a chunk are written, and it counts as flushed.
Chunked(n) ==
  IF n = CUP_SIZE THEN short' = short
  ELSE program = "hashgen2" /\ short < MaxShort /\ short' = short + 1

MayMake ==
  /\ phase = "generate"
  /\ program = "blake3_hashgen_2024" => totalFlushes # FreeSizes!ideal_number_of_flushes

StoreStep(b) == MayMake /\ Store(b) /\ UNCHANGED <<phase, i, short>>
FlushStep(b, n) == MayMake /\ StoreAndFlush(b, n) /\ Chunked(n) /\ UNCHANGED <<phase, i>>
FailStep(b, n) == MayMake /\ StoreAndFail(b, n) /\ phase' = "failed" /\ UNCHANGED <<i, short>>
LeaveStep ==
  /\ phase = "generate"
  /\ phase' = IF program = "blake3_hashgen_2024" THEN "written" ELSE "flush"
  /\ UNCHANGED <<bucketVars, i, short>>
RestStep(n) == FlushRest(n) /\ Chunked(n)
RestFailStep(n) == FailRest(n) /\ UNCHANGED short
SortStep ==
  /\ program = "hashgen7" /\ phase = "written"
  /\ \/ /\ phase' = "sorted"
        /\ \E up \in BOOLEAN : file' = FromRing!sorted(FromRing!toSort, up)
     \/ /\ phase' = "sort failed"
        /\ \E n \in {0} \cup 0..FromRing!toSort - 1, up \in BOOLEAN :
             file' = FromRing!sorted(n, up)
  /\ UNCHANGED <<bufferVars, plot, NONCE, arrivals, i, short>>

BucketStep ==
  /\ \/ \E b \in Buckets : StoreStep(b)
     \/ \E b \in Buckets, n \in 0..CUP_SIZE : FlushStep(b, n) \/ FailStep(b, n)
     \/ LeaveStep
     \/ \E n \in 0..CUP_SIZE : RestStep(n) \/ RestFailStep(n)
     \/ (SkipRest \/ FinishRest) /\ UNCHANGED short
     \/ SortStep
  /\ UNCHANGED <<bucket_offsets, bucketFull>>

LEMMA PhaseNames ==
  /\ "generate" \in Phases /\ "flush" \in Phases /\ "written" \in Phases
  /\ "sorted" \in Phases /\ "sort failed" \in Phases /\ "failed" \in Phases
BY DEF Phases

\* The sizes of a plot.
LEMMA Sizes ==
  ASSUME plot \in Plots
  PROVE  /\ NUM_BUCKETS \in Nat \ {0} /\ CUP_SIZE \in Nat \ {0} /\ BUCKET_SIZE \in Nat \ {0}
         /\ BATCH_SIZE \in Nat \ {0} /\ CHUNKS \in Nat /\ MAX_HASHES \in Nat
         /\ CHUNKS * CUP_SIZE <= BUCKET_SIZE
         /\ program \in FlushingPrograms => CHUNKS * CUP_SIZE = BUCKET_SIZE
<1>1. /\ NUM_BUCKETS \in Nat \ {0} /\ CUP_SIZE \in Nat \ {0} /\ BUCKET_SIZE \in Nat \ {0}
      /\ BATCH_SIZE \in Nat \ {0}
  BY PlotAssumption DEF CUP_SIZE, BUCKET_SIZE, BATCH_SIZE
<1>2. program \in FlushingPrograms => BUCKET_SIZE % CUP_SIZE = 0
  BY GeneratorsAssumption DEF FlushingPrograms, program, BUCKET_SIZE, CUP_SIZE
<1>3. \A a \in Nat, b \in Nat \ {0} :
        a \div b \in Nat /\ (a \div b) * b <= a /\ (a % b = 0 => (a \div b) * b = a)
  OBVIOUS
<1>4. MAX_HASHES \in Nat
  BY <1>1 DEF MAX_HASHES
<1> QED  BY <1>1, <1>2, <1>3, <1>4 DEF CHUNKS

\* Where the chunk of a bucket is written.
LEMMA LocationIs ==
  ASSUME plot \in Plots, NEW c \in Buckets, bucketFlush[c] \in Nat
  PROVE  write_location(c) \in Nat
<1>1. \A x \in Nat, y \in Nat : x * y \in Nat
  OBVIOUS
<1>2. c \in Nat /\ BUCKET_SIZE \in Nat /\ CUP_SIZE \in Nat
  BY Sizes, PlotAssumption DEF Buckets
<1>3. c * BUCKET_SIZE \in Nat /\ bucketFlush[c] * CUP_SIZE \in Nat
  BY <1>1, <1>2
<1> QED  BY <1>3 DEF write_location

\* The operators of BucketPlot are the same in the module of each program: of hashgen3,
LEMMA FixedSteps ==
  /\ \A b : FixedSizes!Store(b) <=> Store(b)
  /\ \A b, n : FixedSizes!StoreAndFlush(b, n) <=> StoreAndFlush(b, n)
  /\ \A b, n : FixedSizes!StoreAndFail(b, n) <=> StoreAndFail(b, n)
  /\ \A n : FixedSizes!FlushRest(n) <=> FlushRest(n)
  /\ \A n : FixedSizes!FailRest(n) <=> FailRest(n)
  /\ FixedSizes!SkipRest <=> SkipRest
  /\ FixedSizes!FinishRest <=> FinishRest
<1> USE DEF FixedSizes!LastPlace, LastPlace, FixedSizes!Arrive, Arrive, FixedSizes!stored, stored,
     FixedSizes!CUP_SIZE, CUP_SIZE, FixedSizes!put, put, FixedSizes!write_location, write_location,
     FixedSizes!BUCKET_SIZE, BUCKET_SIZE, FixedSizes!chunk, chunk, FixedSizes!packed, packed,
     FixedSizes!word, word, FixedSizes!program, program, FixedSizes!Slots, Slots,
     FixedSizes!countFlush, countFlush, FixedSizes!Short, Short, FixedSizes!CHUNKS, CHUNKS,
     FixedSizes!bufferVars, bufferVars, FixedSizes!bucketVars, bucketVars
<1>1. \A b : FixedSizes!Store(b) <=> Store(b)
  BY DEF FixedSizes!Store, Store
<1>2. \A b, n : FixedSizes!StoreAndFlush(b, n) <=> StoreAndFlush(b, n)
  BY DEF FixedSizes!StoreAndFlush, StoreAndFlush
<1>3. \A b, n : FixedSizes!StoreAndFail(b, n) <=> StoreAndFail(b, n)
  BY DEF FixedSizes!StoreAndFail, StoreAndFail
<1>4. \A n : FixedSizes!FlushRest(n) <=> FlushRest(n)
  BY DEF FixedSizes!FlushRest, FlushRest
<1>5. \A n : FixedSizes!FailRest(n) <=> FailRest(n)
  BY DEF FixedSizes!FailRest, FailRest
<1>6. (FixedSizes!SkipRest <=> SkipRest) /\ (FixedSizes!FinishRest <=> FinishRest)
  BY DEF FixedSizes!SkipRest, SkipRest, FixedSizes!FinishRest, FinishRest
<1> QED  BY <1>1, <1>2, <1>3, <1>4, <1>5, <1>6

\* of hashgen7,
LEMMA RingSteps ==
  /\ \A b : FromRing!Store(b) <=> Store(b)
  /\ \A b, n : FromRing!StoreAndFlush(b, n) <=> StoreAndFlush(b, n)
  /\ \A b, n : FromRing!StoreAndFail(b, n) <=> StoreAndFail(b, n)
  /\ \A n : FromRing!FlushRest(n) <=> FlushRest(n)
  /\ \A n : FromRing!FailRest(n) <=> FailRest(n)
  /\ FromRing!SkipRest <=> SkipRest
  /\ FromRing!FinishRest <=> FinishRest
<1> USE DEF FromRing!LastPlace, LastPlace, FromRing!Arrive, Arrive, FromRing!stored, stored,
     FromRing!CUP_SIZE, CUP_SIZE, FromRing!put, put, FromRing!write_location, write_location,
     FromRing!BUCKET_SIZE, BUCKET_SIZE, FromRing!chunk, chunk, FromRing!packed, packed,
     FromRing!word, word, FromRing!program, program, FromRing!Slots, Slots,
     FromRing!countFlush, countFlush, FromRing!Short, Short, FromRing!CHUNKS, CHUNKS,
     FromRing!bufferVars, bufferVars, FromRing!bucketVars, bucketVars
<1>1. \A b : FromRing!Store(b) <=> Store(b)
  BY DEF FromRing!Store, Store
<1>2. \A b, n : FromRing!StoreAndFlush(b, n) <=> StoreAndFlush(b, n)
  BY DEF FromRing!StoreAndFlush, StoreAndFlush
<1>3. \A b, n : FromRing!StoreAndFail(b, n) <=> StoreAndFail(b, n)
  BY DEF FromRing!StoreAndFail, StoreAndFail
<1>4. \A n : FromRing!FlushRest(n) <=> FlushRest(n)
  BY DEF FromRing!FlushRest, FlushRest
<1>5. \A n : FromRing!FailRest(n) <=> FailRest(n)
  BY DEF FromRing!FailRest, FailRest
<1>6. (FromRing!SkipRest <=> SkipRest) /\ (FromRing!FinishRest <=> FinishRest)
  BY DEF FromRing!SkipRest, SkipRest, FromRing!FinishRest, FinishRest
<1> QED  BY <1>1, <1>2, <1>3, <1>4, <1>5, <1>6

\* and of blake3_hashgen_2024.
LEMMA FreeSteps ==
  /\ \A b : FreeSizes!Store(b) <=> Store(b)
  /\ \A b, n : FreeSizes!StoreAndFlush(b, n) <=> StoreAndFlush(b, n)
  /\ \A b, n : FreeSizes!StoreAndFail(b, n) <=> StoreAndFail(b, n)
<1> USE DEF FreeSizes!LastPlace, LastPlace, FreeSizes!Arrive, Arrive, FreeSizes!stored, stored,
     FreeSizes!CUP_SIZE, CUP_SIZE, FreeSizes!put, put, FreeSizes!write_location, write_location,
     FreeSizes!BUCKET_SIZE, BUCKET_SIZE, FreeSizes!chunk, chunk, FreeSizes!packed, packed,
     FreeSizes!word, word, FreeSizes!program, program, FreeSizes!Slots, Slots,
     FreeSizes!countFlush, countFlush
<1>1. \A b : FreeSizes!Store(b) <=> Store(b)
  BY DEF FreeSizes!Store, Store
<1>2. \A b, n : FreeSizes!StoreAndFlush(b, n) <=> StoreAndFlush(b, n)
  BY DEF FreeSizes!StoreAndFlush, StoreAndFlush
<1>3. \A b, n : FreeSizes!StoreAndFail(b, n) <=> StoreAndFail(b, n)
  BY DEF FreeSizes!StoreAndFail, StoreAndFail
<1> QED  BY <1>1, <1>2, <1>3

\* Every step of a program with buckets is in the list.
LEMMA BucketSteps ==
  ASSUME plot \in Plots, Next, program \in BucketPrograms
  PROVE  BucketStep \/ UNCHANGED vars
<1>0. CUP_SIZE \in Nat \ {0} /\ \A n \in 0..CUP_SIZE - 1 : n \in 0..CUP_SIZE
  BY Sizes
<1>1. CASE program \in {"hashgen", "hashgen2", "hashgen3"}
  <2>1. (FixedSizes!Next /\ UNCHANGED <<bucket_offsets, bucketFull>>) \/ UNCHANGED vars
    BY <1>1 DEF Next
  <2>2. program # "blake3_hashgen_2024"
    BY <1>1
  <2>3. /\ FixedSizes!Buckets = Buckets /\ FixedSizes!CUP_SIZE = CUP_SIZE
        /\ FixedSizes!program = program
    BY DEF FixedSizes!Buckets, Buckets, FixedSizes!CUP_SIZE, CUP_SIZE, FixedSizes!program, program
  <2>4. \A n \in 0..CUP_SIZE : FixedSizes!Flushed(n) => Chunked(n)
    BY <1>0, <2>3 DEF FixedSizes!Flushed, Chunked
  <2>5. ASSUME FixedSizes!Generate
        PROVE  \/ \E b \in Buckets : StoreStep(b)
               \/ \E b \in Buckets, n \in 0..CUP_SIZE : FlushStep(b, n)
    BY <2>2, <2>3, <2>4, <2>5, FixedSteps
       DEF FixedSizes!Generate, FixedSizes!MoreToMake, StoreStep, FlushStep, MayMake
  <2>6. ASSUME FixedSizes!GenerateFails
        PROVE  \E b \in Buckets, n \in 0..CUP_SIZE : FailStep(b, n)
    <3>1. PICK b \in Buckets, n \in 0..CUP_SIZE - 1 : StoreAndFail(b, n)
      BY <2>3, <2>6, FixedSteps DEF FixedSizes!GenerateFails
    <3>2. FailStep(b, n)
      BY <2>2, <2>6, <3>1 DEF FixedSizes!GenerateFails, FixedSizes!MoreToMake, FailStep, MayMake
    <3> QED  BY <1>0, <3>2
  <2>7. ASSUME FixedSizes!LeaveLoop
        PROVE  LeaveStep
    BY <2>2, <2>7 DEF FixedSizes!LeaveLoop, LeaveStep, FixedSizes!bucketVars, bucketVars,
                      FixedSizes!bufferVars, bufferVars
  <2>8. ASSUME FixedSizes!FinalFlush
        PROVE  \E n \in 0..CUP_SIZE : RestStep(n)
    BY <2>3, <2>4, <2>8, FixedSteps DEF FixedSizes!FinalFlush, RestStep
  <2>9. ASSUME FixedSizes!FinalFails
        PROVE  \E n \in 0..CUP_SIZE : RestFailStep(n)
    BY <1>0, <2>3, <2>9, FixedSteps DEF FixedSizes!FinalFails, RestFailStep
  <2>10. ASSUME FixedSizes!FinalSkip \/ FixedSizes!Finish
         PROVE  (SkipRest \/ FinishRest) /\ UNCHANGED short
    BY <2>10, FixedSteps DEF FixedSizes!FinalSkip, FixedSizes!Finish
  <2> QED  BY <2>1, <2>5, <2>6, <2>7, <2>8, <2>9, <2>10 DEF FixedSizes!Next, BucketStep
<1>2. CASE program = "blake3_hashgen_2024"
  <2>1. (FreeSizes!Next /\ UNCHANGED ownVars) \/ UNCHANGED vars
    BY <1>2 DEF Next
  <2>2. FreeSizes!Buckets = Buckets /\ FreeSizes!CUP_SIZE = CUP_SIZE
    BY DEF FreeSizes!Buckets, Buckets, FreeSizes!CUP_SIZE, CUP_SIZE
  <2>3. ASSUME FreeSizes!Generate, UNCHANGED ownVars
        PROVE  \/ \E b \in Buckets : StoreStep(b)
               \/ \E b \in Buckets, n \in 0..CUP_SIZE : FlushStep(b, n)
    <3>1. PICK b \in Buckets : Store(b) \/ StoreAndFlush(b, CUP_SIZE)
      BY <2>2, <2>3, FreeSteps DEF FreeSizes!Generate
    <3>2. MayMake /\ UNCHANGED <<phase, i, short>>
      BY <2>3 DEF FreeSizes!Generate, FreeSizes!MoreToMake, MayMake, ownVars
    <3>3. StoreStep(b) \/ FlushStep(b, CUP_SIZE)
      BY <3>1, <3>2 DEF StoreStep, FlushStep, Chunked
    <3>4. CUP_SIZE \in 0..CUP_SIZE
      BY <1>0
    <3> QED  BY <3>3, <3>4
  <2>4. ASSUME FreeSizes!GenerateFails, UNCHANGED ownVars
        PROVE  \E b \in Buckets, n \in 0..CUP_SIZE : FailStep(b, n)
    <3>1. PICK b \in Buckets, n \in 0..CUP_SIZE - 1 : StoreAndFail(b, n)
      BY <2>2, <2>4, FreeSteps DEF FreeSizes!GenerateFails
    <3>2. FailStep(b, n)
      BY <2>4, <3>1 DEF FreeSizes!GenerateFails, FreeSizes!MoreToMake, FailStep, MayMake, ownVars
    <3> QED  BY <1>0, <3>2
  <2>5. ASSUME FreeSizes!Finish, UNCHANGED ownVars
        PROVE  LeaveStep
    BY <1>2, <2>5 DEF FreeSizes!Finish, LeaveStep, FreeSizes!bucketVars, bucketVars,
                      FreeSizes!bufferVars, bufferVars, ownVars
  <2> QED  BY <2>1, <2>3, <2>4, <2>5 DEF FreeSizes!Next, BucketStep, ownVars
<1>3. CASE program = "hashgen7"
  <2>1. (FromRing!Next /\ UNCHANGED ownVars) \/ UNCHANGED vars
    BY <1>3 DEF Next
  <2>2. FromRing!Buckets = Buckets /\ FromRing!CUP_SIZE = CUP_SIZE
    BY DEF FromRing!Buckets, Buckets, FromRing!CUP_SIZE, CUP_SIZE
  <2>3. ASSUME FromRing!Generate, UNCHANGED ownVars
        PROVE  \/ \E b \in Buckets : StoreStep(b)
               \/ \E b \in Buckets, n \in 0..CUP_SIZE : FlushStep(b, n)
    <3>1. PICK b \in Buckets : Store(b) \/ StoreAndFlush(b, CUP_SIZE)
      BY <2>2, <2>3, RingSteps DEF FromRing!Generate
    <3>2. MayMake /\ UNCHANGED <<phase, i, short>>
      BY <1>3, <2>3 DEF FromRing!Generate, FromRing!MoreToMake, MayMake, ownVars
    <3>3. StoreStep(b) \/ FlushStep(b, CUP_SIZE)
      BY <3>1, <3>2 DEF StoreStep, FlushStep, Chunked
    <3>4. CUP_SIZE \in 0..CUP_SIZE
      BY <1>0
    <3> QED  BY <3>3, <3>4
  <2>4. ASSUME FromRing!GenerateFails, UNCHANGED ownVars
        PROVE  \E b \in Buckets, n \in 0..CUP_SIZE : FailStep(b, n)
    <3>1. PICK b \in Buckets, n \in 0..CUP_SIZE - 1 : StoreAndFail(b, n)
      BY <2>2, <2>4, RingSteps DEF FromRing!GenerateFails
    <3>2. FailStep(b, n)
      BY <1>3, <2>4, <3>1 DEF FromRing!GenerateFails, FromRing!MoreToMake, FailStep, MayMake, ownVars
    <3> QED  BY <1>0, <3>2
  <2>5. ASSUME FromRing!LeaveLoop, UNCHANGED ownVars
        PROVE  LeaveStep
    BY <1>3, <2>5 DEF FromRing!LeaveLoop, LeaveStep, FromRing!bucketVars, bucketVars,
                      FromRing!bufferVars, bufferVars, ownVars
  <2>6. ASSUME FromRing!FinalFlush, UNCHANGED ownVars
        PROVE  \E n \in 0..CUP_SIZE : RestStep(n)
    <3>1. RestStep(CUP_SIZE)
      BY <2>2, <2>6, RingSteps DEF FromRing!FinalFlush, RestStep, Chunked, ownVars
    <3> QED  BY <1>0, <3>1
  <2>7. ASSUME FromRing!FinalFails, UNCHANGED ownVars
        PROVE  \E n \in 0..CUP_SIZE : RestFailStep(n)
    BY <1>0, <2>2, <2>7, RingSteps DEF FromRing!FinalFails, RestFailStep, ownVars
  <2>8. ASSUME FromRing!SkipRest \/ FromRing!FinishRest, UNCHANGED ownVars
        PROVE  (SkipRest \/ FinishRest) /\ UNCHANGED short
    BY <2>8, RingSteps DEF ownVars
  <2>9. ASSUME FromRing!psort \/ FromRing!psortFails, UNCHANGED ownVars
        PROVE  SortStep
    BY <1>3, <2>9 DEF FromRing!psort, FromRing!psortFails, SortStep, FromRing!bufferVars,
                      bufferVars, ownVars
  <2> QED  BY <2>1, <2>3, <2>4, <2>5, <2>6, <2>7, <2>8, <2>9 DEF FromRing!Next, BucketStep, ownVars
<1> QED  BY <1>1, <1>2, <1>3 DEF BucketPrograms

------------------------------------------------------------------------------
(* Cups.                                                                   *)

\* The cup that should be chunk d of a bucket that was given the values came.
CupOf(b, came, d) ==
  [s \in Slots |->
    LET k == d * CUP_SIZE + s + 1
    IN CASE k <= Len(came) -> [prefix |-> b, value |-> came[k]]
         [] k > Len(came) /\ d > 0 -> [prefix |-> b, value |-> came[k - CUP_SIZE]]
         [] k > Len(came) /\ d = 0 -> Uninitialised]

\* The record that should be the r-th of a bucket with flushes chunks.
ExpectedOf(b, r, came, flushes) ==
  IF r \div CUP_SIZE < flushes
  THEN chunk(CupOf(b, came, r \div CUP_SIZE))[r % CUP_SIZE] ELSE Hole

\* Cups and regions, from what came, in this state
LEMMA CupIs ==
  /\ \A b, d : Cup(b, d) = CupOf(b, arrivals[b], d)
  /\ \A b, r : Expected(b, r) = ExpectedOf(b, r, arrivals[b], bucketFlush[b])
BY DEF Cup, CupOf, Expected, ExpectedOf

\* and in the next.
LEMMA CupWillBe ==
  ASSUME plot' = plot
  PROVE  /\ \A b, d : Cup(b, d)' = CupOf(b, arrivals'[b], d)
         /\ \A b, r : Expected(b, r)' = ExpectedOf(b, r, arrivals'[b], bucketFlush'[b])
<1>1. \A b, d : Cup(b, d)' = CupOf(b, arrivals'[b], d)
  BY DEF Cup, CupOf, Slots, CUP_SIZE
<1>2. \A cup : chunk(cup)' = chunk(cup)
  BY DEF chunk, packed, word, Slots, CUP_SIZE, program
<1> QED  BY <1>1, <1>2 DEF Expected, ExpectedOf, CUP_SIZE

\* One more value came, v.
OneMoreCame(came, new, v) ==
  /\ Len(new) = Len(came) + 1 /\ new[Len(came) + 1] = v
  /\ \A k \in 1..Len(came) : new[k] = came[k]

LEMMA AppendIsOneMore ==
  ASSUME NEW came \in Seq(Nat), NEW v \in Nat
  PROVE  OneMoreCame(came, Append(came, v), v) /\ Append(came, v) \in Seq(Nat) /\ Len(came) \in Nat
BY DEF OneMoreCame

\* Places of the chunks of a bucket.
LEMMA ChunkSizes ==
  ASSUME plot \in Plots, NEW d \in Nat
  PROVE  /\ CUP_SIZE \in Nat \ {0} /\ d * CUP_SIZE \in Nat
         /\ (d + 1) * CUP_SIZE = d * CUP_SIZE + CUP_SIZE
BY Sizes

\* A cup whose hashes have all come holds them, whatever comes then.
LEMMA WholeCup ==
  ASSUME plot \in Plots, NEW b, NEW came \in Seq(Nat), NEW d \in Nat, (d + 1) * CUP_SIZE <= Len(came)
  PROVE  /\ CupOf(b, came, d) =
              [s \in Slots |-> [prefix |-> b, value |-> came[d * CUP_SIZE + s + 1]]]
         /\ \A new, v : OneMoreCame(came, new, v) => CupOf(b, new, d) = CupOf(b, came, d)
<1>1. /\ CUP_SIZE \in Nat \ {0} /\ d * CUP_SIZE \in Nat
      /\ (d + 1) * CUP_SIZE = d * CUP_SIZE + CUP_SIZE /\ Len(came) \in Nat
  <2>1. Len(came) \in Nat
    OBVIOUS
  <2> QED  BY <2>1, ChunkSizes
<1>2. ASSUME NEW s \in Slots
      PROVE  d * CUP_SIZE + s + 1 \in 1..Len(came)
  <2>1. s \in Nat /\ s < CUP_SIZE
    BY <1>1 DEF Slots
  <2> QED  BY <1>1, <2>1
<1>3. ASSUME NEW new, NEW v, OneMoreCame(came, new, v), NEW k \in 1..Len(came)
      PROVE  new[k] = came[k] /\ k <= Len(new)
  BY <1>1, <1>3 DEF OneMoreCame
<1>4. CupOf(b, came, d) = [s \in Slots |-> [prefix |-> b, value |-> came[d * CUP_SIZE + s + 1]]]
  BY <1>2 DEF CupOf
<1>5. ASSUME NEW new, NEW v, OneMoreCame(came, new, v)
      PROVE  CupOf(b, new, d) =
               [s \in Slots |-> [prefix |-> b, value |-> came[d * CUP_SIZE + s + 1]]]
  BY <1>2, <1>3, <1>5 DEF CupOf
<1> QED  BY <1>4, <1>5

\* A hash that comes goes where stored puts it.
PutInto(cup, index, b, v) == [cup EXCEPT ![index] = [prefix |-> b, value |-> v]]

LEMMA CupStores ==
  ASSUME plot \in Plots, NEW b, NEW came \in Seq(Nat), NEW d \in Nat, NEW index \in Slots,
         Len(came) = d * CUP_SIZE + index, NEW v, NEW new, OneMoreCame(came, new, v)
  PROVE  CupOf(b, new, d) = PutInto(CupOf(b, came, d), index, b, v)
<1> DEFINE F(seq, k) == CASE k <= Len(seq) -> [prefix |-> b, value |-> seq[k]]
                          [] k > Len(seq) /\ d > 0 -> [prefix |-> b, value |-> seq[k - CUP_SIZE]]
                          [] k > Len(seq) /\ d = 0 -> Uninitialised
<1>1. Len(came) \in Nat
  OBVIOUS
<1>2. /\ CUP_SIZE \in Nat \ {0} /\ d * CUP_SIZE \in Nat
      /\ index \in Nat /\ index < CUP_SIZE
  <2>1. CUP_SIZE \in Nat \ {0} /\ d * CUP_SIZE \in Nat
    BY ChunkSizes
  <2>2. index \in 0..CUP_SIZE - 1
    BY DEF Slots
  <2> HIDE DEF F
  <2> QED  BY <2>1, <2>2
<1>3. d > 0 => d * CUP_SIZE >= CUP_SIZE
  <2>1. d > 0 => d - 1 \in Nat /\ d = (d - 1) + 1
    OBVIOUS
  <2>2. d > 0 => (d - 1) * CUP_SIZE \in Nat /\ d * CUP_SIZE = (d - 1) * CUP_SIZE + CUP_SIZE
    BY <1>2, <2>1
  <2> QED  BY <1>2, <2>2
<1>4. /\ Len(new) = Len(came) + 1 /\ new[Len(came) + 1] = v
      /\ \A k \in 1..Len(came) : new[k] = came[k]
  BY DEF OneMoreCame
<1>5. ASSUME NEW k \in Nat, d * CUP_SIZE < k, k <= d * CUP_SIZE + CUP_SIZE
      PROVE  F(new, k) = IF k = Len(came) + 1 THEN [prefix |-> b, value |-> v] ELSE F(came, k)
  <2>1. CASE k <= Len(came)
    <3>1. k \in 1..Len(came) /\ k <= Len(new) /\ k # Len(came) + 1
      BY <1>1, <1>2, <1>4, <1>5, <2>1
    <3> QED  BY <1>4, <2>1, <3>1
  <2>2. CASE k = Len(came) + 1
    BY <1>1, <1>4, <2>2
  <2>3. CASE k > Len(came) + 1
    <3>1. ~(k <= Len(came)) /\ ~(k <= Len(new)) /\ k > Len(came) /\ k > Len(new)
      BY <1>1, <1>4, <2>3
    <3>2. CASE d > 0
      <4>1. k - CUP_SIZE \in 1..Len(came)
        BY <1>1, <1>2, <1>3, <1>5, <2>3, <3>2
      <4>2. new[k - CUP_SIZE] = came[k - CUP_SIZE]
        BY <1>4, <4>1
      <4> HIDE <4>1
      <4> QED  BY <1>1, <2>3, <3>1, <3>2, <4>2
    <3>3. CASE d = 0
      BY <1>1, <2>3, <3>1, <3>3
    <3> QED  BY <3>2, <3>3
  <2> QED  BY <1>1, <2>1, <2>2, <2>3
<1>6. /\ CupOf(b, new, d) = [s \in Slots |-> F(new, d * CUP_SIZE + s + 1)]
      /\ CupOf(b, came, d) = [s \in Slots |-> F(came, d * CUP_SIZE + s + 1)]
  BY DEF CupOf
<1>7. ASSUME NEW s \in Slots
      PROVE  /\ d * CUP_SIZE + s + 1 \in Nat /\ d * CUP_SIZE < d * CUP_SIZE + s + 1
             /\ d * CUP_SIZE + s + 1 <= d * CUP_SIZE + CUP_SIZE
             /\ d * CUP_SIZE + s + 1 = Len(came) + 1 <=> s = index
  <2>1. s \in Nat /\ s < CUP_SIZE
    BY <1>2 DEF Slots
  <2> QED  BY <1>2, <2>1
<1> HIDE DEF F
<1> USE DEF PutInto
<1>8. ASSUME NEW s \in Slots
      PROVE  F(new, d * CUP_SIZE + s + 1) =
               IF s = index THEN [prefix |-> b, value |-> v] ELSE F(came, d * CUP_SIZE + s + 1)
  BY <1>5, <1>7
<1> QED  BY <1>6, <1>8

\* When a chunk is whole, memory holds what the next should be filled up with.
LEMMA CupStays ==
  ASSUME plot \in Plots, NEW b, NEW came \in Seq(Nat), NEW d \in Nat,
         Len(came) = (d + 1) * CUP_SIZE
  PROVE  CupOf(b, came, d + 1) = CupOf(b, came, d)
<1>1. /\ CUP_SIZE \in Nat \ {0} /\ d * CUP_SIZE \in Nat
      /\ (d + 1) * CUP_SIZE = d * CUP_SIZE + CUP_SIZE /\ Len(came) \in Nat
  <2>1. Len(came) \in Nat
    OBVIOUS
  <2> QED  BY <2>1, ChunkSizes
<1>2. CupOf(b, came, d) = [s \in Slots |-> [prefix |-> b, value |-> came[d * CUP_SIZE + s + 1]]]
  <2>1. (d + 1) * CUP_SIZE <= Len(came)
    BY <1>1
  <2> QED  BY <2>1, WholeCup
<1>3. ASSUME NEW s \in Slots
      PROVE  /\ (d + 1) * CUP_SIZE + s + 1 > Len(came) /\ ~((d + 1) * CUP_SIZE + s + 1 <= Len(came))
             /\ ((d + 1) * CUP_SIZE + s + 1) - CUP_SIZE = d * CUP_SIZE + s + 1
  <2>1. s \in Nat
    BY DEF Slots
  <2> QED  BY <1>1, <2>1
<1>4. CupOf(b, came, d + 1) =
        [s \in Slots |-> [prefix |-> b, value |-> came[((d + 1) * CUP_SIZE + s + 1) - CUP_SIZE]]]
  <2>1. d + 1 > 0
    OBVIOUS
  <2> QED  BY <1>3, <2>1 DEF CupOf
<1> QED  BY <1>2, <1>3, <1>4

------------------------------------------------------------------------------
(* The file.                                                               *)

\* What is in a place of the file; behind its end, nothing.
Lookup(o) == IF o \in DOMAIN file THEN file[o] ELSE Hole

\* Records of the regions are places of the file, in this state
LEMMA RecordIs == \A b, r : record(b, r) = Lookup(b * BUCKET_SIZE + r)
BY DEF record, Lookup

\* and in the next.
LEMMA RecordWillBe ==
  ASSUME plot' = plot
  PROVE  \A b, r : record(b, r)' = Lookup(b * BUCKET_SIZE + r)'
BY DEF record, Lookup, BUCKET_SIZE

\* What is read after a write is what was written, or what was there.
LEMMA PutReads ==
  ASSUME NEW first \in Nat, NEW n \in Nat, NEW records, file' = put(first, records, n), NEW o \in Nat
  PROVE  Lookup(o)' = IF o - first \in 0..n - 1 THEN records[o - first] ELSE Lookup(o)
<1> DEFINE end == IF n = 0 THEN 0 ELSE first + n
           new == [p \in DOMAIN file \cup 0..end - 1 |->
                     IF p - first \in 0..n - 1 THEN records[p - first]
                     ELSE IF p \in DOMAIN file THEN file[p] ELSE Hole]
<1>1. file' = new
  BY DEF put
<1>2. o - first \in 0..n - 1 => o \in 0..end - 1
  OBVIOUS
<1> HIDE DEF end
<1>3. /\ DOMAIN new = DOMAIN file \cup 0..end - 1
      /\ o \in DOMAIN new => new[o] = IF o - first \in 0..n - 1 THEN records[o - first]
                                      ELSE IF o \in DOMAIN file THEN file[o] ELSE Hole
  OBVIOUS
<1> HIDE DEF new
<1> QED  BY <1>1, <1>2, <1>3 DEF Lookup

\* A file stays one when it is written to, behind its end too.
LEMMA PutKeepsFile ==
  ASSUME FileOK, plot' = plot, NEW first \in Nat, NEW n \in Nat, NEW records,
         \A k \in 0..n - 1 : records[k] \in FileRecords, file' = put(first, records, n)
  PROVE  FileOK'
<1> DEFINE end == IF n = 0 THEN 0 ELSE first + n
           new == [p \in DOMAIN file \cup 0..end - 1 |->
                     IF p - first \in 0..n - 1 THEN records[p - first]
                     ELSE IF p \in DOMAIN file THEN file[p] ELSE Hole]
<1>1. file' = new
  BY DEF put
<1>2. PICK size \in Nat : DOMAIN file = 0..size - 1
  BY DEF FileOK
<1>3. end \in Nat
  OBVIOUS
<1>4. FileRecords' = FileRecords
  BY DEF FileRecords, program, Words, Memory, Buckets
<1> HIDE DEF end
<1>5. \E m \in Nat : DOMAIN new = 0..m - 1
  <2>1. DOMAIN new = 0..size - 1 \cup 0..end - 1
    BY <1>2
  <2>2. CASE end <= size
    <3>1. 0..size - 1 \cup 0..end - 1 = 0..size - 1
      BY <1>3, <2>2
    <3> QED  BY <2>1, <3>1
  <2>3. CASE size <= end
    <3>1. 0..size - 1 \cup 0..end - 1 = 0..end - 1
      BY <1>3, <2>3
    <3> QED  BY <1>3, <2>1, <3>1
  <2> QED  BY <1>3, <2>2, <2>3
<1>6. \A o \in DOMAIN new : new[o] = Hole \/ new[o] \in FileRecords
  BY DEF FileOK
<1> HIDE DEF new
<1> QED  BY <1>1, <1>4, <1>5, <1>6 DEF FileOK

\* What is written of a cup, two thirds of it in hashgen7 included.
LEMMA ChunkType ==
  ASSUME plot \in Plots, NEW cup \in [Slots -> Memory], NEW k \in Slots
  PROVE  chunk(cup)[k] \in FileRecords
<1>1. CASE program # "hashgen7"
  BY <1>1 DEF chunk, FileRecords
<1>2. CASE program = "hashgen7"
  <2>1. chunk(cup)[k] = <<word(cup, 2 * k), word(cup, 2 * k + 1)>>
    BY <1>2 DEF chunk, packed
  <2>2. k \in Nat /\ k < CUP_SIZE /\ CUP_SIZE \in Nat
    BY Sizes DEF Slots
  <2>3. ASSUME NEW w \in {2 * k, 2 * k + 1}
        PROVE  word(cup, w) \in Words
    <3>1. w \div 3 \in Slots
      BY <2>2 DEF Slots
    <3>2. cup[w \div 3] \in Memory
      BY <3>1
    <3>3. (w % 3) + 1 \in 1..3
      BY <2>2
    <3>4. <<"byteArray", "NONCE", "prefix">>[(w % 3) + 1] \in {"byteArray", "NONCE", "prefix"}
      <4>1. \A x \in 1..3 : <<"byteArray", "NONCE", "prefix">>[x] \in {"byteArray", "NONCE", "prefix"}
        OBVIOUS
      <4> QED  BY <3>3, <4>1
    <3> QED  BY <3>2, <3>4 DEF word, Words
  <2> QED  BY <1>2, <2>1, <2>3 DEF FileRecords
<1> QED  BY <1>1, <1>2

\* Where a record lies, seen from chunk f of bucket c.
LEMMA PlaceOfRecord ==
  ASSUME plot \in Plots, NEW b \in Buckets, NEW c \in Buckets, NEW f \in Nat,
         NEW r \in 0..BUCKET_SIZE - 1
  PROVE  LET place == (b * BUCKET_SIZE + r) - (c * BUCKET_SIZE + f * CUP_SIZE)
         IN /\ b * BUCKET_SIZE + r \in Nat /\ c * BUCKET_SIZE + f * CUP_SIZE \in Nat
            /\ b = c => (place \in 0..CUP_SIZE - 1 <=> r \div CUP_SIZE = f)
            /\ b = c /\ r \div CUP_SIZE = f => place = r % CUP_SIZE
            /\ b < c => place < 0
            /\ c < b /\ c * BUCKET_SIZE + (f + 1) * CUP_SIZE <= b * BUCKET_SIZE => place >= CUP_SIZE
<1> DEFINE B == BUCKET_SIZE
           H == CUP_SIZE
           q == r \div H
           m == r % H
<1>1. B \in Nat \ {0} /\ H \in Nat \ {0} /\ b \in Nat /\ c \in Nat /\ r \in Nat /\ r < B
  BY Sizes DEF Buckets
<1>2. b * B \in Nat /\ c * B \in Nat /\ f * H \in Nat /\ (f + 1) * H = f * H + H
  BY <1>1
<1>3. q \in Nat /\ m \in 0..H - 1 /\ r = q * H + m
  <2>1. \A x \in Nat, y \in Nat \ {0} :
          x \div y \in Nat /\ x % y \in 0..y - 1 /\ x = (x \div y) * y + (x % y)
    OBVIOUS
  <2> HIDE DEF H
  <2> QED  BY <1>1, <2>1
<1> HIDE DEF B, H, q, m
<1>4. r - f * H \in 0..H - 1 <=> q = f
  <2>1. q < f + 1 <=> q * H + m < (f + 1) * H
    BY <1>1, <1>3, Below
  <2>2. f <= q <=> f * H <= q * H + m
    BY <1>1, <1>3, Below
  <2> QED  BY <1>1, <1>2, <1>3, <2>1, <2>2
<1>5. q = f => r - f * H = m
  BY <1>1, <1>2, <1>3
<1>6. b < c => b * B + r < c * B
  <2>1. r \in 0..B - 1
    BY <1>1
  <2> QED  BY <1>1, <2>1, Below
<1>7. /\ b * B + r \in Nat /\ c * B + f * H \in Nat
      /\ b = c => (b * B + r) - (c * B + f * H) = r - f * H
      /\ b < c => (b * B + r) - (c * B + f * H) < 0
      /\ c * B + (f + 1) * H <= b * B => (b * B + r) - (c * B + f * H) >= H
  BY <1>1, <1>2, <1>6
<1> QED  BY <1>4, <1>5, <1>7 DEF B, H, q, m

------------------------------------------------------------------------------
(* What steps do to the regions of the file.                               *)

AllRight == \A b \in Intact, r \in 0..BUCKET_SIZE - 1 : Right(b, r)

\* The cups of the chunks that were flushed are as they were.
CupsKept ==
  \A b \in Buckets, d \in Nat :
    d < bucketFlush[b] => CupOf(b, arrivals'[b], d) = CupOf(b, arrivals[b], d)

\* The chunk of a record, and its place there.
LEMMA Chunks ==
  ASSUME plot \in Plots, NEW r \in 0..BUCKET_SIZE - 1
  PROVE  r \div CUP_SIZE \in Nat /\ r % CUP_SIZE \in Slots /\ r = (r \div CUP_SIZE) * CUP_SIZE + (r % CUP_SIZE)
<1>1. \A x \in Nat, y \in Nat \ {0} :
        x \div y \in Nat /\ x % y \in 0..y - 1 /\ x = (x \div y) * y + (x % y)
  OBVIOUS
<1>2. r \in Nat /\ CUP_SIZE \in Nat \ {0}
  BY Sizes
<1> QED  BY <1>1, <1>2 DEF Slots

\* If the cups are kept a region should hold what it should have held.
LEMMA SameExpected ==
  ASSUME plot \in Plots, CupsKept, NEW b \in Buckets, NEW r \in 0..BUCKET_SIZE - 1
  PROVE  ExpectedOf(b, r, arrivals'[b], bucketFlush[b]) = Expected(b, r)
<1>1. r \div CUP_SIZE \in Nat
  BY Chunks
<1>2. r \div CUP_SIZE < bucketFlush[b] =>
        CupOf(b, arrivals'[b], r \div CUP_SIZE) = CupOf(b, arrivals[b], r \div CUP_SIZE)
  BY <1>1 DEF CupsKept
<1> QED  BY <1>2, CupIs DEF ExpectedOf

\* Flushing a chunk leaves no region intact that was not.
LEMMA IntactShrinks ==
  ASSUME TypeInv, plot' = plot, NEW c \in Buckets,
         bucketFlush' = [bucketFlush EXCEPT ![c] = @ + 1]
  PROVE  /\ Intact' \subseteq Intact
         /\ \A b \in Intact' :
              c < b => c * BUCKET_SIZE + (bucketFlush[c] + 1) * CUP_SIZE <= b * BUCKET_SIZE
<1>1. /\ CUP_SIZE \in Nat \ {0} /\ BUCKET_SIZE \in Nat \ {0} /\ NUM_BUCKETS \in Nat
      /\ bucketFlush \in [Buckets -> Nat]
      /\ CUP_SIZE' = CUP_SIZE /\ BUCKET_SIZE' = BUCKET_SIZE
  BY Sizes DEF TypeInv, CUP_SIZE, BUCKET_SIZE
<1>2. ASSUME NEW b \in Buckets
      PROVE  /\ bucketFlush[b] \in Nat /\ bucketFlush'[b] \in Nat
             /\ bucketFlush[b] * CUP_SIZE \in Nat /\ bucketFlush'[b] * CUP_SIZE \in Nat
             /\ bucketFlush[b] * CUP_SIZE <= bucketFlush'[b] * CUP_SIZE
             /\ b * BUCKET_SIZE \in Nat
  <2>1. bucketFlush[b] \in Nat /\ (bucketFlush'[b] = bucketFlush[b] \/ bucketFlush'[b] = bucketFlush[b] + 1)
    BY <1>1
  <2>2. (bucketFlush[b] + 1) * CUP_SIZE = bucketFlush[b] * CUP_SIZE + CUP_SIZE
    BY <1>1, <2>1
  <2>3. bucketFlush[b] * CUP_SIZE \in Nat /\ b * BUCKET_SIZE \in Nat
    BY <1>1, <2>1 DEF Buckets
  <2> QED  BY <1>1, <2>1, <2>2, <2>3
<1>3. ASSUME NEW b \in Buckets, NEW d \in 0..b - 1
      PROVE  d \in Buckets /\ (SpilledInto(d, b) => SpilledInto(d, b)')
  <2>1. d \in Buckets
    BY <1>1 DEF Buckets
  <2> QED  BY <1>1, <1>2, <2>1 DEF SpilledInto
<1>4. ASSUME NEW b \in Intact', c < b
      PROVE  c * BUCKET_SIZE + (bucketFlush[c] + 1) * CUP_SIZE <= b * BUCKET_SIZE
  <2>1. b \in Buckets /\ c \in 0..b - 1 /\ ~SpilledInto(c, b)'
    BY <1>4 DEF Intact, Buckets
  <2>2. bucketFlush'[c] = bucketFlush[c] + 1
    BY <1>1
  <2>3. c * BUCKET_SIZE \in Nat /\ b * BUCKET_SIZE \in Nat /\ bucketFlush'[c] * CUP_SIZE \in Nat
    BY <1>2, <2>1
  <2> QED  BY <1>1, <2>1, <2>2, <2>3 DEF SpilledInto
<1>5. Intact' \subseteq Intact
  BY <1>3 DEF Intact, Buckets
<1> QED  BY <1>4, <1>5

\* The heart of it: a chunk written from a cup that is as it should be leaves every region
\* intact right, the ones it spills into being intact no more.
LEMMA WriteKeepsRight ==
  ASSUME TypeInv, AllRight, plot' = plot, NEW c \in Buckets, NEW n \in 0..CUP_SIZE, Chunked(n), NEW cup,
         file' = put(write_location(c), chunk(cup), n),
         bucketFlush' = [bucketFlush EXCEPT ![c] = @ + 1],
         cup = CupOf(c, arrivals'[c], bucketFlush[c]), CupsKept
  PROVE  AllRight'
<1> DEFINE f == bucketFlush[c]
           first == c * BUCKET_SIZE + f * CUP_SIZE
<1>1. /\ plot \in Plots /\ CUP_SIZE \in Nat \ {0} /\ n \in Nat /\ n <= CUP_SIZE
      /\ f \in Nat /\ bucketFlush'[c] = f + 1
      /\ \A b \in Buckets : bucketFlush[b] \in Nat /\ (b # c => bucketFlush'[b] = bucketFlush[b])
      /\ BUCKET_SIZE' = BUCKET_SIZE
  BY Sizes DEF TypeInv, BUCKET_SIZE
<1>2. (n = CUP_SIZE => short' = short) /\ (n < CUP_SIZE => short' # 0)
  BY <1>1, GeneratorsAssumption DEF TypeInv, Chunked
<1> SUFFICES ASSUME NEW b \in Intact', NEW r \in 0..BUCKET_SIZE - 1
             PROVE  Right(b, r)'
  BY <1>1 DEF AllRight
<1> DEFINE o == b * BUCKET_SIZE + r
           place == o - first
           q == r \div CUP_SIZE
<1>3. b \in Buckets /\ b \in Intact /\ Right(b, r)
  BY IntactShrinks DEF AllRight, Intact
<1>4. record(b, r) = Lookup(o) /\ record(b, r)' = Lookup(o)'
  BY RecordIs, RecordWillBe, <1>1
<1>5. /\ o \in Nat /\ first \in Nat
      /\ b = c => (place \in 0..CUP_SIZE - 1 <=> q = f)
      /\ b = c /\ q = f => place = r % CUP_SIZE
      /\ b < c => place < 0
      /\ c < b /\ c * BUCKET_SIZE + (f + 1) * CUP_SIZE <= b * BUCKET_SIZE => place >= CUP_SIZE
  BY <1>1, <1>3, PlaceOfRecord
<1>6. b # c => place < 0 \/ place >= CUP_SIZE
  <2>1. b \in Int /\ c \in Int
    BY <1>3 DEF Buckets
  <2>2. c < b => c * BUCKET_SIZE + (f + 1) * CUP_SIZE <= b * BUCKET_SIZE
    BY IntactShrinks
  <2> QED  BY <1>5, <2>1, <2>2
<1>7. Lookup(o)' = IF place \in 0..n - 1 THEN chunk(cup)[place] ELSE Lookup(o)
  BY <1>1, <1>5, PutReads DEF write_location
<1>8. /\ Expected(b, r)' = ExpectedOf(b, r, arrivals'[b], bucketFlush'[b])
      /\ ExpectedOf(b, r, arrivals'[b], bucketFlush[b]) = Expected(b, r)
  BY <1>1, <1>3, CupWillBe, SameExpected
<1>9. q \in Nat /\ r % CUP_SIZE \in Nat /\ r % CUP_SIZE < CUP_SIZE
  BY <1>1, Chunks DEF Slots
<1>10. place \in Int
  BY <1>5
<1>11. Right(b, r) <=> /\ Lookup(o) \in {Expected(b, r), Hole}
                       /\ short = 0 => Lookup(o) = Expected(b, r)
  BY <1>4 DEF Right
<1>12. Right(b, r)' <=> /\ Lookup(o)' \in {Expected(b, r)', Hole}
                        /\ short' = 0 => Lookup(o)' = Expected(b, r)'
  BY <1>4 DEF Right
<1>13. CASE b # c \/ q # f
  <2>1. place \notin 0..n - 1
    <3> HIDE DEF place, q, f
    <3> QED  BY <1>1, <1>5, <1>6, <1>10, <1>13
  <2>2. Lookup(o)' = Lookup(o)
    BY <1>7, <2>1
  <2>3. Expected(b, r)' = Expected(b, r)
    <3>1. CASE b # c
      BY <1>1, <1>3, <1>8, <3>1
    <3>2. CASE b = c
      <4>1. q < f + 1 <=> q < f
        BY <1>1, <1>9, <1>13, <3>2
      <4> QED  BY <1>1, <1>8, <3>2, <4>1 DEF ExpectedOf
    <3> QED  BY <3>1, <3>2
  <2>4. short' = 0 => short = 0
    BY <1>1, <1>2
  <2> QED  BY <1>3, <1>11, <1>12, <2>2, <2>3, <2>4
<1>14. CASE b = c /\ q = f
  <2>1. Expected(b, r)' = chunk(cup)[r % CUP_SIZE]
    BY <1>1, <1>8, <1>14 DEF ExpectedOf
  <2>2. Expected(b, r) = Hole
    BY <1>1, <1>14, CupIs DEF ExpectedOf
  <2>3. place = r % CUP_SIZE
    BY <1>5, <1>14
  <2> HIDE DEF place, o, q, f
  <2>4. CASE r % CUP_SIZE < n
    <3>1. Lookup(o)' = Expected(b, r)'
      BY <1>1, <1>7, <1>9, <2>1, <2>3, <2>4
    <3> QED  BY <1>12, <3>1
  <2>5. CASE ~(r % CUP_SIZE < n)
    <3>1. place \notin 0..n - 1
      BY <1>1, <1>9, <2>3, <2>5
    <3>2. Lookup(o)' = Hole
      BY <1>3, <1>7, <1>11, <2>2, <3>1
    <3>3. short' # 0
      BY <1>1, <1>2, <1>9, <2>5
    <3> QED  BY <1>12, <3>2, <3>3
  <2> QED  BY <2>4, <2>5
<1> QED  BY <1>13, <1>14

------------------------------------------------------------------------------
(* What steps do to the memory and the counters.                           *)

InMemoryOf(b, came, flushes, index, cup) ==
  Len(came) = flushes * CUP_SIZE + index /\ index < CUP_SIZE /\ cup = CupOf(b, came, flushes)

\* What InMemory says in this state and in the next.
LEMMA InMemoryIs ==
  /\ \A b : InMemory(b) <=> InMemoryOf(b, arrivals[b], bucketFlush[b], bucketIndex[b], array2D[b])
  /\ plot' = plot =>
       \A b : InMemory(b)' <=> InMemoryOf(b, arrivals'[b], bucketFlush'[b], bucketIndex'[b], array2D'[b])
<1>1. \A b : InMemory(b) <=> InMemoryOf(b, arrivals[b], bucketFlush[b], bucketIndex[b], array2D[b])
  BY CupIs DEF InMemory, InMemoryOf
<1>2. ASSUME plot' = plot, NEW b
      PROVE  InMemory(b)' <=> InMemoryOf(b, arrivals'[b], bucketFlush'[b], bucketIndex'[b], array2D'[b])
  BY <1>2 DEF InMemory, InMemoryOf, Cup, CupOf, Slots, CUP_SIZE
<1> QED  BY <1>1, <1>2

\* Without a write the regions keep what they should have.
LEMMA NoWriteKeepsRight ==
  ASSUME TypeInv, AllRight, UNCHANGED <<plot, file, bucketFlush, short>>, CupsKept
  PROVE  AllRight'
<1>1. plot \in Plots /\ BUCKET_SIZE' = BUCKET_SIZE /\ Intact' = Intact
  BY DEF TypeInv, BUCKET_SIZE, Intact, SpilledInto, CUP_SIZE
<1> SUFFICES ASSUME NEW b \in Intact, NEW r \in 0..BUCKET_SIZE - 1
             PROVE  Right(b, r)'
  BY <1>1 DEF AllRight
<1>2. b \in Buckets /\ Right(b, r)
  BY DEF AllRight, Intact
<1>3. record(b, r)' = record(b, r)
  BY <1>1 DEF record
<1>4. Expected(b, r)' = Expected(b, r)
  BY <1>1, <1>2, CupWillBe, SameExpected
<1> QED  BY <1>2, <1>3, <1>4 DEF Right

\* A hash that comes.
LEMMA Arrival ==
  ASSUME TypeInv, NEW c \in Buckets, InMemory(c), Arrive(c)
  PROVE  /\ plot' = plot /\ NONCE' = NONCE + 1
         /\ bucketIndex[c] \in Nat /\ bucketIndex[c] \in Slots
         /\ arrivals' \in [Buckets -> Seq(Nat)] /\ array2D' \in [Buckets -> [Slots -> Memory]]
         /\ Len(arrivals'[c]) = Len(arrivals[c]) + 1 /\ Len(arrivals[c]) \in Nat
         /\ array2D'[c] = CupOf(c, arrivals'[c], bucketFlush[c]) /\ array2D'[c] = stored(c)[c]
         /\ \A b \in Buckets : b # c => arrivals'[b] = arrivals[b] /\ array2D'[b] = array2D[b]
<1>1. /\ plot \in Plots /\ bucketIndex[c] \in 0..CUP_SIZE /\ bucketIndex[c] < CUP_SIZE
      /\ CUP_SIZE \in Nat \ {0} /\ bucketFlush[c] \in Nat /\ NONCE \in Nat
      /\ arrivals \in [Buckets -> Seq(Nat)] /\ array2D \in [Buckets -> [Slots -> Memory]]
  BY Sizes DEF TypeInv, InMemory
<1>2. /\ plot' = plot /\ NONCE' = NONCE + 1 /\ array2D' = stored(c)
      /\ arrivals' = [arrivals EXCEPT ![c] = Append(@, NONCE)]
  BY DEF Arrive
<1>3. bucketIndex[c] \in Nat /\ bucketIndex[c] \in Slots
  BY <1>1 DEF Slots
<1>4. arrivals[c] \in Seq(Nat) /\ Len(arrivals[c]) \in Nat /\ Append(arrivals[c], NONCE) \in Seq(Nat)
      /\ Len(Append(arrivals[c], NONCE)) = Len(arrivals[c]) + 1
  <2>1. arrivals[c] \in Seq(Nat)
    BY <1>1
  <2> QED  BY <1>1, <2>1
<1>5. arrivals' \in [Buckets -> Seq(Nat)] /\ arrivals'[c] = Append(arrivals[c], NONCE)
  BY <1>1, <1>2, <1>4
<1>6. [prefix |-> c, value |-> NONCE] \in Memory
  BY <1>1 DEF Memory
<1>7. /\ array2D' \in [Buckets -> [Slots -> Memory]]
      /\ array2D'[c] = [array2D[c] EXCEPT ![bucketIndex[c]] = [prefix |-> c, value |-> NONCE]]
  BY <1>1, <1>2, <1>3, <1>6 DEF stored
<1>8. Len(arrivals[c]) = bucketFlush[c] * CUP_SIZE + bucketIndex[c]
      /\ array2D[c] = CupOf(c, arrivals[c], bucketFlush[c])
  BY InMemoryIs DEF InMemoryOf
<1>9. array2D'[c] = CupOf(c, arrivals'[c], bucketFlush[c])
  <2> DEFINE came == arrivals[c]
             new == arrivals'[c]
             d == bucketFlush[c]
             index == bucketIndex[c]
  <2>1. /\ plot \in Plots /\ came \in Seq(Nat) /\ d \in Nat /\ index \in Slots /\ NONCE \in Nat
        /\ Len(came) = d * CUP_SIZE + index
    BY <1>1, <1>3, <1>4, <1>8
  <2>2. /\ array2D'[c] = [CupOf(c, came, d) EXCEPT ![index] = [prefix |-> c, value |-> NONCE]]
        /\ OneMoreCame(came, new, NONCE)
    BY <1>1, <1>5, <1>7, <1>8, AppendIsOneMore
  <2> HIDE DEF came, d, index, new
  <2>3. CupOf(c, new, d) = PutInto(CupOf(c, came, d), index, c, NONCE)
    BY <2>1, <2>2, CupStores
  <2> QED  BY <2>2, <2>3 DEF d, new, PutInto
<1>10. \A b \in Buckets : b # c => arrivals'[b] = arrivals[b] /\ array2D'[b] = array2D[b]
  BY <1>1, <1>2 DEF stored
<1> QED  BY <1>1, <1>2, <1>3, <1>4, <1>5, <1>7, <1>9, <1>10

\* What comes leaves whole cups as they are.
LEMMA ArrivalKeepsCups ==
  ASSUME TypeInv, NEW c \in Buckets, \A b \in Buckets : InMemory(b), Arrive(c)
  PROVE  CupsKept
<1> SUFFICES ASSUME NEW b \in Buckets, NEW d \in Nat, d < bucketFlush[b]
             PROVE  CupOf(b, arrivals'[b], d) = CupOf(b, arrivals[b], d)
  BY DEF CupsKept
<1>1. CASE b # c
  BY <1>1, Arrival
<1>2. CASE b = c
  <2>1. /\ arrivals[b] \in Seq(Nat) /\ NONCE \in Nat /\ plot \in Plots /\ bucketFlush[b] \in Nat
        /\ bucketIndex[b] \in Nat /\ CUP_SIZE \in Nat \ {0}
    BY Sizes DEF TypeInv
  <2>2. arrivals'[b] = Append(arrivals[b], NONCE)
    BY <1>2 DEF Arrive, TypeInv
  <2>3. Len(arrivals[b]) = bucketFlush[b] * CUP_SIZE + bucketIndex[b]
    BY DEF InMemory
  <2>4. (d + 1) * CUP_SIZE <= bucketFlush[b] * CUP_SIZE
    <3>1. \A x, y, z \in Nat : x <= y => x * z <= y * z
      OBVIOUS
    <3>2. d + 1 \in Nat /\ d + 1 <= bucketFlush[b]
      BY <2>1
    <3> QED  BY <2>1, <3>1, <3>2
  <2>5. (d + 1) * CUP_SIZE <= Len(arrivals[b])
    <3>1. (d + 1) * CUP_SIZE \in Nat /\ bucketFlush[b] * CUP_SIZE \in Nat
      BY <2>1
    <3> QED  BY <2>1, <2>3, <2>4, <3>1
  <2> DEFINE came == arrivals[b]
             new == arrivals'[b]
  <2>6. /\ came \in Seq(Nat) /\ (d + 1) * CUP_SIZE <= Len(came)
        /\ OneMoreCame(came, new, NONCE)
    BY <2>1, <2>2, <2>5, AppendIsOneMore
  <2> HIDE DEF came, new
  <2>7. CupOf(b, new, d) = CupOf(b, came, d)
    <3>0. plot \in Plots
      BY <2>1
    <3>1. \A x, y : OneMoreCame(came, x, y) => CupOf(b, x, d) = CupOf(b, came, d)
      BY <3>0, <2>6, WholeCup
    <3> QED BY <2>6, <3>1
  <2> QED  BY <2>7 DEF came, new
<1> QED  BY <1>1, <1>2

LEMMA BucketsFinite == IsFiniteSet(Buckets) /\ Cardinality(Buckets) = NUM_BUCKETS
BY PlotAssumption, FS_Interval DEF Buckets

\* A hash that comes counts once,
LEMMA ArrivalCounts ==
  ASSUME TypeInv, NEW c \in Buckets, InMemory(c), Arrive(c)
  PROVE  SumFunction([b \in Buckets |-> Len(arrivals'[b])])
           = SumFunction([b \in Buckets |-> Len(arrivals[b])]) + 1
<1> DEFINE f == [b \in Buckets |-> Len(arrivals[b])]
           g == [b \in Buckets |-> Len(arrivals'[b])]
<1>1. \A b \in Buckets : f[b] \in Int /\ g[b] \in Int
  <2>1. \A s \in Seq(Nat) : Len(s) \in Int
    OBVIOUS
  <2> QED  BY <2>1, Arrival DEF TypeInv
<1>2. \A b \in Buckets \ {c} : f[b] = g[b]
  BY Arrival
<1>3. g[c] = f[c] + 1
  BY Arrival
<1>4. DOMAIN f = Buckets /\ DOMAIN g = Buckets
  OBVIOUS
<1> HIDE DEF f, g
<1>5. SumFunctionOnSet(g, Buckets) = SumFunctionOnSet(f, Buckets) + (g[c] - f[c])
  BY <1>1, <1>2, SumChange, BucketsFinite
<1>6. SumFunctionOnSet(f, Buckets) \in Int
  BY <1>1, SumType, BucketsFinite
<1>7. SumFunctionOnSet(g, Buckets) = SumFunctionOnSet(f, Buckets) + 1
  BY <1>1, <1>3, <1>5, <1>6
<1> QED  BY <1>4, <1>7 DEF SumFunction, f, g

\* and so does a chunk.
LEMMA FlushCounts ==
  ASSUME TypeInv, NEW c \in Buckets, bucketFlush' = [bucketFlush EXCEPT ![c] = @ + 1]
  PROVE  SumFunction(bucketFlush') = SumFunction(bucketFlush) + 1
<1> DEFINE f == bucketFlush
           g == bucketFlush'
<1>1. \A b \in Buckets : f[b] \in Int /\ g[b] \in Int
  BY DEF TypeInv
<1>2. \A b \in Buckets \ {c} : f[b] = g[b]
  BY DEF TypeInv
<1>3. g[c] = f[c] + 1
  BY DEF TypeInv
<1>4. DOMAIN f = Buckets /\ DOMAIN g = Buckets
  BY DEF TypeInv
<1> HIDE DEF f, g
<1>5. SumFunctionOnSet(g, Buckets) = SumFunctionOnSet(f, Buckets) + (g[c] - f[c])
  BY <1>1, <1>2, SumChange, BucketsFinite
<1>6. SumFunctionOnSet(f, Buckets) \in Int
  BY <1>1, SumType, BucketsFinite
<1>7. SumFunctionOnSet(g, Buckets) = SumFunctionOnSet(f, Buckets) + 1
  BY <1>1, <1>3, <1>5, <1>6
<1> QED  BY <1>4, <1>7 DEF SumFunction, f, g

LEMMA IdealType ==
  ASSUME plot \in Plots
  PROVE  FreeSizes!ideal_number_of_flushes \in Nat
<1>1. CHUNKS \in Nat /\ NUM_BUCKETS \in Nat
  BY Sizes
<1>2. FreeSizes!ideal_number_of_flushes = NUM_BUCKETS * CHUNKS
  BY DEF FreeSizes!ideal_number_of_flushes, FreeSizes!BUCKET_SIZE, FreeSizes!CUP_SIZE,
         BUCKET_SIZE, CUP_SIZE, CHUNKS
<1> QED  BY <1>1, <1>2

\* blake3_hashgen_2024 is not done: one more hash is within the bound, for what is in
\* the cups and in too few chunks.
LEMMA OneMore ==
  ASSUME TypeInv, \A b \in Buckets : InMemory(b),
         NONCE = SumFunction([b \in Buckets |-> Len(arrivals[b])]),
         totalFlushes = SumFunction(bucketFlush),
         totalFlushes < FreeSizes!ideal_number_of_flushes
  PROVE  NONCE + 1 <= FreeSizes!ideal_number_of_flushes * CUP_SIZE
                        + (NUM_BUCKETS - 1) * (CUP_SIZE - 1)
<1> DEFINE f == [b \in Buckets |-> Len(arrivals[b])]
           g == [b \in Buckets |-> bucketFlush[b] * CUP_SIZE + (CUP_SIZE - 1)]
           ideal == FreeSizes!ideal_number_of_flushes
<1>1. CUP_SIZE \in Nat \ {0} /\ NUM_BUCKETS \in Nat \ {0} /\ ideal \in Nat
  BY IdealType, Sizes DEF TypeInv
<1>2. \A b \in Buckets : /\ bucketFlush[b] \in Nat
                         /\ f[b] \in Int /\ g[b] \in Int /\ f[b] <= g[b]
                         /\ g[b] = bucketFlush[b] * CUP_SIZE + (CUP_SIZE - 1)
  <2> SUFFICES ASSUME NEW b \in Buckets
               PROVE  bucketFlush[b] \in Nat /\ f[b] \in Int /\ g[b] \in Int /\ f[b] <= g[b]
    OBVIOUS
  <2>1. /\ bucketFlush[b] \in Nat /\ bucketIndex[b] \in Nat /\ bucketIndex[b] < CUP_SIZE
        /\ f[b] = bucketFlush[b] * CUP_SIZE + bucketIndex[b]
    BY <1>1 DEF TypeInv, InMemory
  <2>2. bucketFlush[b] * CUP_SIZE \in Nat
    BY <1>1, <2>1
  <2> QED  BY <1>1, <2>1, <2>2
<1>3. DOMAIN f = Buckets /\ DOMAIN g = Buckets /\ DOMAIN bucketFlush = Buckets
  BY DEF TypeInv
<1>4. NONCE = SumFunctionOnSet(f, Buckets) /\ totalFlushes = SumFunctionOnSet(bucketFlush, Buckets)
  BY <1>3 DEF SumFunction
<1> HIDE DEF f, g, ideal
<1>5. SumFunctionOnSet(f, Buckets) <= SumFunctionOnSet(g, Buckets)
  BY <1>2, SumMonotone, BucketsFinite
<1>6. SumFunctionOnSet(g, Buckets)
        = SumFunctionOnSet(bucketFlush, Buckets) * CUP_SIZE + NUM_BUCKETS * (CUP_SIZE - 1)
  <2>1. CUP_SIZE \in Int /\ CUP_SIZE - 1 \in Int
    BY <1>1
  <2> QED  BY <1>2, <2>1, SumLinear, BucketsFinite
<1>7. NONCE <= totalFlushes * CUP_SIZE + NUM_BUCKETS * (CUP_SIZE - 1)
  BY <1>4, <1>5, <1>6
<1>8. totalFlushes \in Nat /\ NONCE \in Nat /\ totalFlushes + 1 <= ideal
  BY <1>1 DEF TypeInv, ideal
<1>9. (totalFlushes + 1) * CUP_SIZE <= ideal * CUP_SIZE
  BY <1>1, <1>8
<1>10. (totalFlushes + 1) * CUP_SIZE = totalFlushes * CUP_SIZE + CUP_SIZE
       /\ NUM_BUCKETS * (CUP_SIZE - 1) = (NUM_BUCKETS - 1) * (CUP_SIZE - 1) + (CUP_SIZE - 1)
  BY <1>1, <1>8
<1>11. totalFlushes * CUP_SIZE \in Int /\ ideal * CUP_SIZE \in Int
       /\ (NUM_BUCKETS - 1) * (CUP_SIZE - 1) \in Int
  BY <1>1, <1>8
<1>12. NONCE + 1 <= ideal * CUP_SIZE + (NUM_BUCKETS - 1) * (CUP_SIZE - 1)
  <2> DEFINE X == totalFlushes * CUP_SIZE
             Y == ideal * CUP_SIZE
             Z == (NUM_BUCKETS - 1) * (CUP_SIZE - 1)
  <2>1. X \in Int /\ Y \in Int /\ Z \in Int
    BY <1>11
  <2>2. X + CUP_SIZE <= Y
    BY <1>9, <1>10
  <2>3. NONCE <= X + (Z + (CUP_SIZE - 1))
    BY <1>7, <1>10
  <2>4. NONCE + 1 <= Y + Z
    <3> HIDE <1>9 DEF X, Y, Z
    <3> QED  BY <1>1, <1>8, <2>1, <2>2, <2>3
  <2> QED  BY <2>4
<1> QED  BY <1>12 DEF ideal

------------------------------------------------------------------------------
(* The steps keep the invariant.                                           *)

\* The sizes of the run.
LEMMA SameSizes ==
  ASSUME plot' = plot
  PROVE  /\ program' = program /\ CUP_SIZE' = CUP_SIZE /\ BUCKET_SIZE' = BUCKET_SIZE
         /\ CHUNKS' = CHUNKS /\ MAX_HASHES' = MAX_HASHES /\ Slots' = Slots
         /\ FreeSizes!ideal_number_of_flushes' = FreeSizes!ideal_number_of_flushes
         /\ FileRecords' = FileRecords
BY DEF program, CUP_SIZE, BUCKET_SIZE, CHUNKS, MAX_HASHES, Slots, FreeSizes!ideal_number_of_flushes,
       FreeSizes!BUCKET_SIZE, FreeSizes!CUP_SIZE, FileRecords, Words, Memory, Buckets

\* The two halves of the invariant that are about other programs.
LEMMA NotMapped ==
  ASSUME program \in BucketPrograms, plot' = plot
  PROVE  MapInv' /\ MapCount'
BY SameSizes DEF BucketPrograms, MapInv, MapCount

LEMMA SameEnd ==
  ASSUME EndInv, UNCHANGED <<plot, NONCE, totalFlushes>>,
         phase' # "flush" \/ program # "blake3_hashgen_2024"
  PROVE  EndInv'
BY SameSizes DEF EndInv, EndsInTime

\* The type invariant, from those of the variables a step of a bucket changes.
LEMMA TypeOfRest ==
  ASSUME TypeInv, UNCHANGED <<bucket_offsets, bucketFull, plot>>,
         phase' \in Phases,
         bucketIndex' \in [Buckets -> 0..CUP_SIZE], bucketFlush' \in [Buckets -> Nat],
         array2D' \in [Buckets -> [Slots -> Memory]], totalFlushes' \in Nat, NONCE' \in Nat,
         i' \in Nat, FileOK', arrivals' \in [Buckets -> Seq(Nat)], short' \in 0..MaxShort
  PROVE  TypeInv'
BY SameSizes DEF TypeInv

\* A hash that does not fill its cup.
LEMMA StoreKeeps ==
  ASSUME Inv, program \in BucketPrograms, UNCHANGED <<bucket_offsets, bucketFull>>,
         NEW c \in Buckets, StoreStep(c)
  PROVE  Inv'
<1>1. /\ TypeInv /\ MemoryInv /\ CountInv /\ RestInv /\ FileInv /\ EndInv
      /\ MayMake /\ Arrive(c) /\ ~LastPlace(c)
      /\ UNCHANGED <<phase, i, short, bucketFlush, totalFlushes, file>>
      /\ bucketIndex' = [bucketIndex EXCEPT ![c] = @ + 1]
  BY DEF Inv, StoreStep, Store
<1>2. /\ phase = "generate" /\ \A b \in Buckets : InMemory(b)
      /\ plot \in Plots /\ CUP_SIZE \in Nat \ {0}
  BY <1>1, Sizes DEF MayMake, MemoryInv, TypeInv
<1>3. /\ plot' = plot /\ NONCE' = NONCE + 1 /\ NONCE \in Nat
      /\ bucketIndex[c] \in Nat /\ bucketIndex[c] < CUP_SIZE /\ bucketIndex[c] + 1 # CUP_SIZE
      /\ arrivals' \in [Buckets -> Seq(Nat)] /\ array2D' \in [Buckets -> [Slots -> Memory]]
      /\ Len(arrivals'[c]) = Len(arrivals[c]) + 1
      /\ array2D'[c] = CupOf(c, arrivals'[c], bucketFlush[c])
      /\ \A b \in Buckets : b # c => arrivals'[b] = arrivals[b] /\ array2D'[b] = array2D[b]
  BY <1>1, <1>2, Arrival DEF LastPlace, InMemory, TypeInv
<1>4. bucketIndex' \in [Buckets -> 0..CUP_SIZE] /\ bucketIndex'[c] = bucketIndex[c] + 1
      /\ \A b \in Buckets : b # c => bucketIndex'[b] = bucketIndex[b]
  <2>1. bucketIndex[c] + 1 \in 0..CUP_SIZE
    BY <1>2, <1>3
  <2> QED  BY <1>1, <2>1 DEF TypeInv
<1>5. TypeInv'
  <2>1. FileOK'
    BY <1>1, <1>3, SameSizes DEF TypeInv, FileOK
  <2>2. /\ phase' \in Phases
        /\ bucketFlush' \in [Buckets -> Nat] /\ totalFlushes' \in Nat /\ NONCE' \in Nat
        /\ i' \in Nat /\ short' \in 0..MaxShort
    BY <1>1, <1>3 DEF TypeInv
  <2> QED  BY <1>1, <1>3, <1>4, <2>1, <2>2, TypeOfRest
<1>6. MemoryInv'
  <2>1. ASSUME NEW b \in Buckets
        PROVE  InMemory(b)'
    <3>1. InMemoryOf(b, arrivals[b], bucketFlush[b], bucketIndex[b], array2D[b])
      BY <1>2, InMemoryIs
    <3>2. InMemoryOf(b, arrivals'[b], bucketFlush'[b], bucketIndex'[b], array2D'[b])
      <4>1. CASE b # c
        BY <1>1, <1>3, <1>4, <3>1, <4>1
      <4>2. CASE b = c
        <5>1. bucketFlush[c] * CUP_SIZE \in Nat
          BY <1>1, <1>2 DEF TypeInv
        <5>2. Len(arrivals[c]) = bucketFlush[c] * CUP_SIZE + bucketIndex[c]
          BY <3>1, <4>2 DEF InMemoryOf
        <5>3. Len(arrivals'[c]) = bucketFlush[c] * CUP_SIZE + bucketIndex'[c] /\ bucketIndex'[c] < CUP_SIZE
          <6> DEFINE index == bucketIndex[c]
                     new == bucketIndex'[c]
                     before == bucketFlush[c] * CUP_SIZE
          <6>1. /\ index \in Nat /\ index < CUP_SIZE /\ index + 1 # CUP_SIZE /\ new = index + 1
                /\ Len(arrivals[c]) = before + index /\ Len(arrivals'[c]) = Len(arrivals[c]) + 1
                /\ CUP_SIZE \in Nat /\ before \in Nat
            BY <1>2, <1>3, <1>4, <5>1, <5>2
          <6> HIDE DEF index, new, before
          <6>2. new < CUP_SIZE /\ before + (index + 1) = (before + index) + 1
            BY <6>1
          <6>3. Len(arrivals'[c]) = before + new /\ new < CUP_SIZE
            BY <6>1, <6>2
          <6> QED  BY <6>3 DEF new, before
        <5> QED  BY <1>1, <1>3, <4>2, <5>3 DEF InMemoryOf
      <4> QED  BY <4>1, <4>2
    <3> QED  BY <1>3, <3>2, InMemoryIs
  <2> QED  BY <2>1 DEF MemoryInv
<1>7. CountInv'
  BY <1>1, <1>2, <1>3, ArrivalCounts DEF CountInv
<1>8. RestInv'
  BY <1>1, <1>2, <1>3, SameSizes DEF RestInv
<1>9. FileInv'
  <2>1. AllRight
    BY <1>1, <1>2 DEF FileInv, AllRight
  <2>2. AllRight'
    BY <1>1, <1>2, <1>3, <2>1, ArrivalKeepsCups, NoWriteKeepsRight
  <2> QED  BY <2>2 DEF FileInv, AllRight
<1>10. EndInv'
  <2> SUFFICES ASSUME program = "blake3_hashgen_2024"
               PROVE  NONCE + 1 <= FreeSizes!ideal_number_of_flushes * CUP_SIZE
                                     + (NUM_BUCKETS - 1) * (CUP_SIZE - 1)
    BY <1>1, <1>2, <1>3, SameSizes DEF EndInv, EndsInTime
  <2>1. totalFlushes < FreeSizes!ideal_number_of_flushes
    <3>1. FreeSizes!ideal_number_of_flushes \in Nat /\ totalFlushes \in Nat
      BY <1>1, <1>2, IdealType DEF TypeInv
    <3> QED  BY <1>1, <3>1 DEF EndInv, MayMake
  <2> QED  BY <1>1, <1>2, <2>1, OneMore DEF CountInv
<1> QED  BY <1>3, <1>5, <1>6, <1>7, <1>8, <1>9, <1>10, NotMapped DEF Inv

\* A hash that fills its cup, and a whole or short write of it.
LEMMA FlushKeeps ==
  ASSUME Inv, program \in BucketPrograms, UNCHANGED <<bucket_offsets, bucketFull>>,
         NEW c \in Buckets, NEW n \in 0..CUP_SIZE, FlushStep(c, n)
  PROVE  Inv'
<1>1. /\ TypeInv /\ MemoryInv /\ CountInv /\ RestInv /\ FileInv /\ EndInv
      /\ MayMake /\ Arrive(c) /\ LastPlace(c) /\ Chunked(n) /\ UNCHANGED <<phase, i>>
      /\ file' = put(write_location(c), chunk(stored(c)[c]), n)
      /\ totalFlushes' = totalFlushes + 1
      /\ bucketFlush' = [bucketFlush EXCEPT ![c] = @ + 1]
      /\ bucketIndex' = [bucketIndex EXCEPT ![c] = 0]
  BY DEF Inv, FlushStep, StoreAndFlush, countFlush
<1>2. /\ phase = "generate" /\ \A b \in Buckets : InMemory(b)
      /\ plot \in Plots /\ CUP_SIZE \in Nat \ {0} /\ totalFlushes \in Nat
  BY <1>1, Sizes DEF MayMake, MemoryInv, TypeInv
<1>3. /\ plot' = plot /\ NONCE' = NONCE + 1 /\ NONCE \in Nat
      /\ bucketIndex[c] \in Nat /\ bucketIndex[c] + 1 = CUP_SIZE
      /\ arrivals' \in [Buckets -> Seq(Nat)] /\ array2D' \in [Buckets -> [Slots -> Memory]]
      /\ Len(arrivals'[c]) = Len(arrivals[c]) + 1
      /\ array2D'[c] = CupOf(c, arrivals'[c], bucketFlush[c]) /\ array2D'[c] = stored(c)[c]
      /\ \A b \in Buckets : b # c => arrivals'[b] = arrivals[b] /\ array2D'[b] = array2D[b]
  BY <1>1, <1>2, Arrival DEF LastPlace, TypeInv
<1>4. /\ bucketIndex' \in [Buckets -> 0..CUP_SIZE] /\ bucketIndex'[c] = 0
      /\ bucketFlush' \in [Buckets -> Nat] /\ bucketFlush'[c] = bucketFlush[c] + 1
      /\ bucketFlush[c] \in Nat
      /\ \A b \in Buckets : b # c => bucketIndex'[b] = bucketIndex[b] /\ bucketFlush'[b] = bucketFlush[b]
  BY <1>1, <1>2 DEF TypeInv
<1>5. TypeInv'
  <2>1. FileOK'
    <3>1. write_location(c) \in Nat
      BY <1>2, <1>4, LocationIs
    <3>2. array2D'[c] \in [Slots -> Memory]
      BY <1>3
    <3>3. \A k \in 0..n - 1 : chunk(stored(c)[c])[k] \in FileRecords
      <4>1. \A k \in 0..n - 1 : k \in Slots
        BY <1>2 DEF Slots
      <4>2. stored(c)[c] \in [Slots -> Memory]
        BY <1>3, <3>2
      <4> QED  BY <1>2, <4>1, <4>2, ChunkType
    <3>4. FileOK /\ n \in Nat
      BY <1>1, <1>2 DEF TypeInv
    <3> QED  BY <1>1, <1>3, <3>1, <3>3, <3>4, PutKeepsFile
  <2>2. short' \in 0..MaxShort
    BY <1>1, GeneratorsAssumption DEF Chunked, TypeInv
  <2>3. totalFlushes' \in Nat /\ NONCE' \in Nat
    BY <1>1, <1>2, <1>3
  <2> QED  BY <1>1, <1>2, <1>3, <1>4, <2>1, <2>2, <2>3, TypeOfRest DEF TypeInv
<1>6. MemoryInv'
  <2>1. ASSUME NEW b \in Buckets
        PROVE  InMemory(b)'
    <3>1. InMemoryOf(b, arrivals[b], bucketFlush[b], bucketIndex[b], array2D[b])
      BY <1>2, InMemoryIs
    <3>2. InMemoryOf(b, arrivals'[b], bucketFlush'[b], bucketIndex'[b], array2D'[b])
      <4>1. CASE b # c
        BY <1>1, <1>3, <1>4, <3>1, <4>1
      <4>2. CASE b = c
        <5>1. bucketFlush[c] * CUP_SIZE \in Nat
              /\ (bucketFlush[c] + 1) * CUP_SIZE = bucketFlush[c] * CUP_SIZE + CUP_SIZE
          BY <1>2, <1>4, ChunkSizes
        <5>6. Len(arrivals[c]) = bucketFlush[c] * CUP_SIZE + bucketIndex[c]
          BY <3>1, <4>2 DEF InMemoryOf
        <5>2. Len(arrivals'[c]) = (bucketFlush[c] + 1) * CUP_SIZE
          BY <1>2, <1>3, <5>1, <5>6
        <5>3. CupOf(c, arrivals'[c], bucketFlush[c] + 1) = CupOf(c, arrivals'[c], bucketFlush[c])
          <6> DEFINE came == arrivals'[c]
                     d == bucketFlush[c]
          <6>1. came \in Seq(Nat) /\ d \in Nat /\ Len(came) = (d + 1) * CUP_SIZE
            BY <1>3, <1>4, <5>2
          <6> HIDE DEF came, d
          <6>2. CupOf(c, came, d + 1) = CupOf(c, came, d)
            BY <1>2, <6>1, CupStays
          <6> QED  BY <6>2 DEF came, d
        <5>4. array2D'[c] = CupOf(c, arrivals'[c], bucketFlush'[c])
          BY <1>3, <1>4, <5>3
        <5>5. Len(arrivals'[c]) = bucketFlush'[c] * CUP_SIZE + bucketIndex'[c] /\ bucketIndex'[c] < CUP_SIZE
          BY <1>2, <1>4, <5>1, <5>2
        <5> QED  BY <4>2, <5>4, <5>5 DEF InMemoryOf
      <4> QED  BY <4>1, <4>2
    <3> QED  BY <1>3, <3>2, InMemoryIs
  <2> QED  BY <2>1 DEF MemoryInv
<1>7. CountInv'
  <2>1. /\ NONCE = SumFunction([b \in Buckets |-> Len(arrivals[b])])
        /\ totalFlushes = SumFunction(bucketFlush)
    BY <1>1, <1>2 DEF CountInv
  <2>2. SumFunction(bucketFlush') = SumFunction(bucketFlush) + 1
    BY <1>1, FlushCounts
  <2>3. SumFunction([b \in Buckets |-> Len(arrivals'[b])])
          = SumFunction([b \in Buckets |-> Len(arrivals[b])]) + 1
    BY <1>1, <1>2, ArrivalCounts
  <2> QED  BY <1>1, <1>3, <2>1, <2>2, <2>3 DEF CountInv
<1>8. RestInv'
  BY <1>1, <1>2, <1>3, SameSizes DEF RestInv
<1>9. FileInv'
  <2>1. AllRight
    BY <1>1, <1>2 DEF FileInv, AllRight
  <2>2. CupsKept
    BY <1>1, <1>2, ArrivalKeepsCups
  <2>3. stored(c)[c] = CupOf(c, arrivals'[c], bucketFlush[c])
    BY <1>3
  <2>4. AllRight'
    <3> DEFINE cup == stored(c)[c]
    <3>1. /\ file' = put(write_location(c), chunk(cup), n)
          /\ cup = CupOf(c, arrivals'[c], bucketFlush[c])
      BY <1>1, <2>3
    <3> HIDE DEF cup
    <3> QED  BY <1>1, <1>3, <2>1, <2>2, <3>1, WriteKeepsRight
  <2> QED  BY <2>4 DEF FileInv, AllRight
<1>10. EndInv'
  <2> SUFFICES ASSUME program = "blake3_hashgen_2024"
               PROVE  /\ totalFlushes + 1 <= FreeSizes!ideal_number_of_flushes
                      /\ NONCE + 1 <= FreeSizes!ideal_number_of_flushes * CUP_SIZE
                                        + (NUM_BUCKETS - 1) * (CUP_SIZE - 1)
    BY <1>1, <1>2, <1>3, SameSizes DEF EndInv, EndsInTime
  <2>1. FreeSizes!ideal_number_of_flushes \in Nat
    BY <1>2, IdealType
  <2>2. totalFlushes < FreeSizes!ideal_number_of_flushes
    BY <1>1, <1>2, <2>1 DEF EndInv, MayMake
  <2>3. totalFlushes + 1 <= FreeSizes!ideal_number_of_flushes
    BY <1>2, <2>1, <2>2
  <2> QED  BY <1>1, <1>2, <2>2, <2>3, OneMore DEF CountInv
<1> QED  BY <1>3, <1>5, <1>6, <1>7, <1>8, <1>9, <1>10, NotMapped DEF Inv

\* A hash that fills its cup, and a write that ends the program.
LEMMA FailKeeps ==
  ASSUME Inv, program \in BucketPrograms, UNCHANGED <<bucket_offsets, bucketFull>>,
         NEW c \in Buckets, NEW n \in 0..CUP_SIZE, FailStep(c, n)
  PROVE  Inv'
<1>1. /\ TypeInv /\ MemoryInv /\ CountInv /\ EndInv
      /\ MayMake /\ Arrive(c) /\ LastPlace(c) /\ phase' = "failed" /\ UNCHANGED <<i, short>>
      /\ file' = put(write_location(c), chunk(stored(c)[c]), n)
      /\ UNCHANGED <<bucketFlush, totalFlushes>>
      /\ bucketIndex' = [bucketIndex EXCEPT ![c] = @ + 1]
  BY DEF Inv, FailStep, StoreAndFail
<1>2. /\ phase = "generate" /\ \A b \in Buckets : InMemory(b)
      /\ plot \in Plots /\ CUP_SIZE \in Nat \ {0} /\ totalFlushes \in Nat
  BY <1>1, Sizes DEF MayMake, MemoryInv, TypeInv
<1>3. /\ plot' = plot /\ NONCE' = NONCE + 1 /\ NONCE \in Nat
      /\ bucketIndex[c] + 1 = CUP_SIZE
      /\ arrivals' \in [Buckets -> Seq(Nat)] /\ array2D' \in [Buckets -> [Slots -> Memory]]
      /\ array2D'[c] = stored(c)[c]
  BY <1>1, <1>2, Arrival DEF LastPlace, TypeInv
<1>4. bucketIndex' \in [Buckets -> 0..CUP_SIZE]
  <2>1. bucketIndex[c] + 1 \in 0..CUP_SIZE
    BY <1>2, <1>3
  <2> QED  BY <1>1, <2>1 DEF TypeInv
<1>5. TypeInv'
  <2>1. FileOK'
    <3>0. bucketFlush[c] \in Nat
      BY <1>1 DEF TypeInv
    <3>1. write_location(c) \in Nat
      BY <1>2, <3>0, LocationIs
    <3>2. \A k \in 0..n - 1 : chunk(stored(c)[c])[k] \in FileRecords
      <4>1. \A k \in 0..n - 1 : k \in Slots
        BY <1>2 DEF Slots
      <4>2. stored(c)[c] \in [Slots -> Memory]
        BY <1>3
      <4> QED  BY <1>2, <4>1, <4>2, ChunkType
    <3>3. FileOK /\ n \in Nat
      BY <1>1, <1>2 DEF TypeInv
    <3> QED  BY <1>1, <1>3, <3>1, <3>2, <3>3, PutKeepsFile
  <2>2. /\ bucketFlush' \in [Buckets -> Nat] /\ totalFlushes' \in Nat /\ NONCE' \in Nat
        /\ i' \in Nat /\ short' \in 0..MaxShort
    BY <1>1, <1>3 DEF TypeInv
  <2>3. phase' \in Phases
    BY <1>1, PhaseNames
  <2> QED  BY <1>1, <1>3, <1>4, <2>1, <2>2, <2>3, TypeOfRest
<1>6. MemoryInv' /\ CountInv' /\ RestInv' /\ FileInv'
  BY <1>1 DEF MemoryInv, CountInv, RestInv, FileInv
<1>7. EndInv'
  <2> SUFFICES ASSUME program = "blake3_hashgen_2024"
               PROVE  NONCE + 1 <= FreeSizes!ideal_number_of_flushes * CUP_SIZE
                                     + (NUM_BUCKETS - 1) * (CUP_SIZE - 1)
    BY <1>1, <1>2, <1>3, SameSizes DEF EndInv, EndsInTime
  <2>1. FreeSizes!ideal_number_of_flushes \in Nat
    BY <1>2, IdealType
  <2>2. totalFlushes < FreeSizes!ideal_number_of_flushes
    BY <1>1, <1>2, <2>1 DEF EndInv, MayMake
  <2> QED  BY <1>1, <1>2, <2>2, OneMore DEF CountInv
<1> QED  BY <1>3, <1>5, <1>6, <1>7, NotMapped DEF Inv

\* A step that leaves the buckets and the file alone.
LEMMA AloneKeeps ==
  ASSUME TypeInv, UNCHANGED <<bucketVars, short>>
  PROVE  /\ \A b \in Buckets : InMemory(b) => InMemory(b)'
         /\ AllRight => AllRight'
         /\ FileOK'
         /\ \A b \in Buckets : NoneLeft(b) => NoneLeft(b)'
<1>1. UNCHANGED <<plot, bucketIndex, bucketFlush, array2D, totalFlushes, NONCE, file, arrivals, short>>
  BY DEF bucketVars, bufferVars
<1>2. \A b \in Buckets : InMemory(b) => InMemory(b)'
  BY <1>1, InMemoryIs
<1>3. AllRight => AllRight'
  BY <1>1, NoWriteKeepsRight DEF CupsKept
<1>4. FileOK'
  BY <1>1, SameSizes DEF FileOK, TypeInv
<1>5. \A b \in Buckets : NoneLeft(b) => NoneLeft(b)'
  BY <1>1 DEF NoneLeft, CHUNKS, CUP_SIZE, BUCKET_SIZE
<1> QED  BY <1>2, <1>3, <1>4, <1>5

\* The loop is left.
LEMMA LeaveKeeps ==
  ASSUME Inv, program \in BucketPrograms, UNCHANGED <<bucket_offsets, bucketFull>>, LeaveStep
  PROVE  Inv'
<1>1. /\ TypeInv /\ MemoryInv /\ CountInv /\ RestInv /\ FileInv /\ EndInv
      /\ phase = "generate" /\ UNCHANGED <<bucketVars, short>> /\ i' = i
      /\ phase' = IF program = "blake3_hashgen_2024" THEN "written" ELSE "flush"
  BY DEF Inv, LeaveStep
<1>2. UNCHANGED <<plot, bucketIndex, bucketFlush, array2D, totalFlushes, NONCE, file, arrivals, short>>
  BY <1>1 DEF bucketVars, bufferVars
<1>3. TypeInv'
  <2>1. FileOK'
    BY <1>1, AloneKeeps
  <2> QED  BY <1>1, <1>2, <2>1, SameSizes, PhaseNames DEF TypeInv
<1>4. MemoryInv'
  BY <1>1, AloneKeeps DEF MemoryInv
<1>5. CountInv'
  BY <1>1 DEF CountInv
<1>6. RestInv'
  <2>1. program' = program
    BY <1>2, SameSizes
  <2>2. CASE program \in FlushingPrograms
    <3>1. i = 0 /\ phase' = "flush"
      BY <1>1, <2>2 DEF RestInv, FlushingPrograms
    <3>2. \A b \in Buckets : ~(b < 0)
      BY DEF Buckets
    <3> QED  BY <1>1, <3>1, <3>2 DEF RestInv
  <2>3. CASE program \notin FlushingPrograms
    BY <2>1, <2>3 DEF RestInv
  <2> QED  BY <2>2, <2>3
<1>7. FileInv'
  <2>1. AllRight'
    BY <1>1, AloneKeeps DEF FileInv, AllRight
  <2> QED  BY <2>1 DEF FileInv, AllRight
<1>8. EndInv'
  BY <1>1, <1>2, SameEnd
<1> QED  BY <1>2, <1>3, <1>4, <1>5, <1>6, <1>7, <1>8, NotMapped DEF Inv

\* The final loop passes a bucket or ends.
LEMMA SkipKeeps ==
  ASSUME Inv, program \in BucketPrograms, UNCHANGED <<bucket_offsets, bucketFull, short>>,
         SkipRest \/ FinishRest
  PROVE  Inv'
<1>1. /\ TypeInv /\ MemoryInv /\ RestInv /\ FileInv /\ EndInv
      /\ phase = "flush" /\ UNCHANGED <<bucketVars, short>>
      /\ \/ i < NUM_BUCKETS /\ ~Short(i) /\ i' = i + 1 /\ phase' = phase
         \/ i = NUM_BUCKETS /\ i' = i /\ phase' = "written"
  BY DEF Inv, SkipRest, FinishRest
<1>2. /\ UNCHANGED <<plot, bucketIndex, bucketFlush, array2D, totalFlushes, NONCE, file, arrivals, short>>
      /\ program # "blake3_hashgen_2024" /\ i \in Nat
  BY <1>1 DEF bucketVars, bufferVars, EndInv, TypeInv
<1>3. TypeInv'
  <2>1. FileOK'
    BY <1>1, AloneKeeps
  <2>2. i' = i + 1 \/ i' = i
    BY <1>1
  <2>3. phase' = "flush" \/ phase' = "written"
    BY <1>1
  <2>4. i' \in Nat
    BY <1>2, <2>2
  <2>5. phase' \in Phases
    BY <2>3, PhaseNames
  <2> QED  BY <1>1, <1>2, <2>1, <2>4, <2>5, SameSizes DEF TypeInv
<1>4. MemoryInv'
  <2>1. \A b \in Buckets : i' <= b => i <= b
    BY <1>1, <1>2 DEF Buckets
  <2> QED  BY <1>1, <2>1, AloneKeeps DEF MemoryInv
<1>5. CountInv'
  BY <1>1 DEF CountInv
<1>6. RestInv'
  <2> SUFFICES ASSUME program \in FlushingPrograms
               PROVE  /\ phase' \notin {"generate", "sorted", "sort failed"}
                      /\ \A b \in Buckets : b < i' => NoneLeft(b)'
                      /\ phase' = "written" => i' = NUM_BUCKETS
    BY <1>2, SameSizes DEF RestInv
  <2>1. ASSUME NEW b \in Buckets, b < i'
        PROVE  NoneLeft(b)
    <3>1. CASE b < i
      BY <1>1, <3>1 DEF RestInv
    <3>2. CASE ~(b < i)
      <4>1. b = i /\ ~Short(i)
        BY <1>1, <1>2, <2>1, <3>2 DEF Buckets
      <4>2. bucketFlush[b] \in Nat /\ CHUNKS \in Nat
        BY <1>1, Sizes DEF TypeInv
      <4> QED  BY <4>1, <4>2 DEF NoneLeft, Short
    <3> QED  BY <3>1, <3>2
  <2> QED  BY <1>1, <2>1, AloneKeeps
<1>7. FileInv'
  <2>1. AllRight'
    BY <1>1, AloneKeeps DEF FileInv, AllRight
  <2> QED  BY <2>1 DEF FileInv, AllRight
<1>8. EndInv'
  BY <1>1, <1>2, SameEnd
<1> QED  BY <1>2, <1>3, <1>4, <1>5, <1>6, <1>7, <1>8, NotMapped DEF Inv

\* The final loop writes the rest of a bucket, or fails to.
LEMMA RestKeeps ==
  ASSUME Inv, program \in BucketPrograms, UNCHANGED <<bucket_offsets, bucketFull>>,
         NEW n \in 0..CUP_SIZE, RestStep(n) \/ RestFailStep(n)
  PROVE  Inv'
<1> DEFINE c == i
<1>1. /\ TypeInv /\ MemoryInv /\ RestInv /\ FileInv /\ EndInv
      /\ phase = "flush" /\ i < NUM_BUCKETS
      /\ file' = put(write_location(c), chunk(array2D[c]), n)
      /\ UNCHANGED <<plot, array2D, NONCE, arrivals>>
  <2>1. CASE RestStep(n)
    BY <2>1 DEF Inv, RestStep, FlushRest
  <2>2. CASE RestFailStep(n)
    BY <2>2 DEF Inv, RestFailStep, FailRest, bufferVars
  <2> QED  BY <2>1, <2>2
<1>2. /\ plot \in Plots /\ CUP_SIZE \in Nat \ {0} /\ c \in Buckets /\ i \in Nat
      /\ InMemory(c) /\ program # "blake3_hashgen_2024" /\ n \in Nat
      /\ bucketFlush[c] \in Nat
  <2>1. plot \in Plots /\ i \in Nat /\ c \in Buckets /\ CUP_SIZE \in Nat \ {0} /\ NUM_BUCKETS \in Nat
    BY <1>1, Sizes DEF TypeInv, Buckets
  <2>2. i <= c
    BY <2>1
  <2> QED  BY <1>1, <2>1, <2>2 DEF MemoryInv, EndInv, TypeInv
<1>3. FileOK'
  <2>1. write_location(c) \in Nat
    BY <1>2, LocationIs
  <2>2. \A k \in 0..n - 1 : chunk(array2D[c])[k] \in FileRecords
    <3>1. \A k \in 0..n - 1 : k \in Slots
      BY <1>2 DEF Slots
    <3>2. array2D[c] \in [Slots -> Memory]
      BY <1>1, <1>2 DEF TypeInv
    <3> QED  BY <1>2, <3>1, <3>2, ChunkType
  <2> QED  BY <1>1, <1>2, <2>1, <2>2, PutKeepsFile DEF TypeInv
<1>4. CASE RestFailStep(n)
  <2>1. phase' = "failed" /\ i' = i /\ UNCHANGED <<bucketIndex, bucketFlush, totalFlushes, short>>
    BY <1>4 DEF RestFailStep, FailRest, bufferVars
  <2>2. TypeInv'
    BY <1>1, <1>3, <2>1, SameSizes, PhaseNames DEF TypeInv
  <2>3. MemoryInv' /\ CountInv' /\ RestInv' /\ FileInv'
    BY <2>1 DEF MemoryInv, CountInv, RestInv, FileInv
  <2>4. EndInv'
    BY <1>1, <2>1, SameEnd
  <2> QED  BY <1>1, <2>2, <2>3, <2>4, NotMapped DEF Inv
<1>5. CASE RestStep(n)
  <2>1. /\ phase' = phase /\ i' = i + 1 /\ Chunked(n) /\ totalFlushes' = totalFlushes + 1
        /\ bucketFlush' = [bucketFlush EXCEPT ![c] = @ + 1]
        /\ bucketIndex' = [bucketIndex EXCEPT ![c] = 0]
    BY <1>5 DEF RestStep, FlushRest, countFlush
  <2>2. /\ bucketIndex' \in [Buckets -> 0..CUP_SIZE]
        /\ bucketFlush' \in [Buckets -> Nat] /\ bucketFlush'[c] = bucketFlush[c] + 1
        /\ \A b \in Buckets : b # c => bucketIndex'[b] = bucketIndex[b] /\ bucketFlush'[b] = bucketFlush[b]
    BY <1>1, <1>2, <2>1 DEF TypeInv
  <2>3. TypeInv'
    <3>1. short' \in 0..MaxShort
      BY <1>1, <2>1, GeneratorsAssumption DEF Chunked, TypeInv
    <3>2. totalFlushes' \in Nat /\ i' \in Nat
      BY <1>1, <1>2, <2>1 DEF TypeInv
    <3> QED  BY <1>1, <1>3, <2>1, <2>2, <3>1, <3>2, SameSizes DEF TypeInv
  <2>4. MemoryInv'
    <3>1. ASSUME NEW b \in Buckets, i + 1 <= b
          PROVE  InMemory(b)'
      <4>1. i <= b /\ b # c
        BY <1>2, <3>1 DEF Buckets
      <4>2. InMemoryOf(b, arrivals[b], bucketFlush[b], bucketIndex[b], array2D[b])
        BY <1>1, <4>1, InMemoryIs DEF MemoryInv
      <4>3. InMemoryOf(b, arrivals'[b], bucketFlush'[b], bucketIndex'[b], array2D'[b])
        BY <1>1, <2>2, <4>1, <4>2
      <4> QED  BY <1>1, <4>3, InMemoryIs
    <3> QED  BY <1>1, <2>1, <3>1 DEF MemoryInv
  <2>5. CountInv'
    BY <1>1, <2>1 DEF CountInv
  <2>6. RestInv'
    <3> SUFFICES ASSUME program \in FlushingPrograms
                 PROVE  \A b \in Buckets : b < i + 1 => NoneLeft(b)'
      BY <1>1, <2>1, SameSizes DEF RestInv
    <3> SUFFICES ASSUME NEW b \in Buckets, b < i + 1
                 PROVE  bucketFlush'[b] >= CHUNKS \/ bucketFlush'[b] * CUP_SIZE >= Len(arrivals[b])
      BY <1>1, SameSizes DEF NoneLeft
    <3>1. CASE b = c
      <4>1. /\ Len(arrivals[c]) = bucketFlush[c] * CUP_SIZE + bucketIndex[c]
            /\ bucketIndex[c] < CUP_SIZE /\ bucketIndex[c] \in Nat
        BY <1>1, <1>2 DEF InMemory, TypeInv
      <4>2. bucketFlush[c] * CUP_SIZE \in Nat
            /\ (bucketFlush[c] + 1) * CUP_SIZE = bucketFlush[c] * CUP_SIZE + CUP_SIZE
        BY <1>2, ChunkSizes
      <4>3. (bucketFlush[c] + 1) * CUP_SIZE >= Len(arrivals[c])
        <5> DEFINE P == (bucketFlush[c] + 1) * CUP_SIZE
                   Q == bucketFlush[c] * CUP_SIZE
        <5>1. /\ Q \in Nat /\ P = Q + CUP_SIZE /\ CUP_SIZE \in Nat
              /\ Len(arrivals[c]) = Q + bucketIndex[c]
          BY <1>2, <4>1, <4>2
        <5>2. P >= Len(arrivals[c])
          <6> HIDE DEF P, Q
          <6> QED  BY <4>1, <5>1
        <5> QED  BY <5>2
      <4> QED  BY <2>2, <3>1, <4>3
    <3>2. CASE b # c
      <4>1. b < i
        BY <1>2, <3>2 DEF Buckets
      <4> QED  BY <1>1, <2>2, <3>2, <4>1 DEF RestInv, NoneLeft
    <3> QED  BY <3>1, <3>2
  <2>7. FileInv'
    <3>1. AllRight
      BY <1>1 DEF FileInv, AllRight
    <3>2. CupsKept
      BY <1>1 DEF CupsKept
    <3> DEFINE cup == array2D[c]
    <3>3. /\ file' = put(write_location(c), chunk(cup), n)
          /\ cup = CupOf(c, arrivals'[c], bucketFlush[c])
      BY <1>1, <1>2, InMemoryIs DEF InMemoryOf
    <3> HIDE DEF cup, c
    <3>4. AllRight'
      BY <1>1, <1>2, <2>1, <3>1, <3>2, <3>3, WriteKeepsRight
    <3> QED  BY <3>4 DEF FileInv, AllRight
  <2>8. EndInv'
    BY <1>1, <1>2, SameSizes DEF EndInv
  <2> QED  BY <1>1, <2>3, <2>4, <2>5, <2>6, <2>7, <2>8, NotMapped DEF Inv
<1> QED  BY <1>4, <1>5

------------------------------------------------------------------------------
(* The mapped plot.                                                        *)

MapStop ==
  /\ UNCHANGED <<bucketVars, i, bucket_offsets, bucketFull, short>>
  /\ \/ phase' = "written"
     \/ phase' = "failed" /\ i = 0
     \/ /\ phase' = "failed"
        /\ \E b \in Buckets : /\ bucket_offsets[b] < BUCKET_SIZE
                              /\ b * BUCKET_SIZE + bucket_offsets[b] \notin DOMAIN file

MapStore(b) ==
  /\ phase = "generate" /\ UNCHANGED <<phase, short, bucketFull, bufferVars, plot>>
  /\ i' = i + 1
  /\ bucket_offsets[b] < BUCKET_SIZE /\ b * BUCKET_SIZE + bucket_offsets[b] \in DOMAIN file
  /\ file' = [file EXCEPT ![b * BUCKET_SIZE + bucket_offsets[b]] = [prefix |-> b, value |-> NONCE]]
  /\ NONCE' = NONCE + 1
  /\ bucket_offsets' =
       [bucket_offsets EXCEPT ![b] = IF @ = SHRT_MAX THEN -SHRT_MAX - 1 ELSE @ + 1]
  /\ arrivals' = [arrivals EXCEPT ![b] = Append(@, NONCE)]

MapSkip ==
  /\ phase = "generate" /\ UNCHANGED <<phase, short, bucket_offsets, bufferVars, plot, NONCE, file, arrivals>>
  /\ i' = i + 1 /\ bucketFull' = bucketFull + 1

\* Every step of the mapped program is in the list.
LEMMA MapSteps ==
  ASSUME Next, program = "mmap-example"
  PROVE  MapStop \/ (\E b \in Buckets : MapStore(b)) \/ MapSkip \/ UNCHANGED vars
<1>1. (Mapped!Next /\ UNCHANGED short) \/ UNCHANGED vars
  BY DEF Next
<1> USE DEF Mapped!bucketVars, bucketVars, Mapped!bufferVars, bufferVars
<1>2. /\ Mapped!Buckets = Buckets /\ Mapped!BUCKET_SIZE = BUCKET_SIZE
      /\ \A b : Mapped!cur_offset(b) = b * BUCKET_SIZE + bucket_offsets[b]
  BY DEF Mapped!Buckets, Buckets, Mapped!BUCKET_SIZE, BUCKET_SIZE, Mapped!cur_offset
<1>3. ASSUME Mapped!MapFails \/ Mapped!Finish, UNCHANGED short
      PROVE  MapStop
  BY <1>3 DEF Mapped!MapFails, Mapped!Finish, MapStop
<1>4. ASSUME Mapped!Crash, UNCHANGED short
      PROVE  MapStop
  BY <1>2, <1>4 DEF Mapped!Crash, Mapped!HasRoom, MapStop
<1>5. ASSUME Mapped!Generate, UNCHANGED short
      PROVE  (\E b \in Buckets : MapStore(b)) \/ MapSkip
  <2>1. PICK b \in Buckets :
          \/ Mapped!HasRoom(b) /\ Mapped!cur_offset(b) \in DOMAIN file /\ Mapped!store(b)
          \/ ~Mapped!HasRoom(b) /\ Mapped!Skip(b)
    BY <1>2, <1>5 DEF Mapped!Generate
  <2>2. phase = "generate" /\ phase' = phase /\ i' = i + 1
    BY <1>5 DEF Mapped!Generate
  <2>3. CASE Mapped!HasRoom(b) /\ Mapped!cur_offset(b) \in DOMAIN file /\ Mapped!store(b)
    <3>1. MapStore(b)
      BY <1>2, <1>5, <2>2, <2>3 DEF Mapped!HasRoom, Mapped!store, Mapped!increment, MapStore
    <3> QED  BY <3>1
  <2>4. CASE ~Mapped!HasRoom(b) /\ Mapped!Skip(b)
    BY <1>5, <2>2, <2>4 DEF Mapped!Skip, MapSkip
  <2> QED  BY <2>1, <2>3, <2>4
<1> QED  BY <1>1, <1>3, <1>4, <1>5 DEF Mapped!Next

\* Records of the regions do not share a place.
LEMMA OnePlace ==
  ASSUME plot \in Plots, NEW b \in Buckets, NEW c \in Buckets,
         NEW r \in 0..BUCKET_SIZE - 1, NEW s \in 0..BUCKET_SIZE - 1
  PROVE  /\ b * BUCKET_SIZE + r \in 0..MAX_HASHES - 1
         /\ b * BUCKET_SIZE + r = c * BUCKET_SIZE + s <=> b = c /\ r = s
<1> DEFINE B == BUCKET_SIZE
<1>1. B \in Nat \ {0} /\ NUM_BUCKETS \in Nat /\ b \in Nat /\ c \in Nat /\ r \in Nat /\ s \in Nat
      /\ b < NUM_BUCKETS /\ r \in 0..B - 1 /\ s \in 0..B - 1 /\ MAX_HASHES = NUM_BUCKETS * B
  BY Sizes DEF Buckets, MAX_HASHES
<1> HIDE DEF B
<1>2. b * B + r < NUM_BUCKETS * B
  BY <1>1, Below
<1>3. (b < c => b * B + r < c * B) /\ (c < b => c * B + s < b * B)
  BY <1>1, Below
<1>4. b * B \in Nat /\ c * B \in Nat /\ NUM_BUCKETS * B \in Nat
  BY <1>1
<1>5. b * B + r = c * B + s => b = c
  BY <1>1, <1>3, <1>4
<1>6. b * B + r = c * B + s => r = s
  BY <1>1, <1>4, <1>5
<1>7. b * B + r \in 0..MAX_HASHES - 1
  BY <1>1, <1>2, <1>4
<1> QED  BY <1>5, <1>6, <1>7 DEF B

\* What is not about the mapped plot is about nothing here.
LEMMA OnlyMapped ==
  ASSUME program = "mmap-example", plot' = plot
  PROVE  MemoryInv' /\ CountInv' /\ RestInv' /\ FileInv' /\ EndInv'
<1>1. program' = "mmap-example"
  BY SameSizes
<1> QED  BY <1>1 DEF MemoryInv, CountInv, RestInv, FileInv, EndInv, BucketPrograms, FlushingPrograms

\* Of a hash that finds room, the place is the one of its number, or, once a short has wrapped,
\* one of the bucket before; only the first bucket has places in front of the mapping.
LEMMA InMapping ==
  ASSUME TypeInv, MapInv, program = "mmap-example", NEW b \in Buckets,
         bucket_offsets[b] < BUCKET_SIZE
  PROVE  /\ Len(arrivals[b]) \in Nat
         /\ Len(arrivals[b]) <= SHRT_MAX =>
              /\ bucket_offsets[b] = Len(arrivals[b])
              /\ bucket_offsets[b] \in 0..BUCKET_SIZE - 1
         /\ SHRT_MAX < Len(arrivals[b]) => bucket_offsets[b] \in -BUCKET_SIZE..BUCKET_SIZE - 1
         /\ b * BUCKET_SIZE + bucket_offsets[b] \notin DOMAIN file =>
              b = 0 /\ SHRT_MAX < Len(arrivals[b])
<1> DEFINE o == bucket_offsets[b]
           B == BUCKET_SIZE
           n == Len(arrivals[b])
<1>1. /\ n <= SHRT_MAX => o = n
      /\ n > SHRT_MAX => B > SHRT_MAX
      /\ DOMAIN file = 0..MAX_HASHES - 1
  BY DEF MapInv, OffsetOK
<1>2. plot \in Plots /\ B \in Nat \ {0} /\ SHRT_MAX \in Nat /\ o \in Int /\ o >= -SHRT_MAX - 1
  <2>1. plot \in Plots /\ bucket_offsets \in [Buckets -> -SHRT_MAX - 1..SHRT_MAX]
    BY DEF TypeInv
  <2>2. B \in Nat \ {0} /\ SHRT_MAX \in Nat
    BY <2>1, Sizes, GeneratorsAssumption
  <2>3. o \in -SHRT_MAX - 1..SHRT_MAX
    BY <2>1
  <2> QED  BY <2>1, <2>2, <2>3
<1>3. n \in Nat
  <2>1. arrivals[b] \in Seq(Nat)
    BY DEF TypeInv
  <2> QED  BY <2>1
<1>4. o < B
  OBVIOUS
<1> HIDE DEF o, n, B
<1>5. n <= SHRT_MAX => o = n /\ o \in 0..B - 1
  BY <1>1, <1>2, <1>3, <1>4
<1>6. SHRT_MAX < n => o \in -B..B - 1
  BY <1>1, <1>2, <1>3, <1>4
<1>7. o \in 0..B - 1 => b * B + o \in DOMAIN file
  BY <1>1, <1>2, OnePlace DEF B
<1>8. ASSUME o < 0, b # 0
      PROVE  b * B + o \in DOMAIN file
  <2>1. o + B \in 0..B - 1 /\ b \in Int /\ b - 1 \in Buckets
    <3>1. b \in 0..NUM_BUCKETS - 1
      BY DEF Buckets
    <3>2. NUM_BUCKETS \in Nat
      BY <1>2, Sizes
    <3>3. b - 1 \in 0..NUM_BUCKETS - 1
      BY <1>8, <3>1, <3>2
    <3> QED  BY <1>2, <1>3, <1>5, <1>6, <1>8, <3>1, <3>2, <3>3 DEF Buckets
  <2>2. (b - 1) * B + (o + B) \in DOMAIN file
    BY <1>1, <1>2, <2>1, OnePlace DEF B
  <2>3. (b - 1) * B = b * B - B /\ b * B \in Int
    BY <1>2, <2>1
  <2> QED  BY <1>2, <2>2, <2>3
<1>9. b * B + o \notin DOMAIN file => b = 0 /\ SHRT_MAX < n
  <2>1. o >= 0 => o \in 0..B - 1
    BY <1>2, <1>4
  <2>2. o < 0 => SHRT_MAX < n
    BY <1>2, <1>3, <1>5
  <2>3. o < 0 \/ o >= 0
    BY <1>2
  <2> QED  BY <1>7, <1>8, <2>1, <2>2, <2>3
<1> QED  BY <1>3, <1>5, <1>6, <1>9 DEF o, n, B

\* Whose region a place belongs to: from the first record on the bucket's own, before it that of
\* the bucket before.
LEMMA WhoseRegion ==
  ASSUME plot \in Plots, NEW b \in Buckets, NEW r \in 0..BUCKET_SIZE - 1, NEW c \in Buckets,
         NEW s \in -BUCKET_SIZE..BUCKET_SIZE - 1, b * BUCKET_SIZE + r = c * BUCKET_SIZE + s
  PROVE  /\ s >= 0 => b = c /\ r = s
         /\ s < 0 => b + 1 = c
<1> DEFINE B == BUCKET_SIZE
<1>1. B \in Nat \ {0} /\ b \in Nat /\ c \in Nat /\ r \in 0..B - 1 /\ s \in -B..B - 1
      /\ b * B + r = c * B + s
  BY Sizes DEF Buckets
<1> HIDE DEF B
<1>2. s >= 0 => b = c /\ r = s
  <2>1. s >= 0 => s \in 0..B - 1
    BY <1>1
  <2> QED  BY <1>1, <2>1, OnePlace DEF B
<1>3. ASSUME s < 0
      PROVE  b + 1 = c
  <2>1. s + B \in 0..B - 1 /\ b + 1 \in Int /\ c \in Int /\ c - 1 \in Int /\ b \in Int
    BY <1>1, <1>3
  <2>2. (c - 1) * B = c * B - B /\ b * B \in Int /\ c * B \in Int
    BY <1>1
  <2>3. b * B + r = (c - 1) * B + (s + B)
    BY <1>1, <2>2
  <2>4. (b < c - 1 => b * B + r < (c - 1) * B) /\ (c - 1 < b => (c - 1) * B + (s + B) < b * B)
    BY <1>1, <2>1, Below
  <2>5. (c - 1) * B \in Int
    BY <1>1
  <2> QED  BY <1>1, <2>1, <2>2, <2>3, <2>4, <2>5
<1> QED  BY <1>2, <1>3 DEF B

LEMMA MapStopKeeps ==
  ASSUME Inv, program = "mmap-example", MapStop
  PROVE  Inv'
<1>1. /\ TypeInv /\ MapInv
      /\ UNCHANGED <<plot, bucketIndex, bucketFlush, array2D, totalFlushes, NONCE, file, arrivals,
                     short, i, bucket_offsets, bucketFull>>
      /\ phase' \in {"written", "failed"}
  BY DEF Inv, MapStop, bucketVars, bufferVars
<1>2. TypeInv'
  <2>1. FileOK'
    BY <1>1, AloneKeeps DEF bucketVars, bufferVars
  <2> QED  BY <1>1, <2>1, SameSizes, PhaseNames DEF TypeInv
<1>3. MapInv'
  <2>1. phase' = "failed" => i = 0 \/ Len(arrivals[0]) > SHRT_MAX
    BY <1>1, InMapping DEF MapStop
  <2> QED  BY <1>1, <2>1, SameSizes DEF MapInv, OffsetOK, MappedInPlace, record
<1>4. MapCount'
  BY <1>1 DEF MapCount
<1> QED  BY <1>1, <1>2, <1>3, <1>4, OnlyMapped DEF Inv

LEMMA MapSkipKeeps ==
  ASSUME Inv, program = "mmap-example", MapSkip
  PROVE  Inv'
<1>1. /\ TypeInv /\ MapInv /\ MapCount /\ phase = "generate"
      /\ UNCHANGED <<plot, bucketIndex, bucketFlush, array2D, totalFlushes, NONCE, file, arrivals,
                     short, phase, bucket_offsets>>
      /\ i' = i + 1 /\ bucketFull' = bucketFull + 1
  BY DEF Inv, MapSkip, bufferVars
<1>2. i \in Nat /\ bucketFull \in Nat /\ NONCE \in Nat
  BY <1>1 DEF TypeInv
<1>3. TypeInv'
  <2>1. FileOK'
    BY <1>1, AloneKeeps DEF bucketVars, bufferVars
  <2>2. i' \in Nat /\ bucketFull' \in Nat
    BY <1>1, <1>2
  <2> QED  BY <1>1, <2>1, <2>2, SameSizes DEF TypeInv
<1>4. MapInv'
  BY <1>1, SameSizes DEF MapInv, OffsetOK, MappedInPlace, record
<1>5. MapCount'
  BY <1>1, <1>2, SameSizes DEF MapCount
<1> QED  BY <1>1, <1>3, <1>4, <1>5, OnlyMapped DEF Inv

LEMMA MapStoreKeeps ==
  ASSUME Inv, program = "mmap-example", NEW c \in Buckets, MapStore(c)
  PROVE  Inv'
<1> DEFINE place == c * BUCKET_SIZE + bucket_offsets[c]
           new == [prefix |-> c, value |-> NONCE]
<1>1. /\ TypeInv /\ MapInv /\ MapCount /\ phase = "generate"
      /\ UNCHANGED <<plot, bucketIndex, bucketFlush, array2D, totalFlushes, short, phase, bucketFull>>
      /\ i' = i + 1 /\ NONCE' = NONCE + 1
      /\ bucket_offsets[c] < BUCKET_SIZE /\ place \in DOMAIN file
      /\ file' = [file EXCEPT ![place] = new]
      /\ bucket_offsets' =
           [bucket_offsets EXCEPT ![c] = IF @ = SHRT_MAX THEN -SHRT_MAX - 1 ELSE @ + 1]
      /\ arrivals' = [arrivals EXCEPT ![c] = Append(@, NONCE)]
  BY DEF Inv, MapStore, bufferVars
<1>2. /\ i \in Nat /\ bucketFull \in Nat /\ NONCE \in Nat /\ SHRT_MAX \in Nat
      /\ plot \in Plots /\ BUCKET_SIZE \in Nat
      /\ bucket_offsets \in [Buckets -> -SHRT_MAX - 1..SHRT_MAX]
      /\ arrivals \in [Buckets -> Seq(Nat)]
  BY <1>1, Sizes, GeneratorsAssumption DEF TypeInv
<1>3. /\ arrivals' \in [Buckets -> Seq(Nat)] /\ arrivals'[c] = Append(arrivals[c], NONCE)
      /\ \A b \in Buckets : b # c => arrivals'[b] = arrivals[b] /\ bucket_offsets'[b] = bucket_offsets[b]
  <2>1. Append(arrivals[c], NONCE) \in Seq(Nat)
    BY <1>2
  <2> QED  BY <1>1, <1>2, <2>1
<1>4. bucket_offsets'[c] = IF bucket_offsets[c] = SHRT_MAX THEN -SHRT_MAX - 1 ELSE bucket_offsets[c] + 1
  BY <1>1, <1>2
<1>5. TypeInv'
  <2>1. FileOK'
    <3>1. new \in Memory
      BY <1>2 DEF Memory
    <3>2. DOMAIN file' = DOMAIN file /\ \A o \in DOMAIN file : file'[o] = file[o] \/ file'[o] = new
      BY <1>1
    <3>3. FileRecords = Memory /\ FileRecords' = FileRecords
      BY <1>1 DEF FileRecords, program, Words, Memory, Buckets
    <3> HIDE DEF new
    <3> QED  BY <1>1, <3>1, <3>2, <3>3 DEF FileOK, TypeInv
  <2>2. bucket_offsets' \in [Buckets -> -SHRT_MAX - 1..SHRT_MAX]
    <3>1. bucket_offsets[c] \in -SHRT_MAX - 1..SHRT_MAX
      BY <1>2
    <3>2. (IF bucket_offsets[c] = SHRT_MAX THEN -SHRT_MAX - 1 ELSE bucket_offsets[c] + 1)
            \in -SHRT_MAX - 1..SHRT_MAX
      BY <1>2, <3>1
    <3> HIDE DEF place
    <3> QED  BY <1>1, <1>2, <3>2
  <2>3. i' \in Nat /\ NONCE' \in Nat /\ bucketFull' \in Nat
    BY <1>1, <1>2
  <2> QED  BY <1>1, <1>3, <2>1, <2>2, <2>3, SameSizes DEF TypeInv
<1>6. MapInv'
  <2>1. DOMAIN file = 0..MAX_HASHES - 1 /\ DOMAIN file' = DOMAIN file
    BY <1>1 DEF MapInv
  <2>2. /\ Len(arrivals[c]) \in Nat
        /\ Len(arrivals[c]) <= SHRT_MAX =>
             bucket_offsets[c] = Len(arrivals[c]) /\ bucket_offsets[c] \in 0..BUCKET_SIZE - 1
        /\ bucket_offsets[c] \in -BUCKET_SIZE..BUCKET_SIZE - 1
    BY <1>1, <1>2, InMapping
  <2>3. /\ Len(arrivals'[c]) = Len(arrivals[c]) + 1
        /\ arrivals'[c][Len(arrivals[c]) + 1] = NONCE
        /\ \A k \in 1..Len(arrivals[c]) : arrivals'[c][k] = arrivals[c][k]
    <3>1. arrivals[c] \in Seq(Nat)
      BY <1>2
    <3> QED  BY <1>2, <1>3, <3>1, AppendIsOneMore DEF OneMoreCame
  <2>4. ASSUME NEW b \in Buckets
        PROVE  OffsetOK(b)'
    <3>1. OffsetOK(b) /\ BUCKET_SIZE' = BUCKET_SIZE
      BY <1>1, SameSizes DEF MapInv
    <3>2. CASE b = c
      <4> HIDE DEF place
      <4> DEFINE o == bucket_offsets[c]
                 n == Len(arrivals[c])
      <4>1. o \in Int /\ o < BUCKET_SIZE
        BY <1>1, <1>2
      <4>2. /\ n > SHRT_MAX => BUCKET_SIZE > SHRT_MAX
            /\ n > SHRT_MAX /\ n <= 2 * (SHRT_MAX + 1) => o = n - 2 * (SHRT_MAX + 1)
        BY <3>1, <3>2 DEF OffsetOK
      <4>3. /\ bucket_offsets'[b] = IF o = SHRT_MAX THEN -SHRT_MAX - 1 ELSE o + 1
            /\ Len(arrivals'[b]) = n + 1
            /\ n \in Nat
            /\ n <= SHRT_MAX => o = n
        BY <1>4, <2>2, <2>3, <3>2
      <4> HIDE DEF o, n
      <4>4. bucket_offsets'[b] <= BUCKET_SIZE
        BY <1>2, <4>1, <4>3
      <4>5. /\ n + 1 <= SHRT_MAX => bucket_offsets'[b] = n + 1
            /\ n + 1 > SHRT_MAX => BUCKET_SIZE > SHRT_MAX
            /\ n + 1 > SHRT_MAX /\ n + 1 <= 2 * (SHRT_MAX + 1)
                 => bucket_offsets'[b] = n + 1 - 2 * (SHRT_MAX + 1)
        BY <1>2, <4>1, <4>2, <4>3
      <4>6. /\ BUCKET_SIZE' = BUCKET_SIZE
            /\ Len(arrivals'[b]) <= SHRT_MAX => bucket_offsets'[b] = Len(arrivals'[b])
            /\ Len(arrivals'[b]) > SHRT_MAX => BUCKET_SIZE > SHRT_MAX
            /\ Len(arrivals'[b]) > SHRT_MAX /\ Len(arrivals'[b]) <= 2 * (SHRT_MAX + 1)
                 => bucket_offsets'[b] = Len(arrivals'[b]) - 2 * (SHRT_MAX + 1)
        BY <1>2, <3>1, <4>3, <4>5
      <4> QED  BY <4>4, <4>6 DEF OffsetOK
    <3>3. CASE b # c
      BY <1>3, <3>1, <3>3 DEF OffsetOK
    <3> QED  BY <3>2, <3>3
  <2>5. ASSUME NEW b \in Buckets, NEW r \in 0..BUCKET_SIZE - 1,
               Len(arrivals'[b]) <= 2 * (SHRT_MAX + 1),
               b + 1 \in Buckets => Len(arrivals'[b + 1]) <= SHRT_MAX + 1
        PROVE  record(b, r)' = IF r < Len(arrivals'[b]) /\ r <= SHRT_MAX
                               THEN [prefix |-> b, value |-> arrivals'[b][r + 1]] ELSE Hole
    <3> DEFINE n == Len(arrivals[c])
    <3>1. b * BUCKET_SIZE + r \in DOMAIN file /\ r \in Nat
      BY <1>2, <2>1, OnePlace
    <3>2. record(b, r) = IF r < Len(arrivals[b]) /\ r <= SHRT_MAX
                         THEN [prefix |-> b, value |-> arrivals[b][r + 1]] ELSE Hole
      <4> DEFINE most == 2 * (SHRT_MAX + 1)
      <4>1. ASSUME NEW d \in Buckets, NEW m \in Int, Len(arrivals'[d]) <= m
            PROVE  Len(arrivals[d]) <= m
        <5>1. CASE d = c
          BY <2>2, <2>3, <4>1, <5>1
        <5>2. CASE d # c
          BY <1>3, <4>1, <5>2
        <5> QED  BY <5>1, <5>2
      <4>2. most \in Int /\ SHRT_MAX + 1 \in Int
        BY <1>2
      <4> HIDE DEF most
      <4>3. Len(arrivals[b]) <= most
        BY <2>5, <4>1, <4>2 DEF most
      <4>4. b + 1 \in Buckets => Len(arrivals[b + 1]) <= SHRT_MAX + 1
        BY <2>5, <4>1, <4>2
      <4> QED  BY <1>1, <4>3, <4>4 DEF MapInv, MappedInPlace, most
    <3>3. /\ record(b, r) = file[b * BUCKET_SIZE + r]
          /\ record(b, r)' = file'[b * BUCKET_SIZE + r]
      BY <1>1, <2>1, <3>1, SameSizes DEF record
    <3>4. CASE b * BUCKET_SIZE + r = place
      <4>1. record(b, r)' = new
        BY <1>1, <3>1, <3>3, <3>4
      <4>2. /\ bucket_offsets[c] >= 0 => b = c /\ r = bucket_offsets[c]
            /\ bucket_offsets[c] < 0 => b + 1 = c
        BY <1>2, <2>2, <3>4, WhoseRegion
      <4>3. n <= SHRT_MAX
        \* Else the offset is below 0, and the bucket after b has more than a short can count.
        <5>1. SUFFICES ASSUME n > SHRT_MAX PROVE FALSE
          BY <1>2, <2>2
        <5>2. n <= 2 * (SHRT_MAX + 1) => bucket_offsets[c] = n - 2 * (SHRT_MAX + 1)
          BY <1>1, <1>2, <2>2, <5>1 DEF MapInv, OffsetOK
        <5>3. CASE b + 1 = c
          BY <1>2, <2>2, <2>3, <2>5, <5>1, <5>3
        <5>4. CASE b = c /\ bucket_offsets[c] >= 0
          BY <1>2, <2>2, <2>3, <2>5, <5>1, <5>2, <5>4
        <5> QED  BY <2>2, <4>2, <5>3, <5>4
      <4>4. b = c /\ r = n /\ r < Len(arrivals'[b])
        BY <2>2, <2>3, <4>2, <4>3
      <4> QED  BY <2>2, <2>3, <4>1, <4>3, <4>4
    <3>5. CASE b * BUCKET_SIZE + r # place
      <4>1. b = c /\ n <= SHRT_MAX => r # n
        BY <2>2, <3>5
      <4> HIDE DEF place
      <4>2. record(b, r)' = record(b, r)
        BY <1>1, <3>1, <3>3, <3>5
      <4>3. CASE b # c
        BY <1>3, <3>2, <4>2, <4>3
      <4>4. CASE b = c
        <5>1. r < n + 1 /\ r <= SHRT_MAX <=> r < n /\ r <= SHRT_MAX
          BY <1>2, <2>2, <3>1, <4>1, <4>4
        <5>2. r < n => arrivals'[c][r + 1] = arrivals[c][r + 1]
          <6>1. r < n => r + 1 \in 1..n
            BY <2>2, <3>1
          <6> QED  BY <2>3, <6>1
        <5> QED  BY <2>3, <3>2, <4>2, <4>4, <5>1, <5>2
      <4> QED  BY <4>3, <4>4
    <3> QED  BY <3>4, <3>5
  <2>6. MappedInPlace'
    BY <1>1, <2>5, SameSizes DEF MappedInPlace
  <2>7. MAX_HASHES' = MAX_HASHES
    BY <1>1, SameSizes
  <2> QED  BY <2>1, <2>4, <2>6, <2>7 DEF MapInv
<1>7. MapCount'
  BY <1>1, <1>2, SameSizes DEF MapCount
<1> QED  BY <1>1, <1>5, <1>6, <1>7, OnlyMapped DEF Inv

------------------------------------------------------------------------------
(* The start.                                                              *)

\* All programs begin alike.
LEMMA InitIs ==
  ASSUME Init
  PROVE  /\ initBuckets /\ short = 0 /\ bucketFull = 0
         /\ bucket_offsets = [b \in Buckets |-> 0]
<1> USE DEF FixedSizes!initBuckets, initBuckets, FixedSizes!Buckets, Mapped!Buckets, Buckets,
            FixedSizes!Slots, Slots, FixedSizes!CUP_SIZE, CUP_SIZE, FixedSizes!initFile, initFile,
            FixedSizes!program, program, FixedSizes!MAX_HASHES, MAX_HASHES,
            FixedSizes!BUCKET_SIZE, BUCKET_SIZE
<1>1. initBuckets /\ short = 0
  BY DEF Init, FixedSizes!Init
<1>2. bucketFull = 0 /\ bucket_offsets = [b \in Buckets |-> 0]
  BY DEF Init, Mapped!Init
<1> QED  BY <1>1, <1>2

LEMMA Initially ==
  ASSUME Init
  PROVE  Inv
<1>1. /\ plot \in Plots /\ phase = "generate" /\ i = 0 /\ totalFlushes = 0 /\ NONCE = 0
      /\ bucketIndex = [b \in Buckets |-> 0] /\ bucketFlush = [b \in Buckets |-> 0]
      /\ array2D = [b \in Buckets |-> [s \in Slots |-> Uninitialised]]
      /\ arrivals = [b \in Buckets |-> <<>>] /\ file = initFile
      /\ short = 0 /\ bucketFull = 0 /\ bucket_offsets = [b \in Buckets |-> 0]
  BY InitIs DEF initBuckets
<1>2. /\ NUM_BUCKETS \in Nat \ {0} /\ CUP_SIZE \in Nat \ {0} /\ BUCKET_SIZE \in Nat \ {0}
      /\ MAX_HASHES \in Nat /\ MaxShort \in Nat /\ SHRT_MAX \in Nat
  BY <1>1, Sizes, GeneratorsAssumption
<1>3. \A o \in DOMAIN file : file[o] = Hole
  <2>1. CASE file = <<>>
    BY <2>1
  <2>2. CASE file = [o \in 0..MAX_HASHES - 1 |-> Hole]
    BY <2>2
  <2> QED  BY <1>1, <2>1, <2>2 DEF initFile
<1>4. TypeInv
  <2>1. FileOK
    <3>1. CASE file = <<>>
      <4>1. DOMAIN file = 0..0 - 1
        BY <3>1
      <4> QED  BY <1>3, <4>1 DEF FileOK
    <3>2. CASE file = [o \in 0..MAX_HASHES - 1 |-> Hole]
      BY <1>2, <1>3, <3>2 DEF FileOK
    <3> QED  BY <1>1, <3>1, <3>2 DEF initFile
  <2>2. 0 \in 0..CUP_SIZE /\ 0 \in 0..MaxShort /\ 0 \in -SHRT_MAX - 1..SHRT_MAX
    BY <1>2
  <2>3. Uninitialised \in Memory
    BY DEF Memory
  <2>4. <<>> \in Seq(Nat)
    OBVIOUS
  <2> QED  BY <1>1, <2>1, <2>2, <2>3, <2>4, PhaseNames DEF TypeInv
<1>5. ASSUME NEW b \in Buckets
      PROVE  InMemory(b)
  <2>1. arrivals[b] = <<>> /\ bucketFlush[b] = 0 /\ bucketIndex[b] = 0
        /\ array2D[b] = [s \in Slots |-> Uninitialised]
    BY <1>1
  <2>2. Len(arrivals[b]) = 0 /\ 0 * CUP_SIZE = 0
    BY <1>2, <2>1
  <2>3. \A s \in Slots : 0 * CUP_SIZE + s + 1 > 0 /\ ~(0 * CUP_SIZE + s + 1 <= 0)
    BY <1>2, <2>2 DEF Slots
  <2>4. Cup(b, 0) = [s \in Slots |-> Uninitialised]
    BY <2>2, <2>3 DEF Cup
  <2> QED  BY <1>2, <2>1, <2>2, <2>4 DEF InMemory
<1>6. MemoryInv
  BY <1>5 DEF MemoryInv
<1>7. CountInv
  <2> DEFINE f == [b \in Buckets |-> Len(arrivals[b])]
  <2>1. f = [b \in Buckets |-> 0]
    BY <1>1
  <2>2. SumFunction([b \in Buckets |-> 0]) = 0
    <3> DEFINE g == [b \in Buckets |-> 0]
    <3>1. DOMAIN g = Buckets /\ \A b \in Buckets : g[b] = 0
      OBVIOUS
    <3> HIDE DEF g
    <3>2. SumFunctionOnSet(g, Buckets) = Cardinality(Buckets) * 0
      BY <3>1, BucketsFinite, SumConstant
    <3>3. SumFunctionOnSet(g, Buckets) = 0
      BY <1>2, <3>2, BucketsFinite
    <3>4. SumFunction(g) = 0
      BY <3>1, <3>3 DEF SumFunction
    <3> QED  BY <3>4 DEF g
  <2> QED  BY <1>1, <2>1, <2>2 DEF CountInv
<1>8. RestInv
  BY <1>1 DEF RestInv
<1>9. FileInv
  <2>1. ASSUME NEW b \in Buckets, NEW r \in 0..BUCKET_SIZE - 1
        PROVE  Right(b, r)
    <3>1. record(b, r) = Hole
      BY <1>3 DEF record
    <3>2. Expected(b, r) = Hole
      <4>1. r \div CUP_SIZE \in Nat
        BY <1>1, Chunks
      <4>2. bucketFlush[b] = 0
        BY <1>1
      <4>3. ~(r \div CUP_SIZE < bucketFlush[b])
        BY <4>1, <4>2
      <4> QED  BY <4>3 DEF Expected
    <3> QED  BY <3>1, <3>2 DEF Right
  <2> QED  BY <2>1 DEF FileInv, Intact
<1>10. EndInv
  <2> DEFINE ideal == FreeSizes!ideal_number_of_flushes
  <2>1. ideal \in Nat
    BY <1>1, IdealType
  <2> HIDE DEF ideal
  <2>2. ideal * CUP_SIZE \in Nat /\ (NUM_BUCKETS - 1) * (CUP_SIZE - 1) \in Nat
    <3>1. NUM_BUCKETS - 1 \in Nat /\ CUP_SIZE - 1 \in Nat
      BY <1>2
    <3> QED  BY <1>2, <2>1, <3>1
  <2>3. 0 <= ideal /\ 0 <= ideal * CUP_SIZE + (NUM_BUCKETS - 1) * (CUP_SIZE - 1)
    BY <2>1, <2>2
  <2> QED  BY <1>1, <2>3 DEF EndInv, EndsInTime, ideal
<1>11. MapInv
  <2>1. program = "mmap-example" => DOMAIN file = 0..MAX_HASHES - 1
    BY <1>1 DEF initFile
  <2>2. ASSUME NEW b \in Buckets
        PROVE  OffsetOK(b)
    <3>1. bucket_offsets[b] = 0 /\ Len(arrivals[b]) = 0
      BY <1>1
    <3> QED  BY <1>2, <3>1 DEF OffsetOK
  <2>3. ASSUME NEW b \in Buckets, NEW r \in 0..BUCKET_SIZE - 1
        PROVE  record(b, r) = Hole /\ ~(r < Len(arrivals[b]))
    BY <1>1, <1>2, <1>3 DEF record
  <2>4. MappedInPlace
    BY <1>1, <2>3 DEF MappedInPlace
  <2> QED  BY <2>1, <2>2, <2>4 DEF MapInv
<1>12. MapCount
  BY <1>1 DEF MapCount
<1> QED  BY <1>4, <1>6, <1>7, <1>8, <1>9, <1>10, <1>11, <1>12 DEF Inv

------------------------------------------------------------------------------
(* Sorting.                                                                *)

\* Those in front of each of h records, in an order of them: their numbers are all of
\* 0..h - 1, each once.
LEMMA RanksAreAll ==
  ASSUME NEW h \in Nat, NEW front \in [0..h - 1 -> SUBSET (0..h - 1)],
         \A k \in 0..h - 1 : k \notin front[k],
         \A j \in 0..h - 1, k \in 0..h - 1 : j # k => j \in front[k] \/ k \in front[j],
         \A j \in 0..h - 1, k \in 0..h - 1 : j \in front[k] => front[j] \subseteq front[k]
  PROVE  [k \in 0..h - 1 |-> Cardinality(front[k])] \in Bijection(0..h - 1, 0..h - 1)
<1> DEFINE S == 0..h - 1
           f == [k \in S |-> Cardinality(front[k])]
<1>1. IsFiniteSet(S) /\ Cardinality(S) = h
  BY FS_Interval
<1>2. ASSUME NEW k \in S
      PROVE  /\ IsFiniteSet(front[k]) /\ Cardinality(front[k]) \in Nat
             /\ Cardinality(front[k]) < h
  <2>1. front[k] \in SUBSET S /\ front[k] # S
    OBVIOUS
  <2> HIDE DEF S
  <2>2. /\ IsFiniteSet(front[k]) /\ Cardinality(front[k]) <= Cardinality(S)
        /\ Cardinality(front[k]) # Cardinality(S)
    BY <1>1, <2>1, FS_Subset
  <2>3. Cardinality(front[k]) \in Nat
    BY <2>2, FS_CardinalityType
  <2> QED  BY <1>1, <2>2, <2>3
<1>3. ASSUME NEW j \in S, NEW k \in S, j \in front[k]
      PROVE  Cardinality(front[j]) < Cardinality(front[k])
  <2>1. front[j] \in SUBSET front[k] /\ front[j] # front[k]
    BY <1>3
  <2>2. Cardinality(front[j]) <= Cardinality(front[k]) /\ Cardinality(front[j]) # Cardinality(front[k])
    BY <1>2, <2>1, FS_Subset
  <2> QED  BY <1>2, <2>2
<1>4. f \in [S -> S]
  BY <1>2
<1>5. \A j \in S, k \in S : f[j] = f[k] => j = k
  <2> SUFFICES ASSUME NEW j \in S, NEW k \in S, j # k PROVE Cardinality(front[j]) # Cardinality(front[k])
    OBVIOUS
  <2>1. j \in front[k] \/ k \in front[j]
    OBVIOUS
  <2> QED  BY <1>2, <1>3, <2>1
<1> HIDE DEF f, S
<1>6. f \in Injection(S, S)
  BY <1>4, <1>5 DEF Injection, IsInjective
<1>7. f \in Surjection(S, S)
  BY <1>1, <1>6, FS_Injection
<1>8. f \in Bijection(S, S)
  BY <1>6, <1>7 DEF Bijection
<1> QED  BY <1>8 DEF f, S

LEMMA SameCardinality == \A s : FromRing!Cardinality(s) = Cardinality(s)
BY DEF FromRing!Cardinality, Cardinality

\* A chunk of the file that psort cuts.
HashesPerChunk == FromRing!HASHES_PER_CHUNK_SORT
ChunkOfFile(c) == \A k \in 0..HashesPerChunk - 1 : c * HashesPerChunk + k \in DOMAIN file

\* Records are ordered by numbers.
LEMMA KeyType ==
  ASSUME program = "hashgen7", NEW r, r = Hole \/ r \in FileRecords
  PROVE  FromRing!key(r) \in Int
<1>1. CASE r = Hole
  BY <1>1 DEF FromRing!key
<1>2. CASE r # Hole
  <2>1. r[1] \in Words
    BY <1>2 DEF FileRecords
  <2>2. r[1].of \in Memory /\ r[1].field \in {"byteArray", "NONCE", "prefix"}
    BY <2>1 DEF Words
  <2>3. CASE r[1].of = Uninitialised
    BY <1>2, <2>3 DEF FromRing!key
  <2>4. CASE r[1].of # Uninitialised
    <3>1. r[1].of.value \in Nat
      BY <2>2, <2>4 DEF Memory
    <3> DEFINE x == CASE r[1].field = "byteArray" -> 0
                      [] r[1].field = "NONCE"     -> 1
                      [] r[1].field = "prefix"    -> 2
    <3>2. x \in Nat
      BY <2>2
    <3> HIDE DEF x
    <3>3. FromRing!key(r) = 3 * r[1].of.value + x
      BY <1>2, <2>4 DEF FromRing!key, x
    <3> QED  BY <3>1, <3>2, <3>3
  <2> QED  BY <2>3, <2>4
<1> QED  BY <1>1, <1>2

\* Where sorting takes the m-th record of chunk c from.
Source(up, c, m) == CHOOSE k \in FromRing!InChunk : FromRing!rank(up, c, k) = m

\* Sorting a chunk takes each of its records to one place.
LEMMA Sorting ==
  ASSUME program = "hashgen7", FileOK, HashesPerChunk \in Nat,
         NEW up \in BOOLEAN, NEW c \in Nat, ChunkOfFile(c)
  PROVE  [m \in 0..HashesPerChunk - 1 |-> Source(up, c, m)]
           \in Bijection(0..HashesPerChunk - 1, 0..HashesPerChunk - 1)
<1> DEFINE h == HashesPerChunk
           S == 0..h - 1
           key(k) == FromRing!key(FromRing!at(c, k))
           front == [k \in S |-> {q \in S : FromRing!precedes(up, c, q, k)}]
           f == [k \in S |-> Cardinality(front[k])]
<1>1. FromRing!InChunk = S
  BY DEF FromRing!InChunk, HashesPerChunk
<1>2. \A k \in S : key(k) \in Int
  <2> SUFFICES ASSUME NEW k \in S PROVE key(k) \in Int
    OBVIOUS
  <2>1. c * h + k \in DOMAIN file
    BY DEF ChunkOfFile
  <2>2. FromRing!at(c, k) = file[c * h + k]
    BY DEF FromRing!at, HashesPerChunk
  <2> QED  BY <2>1, <2>2, KeyType DEF FileOK
<1>3. \A q \in S, k \in S : FromRing!precedes(up, c, q, k) <=>
        IF up THEN key(q) < key(k) \/ (q < k /\ ~(key(k) < key(q)))
              ELSE key(k) < key(q) \/ (q < k /\ ~(key(q) < key(k)))
  BY DEF FromRing!precedes, FromRing!before
<1> HIDE DEF key
<1>4. \A k \in S : k \notin front[k]
  BY <1>2, <1>3
<1>5. \A j \in S, k \in S : j # k => j \in front[k] \/ k \in front[j]
  <2> SUFFICES ASSUME NEW j \in S, NEW k \in S, j # k PROVE j \in front[k] \/ k \in front[j]
    OBVIOUS
  <2>1. j < k \/ k < j
    OBVIOUS
  <2>2. key(j) < key(k) \/ key(k) < key(j) \/ (~(key(j) < key(k)) /\ ~(key(k) < key(j)))
    OBVIOUS
  <2> QED  BY <1>3, <2>1, <2>2
<1>6. \A j \in S, k \in S : j \in front[k] => front[j] \subseteq front[k]
  <2> SUFFICES ASSUME NEW j \in S, NEW k \in S, j \in front[k], NEW q \in front[j]
               PROVE  q \in front[k]
    OBVIOUS
  <2>1. q \in S /\ FromRing!precedes(up, c, q, j) /\ FromRing!precedes(up, c, j, k)
    OBVIOUS
  <2>2. key(q) \in Int /\ key(j) \in Int /\ key(k) \in Int /\ q \in Int /\ j \in Int /\ k \in Int
    BY <1>2, <2>1
  <2>3. \A x \in Int, y \in Int, z \in Int, l \in Int, m \in Int, n \in Int :
          /\ x < y \/ (l < m /\ ~(y < x))
          /\ y < z \/ (m < n /\ ~(z < y))
          => x < z \/ (l < n /\ ~(z < x))
    OBVIOUS
  <2>4. \A x \in Int, y \in Int, z \in Int, l \in Int, m \in Int, n \in Int :
          /\ y < x \/ (l < m /\ ~(x < y))
          /\ z < y \/ (m < n /\ ~(y < z))
          => z < x \/ (l < n /\ ~(x < z))
    OBVIOUS
  <2>5. FromRing!precedes(up, c, q, k)
    <3>1. CASE up
      <4>1. /\ key(q) < key(j) \/ (q < j /\ ~(key(j) < key(q)))
            /\ key(j) < key(k) \/ (j < k /\ ~(key(k) < key(j)))
        BY <1>3, <2>1, <3>1
      <4>2. key(q) < key(k) \/ (q < k /\ ~(key(k) < key(q)))
        BY <2>2, <2>3, <4>1
      <4> QED  BY <1>3, <2>1, <3>1, <4>2
    <3>2. CASE ~up
      <4>1. /\ key(j) < key(q) \/ (q < j /\ ~(key(q) < key(j)))
            /\ key(k) < key(j) \/ (j < k /\ ~(key(j) < key(k)))
        BY <1>3, <2>1, <3>2
      <4>2. key(k) < key(q) \/ (q < k /\ ~(key(q) < key(k)))
        BY <2>2, <2>4, <4>1
      <4> QED  BY <1>3, <2>1, <3>2, <4>2
    <3> QED  BY <3>1, <3>2
  <2> QED  BY <2>1, <2>5
<1>7. front \in [S -> SUBSET S]
  OBVIOUS
<1>8. \A k \in S : f[k] = FromRing!rank(up, c, k)
  <2> SUFFICES ASSUME NEW k \in S PROVE f[k] = FromRing!rank(up, c, k)
    OBVIOUS
  <2>1. f[k] = Cardinality({q \in S : FromRing!precedes(up, c, q, k)})
    OBVIOUS
  <2> HIDE DEF S, f
  <2>2. FromRing!rank(up, c, k) = Cardinality({q \in S : FromRing!precedes(up, c, q, k)})
    BY <1>1, SameCardinality DEF FromRing!rank
  <2> QED  BY <2>1, <2>2
<1> HIDE DEF front
<1>9. f \in Bijection(S, S)
  <2> HIDE DEF h
  <2>1. h \in Nat
    BY DEF h
  <2> QED  BY <1>4, <1>5, <1>6, <1>7, <2>1, RanksAreAll
<1> HIDE DEF f, S
<1>10. /\ f \in [S -> S] /\ \A j \in S, k \in S : f[j] = f[k] => j = k
       /\ \A m \in S : \E k \in S : f[k] = m
  BY <1>9 DEF Bijection, Injection, IsInjective, Surjection
<1>11. \A m \in S : Source(up, c, m) \in S /\ f[Source(up, c, m)] = m
  <2> SUFFICES ASSUME NEW m \in S PROVE Source(up, c, m) \in S /\ f[Source(up, c, m)] = m
    OBVIOUS
  <2>1. \E k \in S : FromRing!rank(up, c, k) = m
    BY <1>8, <1>10
  <2>2. Source(up, c, m) \in S /\ FromRing!rank(up, c, Source(up, c, m)) = m
    BY <1>1, <2>1 DEF Source
  <2> QED  BY <1>8, <2>2
<1> DEFINE g == [m \in S |-> Source(up, c, m)]
<1>12. g \in [S -> S] /\ \A m \in S, n \in S : g[m] = g[n] => m = n
  BY <1>11
<1>13. \A k \in S : g[f[k]] = k /\ f[k] \in S
  BY <1>10, <1>11
<1> HIDE DEF g
<1>14. g \in Bijection(S, S)
  BY <1>12, <1>13 DEF Bijection, Injection, IsInjective, Surjection
<1> QED  BY <1>14 DEF g, S, h

\* What psort leaves: the first n records come from sorted chunks, and n is a whole number of
\* chunks if nothing failed.
SortedTo(n, up) ==
  /\ n <= NUM_BUCKETS * HashesPerChunk
  /\ \A c \in Nat : c * HashesPerChunk < n => ChunkOfFile(c)
  /\ DOMAIN file' = DOMAIN file
  /\ \A o \in DOMAIN file :
       file'[o] = IF o < n
                  THEN file[(o \div HashesPerChunk) * HashesPerChunk
                              + Source(up, o \div HashesPerChunk, o % HashesPerChunk)]
                  ELSE file[o]

LEMMA SortedFile ==
  ASSUME TypeInv, SortStep
  PROVE  /\ HashesPerChunk \in Nat
         /\ \E n \in Nat, up \in BOOLEAN :
              /\ SortedTo(n, up)
              /\ phase' = "sorted" => \E c \in Nat : n = c * HashesPerChunk
<1> DEFINE h == HashesPerChunk
<1>1. PICK size \in Nat : DOMAIN file = 0..size - 1
  BY DEF TypeInv, FileOK
<1>2. NUM_BUCKETS \in Nat \ {0} /\ NUM_THREADS \in Nat \ {0}
  BY PlotAssumption, GeneratorsAssumption
<1>3. \A x \in Nat, y \in Nat \ {0} : x \div y \in Nat /\ (x \div y) * y <= x
  OBVIOUS
<1>4. h \in Nat /\ h * NUM_BUCKETS <= size
  <2>1. Cardinality(DOMAIN file) = size
    <3>1. Cardinality(0..size - 1) = IF 0 > size - 1 THEN 0 ELSE (size - 1) - 0 + 1
      BY FS_Interval
    <3> QED  BY <1>1, <3>1
  <2>2. h = size \div NUM_BUCKETS
    BY <2>1, SameCardinality DEF HashesPerChunk, FromRing!HASHES_PER_CHUNK_SORT
  <2> QED  BY <1>2, <1>3, <2>2
<1> DEFINE chunks == FromRing!Groups * NUM_THREADS
           all == FromRing!toSort
<1>5. chunks \in Nat /\ chunks <= NUM_BUCKETS
  <2>1. /\ FromRing!Groups = NUM_BUCKETS \div NUM_THREADS
        /\ FromRing!Groups \in Nat /\ FromRing!Groups * NUM_THREADS <= NUM_BUCKETS
    BY <1>2, <1>3 DEF FromRing!Groups
  <2> QED  BY <1>2, <2>1
<1>6. all = chunks * h
  BY DEF FromRing!toSort, h, HashesPerChunk
<1> HIDE DEF h, chunks, all
<1>7. all \in Nat /\ all <= NUM_BUCKETS * h
  <2>1. \A x \in Nat, y \in Nat, z \in Nat : x <= y => x * z <= y * z /\ x * z \in Nat
    OBVIOUS
  <2> QED  BY <1>2, <1>4, <1>5, <1>6, <2>1
<1>8. PICK n \in Nat, up \in BOOLEAN :
        file' = FromRing!sorted(n, up) /\ n <= all /\ (phase' = "sorted" => n = all)
  <2>1. CASE /\ phase' = "sorted"
             /\ \E up \in BOOLEAN : file' = FromRing!sorted(FromRing!toSort, up)
    BY <1>7, <2>1 DEF all
  <2>2. CASE /\ phase' = "sort failed"
             /\ \E n \in {0} \cup 0..FromRing!toSort - 1, up \in BOOLEAN :
                  file' = FromRing!sorted(n, up)
    <3>1. PICK n \in {0} \cup 0..all - 1, up \in BOOLEAN : file' = FromRing!sorted(n, up)
      BY <2>2 DEF all
    <3>2. n \in Nat /\ n <= all
      BY <1>7
    <3> QED  BY <2>2, <3>1, <3>2
  <2> QED  BY <2>1, <2>2 DEF SortStep
<1>9. ASSUME NEW c \in Nat, c * h < n
      PROVE  ChunkOfFile(c)
  <2> SUFFICES ASSUME NEW k \in 0..h - 1 PROVE c * h + k \in DOMAIN file
    BY DEF ChunkOfFile, h
  <2>1. h \in Nat \ {0}
    BY <1>4
  <2>2. c * h \in Nat /\ NUM_BUCKETS * h = h * NUM_BUCKETS /\ NUM_BUCKETS * h \in Nat
    BY <1>2, <2>1
  <2>3. c < NUM_BUCKETS
    <3>1. c * h + 0 < NUM_BUCKETS * h
      BY <1>7, <1>8, <1>9, <2>2
    <3>2. 0 \in 0..h - 1 /\ c \in Int /\ NUM_BUCKETS \in Int
      BY <1>2, <2>1
    <3> QED  BY <2>1, <3>1, <3>2, Below
  <2>4. c * h + k < NUM_BUCKETS * h
    BY <1>2, <2>1, <2>3, Below
  <2> QED  BY <1>1, <1>4, <2>2, <2>4
<1>10. file' = [o \in DOMAIN file |->
                  IF o < n THEN file[(o \div h) * h + Source(up, o \div h, o % h)] ELSE file[o]]
  BY <1>8 DEF FromRing!sorted, FromRing!at, Source, h, HashesPerChunk
<1>11. /\ DOMAIN file' = DOMAIN file
       /\ \A o \in DOMAIN file :
            file'[o] = IF o < n THEN file[(o \div h) * h + Source(up, o \div h, o % h)] ELSE file[o]
  BY <1>10
<1>12. SortedTo(n, up)
  <2>1. n <= NUM_BUCKETS * h
    <3>1. NUM_BUCKETS * h \in Nat
      BY <1>2, <1>4
    <3> QED  BY <1>7, <1>8, <3>1
  <2> QED  BY <1>9, <1>11, <2>1 DEF SortedTo, h
<1>13. phase' = "sorted" => n = chunks * h
  BY <1>6, <1>8
<1> QED  BY <1>4, <1>5, <1>12, <1>13 DEF h

\* In a sorted chunk is a permutation of what was there.
LEMMA SourceIsInChunk ==
  ASSUME program = "hashgen7", FileOK, HashesPerChunk \in Nat,
         NEW up \in BOOLEAN, NEW c \in Nat, ChunkOfFile(c)
  PROVE  /\ \A m \in 0..HashesPerChunk - 1 :
              /\ Source(up, c, m) \in 0..HashesPerChunk - 1
              /\ c * HashesPerChunk + Source(up, c, m) \in DOMAIN file
         /\ \A m \in 0..HashesPerChunk - 1, k \in 0..HashesPerChunk - 1 :
              Source(up, c, m) = Source(up, c, k) => m = k
         /\ \A k \in 0..HashesPerChunk - 1 :
              \E m \in 0..HashesPerChunk - 1 : Source(up, c, m) = k
<1> DEFINE S == 0..HashesPerChunk - 1
           g == [m \in S |-> Source(up, c, m)]
<1>1. g \in Bijection(S, S)
  BY Sorting
<1>2. \A m \in S : g[m] = Source(up, c, m)
  OBVIOUS
<1> HIDE DEF g, S
<1>3. /\ \A m \in S : Source(up, c, m) \in S
      /\ \A m \in S, k \in S : Source(up, c, m) = Source(up, c, k) => m = k
      /\ \A k \in S : \E m \in S : Source(up, c, m) = k
  BY <1>1, <1>2 DEF Bijection, Injection, IsInjective, Surjection
<1> QED  BY <1>3 DEF ChunkOfFile, S

\* What sorting does not touch.
LEMMA SortKeeps ==
  ASSUME Inv, UNCHANGED <<bucket_offsets, bucketFull>>, SortStep
  PROVE  Inv'
<1>1. /\ TypeInv /\ program = "hashgen7" /\ phase' \in {"sorted", "sort failed"}
      /\ UNCHANGED <<plot, bucketIndex, bucketFlush, array2D, totalFlushes, NONCE, arrivals, i, short>>
  BY DEF Inv, SortStep, bufferVars
<1>2. FileOK'
  <2> DEFINE h == HashesPerChunk
  <2>1. PICK n \in Nat, up \in BOOLEAN :
          /\ h \in Nat /\ n <= NUM_BUCKETS * h /\ \A c \in Nat : c * h < n => ChunkOfFile(c)
          /\ DOMAIN file' = DOMAIN file
          /\ \A o \in DOMAIN file :
               file'[o] = IF o < n
                          THEN file[(o \div h) * h + Source(up, o \div h, o % h)] ELSE file[o]
    BY <1>1, SortedFile DEF SortedTo
  <2>2. FileOK /\ FileRecords' = FileRecords
    BY <1>1, SameSizes DEF TypeInv
  <2>3. ASSUME NEW o \in DOMAIN file
        PROVE  file'[o] = Hole \/ file'[o] \in FileRecords
    <3>1. CASE ~(o < n)
      BY <2>1, <2>2, <3>1 DEF FileOK
    <3>2. CASE o < n
      <4>1. o \in Nat /\ h \in Nat
        BY <2>1, <2>2 DEF FileOK
      <4>2. h # 0
        <5>1. NUM_BUCKETS * 0 = 0
          BY PlotAssumption
        <5> HIDE DEF h
        <5> QED  BY <2>1, <3>2, <4>1, <5>1
      <4> HIDE DEF h
      <4>3. \A x \in Nat, y \in Nat \ {0} :
              x \div y \in Nat /\ x % y \in 0..y - 1 /\ x = (x \div y) * y + (x % y)
        OBVIOUS
      <4> DEFINE c == o \div h
                 m == o % h
      <4>4. c \in Nat /\ m \in 0..h - 1 /\ o = c * h + m
        BY <4>1, <4>2, <4>3
      <4> HIDE DEF c, m
      <4>5. c * h < n
        <5>1. c * h \in Nat
          BY <4>1, <4>4
        <5> QED  BY <3>2, <4>1, <4>4, <5>1
      <4>6. c * h + Source(up, c, m) \in DOMAIN file
        BY <1>1, <2>1, <2>2, <4>1, <4>4, <4>5, SourceIsInChunk DEF h
      <4>7. file'[o] = file[c * h + Source(up, c, m)]
        BY <2>1, <3>2 DEF c, m
      <4> QED  BY <2>2, <4>6, <4>7 DEF FileOK
    <3> QED  BY <3>1, <3>2
  <2> QED  BY <2>1, <2>2, <2>3 DEF FileOK
<1>3. TypeInv'
  BY <1>1, <1>2, SameSizes, PhaseNames DEF TypeInv
<1>4. MemoryInv' /\ CountInv' /\ FileInv'
  BY <1>1 DEF MemoryInv, CountInv, FileInv
<1>5. RestInv' /\ EndInv'
  BY <1>1, SameSizes DEF RestInv, EndInv, FlushingPrograms
<1> QED  BY <1>1, <1>3, <1>4, <1>5, NotMapped DEF Inv, BucketPrograms

------------------------------------------------------------------------------
(* The invariant.                                                          *)

LEMMA Stutters ==
  ASSUME Inv, UNCHANGED vars
  PROVE  Inv'
<1>1. UNCHANGED <<plot, phase, bucketIndex, bucketFlush, array2D, totalFlushes, NONCE, file, i,
                  arrivals, short, bucket_offsets, bucketFull>>
  BY DEF vars, plotVars, bucketVars, bufferVars, ownVars
<1>2. TypeInv /\ MemoryInv /\ CountInv /\ RestInv /\ FileInv /\ EndInv /\ MapInv /\ MapCount
  BY DEF Inv
<1>3. UNCHANGED <<bucketVars, short>>
  BY <1>1 DEF bucketVars, bufferVars
<1>4. TypeInv'
  <2>1. FileOK'
    BY <1>2, <1>3, AloneKeeps
  <2> QED  BY <1>1, <1>2, <2>1, SameSizes DEF TypeInv
<1>5. MemoryInv'
  BY <1>1, <1>2, <1>3, AloneKeeps, SameSizes DEF MemoryInv
<1>6. CountInv'
  BY <1>1, <1>2, SameSizes DEF CountInv
<1>7. RestInv'
  BY <1>1, <1>2, <1>3, AloneKeeps, SameSizes DEF RestInv
<1>8. FileInv'
  <2>1. AllRight => AllRight'
    BY <1>2, <1>3, AloneKeeps
  <2> QED  BY <1>1, <1>2, <2>1, SameSizes DEF FileInv, AllRight
<1>9. EndInv'
  BY <1>1, <1>2, SameSizes DEF EndInv, EndsInTime
<1>10. MapInv' /\ MapCount'
  BY <1>1, <1>2, SameSizes DEF MapInv, MapCount, OffsetOK, MappedInPlace, record
<1> QED  BY <1>4, <1>5, <1>6, <1>7, <1>8, <1>9, <1>10 DEF Inv

\* Every step of every program.
LEMMA Inductive ==
  ASSUME Inv, [Next]_vars
  PROVE  Inv'
<1>1. plot \in Plots /\ (program \in BucketPrograms \/ program = "mmap-example")
  BY GeneratorsAssumption DEF Inv, TypeInv, program
<1>2. CASE UNCHANGED vars
  BY <1>2, Stutters
<1>3. CASE Next /\ program \in BucketPrograms
  <2>1. BucketStep \/ UNCHANGED vars
    BY <1>1, <1>3, BucketSteps
  <2>2. CASE BucketStep
    <3>1. UNCHANGED <<bucket_offsets, bucketFull>>
      BY <2>2 DEF BucketStep
    <3>2. CASE \E b \in Buckets : StoreStep(b)
      BY <1>3, <3>1, <3>2, StoreKeeps
    <3>3. CASE \E b \in Buckets, n \in 0..CUP_SIZE : FlushStep(b, n) \/ FailStep(b, n)
      BY <1>3, <3>1, <3>3, FlushKeeps, FailKeeps
    <3>4. CASE LeaveStep
      BY <1>3, <3>1, <3>4, LeaveKeeps
    <3>5. CASE \E n \in 0..CUP_SIZE : RestStep(n) \/ RestFailStep(n)
      BY <1>3, <3>1, <3>5, RestKeeps
    <3>6. CASE (SkipRest \/ FinishRest) /\ UNCHANGED short
      BY <1>3, <3>1, <3>6, SkipKeeps
    <3>7. CASE SortStep
      BY <3>1, <3>7, SortKeeps
    <3> QED  BY <2>2, <3>2, <3>3, <3>4, <3>5, <3>6, <3>7 DEF BucketStep
  <2> QED  BY <1>2, <2>1, <2>2
<1>4. CASE Next /\ program = "mmap-example"
  BY <1>2, <1>4, MapSteps, MapStopKeeps, MapStoreKeeps, MapSkipKeeps
<1> QED  BY <1>1, <1>2, <1>3, <1>4

\* The inductive invariant holds in all states of all programs.
THEOREM Invariant == Spec => []Inv
<1>1. Init => Inv
  BY Initially
<1>2. Inv /\ [Next]_vars => Inv'
  BY Inductive
<1> QED  BY <1>1, <1>2, PTL DEF Spec

------------------------------------------------------------------------------
(* What the invariant says.                                                *)

\* Types of the buckets, the counters and the file: a bucket has one hash at most more than
\* places below it, a record of the file is one that was written or a hole.
THEOREM TypeCorrect == Spec => []TypeOK
<1>1. TypeInv => TypeOK
  <2> SUFFICES ASSUME TypeInv PROVE TypeOK
    OBVIOUS
  <2>1. PICK size \in Nat : DOMAIN file = 0..size - 1
    BY DEF TypeInv, FileOK
  <2>2. DOMAIN file = 0..Cardinality(DOMAIN file) - 1
    <3>1. Cardinality(0..size - 1) = IF 0 > size - 1 THEN 0 ELSE (size - 1) - 0 + 1
      BY FS_Interval
    <3>2. Cardinality(DOMAIN file) = size
      BY <2>1, <3>1
    <3> QED  BY <2>1, <3>2
  <2> QED  BY <2>2 DEF TypeInv, Phases, FileOK, FileRecords, TypeOK, BucketTypeOK
<1> QED  BY <1>1, Invariant, PTL DEF Inv

\* No hash and no chunk goes missing from the counters, however many buckets there are
\* and however the prefixes fall (hashgen.c:153-196, mmap-example.c's bucketFull).
THEOREM EveryHashAccounted == Spec => []Accounting
<1>1. Inv => Accounting
  <2> SUFFICES ASSUME Inv, phase = "generate"
               PROVE  IF program = "mmap-example" THEN NONCE + bucketFull = i ELSE Accounted
    BY DEF Accounting
  <2>1. CASE program = "mmap-example"
    BY <2>1 DEF Inv, MapCount
  <2>2. CASE program # "mmap-example"
    <3>1. program \in BucketPrograms
      BY <2>2, GeneratorsAssumption DEF Inv, TypeInv, program
    <3>2. \A b \in Buckets : InMemory(b)
      BY <3>1 DEF Inv, MemoryInv
    <3> QED  BY <2>2, <3>1, <3>2 DEF Inv, CountInv, InMemory, Accounted
  <2> QED  BY <2>1, <2>2
<1> QED  BY <1>1, Invariant, PTL

\* The region of a bucket holds the chunks of the bucket in their order, each as it should
\* be, as long as no other bucket has spilled into it.
THEOREM PlotIsAsExpected == Spec => []PlotMatchesArrivals
<1>1. Inv => PlotMatchesArrivals
  BY DEF Inv, FileInv, Right, PlotMatchesArrivals
<1> QED  BY <1>1, Invariant, PTL

\* The short write that hashgen2.c lets pass leaves holes and nothing worse.
THEOREM ShortWritesAreHoles == Spec => []ShortWritesLeaveHoles
<1>1. Inv => ShortWritesLeaveHoles
  <2> SUFFICES ASSUME Inv, program = "hashgen2", phase # "failed", NEW b \in Intact,
                      NEW r \in 0..BUCKET_SIZE - 1
               PROVE  record(b, r) \in {Expected(b, r), Hole}
    BY DEF ShortWritesLeaveHoles
  <2>1. program \in BucketPrograms /\ phase \in {"generate", "flush", "written"}
    BY DEF Inv, TypeInv, Phases, RestInv, BucketPrograms, FlushingPrograms
  <2> QED  BY <2>1 DEF Inv, FileInv, Right
<1> QED  BY <1>1, Invariant, PTL

\* The final loop of hashgen.c, hashgen2.c and hashgen3.c leaves out no hash that has
\* a place in its region.
THEOREM NothingThatFitsIsLost == Spec => []WhatFitsIsWritten
<1>1. Inv => WhatFitsIsWritten
  <2> SUFFICES ASSUME Inv, program \in FlushingPrograms, short = 0, phase = "written",
                      NEW b \in Intact, NEW k \in 1..Len(arrivals[b]), k <= BUCKET_SIZE
               PROVE  record(b, k - 1) = [prefix |-> b, value |-> arrivals[b][k]]
    BY DEF WhatFitsIsWritten, FlushingPrograms
  <2> DEFINE r == k - 1
             q == r \div CUP_SIZE
             s == r % CUP_SIZE
             flushes == bucketFlush[b]
  <2>1. /\ plot \in Plots /\ CUP_SIZE \in Nat \ {0} /\ BUCKET_SIZE \in Nat /\ CHUNKS \in Nat
        /\ NUM_BUCKETS \in Nat /\ CHUNKS * CUP_SIZE = BUCKET_SIZE /\ b \in Buckets
        /\ flushes \in Nat /\ Len(arrivals[b]) \in Nat
    <3>1. plot \in Plots /\ b \in Buckets /\ flushes \in Nat /\ arrivals[b] \in Seq(Nat)
      BY DEF Inv, TypeInv, Intact
    <3> QED  BY <3>1, Sizes
  <2>2. k \in Nat /\ r \in 0..BUCKET_SIZE - 1 /\ k <= Len(arrivals[b])
    BY <2>1
  <2>3. q \in Nat /\ s \in Slots /\ r = q * CUP_SIZE + s /\ s \in 0..CUP_SIZE - 1
    BY <2>1, <2>2, Chunks DEF Slots
  <2>4. NoneLeft(b)
    <3>1. i = NUM_BUCKETS
      BY DEF Inv, RestInv
    <3>2. b < i
      BY <2>1, <3>1 DEF Buckets
    <3> QED  BY <2>1, <3>2 DEF Inv, RestInv
  <2>5. record(b, r) = Expected(b, r)
    BY <2>2 DEF Inv, FileInv, Right, BucketPrograms, FlushingPrograms
  <2> HIDE DEF q, s, flushes
  <2>6. q < flushes
    <3>1. CASE flushes >= CHUNKS
      <4>1. q * CUP_SIZE + s < CHUNKS * CUP_SIZE
        BY <2>1, <2>2, <2>3
      <4>2. q < CHUNKS
        BY <2>1, <2>3, <4>1, Below
      <4> QED  BY <2>1, <2>3, <3>1, <4>2
    <3>2. CASE flushes * CUP_SIZE >= Len(arrivals[b])
      <4>1. flushes * CUP_SIZE \in Nat
        BY <2>1
      <4>2. q * CUP_SIZE + s < flushes * CUP_SIZE
        BY <2>1, <2>2, <2>3, <3>2, <4>1
      <4> QED  BY <2>1, <2>3, <4>2, Below
    <3> QED  BY <2>4, <3>1, <3>2 DEF NoneLeft, flushes
  <2>7. Expected(b, r) = Cup(b, q)[s]
    <3>1. Expected(b, r) = chunk(Cup(b, q))[s]
      BY <2>6 DEF Expected, q, s, flushes
    <3>2. program # "hashgen7"
      BY DEF FlushingPrograms
    <3> QED  BY <3>1, <3>2 DEF chunk
  <2>8. Cup(b, q)[s] = [prefix |-> b, value |-> arrivals[b][k]]
    <3>1. q * CUP_SIZE + s + 1 = k
      <4>1. q * CUP_SIZE \in Nat
        BY <2>1, <2>3
      <4> QED  BY <2>2, <2>3, <4>1
    <3> QED  BY <2>2, <2>3, <3>1 DEF Cup
  <2> QED  BY <2>5, <2>7, <2>8
<1> QED  BY <1>1, Invariant, PTL

\* The loop of blake3_hashgen_2024.c makes no more hashes than the chunks it waits for
\* and the other cups hold.
THEOREM LoopEnds == Spec => []EndsInTime
<1>1. Inv => EndsInTime
  BY DEF Inv, EndInv, EndsInTime
<1> QED  BY <1>1, Invariant, PTL

\* A bucket of the mapped plot holds its hashes in the order they came, as many as a short can
\* count; the offsets that wrap bring hashes into the bucket before only, and the process is
\* killed for no other reason than the first bucket's.
THEOREM MappingIsInOrder == Spec => []MappedInPlace
<1>1. Inv => MappedInPlace
  BY DEF Inv, MapInv, MappedInPlace
<1> QED  BY <1>1, Invariant, PTL

------------------------------------------------------------------------------
(* Sorting keeps the buckets.                                              *)

\* Two sets with a bijection of one to the other have as many elements.
LEMMA SameNumber ==
  ASSUME NEW S, NEW T, IsFiniteSet(S), NEW f \in [S -> T],
         \A x \in S, y \in S : f[x] = f[y] => x = y,
         \A y \in T : \E x \in S : f[x] = y
  PROVE  Cardinality(S) = Cardinality(T)
<1>1. f \in Bijection(S, T)
  BY DEF Bijection, Injection, IsInjective, Surjection
<1>2. ExistsBijection(S, T)
  BY <1>1 DEF ExistsBijection
<1> QED  BY <1>2, FS_Bijection

\* Places of the region of a bucket.
LEMMA InRegion ==
  ASSUME NEW h \in Nat \ {0}, NEW b \in Nat, NEW o
  PROVE  /\ o \in b * h..(b + 1) * h - 1 <=>
              o \in Nat /\ o \div h = b /\ o % h \in 0..h - 1 /\ o = b * h + (o % h)
         /\ \A m \in 0..h - 1 : /\ b * h + m \in b * h..(b + 1) * h - 1
                                /\ (b * h + m) % h = m
<1>1. \A x \in Nat : x \div h \in Nat /\ x % h \in 0..h - 1 /\ x = (x \div h) * h + (x % h)
  OBVIOUS
<1>2. b * h \in Nat /\ (b + 1) * h = b * h + h
  OBVIOUS
<1>3. ASSUME NEW x \in Nat
      PROVE  x \in b * h..(b + 1) * h - 1 <=> x \div h = b
  <2> DEFINE q == x \div h
             m == x % h
  <2>1. q \in Nat /\ m \in 0..h - 1 /\ x = q * h + m
    BY <1>1
  <2> HIDE DEF q, m
  <2>2. b <= q <=> b * h <= q * h + m
    BY <2>1, Below
  <2>3. q < b + 1 <=> q * h + m < (b + 1) * h
    BY <2>1, Below
  <2>4. q \in Nat /\ b \in Nat
    BY <2>1
  <2>5. q = b <=> b <= q /\ q < b + 1
    BY <2>4
  <2> QED  BY <1>2, <2>1, <2>2, <2>3, <2>5 DEF q
<1>4. \A m \in 0..h - 1 : b * h + m \in Nat /\ b * h + m \in b * h..(b + 1) * h - 1
  BY <1>2
<1>5. o \in b * h..(b + 1) * h - 1 => o \in Nat
  BY <1>2
<1>6. ASSUME NEW m \in 0..h - 1
      PROVE  (b * h + m) % h = m
  <2> DEFINE x == b * h + m
  <2>1. x \in Nat /\ x \div h = b
    BY <1>3, <1>4
  <2>2. x = b * h + (x % h) /\ x % h \in 0..h - 1
    BY <1>1, <2>1
  <2>3. m \in Int /\ x % h \in Int /\ b * h \in Int
    BY <1>2, <2>2
  <2>4. \A u \in Int, v \in Int, w \in Int : u + v = u + w => v = w
    OBVIOUS
  <2> QED  BY <2>2, <2>3, <2>4
<1> QED  BY <1>1, <1>3, <1>4, <1>5, <1>6

\* A file that ends where the last bucket does is cut at the borders of the buckets.
LEMMA ChunksAreBuckets ==
  ASSUME plot \in Plots, Complete
  PROVE  HashesPerChunk = BUCKET_SIZE
<1>1. NUM_BUCKETS \in Nat \ {0} /\ BUCKET_SIZE \in Nat
  BY Sizes
<1>2. HashesPerChunk = (NUM_BUCKETS * BUCKET_SIZE) \div NUM_BUCKETS
  BY <1>1, SameCardinality DEF HashesPerChunk, FromRing!HASHES_PER_CHUNK_SORT, Complete, MAX_HASHES
<1>3. \A x \in Nat \ {0}, y \in Nat : (x * y) \div x = y
  OBVIOUS
<1> QED  BY <1>1, <1>2, <1>3

\* There a bucket whose chunk is not written half way keeps its records.
LEMMA SortKeepsBag ==
  ASSUME TypeInv, SortStep, Complete, NEW b \in Buckets,
         NEW n \in Nat, NEW up \in BOOLEAN, SortedTo(n, up),
         (b + 1) * BUCKET_SIZE <= n \/ n <= b * BUCKET_SIZE
  PROVE  SameBag(b)
<1> DEFINE B == BUCKET_SIZE
           offsets == b * B..(b + 1) * B - 1
<1>1. /\ plot \in Plots /\ B \in Nat \ {0} /\ NUM_BUCKETS \in Nat \ {0} /\ b \in Nat
      /\ b < NUM_BUCKETS /\ MAX_HASHES = NUM_BUCKETS * B
  BY Sizes DEF TypeInv, Buckets, MAX_HASHES
<1>2. HashesPerChunk = B
  BY <1>1, ChunksAreBuckets
<1>3. /\ \A c \in Nat : c * B < n => ChunkOfFile(c)
      /\ \A o \in DOMAIN file :
           file'[o] = IF o < n
                      THEN file[(o \div B) * B + Source(up, o \div B, o % B)] ELSE file[o]
  BY <1>2 DEF SortedTo
<1>4. FileOK /\ program = "hashgen7"
  BY DEF TypeInv, SortStep
<1> HIDE DEF B
<1>5. offsets \subseteq DOMAIN file
  <2>1. PICK size \in Nat : DOMAIN file = 0..size - 1
    BY <1>4 DEF FileOK
  <2>2. size = NUM_BUCKETS * B
    <3>1. Cardinality(0..size - 1) = IF 0 > size - 1 THEN 0 ELSE (size - 1) - 0 + 1
      BY FS_Interval
    <3> QED  BY <1>1, <2>1, <3>1 DEF Complete
  <2>3. b * B \in Nat /\ (b + 1) * B \in Nat /\ (b + 1) * B <= NUM_BUCKETS * B
    <3>1. \A x \in Nat, y \in Nat, z \in Nat : x <= y => x * z <= y * z
      OBVIOUS
    <3>2. b + 1 \in Nat /\ b + 1 <= NUM_BUCKETS
      BY <1>1
    <3> QED  BY <1>1, <3>1, <3>2
  <2>4. \A o \in offsets : o \in 0..size - 1
    BY <2>2, <2>3
  <2> QED  BY <2>1, <2>4
<1>6. \A o \in offsets : /\ o \in Nat /\ o \div B = b /\ o % B \in 0..B - 1
                         /\ o = b * B + (o % B)
  BY <1>1, InRegion
<1>7. \A m \in 0..B - 1 : b * B + m \in offsets /\ (b * B + m) % B = m
  BY <1>1, InRegion
<1>8. IsFiniteSet(offsets)
  <2>1. b * B \in Int /\ (b + 1) * B - 1 \in Int
    BY <1>1
  <2> QED  BY <2>1, FS_Interval
<1> HIDE DEF offsets
<1> SUFFICES ASSUME NEW o \in offsets
             PROVE  Cardinality({p \in offsets : file'[p] = file[o]})
                      = Cardinality({p \in offsets : file[p] = file[o]})
  BY DEF SameBag, offsets, B
<1>9. CASE (b + 1) * B <= n
  <2> DEFINE source(m) == Source(up, b, m)
             old == {p \in offsets : file[p] = file[o]}
             new == {p \in offsets : file'[p] = file[o]}
             f == [p \in new |-> b * B + source(p % B)]
  <2>0. b * B \in Nat /\ (b + 1) * B = b * B + B
    BY <1>1
  <2>1. /\ \A m \in 0..B - 1 : source(m) \in 0..B - 1
        /\ \A m \in 0..B - 1, k \in 0..B - 1 : source(m) = source(k) => m = k
        /\ \A k \in 0..B - 1 : \E m \in 0..B - 1 : source(m) = k
    <3>1. ChunkOfFile(b)
      BY <1>1, <1>3, <1>9, <2>0
    <3> QED  BY <1>1, <1>2, <1>4, <3>1, SourceIsInChunk
  <2> HIDE DEF source
  <2>2. ASSUME NEW p \in offsets
        PROVE  file'[p] = file[b * B + source(p % B)]
    <3>1. p \div B = b /\ p = b * B + (p % B) /\ p % B \in 0..B - 1 /\ p \in DOMAIN file
      BY <1>5, <1>6
    <3>2. p < n
      BY <1>1, <1>9, <2>0, <3>1
    <3> QED  BY <1>3, <3>1, <3>2 DEF source
  <2>3. f \in [new -> old]
    <3> SUFFICES ASSUME NEW p \in new PROVE b * B + source(p % B) \in old
      OBVIOUS
    <3>1. b * B + source(p % B) \in offsets
      BY <1>6, <1>7, <2>1
    <3> QED  BY <2>2, <3>1
  <2>4. ASSUME NEW p \in new, NEW r \in new, f[p] = f[r]
        PROVE  p = r
    <3>1. /\ p % B \in 0..B - 1 /\ r % B \in 0..B - 1
          /\ p = b * B + (p % B) /\ r = b * B + (r % B)
      BY <1>6
    <3>2. b * B + source(p % B) = b * B + source(r % B)
      BY <2>4
    <3>3. source(p % B) = source(r % B)
      <4>1. source(p % B) \in Int /\ source(r % B) \in Int /\ b * B \in Int
        BY <1>1, <2>1, <3>1
      <4>2. \A u \in Int, v \in Int, w \in Int : u + v = u + w => v = w
        OBVIOUS
      <4> QED  BY <3>2, <4>1, <4>2
    <3> QED  BY <2>1, <3>1, <3>3
  <2>5. ASSUME NEW q \in old
        PROVE  \E p \in new : f[p] = q
    <3>1. q \in offsets /\ q % B \in 0..B - 1 /\ q = b * B + (q % B)
      BY <1>6
    <3>2. PICK m \in 0..B - 1 : source(m) = q % B
      BY <2>1, <3>1
    <3> DEFINE p == b * B + m
    <3>3. p \in offsets /\ p % B = m
      BY <1>7
    <3>4. file'[p] = file[q]
      <4>1. file'[p] = file[b * B + source(p % B)]
        BY <2>2, <3>3
      <4> QED  BY <3>1, <3>2, <3>3, <4>1
    <3>5. p \in new /\ b * B + source(p % B) = q
      BY <3>1, <3>2, <3>3, <3>4
    <3> HIDE DEF p
    <3> QED  BY <3>5
  <2>6. IsFiniteSet(new)
    BY <1>8, FS_Subset
  <2> HIDE DEF f, new, old
  <2>7. Cardinality(new) = Cardinality(old)
    BY <2>3, <2>4, <2>5, <2>6, SameNumber
  <2> QED  BY <2>7 DEF new, old
<1>10. CASE n <= b * B
  <2>1. ASSUME NEW p \in offsets
        PROVE  file'[p] = file[p]
    <3>1. p = b * B + (p % B) /\ p % B \in 0..B - 1 /\ p \in DOMAIN file /\ p \in Nat
      BY <1>5, <1>6
    <3>2. b * B \in Nat
      BY <1>1
    <3>3. ~(p < n)
      BY <1>10, <3>1, <3>2
    <3> QED  BY <1>3, <3>1, <3>3
  <2> QED  BY <2>1
<1> QED  BY <1>9, <1>10 DEF B

\* The bucket that is damaged is the one the writing stopped in.
LEMMA OneDamaged ==
  ASSUME TypeInv, SortStep, Complete
  PROVE  \E damaged \in Buckets : \A b \in Buckets :
           b # damaged \/ phase' = "sorted" => SameBag(b)
<1> DEFINE B == BUCKET_SIZE
<1>1. B \in Nat \ {0} /\ NUM_BUCKETS \in Nat \ {0} /\ Buckets = 0..NUM_BUCKETS - 1
  BY Sizes DEF TypeInv, Buckets
<1>2. PICK n \in Nat, up \in BOOLEAN :
        SortedTo(n, up) /\ (phase' = "sorted" => \E c \in Nat : n = c * B)
  BY SortedFile, ChunksAreBuckets DEF TypeInv
<1> HIDE DEF B
<1> DEFINE q == n \div B
           damaged == IF q < NUM_BUCKETS THEN q ELSE 0
<1>3. q \in Nat /\ n = q * B + (n % B) /\ n % B \in 0..B - 1
  BY <1>1
<1> HIDE DEF q
<1>4. damaged \in Buckets
  BY <1>1, <1>3
<1>5. ASSUME NEW b \in Buckets, b # damaged \/ phase' = "sorted"
      PROVE  (b + 1) * B <= n \/ n <= b * B
  <2>1. b \in Nat /\ b < NUM_BUCKETS
    BY <1>1
  <2>2. \A x \in Nat, y \in Nat : x <= y => x * B <= y * B
    BY <1>1
  <2>3. CASE phase' = "sorted"
    <3>1. PICK c \in Nat : n = c * B
      BY <1>2, <2>3
    <3>2. b + 1 <= c \/ c <= b
      BY <2>1
    <3> QED  BY <2>1, <2>2, <3>1, <3>2
  <2>4. CASE b # damaged
    <3>1. b + 1 <= q \/ q + 1 <= b
      BY <1>3, <2>1, <2>4
    <3>2. CASE b + 1 <= q
      <4>1. (b + 1) * B <= q * B /\ q * B \in Nat /\ (b + 1) * B \in Nat
        BY <1>1, <1>3, <2>1, <2>2, <3>2
      <4> QED  BY <1>3, <4>1
    <3>3. CASE q + 1 <= b
      <4>1. (q + 1) * B <= b * B /\ (q + 1) * B = q * B + B /\ q * B \in Nat /\ b * B \in Nat
        BY <1>1, <1>3, <2>1, <2>2, <3>3
      <4> QED  BY <1>1, <1>3, <4>1
    <3> QED  BY <3>1, <3>2, <3>3
  <2> QED  BY <1>5, <2>3, <2>4
<1>6. \A b \in Buckets : b # damaged \/ phase' = "sorted" => SameBag(b)
  BY <1>2, <1>5, SortKeepsBag DEF B
<1> HIDE DEF damaged
<1> QED  BY <1>4, <1>6

\* psort leaves every record in its bucket if the file ends where the last bucket does,
\* whatever the order; if it fails, at any record of a group, all buckets but one keep theirs.
THEOREM SortingKeepsBuckets == Spec => SortKeepsBuckets
<1>1. ASSUME Inv, Next, phase = "written", phase' \in {"sorted", "sort failed"}, Complete
      PROVE  \E damaged \in Buckets : \A b \in Buckets :
               b # damaged \/ phase' = "sorted" => SameBag(b)
  <2>1. TypeInv /\ (program \in BucketPrograms \/ program = "mmap-example")
    BY <1>1, GeneratorsAssumption DEF Inv, TypeInv, program
  <2>2. CASE program \in BucketPrograms
    <3>1. BucketStep
      BY <1>1, <2>1, <2>2, BucketSteps DEF TypeInv, vars, plotVars
    <3>2. SortStep
      BY <1>1, <3>1 DEF BucketStep, StoreStep, FlushStep, FailStep, MayMake, LeaveStep,
                        RestStep, RestFailStep, FlushRest, FailRest, SkipRest, FinishRest
    <3> QED  BY <1>1, <2>1, <3>2, OneDamaged
  <2>3. CASE program = "mmap-example"
    BY <1>1, <2>3, MapSteps DEF MapStop, MapStore, MapSkip, vars, plotVars
  <2> QED  BY <2>1, <2>2, <2>3
<1>2. Inv /\ [Next]_vars =>
        [phase = "written" /\ phase' \in {"sorted", "sort failed"} /\ Complete =>
           \E damaged \in Buckets : \A b \in Buckets :
             b # damaged \/ phase' = "sorted" => SameBag(b)]_vars
  BY <1>1
<1> QED  BY <1>2, Invariant, PTL DEF Spec, SortKeepsBuckets
==============================================================================
