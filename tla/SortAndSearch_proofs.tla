------------------------- MODULE SortAndSearch_proofs -------------------------
(***************************************************************************)
(* Theorems about sorting a plot and searching it, for any sizes, any      *)
(* number of threads and any plot.                                         *)
(*                                                                         *)
(* First those about one binarySearch: it returns a right answer, and      *)
(* reads nothing but array[-1] outside the array, for every array, target  *)
(* and size of a chunk, and all widths of int and size_t that relate as 32 *)
(* and 64 bits do.                                                         *)
(***************************************************************************)
EXTENDS SortAndSearch, SumTheorems

------------------------------------------------------------------------------
(* One search.                                                             *)

USE SearchAssumption

(***************************************************************************)
(* The inductive invariant: right is a place, or has wrapped around below  *)
(* 0; then left is 0 and the target is below the whole chunk.              *)
(***************************************************************************)
Wrapped == right \in {SIZE_T - 1, SIZE_T - 2}

Window ==
  place = "search" =>
    \/ right \in Places
    \/ Wrapped /\ left = 0 /\ target < array[0]

IInv == SearchTypeOK /\ Window /\ NotPassedBy /\ ReturnsMatch

------------------------------------------------------------------------------
\* Conversions leave small numbers as they are.
LEMMA SmallSize == ASSUME NEW x \in 0..SIZE_T - 1 PROVE size_t(x) = x
  BY DEF size_t

LEMMA SmallInt == ASSUME NEW x \in 0..Length PROVE int(x) = x
<1>1. x \in Nat /\ x < INT \div 2 /\ INT \div 2 <= INT
  OBVIOUS
<1>2. x % INT = x
  BY <1>1
<1>. QED
  BY <1>1, <1>2 DEF int

\* mid - 1 for mid = 0 and mid = -1.
LEMMA BelowZero == size_t(-1) = SIZE_T - 1 /\ size_t(-2) = SIZE_T - 2
<1>1. SIZE_T \in Nat /\ SIZE_T > 2
  OBVIOUS
<1>. QED
  BY <1>1 DEF size_t

\* Inside the array mid lies between left and right.
LEMMA MiddleInside ==
  ASSUME SearchTypeOK, right \in Places, left <= right
  PROVE  middle \in left..right /\ middle \in Places
<1>1. left \in Nat /\ right \in Nat /\ right < Length /\ Length < SIZE_T
  BY DEF SearchTypeOK, Places
<1>2. size_t(right - left) = right - left
  <2>1. right - left \in 0..SIZE_T - 1
    BY <1>1
  <2>. QED
    BY <2>1, SmallSize
<1>3. left + (right - left) \div 2 \in left..right
  BY <1>1
<1>4. int(left + (right - left) \div 2) = left + (right - left) \div 2
  <2>1. left + (right - left) \div 2 \in 0..Length
    BY <1>1, <1>3
  <2>. QED
    BY <2>1, SmallInt
<1>. QED
  BY <1>1, <1>2, <1>3, <1>4 DEF middle, Places

\* When right has wrapped around, mid is -1.
LEMMA MiddleOutside ==
  ASSUME Wrapped, left = 0
  PROVE  middle = -1 /\ middle \notin Places
<1>1. right \in 0..SIZE_T - 1 /\ size_t(right - left) = right
  <2>1. right \in 0..SIZE_T - 1 /\ right - left = right
    BY DEF Wrapped
  <2>. QED
    BY <2>1, SmallSize
<1>2. (right \div 2) % INT = INT - 1
  BY DEF Wrapped
<1>3. int(right \div 2) = -1
  BY <1>2 DEF int
<1>4. left + (right \div 2) = right \div 2
  BY <1>1
<1>5. middle = -1
  BY <1>1, <1>3, <1>4 DEF middle
<1>. QED
  BY <1>5 DEF Places

------------------------------------------------------------------------------
LEMMA CallKeepsIInv ==
  ASSUME IInv, NEW a \in Arrays, NEW t \in Keys, Call(a, t)
  PROVE  IInv'
<1>. USE DEF IInv, Call
<1>1. SearchTypeOK'
  BY DEF SearchTypeOK
<1>2. right' \in Places
  BY DEF Places
<1>3. Window'
  BY <1>2 DEF Window, Places
<1>4. NotPassedBy'
  BY DEF NotPassedBy, Places
<1>5. ReturnsMatch'
  BY DEF ReturnsMatch
<1>. QED
  BY <1>1, <1>3, <1>4, <1>5

LEMMA NotFoundKeepsIInv ==
  ASSUME IInv, NotFound
  PROVE  IInv'
<1>. USE DEF IInv, NotFound
<1>1. SearchTypeOK'
  BY DEF SearchTypeOK
<1>2. Window' /\ NotPassedBy'
  BY DEF Window, NotPassedBy
<1>3. ReturnsMatch'
  <2>. SUFFICES ASSUME Sorted'
                PROVE  \A p \in Places : array[p] # target
    BY DEF ReturnsMatch
  <2>1. Sorted
    BY DEF Sorted
  <2>2. \A p \in Places : array[p] = target => left <= p /\ p <= right
    BY <2>1 DEF NotPassedBy
  <2>3. left \in Int /\ right \in Int /\ left > right
    BY DEF SearchTypeOK
  <2>. QED
    BY <2>2, <2>3 DEF Places
<1>. QED
  BY <1>1, <1>2, <1>3

\* An answer from outside the array, -1, is the answer of a target not there.
LEMMA FoundKeepsIInv ==
  ASSUME IInv, Found
  PROVE  IInv'
<1>. USE DEF IInv, Found
<1>1. CASE right \in Places
  <2>1. middle \in Places
    BY <1>1, MiddleInside
  <2>2. array[middle] = target
    BY <2>1 DEF compare
  <2>3. SearchTypeOK'
    BY <2>1 DEF SearchTypeOK, Places
  <2>4. Window' /\ NotPassedBy'
    BY DEF Window, NotPassedBy
  <2>5. ReturnsMatch'
    BY <2>1, <2>2 DEF ReturnsMatch
  <2>. QED
    BY <2>3, <2>4, <2>5
<1>2. CASE Wrapped /\ left = 0 /\ target < array[0]
  <2>1. middle = -1
    BY <1>2, MiddleOutside
  <2>2. SearchTypeOK'
    BY <2>1 DEF SearchTypeOK
  <2>3. Window' /\ NotPassedBy'
    BY DEF Window, NotPassedBy
  <2>4. ReturnsMatch'
    <3>. SUFFICES ASSUME Sorted', NEW p \in Places
                  PROVE  array[p] # target
      BY <2>1 DEF ReturnsMatch
    <3>1. 0 \in Places /\ 0 <= p
      BY DEF Places
    <3>2. array[0] <= array[p]
      BY <3>1 DEF Sorted
    <3>3. array[0] \in Int /\ array[p] \in Int /\ target \in Int
      BY <3>1 DEF SearchTypeOK, Arrays
    <3>. QED
      BY <1>2, <3>2, <3>3
  <2>. QED
    BY <2>2, <2>3, <2>4
<1>. QED
  BY <1>1, <1>2 DEF Window

LEMMA SearchLeftKeepsIInv ==
  ASSUME IInv, SearchLeft
  PROVE  IInv'
<1>. USE DEF IInv, SearchLeft
<1>1. ReturnsMatch'
  BY DEF ReturnsMatch
<1>2. outside' \in {-1, 0, 1}
  BY DEF SearchTypeOK
<1>3. CASE right \in Places
  <2>1. middle \in Places /\ middle \in left..right
    BY <1>3, MiddleInside
  <2>2. array[middle] \in Int /\ target \in Int /\ target < array[middle]
    <3>1. array[middle] \in Int /\ target \in Int
      BY <2>1 DEF SearchTypeOK, Arrays
    <3>2. target < array[middle]
      BY <2>1 DEF compare
    <3>. QED
      BY <3>1, <3>2
  <2>3. CASE middle = 0
    <3>1. right' = SIZE_T - 1 /\ left' = 0
      BY <2>1, <2>3, BelowZero DEF GoLeft, SearchTypeOK, Places
    <3>2. SearchTypeOK'
      BY <3>1, <1>2 DEF SearchTypeOK
    <3>3. Window'
      BY <2>2, <2>3, <3>1 DEF Window, Wrapped
    <3>4. NotPassedBy'
      BY <3>1 DEF NotPassedBy, Places
    <3>. QED
      BY <1>1, <3>2, <3>3, <3>4
  <2>4. CASE middle # 0
    <3>1. right' = middle - 1 /\ right' \in Places
      <4>1. middle - 1 \in 0..SIZE_T - 1
        BY <2>1, <2>4 DEF Places
      <4>2. size_t(middle - 1) = middle - 1
        BY <4>1, SmallSize
      <4>. QED
        BY <2>1, <2>4, <4>2 DEF GoLeft, Places
    <3>2. SearchTypeOK'
      BY <3>1, <1>2 DEF SearchTypeOK, Places
    <3>3. Window'
      BY <3>1 DEF Window
    <3>4. NotPassedBy'
      <4>. SUFFICES ASSUME Sorted', NEW p \in Places, array[p] = target
                    PROVE  left <= p /\ p <= middle - 1
        BY <3>1 DEF NotPassedBy
      <4>1. left <= p /\ p <= right
        BY DEF NotPassedBy, Sorted
      <4>2. ~(middle <= p)
        BY <2>1, <2>2 DEF Sorted
      <4>. QED
        BY <2>1, <4>1, <4>2 DEF Places
    <3>. QED
      BY <1>1, <3>2, <3>3, <3>4
  <2>. QED
    BY <2>3, <2>4
<1>4. CASE Wrapped /\ left = 0 /\ target < array[0]
  <2>1. middle = -1
    BY <1>4, MiddleOutside
  <2>2. right' = SIZE_T - 2 /\ left' = 0
    BY <1>4, <2>1, BelowZero DEF GoLeft
  <2>3. SearchTypeOK'
    BY <2>2, <1>2 DEF SearchTypeOK
  <2>4. Window'
    BY <1>4, <2>2 DEF Window, Wrapped
  <2>5. NotPassedBy'
    BY <2>2 DEF NotPassedBy, Places
  <2>. QED
    BY <1>1, <2>3, <2>4, <2>5
<1>. QED
  BY <1>3, <1>4 DEF Window

LEMMA SearchRightKeepsIInv ==
  ASSUME IInv, SearchRight
  PROVE  IInv'
<1>. USE DEF IInv, SearchRight
<1>1. ReturnsMatch'
  BY DEF ReturnsMatch
<1>2. CASE right \in Places
  <2>1. middle \in Places /\ middle \in left..right
    BY <1>2, MiddleInside
  <2>2. array[middle] \in Int /\ target \in Int /\ array[middle] < target
    <3>1. array[middle] \in Int /\ target \in Int
      BY <2>1 DEF SearchTypeOK, Arrays
    <3>2. target # array[middle] /\ ~(target < array[middle])
      BY <2>1 DEF compare
    <3>. QED
      BY <3>1, <3>2
  <2>3. left' = middle + 1
    <3>1. middle + 1 \in 0..SIZE_T - 1
      BY <2>1 DEF Places
    <3>2. size_t(middle + 1) = middle + 1
      BY <3>1, SmallSize
    <3>. QED
      BY <3>2 DEF GoRight
  <2>4. SearchTypeOK'
    BY <2>1, <2>3 DEF SearchTypeOK, Places
  <2>5. Window'
    BY <1>2 DEF Window
  <2>6. NotPassedBy'
    <3>. SUFFICES ASSUME Sorted', NEW p \in Places, array[p] = target
                  PROVE  middle + 1 <= p /\ p <= right
      BY <2>3 DEF NotPassedBy
    <3>1. left <= p /\ p <= right
      BY DEF NotPassedBy, Sorted
    <3>2. ~(p <= middle)
      BY <2>1, <2>2 DEF Sorted
    <3>. QED
      BY <2>1, <3>1, <3>2 DEF Places
  <2>. QED
    BY <1>1, <2>4, <2>5, <2>6
<1>3. CASE Wrapped /\ left = 0 /\ target < array[0]
  <2>1. middle = -1
    BY <1>3, MiddleOutside
  <2>2. left' = 0
    BY <2>1, SmallSize DEF GoRight
  <2>3. SearchTypeOK'
    BY <2>2 DEF SearchTypeOK
  <2>4. Window' /\ NotPassedBy'
    BY <1>3, <2>2 DEF Window, NotPassedBy, Wrapped, Sorted
  <2>. QED
    BY <1>1, <2>3, <2>4
<1>. QED
  BY <1>2, <1>3 DEF Window

LEMMA BackKeepsIInv ==
  ASSUME IInv, Back
  PROVE  IInv'
  BY DEF IInv, Back, SearchTypeOK, Window, NotPassedBy, ReturnsMatch

------------------------------------------------------------------------------
LEMMA Invariance == SearchSpec => []IInv
<1>1. initSearch => IInv
  BY DEF initSearch, IInv, SearchTypeOK, Window, NotPassedBy, ReturnsMatch
<1>2. ASSUME IInv, [SearchNext]_searchVars
      PROVE  IInv'
  <2>1. CASE \E a \in Arrays, t \in Keys : Call(a, t)
    BY <1>2, <2>1, CallKeepsIInv
  <2>2. CASE NotFound
    BY <1>2, <2>2, NotFoundKeepsIInv
  <2>3. CASE Found
    BY <1>2, <2>3, FoundKeepsIInv
  <2>4. CASE SearchLeft
    BY <1>2, <2>4, SearchLeftKeepsIInv
  <2>5. CASE SearchRight
    BY <1>2, <2>5, SearchRightKeepsIInv
  <2>6. CASE Back
    BY <1>2, <2>6, BackKeepsIInv
  <2>7. CASE UNCHANGED searchVars
    BY <1>2, <2>7 DEF IInv, SearchTypeOK, Window, Wrapped, NotPassedBy, ReturnsMatch,
                      Sorted, searchVars
  <2>. QED
    BY <1>2, <2>1, <2>2, <2>3, <2>4, <2>5, <2>6, <2>7 DEF SearchNext, Iterate
<1>. QED
  BY <1>1, <1>2, PTL DEF SearchSpec

\* In a sorted chunk binarySearch answers with a place of the target, or with -1
\* if it has none, for every array, target and size (bsearch.c:61-89).
THEOREM RightAnswer == SearchSpec => []ReturnsMatch
<1>1. IInv => ReturnsMatch
  BY DEF IInv
<1>. QED
  BY <1>1, Invariance, PTL

\* A target that is there is never passed by (bsearch.c:75-84).
THEOREM NeverPassedBy == SearchSpec => []NotPassedBy
<1>1. IInv => NotPassedBy
  BY DEF IInv
<1>. QED
  BY <1>1, Invariance, PTL

\* All that is ever read outside the array is array[-1], for a target below the
\* chunk (bsearch.c:78).
THEOREM StaysInsideUnlessBelow == SearchSpec => []LeavesArrayOnlyBelow
<1>1. IInv => LeavesArrayOnlyBelow
  <2>. SUFFICES ASSUME IInv, place = "search", left <= right
                PROVE  middle \in Places \/ (middle = -1 /\ target < array[0])
    BY DEF LeavesArrayOnlyBelow
  <2>1. CASE right \in Places
    BY <2>1, MiddleInside DEF IInv
  <2>2. CASE Wrapped /\ left = 0 /\ target < array[0]
    BY <2>2, MiddleOutside
  <2>. QED
    BY <2>1, <2>2 DEF IInv, Window
<1>. QED
  BY <1>1, Invariance, PTL

HIDE SearchAssumption

------------------------------------------------------------------------------
(* The whole program.                                                      *)

\* The part of thread t in memory.
Part(t) == [k \in InChunk |-> buckets[bucket(t) + k]]

\* A thread that is not finished has its chunk of the plot in memory, one that is has
\* sorted it.
GroupInv ==
  /\ sorting # {} => phase = "sort"
  /\ phase = "done" => i = Groups
  /\ phase = "sort" =>
       /\ i < Groups
       /\ buckets \in [0..GroupSize - 1 -> Records]
       /\ \A t \in Threads :
            IF t \in sorting THEN Part(t) = Chunk(plot, i * NUM_THREADS + t)
            ELSE InOrder(Part(t)) /\ SameRecords(Part(t), Chunk(plot, i * NUM_THREADS + t))

SortInv == SortTypeOK /\ GroupInv /\ SortedSoFar /\ RestUntouched

\* Chunk n of the bucket searched, and the chunk main is at.
InBucket(n) == prefix * numberOfSortedBuckets + n
Here == InBucket(j)
Holds(f, c, r) == \E k \in InChunk : Chunk(f, c)[k] = r

\* What is found is there, in an unsorted chunk too.
FoundIsThere == place = "returned" /\ result # -1 => result \in Places /\ array[result] = target

\* main searches a plot that is no longer sorted by anybody; the chunk in memory is the
\* one it is at, and the sorted chunks before it did not hold the target.
MainInv ==
  /\ main # "start" => phase = "done" /\ goal \in Keys
  /\ main = "start" => j = 0
  /\ main # "call" => place = "idle"
  /\ main = "call" =>
       /\ place # "idle" /\ j < numberOfSortedBuckets
       /\ array = Chunk(file, Here) /\ target = goal
  /\ main = "not found" => j = numberOfSortedBuckets
  /\ main # "found" /\ SortedBucket(prefix) => \A n \in 0..j - 1 : ~Holds(plot, InBucket(n), goal)
  /\ main = "found" => goal \in Bucket(prefix)

MainTypeOK ==
  /\ main \in {"start", "read", "call", "found", "not found", "failed"}
  /\ goal \in Keys \cup {0}
  /\ prefix \in 0..NUM_BUCKETS - 1
  /\ j \in 0..numberOfSortedBuckets

WholeInv == SortInv /\ IInv /\ FoundIsThere /\ MainTypeOK /\ MainInv

------------------------------------------------------------------------------
(* Places of the plot.                                                     *)

\* Chunks lie in the plot, and groups are made of chunks.
LEMMA SortSizes ==
  /\ NUM_BUCKETS \in Nat \ {0} /\ NUM_THREADS \in Nat \ {0} /\ BUCKET_SIZE \in Nat \ {0}
  /\ HASHES_PER_CHUNK_SORT \in Nat \ {0}
  /\ NUM_CHUNKS_SORT \in Nat /\ Groups \in Nat /\ GroupSize \in Nat \ {0}
  /\ NUM_CHUNKS_SORT * HASHES_PER_CHUNK_SORT <= NUM_BUCKETS * BUCKET_SIZE
  /\ Groups * NUM_THREADS <= NUM_CHUNKS_SORT
<1> DEFINE H == HASHES_PER_CHUNK_SORT
           n == BUCKET_SIZE \div H
<1>1. /\ NUM_BUCKETS \in Nat \ {0} /\ NUM_THREADS \in Nat \ {0} /\ BUCKET_SIZE \in Nat \ {0}
      /\ H \in Nat \ {0}
  BY SortAssumption
<1>2. \A a \in Nat, b \in Nat \ {0} : a \div b \in Nat /\ (a \div b) * b <= a
  OBVIOUS
<1>3. n \in Nat /\ n * H <= BUCKET_SIZE
  BY <1>1, <1>2
<1>4. NUM_CHUNKS_SORT = n * NUM_BUCKETS
  BY DEF NUM_CHUNKS_SORT
<1> HIDE DEF H, n
<1>5. NUM_CHUNKS_SORT \in Nat
  BY <1>1, <1>3, <1>4
<1>6. Groups \in Nat /\ Groups * NUM_THREADS <= NUM_CHUNKS_SORT
  BY <1>1, <1>2, <1>5 DEF Groups
<1>7. GroupSize \in Nat \ {0}
  <2>1. \A a, b \in Nat \ {0} : a * b \in Nat \ {0}
    OBVIOUS
  <2> QED  BY <1>1, <2>1 DEF GroupSize, H
<1>8. NUM_CHUNKS_SORT * H <= NUM_BUCKETS * BUCKET_SIZE
  <2>1. \A a, b, c, d \in Nat : a * b <= c => (a * d) * b <= d * c
    <3> SUFFICES ASSUME NEW a \in Nat, NEW b \in Nat, NEW c \in Nat, NEW d \in Nat,
                        a * b <= c
                 PROVE  d * (a * b) <= d * c
      OBVIOUS
    <3> QED  OBVIOUS
  <2> QED  BY <1>1, <1>3, <1>4, <2>1
<1> QED  BY <1>1, <1>5, <1>6, <1>7, <1>8 DEF H

LEMMA PlaceInFile ==
  ASSUME NEW c \in Chunks, NEW k \in InChunk
  PROVE  c * HASHES_PER_CHUNK_SORT + k \in Offsets
<1>1. c \in Int /\ k \in Int /\ 0 <= c /\ c < NUM_CHUNKS_SORT /\ 0 <= k
  BY SortSizes DEF Chunks, InChunk
<1>2. c * HASHES_PER_CHUNK_SORT + k < NUM_CHUNKS_SORT * HASHES_PER_CHUNK_SORT
  BY <1>1, SortSizes, Below DEF InChunk
<1>3. /\ c * HASHES_PER_CHUNK_SORT \in Nat
      /\ NUM_CHUNKS_SORT * HASHES_PER_CHUNK_SORT \in Int /\ NUM_BUCKETS * BUCKET_SIZE \in Int
  BY <1>1, SortSizes
<1> QED  BY <1>1, <1>2, <1>3, SortSizes DEF Offsets

\* A place of chunk c, seen from group g.
LEMMA PlaceInGroup ==
  ASSUME NEW g \in Int, NEW c \in Int, NEW k \in InChunk
  PROVE  /\ (c * HASHES_PER_CHUNK_SORT + k) - g * GroupSize
              = (c - g * NUM_THREADS) * HASHES_PER_CHUNK_SORT + k
         /\ (c * HASHES_PER_CHUNK_SORT + k) - g * GroupSize \in 0..GroupSize - 1
              <=> c - g * NUM_THREADS \in Threads
<1> DEFINE H == HASHES_PER_CHUNK_SORT
           T == NUM_THREADS
           d == c - g * T
<1>1. H \in Nat \ {0} /\ T \in Nat \ {0} /\ k \in 0..H - 1 /\ GroupSize = T * H
  BY SortSizes DEF InChunk, GroupSize
<1>2. d \in Int
  BY <1>1
<1>3. (c * H + k) - g * (T * H) = (c - g * T) * H + k
  BY <1>1
<1>4. /\ d < T <=> d * H + k < T * H
      /\ 0 <= d <=> 0 * H <= d * H + k
  <2> HIDE DEF d, H, T
  <2>1. 0 \in Int /\ T \in Int
    BY <1>1
  <2> QED  BY <1>1, <1>2, <2>1, Below
<1>5. d * H \in Int /\ T * H \in Int /\ 0 * H = 0
  BY <1>1, <1>2
<1>6. d * H + k \in 0..T * H - 1 <=> d \in 0..T - 1
  <2> HIDE DEF d
  <2> QED  BY <1>1, <1>2, <1>4, <1>5
<1> QED  BY <1>1, <1>3, <1>6 DEF Threads

\* A place of the part of thread u is in the part of thread t only if they are one.
LEMMA PlaceInPart ==
  ASSUME NEW t \in Int, NEW u \in Int, NEW k \in InChunk
  PROVE  (bucket(u) + k) - bucket(t) \in InChunk <=> u = t
<1> DEFINE H == HASHES_PER_CHUNK_SORT
           d == u - t
<1>1. H \in Nat \ {0} /\ k \in 0..H - 1 /\ d \in Int
  BY SortSizes DEF InChunk
<1>2. (bucket(u) + k) - bucket(t) = d * H + k
  BY <1>1 DEF bucket
<1>3. /\ d < 1 <=> d * H + k < 1 * H
      /\ 0 <= d <=> 0 * H <= d * H + k
  <2> HIDE DEF d, H
  <2> QED  BY <1>1, Below
<1>4. d * H \in Int /\ 1 * H = H /\ 0 * H = 0
  BY <1>1
<1>5. d * H + k \in 0..H - 1 <=> d = 0
  <2> HIDE DEF d
  <2> QED  BY <1>1, <1>3, <1>4
<1> QED  BY <1>2, <1>5 DEF InChunk

------------------------------------------------------------------------------
(* Steps of the sort.                                                      *)

\* The chunks of a group, and the part of the memory each is read into.
LEMMA ChunkOfThread ==
  ASSUME i \in Nat, i < Groups, NEW t \in Threads
  PROVE  i * NUM_THREADS + t \in Chunks
<1>1. (i + 1) * NUM_THREADS <= Groups * NUM_THREADS
  BY SortSizes
<1>2. (i + 1) * NUM_THREADS = i * NUM_THREADS + NUM_THREADS /\ i * NUM_THREADS \in Nat
  BY SortSizes
<1>3. Groups * NUM_THREADS \in Int
  BY SortSizes
<1> QED  BY <1>1, <1>2, <1>3, SortSizes DEF Threads, Chunks

LEMMA MemoryOfThread ==
  ASSUME i \in Nat, NEW t \in Threads, NEW k \in InChunk
  PROVE  /\ bucket(t) + k \in 0..GroupSize - 1
         /\ bucket_location + (bucket(t) + k)
              = (i * NUM_THREADS + t) * HASHES_PER_CHUNK_SORT + k
<1> DEFINE c == i * NUM_THREADS + t
<1>1. c \in Int /\ c - i * NUM_THREADS = t /\ t \in Int
  BY SortSizes DEF Threads
<1> HIDE DEF c
<1>2. /\ (c * HASHES_PER_CHUNK_SORT + k) - i * GroupSize = t * HASHES_PER_CHUNK_SORT + k
      /\ (c * HASHES_PER_CHUNK_SORT + k) - i * GroupSize \in 0..GroupSize - 1
  BY <1>1, PlaceInGroup
<1>3. /\ c * HASHES_PER_CHUNK_SORT \in Int /\ i * GroupSize \in Int /\ k \in Int
      /\ t * HASHES_PER_CHUNK_SORT \in Int
  BY <1>1, SortSizes DEF InChunk
<1> QED  BY <1>2, <1>3 DEF bucket, bucket_location, c

\* The sizes of groups, in order.
LEMMA GroupsInOrder ==
  ASSUME NEW g \in Nat
  PROVE  /\ g * GroupSize \in Nat /\ (g + 1) * GroupSize = g * GroupSize + GroupSize
         /\ g * NUM_THREADS \in Nat /\ (g + 1) * NUM_THREADS = g * NUM_THREADS + NUM_THREADS
BY SortSizes

\* A group that is read is what it was in the plot.
LEMMA ReadKeeps ==
  ASSUME SortInv, Read
  PROVE  SortInv'
<1>1. /\ phase = "read" /\ i < Groups /\ phase' = "sort" /\ sorting' = Threads
      /\ UNCHANGED <<file, i, plot>>
      /\ buckets' = [s \in 0..GroupSize - 1 |-> file[bucket_location + s]]
  BY DEF Read
<1>2. /\ file \in [Offsets -> Records] /\ plot \in [Offsets -> Records] /\ i \in Nat
  BY SortSizes DEF SortInv, SortTypeOK
<1>3. ASSUME NEW t \in Threads, NEW k \in InChunk
      PROVE  buckets'[bucket(t) + k] = plot[(i * NUM_THREADS + t) * HASHES_PER_CHUNK_SORT + k]
  <2> DEFINE o == (i * NUM_THREADS + t) * HASHES_PER_CHUNK_SORT + k
  <2>1. bucket(t) + k \in 0..GroupSize - 1 /\ bucket_location + (bucket(t) + k) = o
    BY <1>2, MemoryOfThread
  <2>2. o \in Offsets
    BY <1>1, <1>2, ChunkOfThread, PlaceInFile
  <2>3. o >= i * GroupSize
    <3> HIDE DEF o
    <3> QED  BY <1>2, <2>1, GroupsInOrder, SortSizes DEF bucket_location
  <2>4. file[o] = plot[o]
    BY <1>1, <2>2, <2>3 DEF SortInv, RestUntouched
  <2> QED  BY <1>1, <2>1, <2>4
<1>4. buckets' \in [0..GroupSize - 1 -> Records]
  <2> SUFFICES ASSUME NEW s \in 0..GroupSize - 1 PROVE bucket_location + s \in Offsets
    BY <1>1, <1>2
  <2>1. (i + 1) * GroupSize <= Groups * GroupSize
    BY <1>1, <1>2, SortSizes
  <2>2. Groups * GroupSize <= NUM_CHUNKS_SORT * HASHES_PER_CHUNK_SORT
    <3>1. (Groups * NUM_THREADS) * HASHES_PER_CHUNK_SORT
            <= NUM_CHUNKS_SORT * HASHES_PER_CHUNK_SORT
      <4>1. \A a, b, c \in Nat : a <= b => a * c <= b * c
        OBVIOUS
      <4>2. Groups * NUM_THREADS \in Nat
        BY SortSizes
      <4> QED  BY <4>1, <4>2, SortSizes
    <3>2. Groups * GroupSize = (Groups * NUM_THREADS) * HASHES_PER_CHUNK_SORT
      BY SortSizes DEF GroupSize
    <3> QED  BY <3>1, <3>2
  <2>3. /\ Groups * GroupSize \in Int /\ NUM_BUCKETS * BUCKET_SIZE \in Int
        /\ NUM_CHUNKS_SORT * HASHES_PER_CHUNK_SORT \in Int
    BY SortSizes
  <2>4. i * GroupSize \in Nat /\ (i + 1) * GroupSize = i * GroupSize + GroupSize
    BY <1>2, GroupsInOrder
  <2> QED  BY <2>1, <2>2, <2>3, <2>4, SortSizes DEF bucket_location, Offsets
<1>5. GroupInv'
  <2>1. \A t \in Threads : Part(t)' = Chunk(plot, i * NUM_THREADS + t)
    BY <1>3 DEF Part, Chunk
  <2> QED  BY <1>1, <1>4, <2>1 DEF GroupInv, Groups, Threads, GroupSize, NUM_CHUNKS_SORT, Chunk
<1>6. SortTypeOK'
  BY <1>1, <1>4 DEF SortInv, SortTypeOK
<1>7. SortedSoFar' /\ RestUntouched'
  BY <1>1 DEF SortInv, SortedSoFar, RestUntouched
<1> QED  BY <1>5, <1>6, <1>7 DEF SortInv

\* A thread sorts its part and no other.
LEMMA SortBucketKeeps ==
  ASSUME SortInv, NEW t \in Threads, sortBucket(t)
  PROVE  SortInv'
<1>1. /\ t \in sorting /\ phase = "sort" /\ sorting' = sorting \ {t}
      /\ UNCHANGED <<file, i, phase, plot>>
      /\ buckets \in [0..GroupSize - 1 -> Records]
      /\ i \in Nat
  BY SortSizes DEF sortBucket, SortInv, GroupInv, SortTypeOK
<1>2. PICK sorted \in [InChunk -> Records] :
        /\ InOrder(sorted) /\ SameRecords(sorted, Part(t))
        /\ buckets' = [s \in DOMAIN buckets |->
                         IF s - bucket(t) \in InChunk THEN sorted[s - bucket(t)]
                         ELSE buckets[s]]
  BY DEF sortBucket, Part
<1>3. buckets' \in [0..GroupSize - 1 -> Records]
  BY <1>1, <1>2
<1>4. ASSUME NEW u \in Threads
      PROVE  Part(u)' = IF u = t THEN sorted ELSE Part(u)
  <2>1. ASSUME NEW k \in InChunk
        PROVE  buckets'[bucket(u) + k] = IF u = t THEN sorted[k] ELSE buckets[bucket(u) + k]
    <3>1. bucket(u) + k \in DOMAIN buckets
      BY <1>1, MemoryOfThread
    <3>2. (bucket(u) + k) - bucket(t) \in InChunk <=> u = t
      BY PlaceInPart DEF Threads
    <3>3. u = t => (bucket(u) + k) - bucket(t) = k
      <4>1. bucket(t) \in Int /\ k \in Int
        BY SortSizes DEF bucket, Threads, InChunk
      <4> QED  BY <4>1
    <3> DEFINE s == bucket(u) + k
    <3>4. buckets'[s] = IF s - bucket(t) \in InChunk THEN sorted[s - bucket(t)] ELSE buckets[s]
      BY <1>2, <3>1
    <3> QED  BY <3>2, <3>3, <3>4
  <2> QED  BY <1>2, <2>1 DEF Part
<1>5. GroupInv'
  <2>1. i < Groups
    BY <1>1 DEF SortInv, GroupInv
  <2>2. ASSUME NEW u \in Threads
        PROVE  IF u \in sorting' THEN Part(u)' = Chunk(plot, i * NUM_THREADS + u)
               ELSE /\ InOrder(Part(u)')
                    /\ SameRecords(Part(u)', Chunk(plot, i * NUM_THREADS + u))
    <3>1. CASE u = t
      <4>1. Part(t) = Chunk(plot, i * NUM_THREADS + t)
        BY <1>1 DEF SortInv, GroupInv
      <4> QED  BY <1>1, <1>2, <1>4, <3>1, <4>1
    <3>2. CASE u # t
      BY <1>1, <1>4, <3>2 DEF SortInv, GroupInv
    <3> QED  BY <3>1, <3>2
  <2> QED  BY <1>1, <1>3, <2>1, <2>2
           DEF GroupInv, InOrder, SameRecords, Chunk
<1>6. SortTypeOK'
  BY <1>1, <1>3 DEF SortInv, SortTypeOK
<1>7. SortedSoFar' /\ RestUntouched'
  BY <1>1 DEF SortInv, SortedSoFar, RestUntouched
<1> QED  BY <1>5, <1>6, <1>7 DEF SortInv

\* What is written, chunk by chunk.
LEMMA ChunksWritten ==
  ASSUME SortInv, phase = "sort", file' = written(GroupSize), NEW c \in Chunks
  PROVE  Chunk(file', c) = IF c - i * NUM_THREADS \in Threads THEN Part(c - i * NUM_THREADS)
                           ELSE Chunk(file, c)
<1> DEFINE t == c - i * NUM_THREADS
<1>1. i \in Nat /\ c \in Int /\ t \in Int
  BY SortSizes DEF SortInv, SortTypeOK, Chunks
<1>2. ASSUME NEW k \in InChunk
      PROVE  file'[c * HASHES_PER_CHUNK_SORT + k] =
               IF t \in Threads THEN buckets[bucket(t) + k]
               ELSE file[c * HASHES_PER_CHUNK_SORT + k]
  <2> DEFINE o == c * HASHES_PER_CHUNK_SORT + k
  <2>1. o \in Offsets
    BY PlaceInFile
  <2>2. o - i * GroupSize = bucket(t) + k /\ (o - i * GroupSize \in 0..GroupSize - 1 <=> t \in Threads)
    BY <1>1, PlaceInGroup DEF bucket
  <2> HIDE DEF o, t
  <2>3. file'[o] = IF o - i * GroupSize \in 0..GroupSize - 1 THEN buckets[o - i * GroupSize]
                   ELSE file[o]
    BY <2>1 DEF written, bucket_location
  <2> QED  BY <2>2, <2>3 DEF o
<1> QED  BY <1>2 DEF Chunk, Part

\* A group written back is sorted, and what follows is as it was.
LEMMA WriteKeeps ==
  ASSUME SortInv, Write
  PROVE  SortInv'
<1>1. /\ phase = "sort" /\ sorting = {} /\ file' = written(GroupSize) /\ buckets' = <<>>
      /\ i' = i + 1 /\ phase' = "read" /\ UNCHANGED <<sorting, plot>>
  BY DEF Write
<1>2. /\ i \in Nat /\ i < Groups /\ file \in [Offsets -> Records]
      /\ plot \in [Offsets -> Records]
      /\ buckets \in [0..GroupSize - 1 -> Records]
  BY <1>1, SortSizes DEF SortInv, SortTypeOK, GroupInv
<1>3. file' \in [Offsets -> Records]
  BY <1>1, <1>2 DEF written
<1>4. SortTypeOK'
  BY <1>1, <1>2, <1>3, SortSizes DEF SortInv, SortTypeOK
<1>5. GroupInv'
  BY <1>1 DEF GroupInv
<1>6. SortedSoFar'
  <2> SUFFICES ASSUME NEW c \in Chunks, c < (i + 1) * NUM_THREADS
               PROVE  /\ InOrder(Chunk(file', c))
                      /\ SameRecords(Chunk(file', c), Chunk(plot, c))
    <3>1. \A c : /\ InOrder(Chunk(file, c))' <=> InOrder(Chunk(file', c))
                /\ SameRecords(Chunk(file, c), Chunk(plot, c))'
                     <=> SameRecords(Chunk(file', c), Chunk(plot, c))
      BY <1>1 DEF InOrder, SameRecords, Chunk
    <3> QED  BY <1>1, <3>1 DEF SortedSoFar
  <2> DEFINE t == c - i * NUM_THREADS
  <2>1. Chunk(file', c) = IF t \in Threads THEN Part(t) ELSE Chunk(file, c)
    BY <1>1, ChunksWritten
  <2>2. /\ c \in Int /\ i * NUM_THREADS \in Int
        /\ (i + 1) * NUM_THREADS = i * NUM_THREADS + NUM_THREADS
    BY <1>2, GroupsInOrder, SortSizes DEF Chunks
  <2>3. i * NUM_THREADS + t = c /\ (t \notin Threads => c < i * NUM_THREADS)
    BY <2>2, SortSizes DEF Threads
  <2> HIDE DEF t
  <2>4. CASE t \in Threads
    BY <1>1, <2>1, <2>3, <2>4 DEF SortInv, GroupInv
  <2>5. CASE t \notin Threads
    BY <2>1, <2>3, <2>5 DEF SortInv, SortedSoFar
  <2> QED  BY <2>4, <2>5
<1>7. RestUntouched'
  <2> SUFFICES ASSUME NEW o \in Offsets, o >= (i + 1) * GroupSize
               PROVE  file'[o] = plot[o]
    BY <1>1 DEF RestUntouched, Offsets
  <2>1. /\ i * GroupSize \in Nat /\ (i + 1) * GroupSize = i * GroupSize + GroupSize
        /\ o \in Int /\ GroupSize \in Nat
    BY <1>2, GroupsInOrder, SortSizes DEF Offsets
  <2>2. o >= i * GroupSize /\ ~(o - i * GroupSize \in 0..GroupSize - 1)
    BY <2>1
  <2> QED  BY <1>1, <2>2 DEF written, bucket_location, SortInv, RestUntouched
<1> QED  BY <1>4, <1>5, <1>6, <1>7 DEF SortInv

\* A write that fails half way stays in its group.
LEMMA WriteFailsKeeps ==
  ASSUME SortInv, WriteFails
  PROVE  SortInv'
<1>1. PICK n \in 0..GroupSize - 1 : file' = written(n)
  BY DEF WriteFails
<1>2. /\ phase = "sort" /\ phase' = "failed" /\ sorting = {}
      /\ UNCHANGED <<buckets, i, sorting, plot>>
  BY DEF WriteFails
<1>3. /\ i \in Nat /\ i < Groups /\ file \in [Offsets -> Records]
      /\ plot \in [Offsets -> Records]
      /\ buckets \in [0..GroupSize - 1 -> Records]
  BY <1>2, SortSizes DEF SortInv, SortTypeOK, GroupInv
<1>4. /\ i * GroupSize \in Nat /\ (i + 1) * GroupSize = i * GroupSize + GroupSize
      /\ GroupSize \in Nat
  BY <1>3, GroupsInOrder, SortSizes
<1>5. \A o \in Offsets : ~(o - i * GroupSize \in 0..GroupSize - 1) => file'[o] = file[o]
  <2> SUFFICES ASSUME NEW o \in Offsets, ~(o - i * GroupSize \in 0..GroupSize - 1)
               PROVE  ~(o - i * GroupSize \in 0..n - 1)
    BY <1>1 DEF written, bucket_location
  <2>1. o - i * GroupSize \in Int
    BY <1>4 DEF Offsets
  <2> QED  BY <1>4, <2>1
<1>6. file' \in [Offsets -> Records]
  <2> SUFFICES ASSUME NEW o \in Offsets, o - i * GroupSize \in 0..n - 1
               PROVE  o - i * GroupSize \in 0..GroupSize - 1
    BY <1>1, <1>3 DEF written, bucket_location
  <2> QED  BY <1>4
<1>7. SortTypeOK'
  BY <1>2, <1>6 DEF SortInv, SortTypeOK
<1>8. GroupInv'
  BY <1>2 DEF GroupInv
<1>9. SortedSoFar'
  <2>1. ASSUME NEW c \in Chunks, c < i * NUM_THREADS
        PROVE  Chunk(file', c) = Chunk(file, c)
    <3> SUFFICES ASSUME NEW k \in InChunk
                 PROVE  file'[c * HASHES_PER_CHUNK_SORT + k]
                          = file[c * HASHES_PER_CHUNK_SORT + k]
      BY DEF Chunk
    <3>1. c \in Int /\ i * NUM_THREADS \in Int
      BY <1>3, GroupsInOrder DEF Chunks
    <3>2. c - i * NUM_THREADS < 0
      BY <2>1, <3>1
    <3>3. c - i * NUM_THREADS \notin Threads
      BY <3>2 DEF Threads
    <3>4. ~((c * HASHES_PER_CHUNK_SORT + k) - i * GroupSize \in 0..GroupSize - 1)
      BY <1>3, <3>1, <3>3, PlaceInGroup
    <3> QED  BY <1>5, <3>4, PlaceInFile
  <2>2. \A c \in Chunks : c < i * NUM_THREADS =>
          InOrder(Chunk(file', c)) /\ SameRecords(Chunk(file', c), Chunk(plot, c))
    BY <2>1 DEF SortInv, SortedSoFar
  <2> QED  BY <1>2, <2>2 DEF SortedSoFar, InOrder, SameRecords, Chunk, Chunks, NUM_CHUNKS_SORT
<1>10. RestUntouched'
  <2> SUFFICES ASSUME NEW o \in Offsets, o >= (i + 1) * GroupSize
               PROVE  file'[o] = plot[o]
    BY <1>2 DEF RestUntouched, Offsets
  <2>1. o \in Int
    BY DEF Offsets
  <2>2. o >= i * GroupSize /\ ~(o - i * GroupSize \in 0..GroupSize - 1)
    BY <1>4, <2>1
  <2> QED  BY <1>2, <1>5, <2>2 DEF SortInv, RestUntouched
<1> QED  BY <1>7, <1>8, <1>9, <1>10 DEF SortInv

LEMMA SortStep ==
  ASSUME SortInv, SortNext
  PROVE  SortInv'
<1>1. ASSUME ReadFails \/ LeaveLoop
      PROVE  SortInv'
  <2>1. i \in Nat
    BY SortSizes DEF SortInv, SortTypeOK
  <2>2. i * GroupSize \in Nat /\ (i + 1) * GroupSize = i * GroupSize + GroupSize /\ GroupSize \in Nat
    BY <2>1, GroupsInOrder, SortSizes
  <2>3. /\ phase = "read" /\ phase' \in {"failed", "done"} /\ (phase' = "done" => i = Groups)
        /\ UNCHANGED <<file, buckets, i, sorting, plot>>
    BY <1>1 DEF ReadFails, LeaveLoop
  <2>4. RestUntouched'
    <3> SUFFICES ASSUME NEW o \in Offsets, o >= i * GroupSize PROVE file[o] = plot[o]
      BY <2>2, <2>3 DEF RestUntouched, Offsets
    <3> QED  BY <2>3 DEF SortInv, RestUntouched
  <2>5. SortTypeOK' /\ SortedSoFar'
    BY <2>3 DEF SortInv, SortTypeOK, SortedSoFar
  <2>6. GroupInv'
    BY <2>3 DEF SortInv, GroupInv
  <2> QED  BY <2>4, <2>5, <2>6 DEF SortInv
<1> QED  BY <1>1, ReadKeeps, SortBucketKeeps, WriteKeeps, WriteFailsKeeps DEF SortNext

LEMMA SortStutter ==
  ASSUME SortInv, UNCHANGED sortVars
  PROVE  SortInv'
BY DEF SortInv, SortTypeOK, GroupInv, SortedSoFar, RestUntouched, Part, sortVars

LEMMA SortInit == initSort => SortInv
<1> SUFFICES ASSUME initSort PROVE SortInv
  OBVIOUS
<1>1. i = 0 /\ 0 * GroupSize = 0 /\ 0 * NUM_THREADS = 0 /\ Groups \in Nat
  BY SortSizes DEF initSort
<1>2. SortedSoFar
  BY <1>1 DEF SortedSoFar, Chunks
<1> QED  BY <1>1, <1>2 DEF initSort, SortInv, SortTypeOK, GroupInv, RestUntouched

------------------------------------------------------------------------------
(* The chunks of a bucket.                                                 *)

\* A bucket of the search is a number of chunks of the sort.
LEMMA SearchSizes ==
  /\ numberOfSortedBuckets \in Nat
  /\ BUCKET_SIZE = numberOfSortedBuckets * HASHES_PER_CHUNK_SORT
  /\ NUM_CHUNKS_SORT = NUM_BUCKETS * numberOfSortedBuckets
  /\ Places = InChunk /\ Records \subseteq Keys /\ Keys \subseteq Int
<1>1. \A a \in Nat, b \in Nat \ {0} : a \div b \in Nat /\ (a % b = 0 => a = (a \div b) * b)
  OBVIOUS
<1>2. /\ numberOfSortedBuckets \in Nat
      /\ BUCKET_SIZE = numberOfSortedBuckets * HASHES_PER_CHUNK_SORT
  BY <1>1, SortSizes, SortAndSearchAssumption DEF numberOfSortedBuckets
<1>3. NUM_CHUNKS_SORT = NUM_BUCKETS * numberOfSortedBuckets
  BY <1>2, SortSizes DEF NUM_CHUNKS_SORT, numberOfSortedBuckets
<1> QED  BY <1>2, <1>3, SortAndSearchAssumption, SearchAssumption DEF Places, InChunk

\* Chunk n of the bucket of a prefix is a chunk of the plot.
LEMMA ChunkOfBucket ==
  ASSUME prefix \in 0..NUM_BUCKETS - 1, NEW n \in 0..numberOfSortedBuckets - 1
  PROVE  /\ InBucket(n) \in Chunks
         /\ InBucket(n) < (prefix + 1) * numberOfSortedBuckets
<1> DEFINE s == numberOfSortedBuckets
<1>1. s \in Nat \ {0} /\ prefix \in Nat /\ prefix < NUM_BUCKETS /\ n \in 0..s - 1
  BY SearchSizes, SortSizes
<1>2. prefix * s + n < NUM_BUCKETS * s /\ prefix * s + n < (prefix + 1) * s
  <2> HIDE DEF s
  <2>1. prefix < prefix + 1 /\ prefix + 1 \in Int /\ NUM_BUCKETS \in Int /\ prefix \in Int
    BY <1>1, SortSizes
  <2> QED  BY <1>1, <2>1, Below
<1>3. prefix * s + n \in Nat /\ NUM_BUCKETS * s \in Int
  BY <1>1, SortSizes
<1> QED  BY <1>2, <1>3, SearchSizes DEF InBucket, Chunks

\* Place k of chunk n of the bucket.
LEMMA PlaceInBucket ==
  ASSUME prefix \in 0..NUM_BUCKETS - 1, NEW n \in 0..numberOfSortedBuckets - 1, NEW k \in InChunk
  PROVE  /\ InBucket(n) * HASHES_PER_CHUNK_SORT + k
              = prefix * BUCKET_SIZE + n * HASHES_PER_CHUNK_SORT + k
         /\ InBucket(n) * HASHES_PER_CHUNK_SORT + k
              \in prefix * BUCKET_SIZE..(prefix + 1) * BUCKET_SIZE - 1
<1> DEFINE H == HASHES_PER_CHUNK_SORT
           s == numberOfSortedBuckets
           B == BUCKET_SIZE
<1>1. /\ s \in Nat /\ n \in Nat /\ n < s /\ prefix \in Nat /\ H \in Nat \ {0} /\ k \in 0..H - 1
      /\ B = s * H
  BY SearchSizes, SortSizes DEF InChunk
<1>2. (prefix * s + n) * H + k = prefix * (s * H) + n * H + k
  BY <1>1
<1>3. n * H + k < s * H
  <2> HIDE DEF H, s, B
  <2>1. n \in Int /\ s \in Int
    BY <1>1
  <2> QED  BY <1>1, <2>1, Below
<1>4. n * H + k \in Nat /\ s * H \in Nat /\ prefix * B \in Nat
  BY <1>1
<1>5. (prefix + 1) * B = prefix * B + B
  BY <1>1
<1> HIDE DEF H, s
<1>6. prefix * B + n * H + k \in prefix * B..(prefix + 1) * B - 1
  <2>1. n * H \in Nat
    BY <1>1
  <2> HIDE DEF B
  <2> QED  BY <1>1, <1>3, <1>4, <1>5, <2>1
<1> QED  BY <1>1, <1>2, <1>6 DEF InBucket, H, s

\* A bucket holds what its chunks hold.
LEMMA BucketOfChunks ==
  ASSUME prefix \in 0..NUM_BUCKETS - 1, NEW r
  PROVE  r \in Bucket(prefix)
           <=> \E n \in 0..numberOfSortedBuckets - 1 : Holds(plot, InBucket(n), r)
<1>1. ASSUME NEW n \in 0..numberOfSortedBuckets - 1, Holds(plot, InBucket(n), r)
      PROVE  r \in Bucket(prefix)
  <2>1. PICK k \in InChunk : plot[InBucket(n) * HASHES_PER_CHUNK_SORT + k] = r
    BY <1>1 DEF Holds, Chunk
  <2> QED  BY <2>1, PlaceInBucket DEF Bucket
<1>2. ASSUME r \in Bucket(prefix)
      PROVE  \E n \in 0..numberOfSortedBuckets - 1 : Holds(plot, InBucket(n), r)
  <2> DEFINE H == HASHES_PER_CHUNK_SORT
             s == numberOfSortedBuckets
             B == BUCKET_SIZE
  <2>1. PICK o \in prefix * B..(prefix + 1) * B - 1 : r = plot[o]
    BY <1>2 DEF Bucket
  <2>2. s \in Nat /\ prefix \in Nat /\ H \in Nat \ {0} /\ B = s * H
    BY SearchSizes, SortSizes
  <2>3. (prefix + 1) * B = prefix * B + B /\ prefix * B \in Nat /\ B \in Nat
    BY <2>2
  <2> DEFINE d == o - prefix * B
             n == d \div H
             k == d % H
  <2>4. d \in 0..s * H - 1 /\ o = prefix * B + d
    <3> HIDE DEF B
    <3> QED  BY <2>1, <2>2, <2>3
  <2>5. \A a \in Nat : a \div H \in Nat /\ a % H \in 0..H - 1 /\ a = (a \div H) * H + (a % H)
    <3> HIDE DEF H
    <3>1. \A a \in Nat, b \in Nat \ {0} :
            a \div b \in Nat /\ a % b \in 0..b - 1 /\ a = (a \div b) * b + (a % b)
      OBVIOUS
    <3> QED  BY <2>2, <3>1
  <2>6. n \in Nat /\ k \in 0..H - 1 /\ d = n * H + k
    <3>2. n = d \div H /\ k = d % H
      OBVIOUS
    <3>1. d \in Nat
      <4>1. s * H \in Nat
        BY <2>2
      <4> HIDE DEF s, H, d
      <4> QED  BY <2>4, <4>1
    <3> HIDE DEF d, H, n, k
    <3>3. d \div H \in Nat /\ d % H \in 0..H - 1 /\ d = (d \div H) * H + (d % H)
      BY <2>5, <3>1
    <3> QED  BY ONLY <3>2, <3>3
  <2>7. n < s
    <3> HIDE DEF n, k, H, s, d
    <3>1. n \in Int /\ s \in Int /\ n * H + k < s * H
      <4>1. s * H \in Int /\ n * H \in Int
        BY <2>2, <2>6
      <4> QED  BY <2>2, <2>4, <2>6, <4>1
    <3> QED  BY <2>2, <2>6, <3>1, Below
  <2>8. n \in 0..s - 1 /\ k \in InChunk
    BY <2>2, <2>6, <2>7 DEF InChunk
  <2>9. o = InBucket(n) * H + k
    <3>1. InBucket(n) * H + k = prefix * B + n * H + k
      BY <2>8, PlaceInBucket
    <3>2. prefix * B + n * H + k = prefix * B + (n * H + k)
      <4> HIDE DEF n, k, H, B
      <4>1. n * H \in Int /\ k \in Int
        BY <2>2, <2>6
      <4> QED  BY <2>3, <4>1
    <3> QED  BY <2>4, <2>6, <3>1, <3>2
  <2> HIDE DEF n, k
  <2>10. Chunk(plot, InBucket(n))[k] = r
    BY <2>1, <2>8, <2>9 DEF Chunk
  <2> QED  BY <2>8, <2>10 DEF Holds
<1> QED  BY <1>1, <1>2

------------------------------------------------------------------------------
(* What sorting changes for a search: the places of the records, not the   *)
(* records.                                                                *)

\* What is in one chunk is in the other.
LEMMA SameRecordsHold ==
  ASSUME NEW chunk, NEW other, NEW r \in Records, SameRecords(chunk, other)
  PROVE  (\E k \in InChunk : chunk[k] = r) <=> (\E k \in InChunk : other[k] = r)
<1> DEFINE A == {k \in InChunk : chunk[k] = r}
           B == {k \in InChunk : other[k] = r}
<1>1. Cardinality(A) = Cardinality(B)
  BY DEF SameRecords
<1>2. IsFiniteSet(InChunk)
  BY SortSizes, FS_Interval DEF InChunk
<1>3. IsFiniteSet(A) /\ IsFiniteSet(B)
  BY <1>2, FS_Subset
<1>4. A = {} <=> B = {}
  <2> HIDE DEF A, B
  <2> QED  BY <1>1, <1>3, FS_EmptySet
<1> QED  BY <1>4

\* After the sort a chunk of the file holds what that chunk of the plot held.
LEMMA SortKeepsRecords ==
  ASSUME SortInv, phase = "done", NEW c \in Chunks, NEW r
  PROVE  Holds(file, c, r) <=> Holds(plot, c, r)
<1>1. i = Groups /\ i \in Nat /\ c \in Int
  BY SortSizes DEF SortInv, SortTypeOK, GroupInv, Chunks
<1>2. CASE c < i * NUM_THREADS
  <2>1. SameRecords(Chunk(file, c), Chunk(plot, c))
    BY <1>2 DEF SortInv, SortedSoFar
  <2>2. (Holds(file, c, r) \/ Holds(plot, c, r)) => r \in Records
    <3>1. \A k \in InChunk : Chunk(file, c)[k] \in Records /\ Chunk(plot, c)[k] \in Records
      BY PlaceInFile DEF SortInv, SortTypeOK, Chunk
    <3> QED  BY <3>1 DEF Holds
  <2> QED  BY <2>1, <2>2, SameRecordsHold DEF Holds
<1>3. CASE ~(c < i * NUM_THREADS)
  <2>1. ASSUME NEW k \in InChunk
        PROVE  file[c * HASHES_PER_CHUNK_SORT + k] = plot[c * HASHES_PER_CHUNK_SORT + k]
    <3> DEFINE o == c * HASHES_PER_CHUNK_SORT + k
    <3>1. i * NUM_THREADS \in Int /\ i * NUM_THREADS <= c
      BY <1>1, <1>3, GroupsInOrder
    <3>2. (i * NUM_THREADS) * HASHES_PER_CHUNK_SORT <= o
      BY <1>1, <3>1, SortSizes, Below DEF InChunk
    <3>3. i * GroupSize = (i * NUM_THREADS) * HASHES_PER_CHUNK_SORT
      BY <1>1, SortSizes DEF GroupSize
    <3>4. o \in Offsets /\ o >= i * GroupSize
      <4>1. o \in Int /\ (i * NUM_THREADS) * HASHES_PER_CHUNK_SORT \in Int
        BY <1>1, <3>1, SortSizes DEF InChunk
      <4> HIDE DEF o
      <4>2. o >= i * GroupSize
        BY <3>2, <3>3, <4>1
      <4> QED  BY <4>2, PlaceInFile DEF o
    <3> QED  BY <3>4 DEF SortInv, RestUntouched
  <2> QED  BY <2>1 DEF Holds, Chunk
<1> QED  BY <1>2, <1>3

\* A chunk in order is sorted as the search takes it to be.
LEMMA InOrderIsSorted ==
  ASSUME array \in Arrays, InOrder(array)
  PROVE  Sorted
<1>1. Places = InChunk /\ Places = 0..Length - 1 /\ Keys \subseteq Int /\ Length \in Nat
  BY SearchSizes, SearchAssumption DEF Places
<1> SUFFICES ASSUME NEW p \in Places PROVE \A q \in Places : p <= q => array[p] <= array[q]
  BY DEF Sorted
<1> DEFINE T == {n \in Nat : p + n \in Places => array[p] <= array[p + n]}
<1>2. p \in Nat /\ \A q \in Places : q \in Nat /\ array[q] \in Int
  <2>1. \A q \in Places : q \in Nat
    BY <1>1
  <2>2. \A q \in Places : array[q] \in Keys
    BY DEF Arrays
  <2> QED  BY <1>1, <2>1, <2>2
<1>3. 0 \in T
  BY <1>2
<1>4. ASSUME NEW n \in Nat, n \in T PROVE n + 1 \in T
  <2> SUFFICES ASSUME p + (n + 1) \in Places PROVE array[p] <= array[p + (n + 1)]
    OBVIOUS
  <2> DEFINE q == p + (n + 1)
  <2>1. q \in Places /\ p + n \in Places /\ p + n = q - 1 /\ q # 0
    BY <1>1, <1>2
  <2>2. array[q - 1] <= array[q]
    BY <1>1, <2>1 DEF InOrder
  <2>3. array[p] <= array[p + n]
    BY <1>4, <2>1
  <2>4. array[p] \in Int /\ array[p + n] \in Int /\ array[q] \in Int
    BY <1>2, <2>1
  <2> HIDE DEF q
  <2>5. array[p + n] <= array[q]
    BY <2>1, <2>2
  <2>6. array[p] <= array[q]
    BY <2>3, <2>4, <2>5
  <2> QED  BY <2>6 DEF q
<1>5. Nat \subseteq T
  <2> HIDE DEF T
  <2> QED  BY <1>3, <1>4, NatIsLeast
<1>6. ASSUME NEW q \in Places, p <= q PROVE array[p] <= array[q]
  <2>1. q - p \in Nat /\ p + (q - p) = q
    BY <1>2, <1>6
  <2>2. q - p \in T
    BY <1>5, <2>1
  <2> QED  BY <2>1, <2>2
<1> QED  BY <1>6

------------------------------------------------------------------------------
(* Steps of the whole.                                                     *)

\* When the sort is done nothing of it moves.
LEMMA DoneStaysDone ==
  ASSUME SortInv, SortNext
  PROVE  phase # "done" /\ plot' = plot
<1>1. plot' = plot
  BY DEF SortNext, Read, ReadFails, Write, WriteFails, LeaveLoop, sortBucket
<1>2. phase # "done"
  BY DEF SortNext, Read, ReadFails, Write, WriteFails, LeaveLoop, sortBucket, SortInv, GroupInv
<1> QED  BY <1>1, <1>2

LEMMA SortingStep ==
  ASSUME WholeInv, Sort
  PROVE  WholeInv'
<1>1. /\ SortNext /\ UNCHANGED searchVars /\ UNCHANGED mainVars
      /\ SortInv /\ IInv /\ FoundIsThere /\ MainTypeOK /\ MainInv
  BY DEF Sort, WholeInv
<1>2. SortInv' /\ phase # "done" /\ plot' = plot
  BY <1>1, SortStep, DoneStaysDone
<1>3. main = "start" /\ j = 0
  BY <1>1, <1>2 DEF MainInv
<1>4. IInv' /\ FoundIsThere'
  BY <1>1 DEF IInv, SearchTypeOK, Window, Wrapped, NotPassedBy, ReturnsMatch, Sorted,
              FoundIsThere, searchVars
<1>5. MainTypeOK'
  BY <1>1 DEF MainTypeOK, mainVars, numberOfSortedBuckets
<1>6. MainInv'
  BY <1>1, <1>2, <1>3 DEF MainInv, mainVars, searchVars
<1> QED  BY <1>2, <1>4, <1>5, <1>6 DEF WholeInv

\* A search begins when the plot is sorted.
LEMMA StartStep ==
  ASSUME WholeInv, Start
  PROVE  WholeInv'
<1>1. /\ phase = "done" /\ main = "start" /\ main' = "read" /\ j' = j /\ j = 0 /\ place = "idle"
      /\ goal' \in Keys /\ prefix' \in 0..NUM_BUCKETS - 1
      /\ UNCHANGED sortVars /\ UNCHANGED searchVars
      /\ SortInv /\ IInv /\ FoundIsThere /\ MainTypeOK
  BY DEF Start, WholeInv, MainInv
<1>2. SortInv'
  BY <1>1, SortStutter
<1>3. IInv' /\ FoundIsThere'
  BY <1>1 DEF IInv, SearchTypeOK, Window, Wrapped, NotPassedBy, ReturnsMatch, Sorted,
              FoundIsThere, searchVars
<1>4. MainTypeOK'
  BY <1>1 DEF MainTypeOK, numberOfSortedBuckets
<1>5. MainInv'
  BY <1>1 DEF MainInv, sortVars, searchVars
<1> QED  BY <1>2, <1>3, <1>4, <1>5 DEF WholeInv

\* The next chunk is read, in the place of the one without the target.
LEMMA ReadChunkStep ==
  ASSUME WholeInv, ReadChunk
  PROVE  WholeInv'
<1> DEFINE a == [k \in Places |-> file[chunk_location + k]]
<1>1. /\ main = "read" /\ j < numberOfSortedBuckets /\ Call(a, goal) /\ main' = "call"
      /\ UNCHANGED sortVars /\ UNCHANGED <<goal, prefix, j>>
      /\ SortInv /\ IInv /\ FoundIsThere /\ MainTypeOK /\ MainInv
  BY DEF ReadChunk, WholeInv
<1>2. /\ goal \in Keys /\ phase = "done" /\ prefix \in 0..NUM_BUCKETS - 1
      /\ j \in 0..numberOfSortedBuckets - 1
  BY <1>1, SearchSizes DEF MainInv, MainTypeOK
<1>3. a = Chunk(file, Here)
  <2>1. \A k \in InChunk : Here * HASHES_PER_CHUNK_SORT + k = chunk_location + k
    <3> SUFFICES ASSUME NEW k \in InChunk
                 PROVE  Here * HASHES_PER_CHUNK_SORT + k = chunk_location + k
      OBVIOUS
    <3>1. Here * HASHES_PER_CHUNK_SORT + k = prefix * BUCKET_SIZE + j * HASHES_PER_CHUNK_SORT + k
      BY <1>2, PlaceInBucket DEF Here
    <3> QED  BY <3>1 DEF chunk_location
  <2> QED  BY <2>1, SearchSizes DEF Chunk
<1>4. a \in Arrays
  <2>1. Here \in Chunks
    BY <1>2, ChunkOfBucket DEF Here
  <2>2. \A k \in InChunk : file[Here * HASHES_PER_CHUNK_SORT + k] \in Keys
    BY <1>1, <2>1, PlaceInFile, SearchSizes DEF SortInv, SortTypeOK
  <2> QED  BY <1>3, <2>2, SearchSizes DEF Chunk, Arrays
<1>5. SortInv'
  BY <1>1, SortStutter
<1> HIDE DEF a
<1>6. IInv'
  BY <1>1, <1>2, <1>4, CallKeepsIInv
<1>7. place' = "search" /\ array' = a /\ target' = goal
  BY <1>1 DEF Call
<1>8. MainTypeOK' /\ FoundIsThere'
  BY <1>1, <1>7 DEF MainTypeOK, FoundIsThere, numberOfSortedBuckets
<1>9. MainInv'
  <2>1. main' # "found" /\ SortedBucket(prefix)' =>
          \A n \in 0..j - 1 : ~Holds(plot, InBucket(n), goal)
    BY <1>1 DEF MainInv, SortedBucket, Groups, NUM_CHUNKS_SORT, numberOfSortedBuckets
  <2>2. a = Chunk(file, Here)'
    BY <1>1, <1>3 DEF Chunk, Here, InBucket, sortVars, numberOfSortedBuckets, InChunk
  <2> QED  BY <1>1, <1>2, <1>7, <2>1, <2>2
           DEF MainInv, sortVars, Holds, Chunk, InBucket, numberOfSortedBuckets, InChunk
<1> QED  BY <1>5, <1>6, <1>8, <1>9 DEF WholeInv

\* A step of main that leaves the file and the search alone.
LEMMA MainAloneStep ==
  ASSUME WholeInv, ReadChunkFails \/ NoChunkLeft
  PROVE  WholeInv'
<1>1. /\ main = "read" /\ main' \in {"failed", "not found"}
      /\ main' = "not found" => j = numberOfSortedBuckets
      /\ UNCHANGED sortVars /\ UNCHANGED searchVars /\ UNCHANGED <<goal, prefix, j>>
      /\ SortInv /\ IInv /\ FoundIsThere /\ MainTypeOK /\ MainInv
  BY DEF ReadChunkFails, NoChunkLeft, WholeInv
<1>2. SortInv'
  BY <1>1, SortStutter
<1>3. IInv' /\ FoundIsThere'
  BY <1>1 DEF IInv, SearchTypeOK, Window, Wrapped, NotPassedBy, ReturnsMatch, Sorted,
              FoundIsThere, searchVars
<1>4. MainTypeOK'
  BY <1>1 DEF MainTypeOK, numberOfSortedBuckets
<1>5. MainInv'
  BY <1>1 DEF MainInv, sortVars, searchVars, Holds, Chunk, InBucket, numberOfSortedBuckets, InChunk,
              SortedBucket, Groups, NUM_CHUNKS_SORT
<1> QED  BY <1>2, <1>3, <1>4, <1>5 DEF WholeInv

\* A search moves nothing but itself.
LEMMA SearchStep ==
  ASSUME WholeInv, Search
  PROVE  WholeInv'
<1>1. /\ Iterate /\ UNCHANGED sortVars /\ UNCHANGED mainVars
      /\ SortInv /\ IInv /\ FoundIsThere /\ MainTypeOK /\ MainInv
  BY DEF Search, WholeInv
<1>2. SortInv'
  BY <1>1, SortStutter
<1>3. IInv'
  BY <1>1, NotFoundKeepsIInv, FoundKeepsIInv, SearchLeftKeepsIInv, SearchRightKeepsIInv DEF Iterate
<1>4. place = "search" /\ place' # "idle" /\ array' = array /\ target' = target
  BY <1>1 DEF Iterate, NotFound, Found, SearchLeft, SearchRight
<1>5. FoundIsThere'
  <2>1. CASE Found
    <3>1. CASE right \in Places
      <4>1. middle \in Places
        BY <1>1, <2>1, <3>1, MiddleInside DEF IInv, Found
      <4>2. array[middle] = target
        BY <2>1, <4>1 DEF Found, compare
      <4> QED  BY <1>4, <2>1, <4>1, <4>2 DEF Found, FoundIsThere
    <3>2. CASE Wrapped /\ left = 0
      BY <2>1, <3>2, MiddleOutside DEF Found, FoundIsThere
    <3> QED  BY <1>1, <1>4, <3>1, <3>2 DEF IInv, Window
  <2>2. CASE NotFound
    BY <2>2 DEF NotFound, FoundIsThere
  <2>3. CASE SearchLeft \/ SearchRight
    BY <2>3 DEF SearchLeft, SearchRight, FoundIsThere
  <2> QED  BY <1>1, <2>1, <2>2, <2>3 DEF Iterate
<1>6. main = "call"
  BY <1>1, <1>4 DEF MainInv
<1>7. MainTypeOK'
  BY <1>1 DEF MainTypeOK, mainVars, numberOfSortedBuckets
<1>8. MainInv'
  BY <1>1, <1>4, <1>6 DEF MainInv, sortVars, mainVars, Holds, Chunk, InBucket, Here,
     numberOfSortedBuckets, InChunk, SortedBucket, Groups, NUM_CHUNKS_SORT
<1> QED  BY <1>2, <1>3, <1>5, <1>7, <1>8 DEF WholeInv

\* What a search that has returned means for the plot.
LEMMA WhatReturned ==
  ASSUME WholeInv, place = "returned"
  PROVE  /\ main = "call" /\ phase = "done"
         /\ prefix \in 0..NUM_BUCKETS - 1 /\ j \in 0..numberOfSortedBuckets - 1
         /\ result # -1 => goal \in Bucket(prefix)
         /\ result = -1 /\ SortedBucket(prefix) => ~Holds(plot, Here, goal)
<1>1. SortInv /\ IInv /\ FoundIsThere /\ MainTypeOK /\ MainInv
  BY DEF WholeInv
<1>2. /\ main = "call" /\ phase = "done" /\ array = Chunk(file, Here) /\ target = goal
      /\ prefix \in 0..NUM_BUCKETS - 1 /\ j \in 0..numberOfSortedBuckets - 1
  <2>1. main = "call"
    BY <1>1 DEF MainInv
  <2>2. /\ phase = "done" /\ array = Chunk(file, Here) /\ target = goal
        /\ j < numberOfSortedBuckets
    BY <1>1, <2>1 DEF MainInv
  <2>3. prefix \in 0..NUM_BUCKETS - 1 /\ j \in 0..numberOfSortedBuckets
    BY <1>1 DEF MainTypeOK
  <2> QED  BY <2>1, <2>2, <2>3, SearchSizes
<1>3. Here \in Chunks
  BY <1>2, ChunkOfBucket DEF Here
<1>4. Holds(file, Here, goal) <=> Holds(plot, Here, goal)
  BY <1>1, <1>2, <1>3, SortKeepsRecords
<1>5. result # -1 => goal \in Bucket(prefix)
  <2> SUFFICES ASSUME result # -1 PROVE goal \in Bucket(prefix)
    OBVIOUS
  <2>1. Holds(file, Here, goal)
    BY <1>1, <1>2, SearchSizes DEF FoundIsThere, Holds
  <2> QED  BY <1>2, <1>4, <2>1, BucketOfChunks DEF Here
<1>6. ASSUME result = -1, SortedBucket(prefix)
      PROVE  ~Holds(plot, Here, goal)
  <2>1. Here < Groups * NUM_THREADS
    <3>1. /\ Here < (prefix + 1) * numberOfSortedBuckets
          /\ (prefix + 1) * numberOfSortedBuckets <= Groups * NUM_THREADS
      BY <1>2, <1>6, ChunkOfBucket DEF Here, SortedBucket
    <3>2. /\ Here \in Int /\ (prefix + 1) * numberOfSortedBuckets \in Int
          /\ Groups * NUM_THREADS \in Int
      BY <1>2, <1>3, SearchSizes, SortSizes DEF Chunks
    <3> QED  BY <3>1, <3>2
  <2>2. InOrder(array)
    BY <1>1, <1>2, <1>3, <2>1 DEF SortInv, GroupInv, SortedSoFar
  <2>3. Sorted
    BY <1>1, <1>2, <2>2, InOrderIsSorted DEF IInv, SearchTypeOK
  <2>4. -1 \notin Places
    BY DEF Places
  <2>5. \A p \in Places : array[p] # target
    BY <1>1, <1>6, <2>3, <2>4 DEF IInv, ReturnsMatch
  <2> QED  BY <1>2, <1>4, <2>5, SearchSizes DEF Holds
<1> QED  BY <1>2, <1>5, <1>6

\* What the search returned is what main goes by.
LEMMA ReturnStep ==
  ASSUME WholeInv, ChunkHasIt \/ NextChunk
  PROVE  WholeInv'
<1>1. /\ Back /\ UNCHANGED sortVars /\ UNCHANGED <<goal, prefix>>
      /\ \/ result # -1 /\ main' = "found" /\ j' = j
         \/ result = -1 /\ main' = "read" /\ j' = j + 1
      /\ SortInv /\ IInv /\ MainTypeOK /\ MainInv
  BY DEF ChunkHasIt, NextChunk, WholeInv
<1>2. place = "returned" /\ place' = "idle"
  BY <1>1 DEF Back
<1>3. /\ main = "call" /\ phase = "done"
      /\ prefix \in 0..NUM_BUCKETS - 1 /\ j \in 0..numberOfSortedBuckets - 1
      /\ result # -1 => goal \in Bucket(prefix)
      /\ result = -1 /\ SortedBucket(prefix) => ~Holds(plot, Here, goal)
  BY <1>2, WhatReturned
<1>4. SortInv' /\ IInv'
  BY <1>1, SortStutter, BackKeepsIInv
<1>5. FoundIsThere'
  BY <1>2 DEF FoundIsThere
<1>6. numberOfSortedBuckets \in Nat /\ j' \in 0..numberOfSortedBuckets
  BY <1>1, <1>3, SearchSizes
<1>7. MainTypeOK'
  BY <1>1, <1>6 DEF MainTypeOK, numberOfSortedBuckets
<1>8. main' # "found" /\ SortedBucket(prefix) => \A n \in 0..j' - 1 : ~Holds(plot, InBucket(n), goal)
  <2> SUFFICES ASSUME result = -1, j' = j + 1, SortedBucket(prefix), NEW n \in 0..j
               PROVE  ~Holds(plot, InBucket(n), goal)
    BY <1>1, <1>3
  <2>1. CASE n = j
    BY <1>3, <2>1 DEF Here
  <2>2. CASE n # j
    <3>1. n \in 0..j - 1
      BY <1>3, <2>2
    <3> QED  BY <1>1, <1>3, <3>1 DEF MainInv
  <2> QED  BY <2>1, <2>2
<1>9. main' = "found" => goal \in Bucket(prefix)
  BY <1>1, <1>3
<1>10. MainInv'
  <2>1. goal \in Keys
    BY <1>1, <1>3 DEF MainInv
  <2>2. Bucket(prefix)' = Bucket(prefix) /\ (SortedBucket(prefix)' <=> SortedBucket(prefix))
    BY <1>1 DEF Bucket, sortVars, SortedBucket, Groups, NUM_CHUNKS_SORT, numberOfSortedBuckets
  <2>3. \A n : Holds(plot, InBucket(n), goal)' <=> Holds(plot, InBucket(n), goal)
    BY <1>1 DEF sortVars, Holds, Chunk, InBucket, numberOfSortedBuckets, InChunk
  <2>4. main' \in {"found", "read"} /\ phase' = phase
    BY <1>1 DEF sortVars
  <2> QED  BY <1>1, <1>2, <1>3, <1>8, <1>9, <2>1, <2>2, <2>3, <2>4 DEF MainInv
<1> QED  BY <1>4, <1>5, <1>7, <1>10 DEF WholeInv

------------------------------------------------------------------------------
LEMMA WholeInvariance == Spec => []WholeInv
<1>1. Init => WholeInv
  <2> SUFFICES ASSUME Init PROVE WholeInv
    OBVIOUS
  <2>1. SortInv
    BY SortInit DEF Init
  <2>2. IInv /\ FoundIsThere
    <3>1. 0 \in 0..Length /\ 0 \in 0..Length - 1 /\ 0 \in -1..Length - 1
      BY SearchAssumption
    <3> QED  BY <3>1 DEF Init, initSearch, IInv, SearchTypeOK, Window, NotPassedBy, ReturnsMatch,
                         FoundIsThere
  <2>3. MainTypeOK
    BY SortSizes, SearchSizes DEF Init, MainTypeOK
  <2>4. MainInv
    BY DEF Init, initSearch, MainInv
  <2> QED  BY <2>1, <2>2, <2>3, <2>4 DEF WholeInv
<1>2. ASSUME WholeInv, [Next]_vars PROVE WholeInv'
  <2>1. CASE UNCHANGED vars
    <3>1. UNCHANGED sortVars /\ UNCHANGED searchVars /\ UNCHANGED mainVars
      BY <2>1 DEF vars
    <3>2. SortInv'
      BY <1>2, <3>1, SortStutter DEF WholeInv
    <3>3. IInv' /\ FoundIsThere'
      BY <1>2, <3>1 DEF WholeInv, IInv, SearchTypeOK, Window, Wrapped, NotPassedBy, ReturnsMatch,
         Sorted, FoundIsThere, searchVars
    <3>4. MainTypeOK'
      BY <1>2, <3>1 DEF WholeInv, MainTypeOK, mainVars, numberOfSortedBuckets
    <3>5. MainInv'
      BY <1>2, <3>1 DEF WholeInv, MainInv, sortVars, searchVars, mainVars, Holds, Chunk, InBucket,
         Here, numberOfSortedBuckets, InChunk, SortedBucket, Groups, NUM_CHUNKS_SORT, Bucket
    <3> QED  BY <3>2, <3>3, <3>4, <3>5 DEF WholeInv
  <2> QED  BY <1>2, <2>1, SortingStep, StartStep, ReadChunkStep, MainAloneStep, SearchStep, ReturnStep
           DEF Next, MainStep
<1> QED  BY <1>1, <1>2, PTL DEF Spec

\* The sort and the search stay in their sizes (psort.c:60-143, bsearch.c:149-198).
THEOREM TypeCorrect == Spec => []TypeOK
<1>1. WholeInv => TypeOK
  BY DEF WholeInv, SortInv, IInv, MainTypeOK, TypeOK
<1> QED  BY <1>1, WholeInvariance, PTL

\* Each chunk of the groups written back is in order and holds the records it held in
\* the plot, whatever the order in which the threads of a group sorted and whatever has
\* failed since (psort.c:60-143).
THEOREM GroupsAreSorted == Spec => []SortedSoFar
<1>1. WholeInv => SortedSoFar
  BY DEF WholeInv, SortInv
<1> QED  BY <1>1, WholeInvariance, PTL

\* A failed read or write damages no group but its own, and the chunks left over when the
\* threads do not divide them are as they were.
THEOREM RestIsUntouched == Spec => []RestUntouched
<1>1. WholeInv => RestUntouched
  BY DEF WholeInv, SortInv
<1> QED  BY <1>1, WholeInvariance, PTL

\* The answer about a target in the sorted plot is the right one for the plot as it was
\* generated (bsearch.c:149-198).
THEOREM AnswersAreTrue == Spec => []AnswersAreRight
<1>1. ASSUME WholeInv PROVE AnswersAreRight
  <2>1. MainInv /\ MainTypeOK
    BY <1>1 DEF WholeInv
  <2>2. ASSUME main = "not found", SortedBucket(prefix) PROVE goal \notin Bucket(prefix)
    <3>1. /\ prefix \in 0..NUM_BUCKETS - 1
          /\ \A n \in 0..numberOfSortedBuckets - 1 : ~Holds(plot, InBucket(n), goal)
      BY <2>1, <2>2 DEF MainInv, MainTypeOK
    <3> QED  BY <3>1, BucketOfChunks
  <2> QED  BY <2>1, <2>2 DEF MainInv, AnswersAreRight
<1> QED  BY <1>1, WholeInvariance, PTL
=============================================================================
