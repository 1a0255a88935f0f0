------------------------- MODULE CircularArray_proofs -------------------------
(***************************************************************************)
(* Lemmas about the ring of CircularArray, for every size of it: the       *)
(* arithmetic of its places, what its batches leave free, and what         *)
(* pthread_cond_signal does to a set of sleepers.                          *)
(***************************************************************************)
EXTENDS CircularArray, FiniteSetTheorems, SequenceTheorems, TLAPS

\* The entries from tail to head are whole batches.
Aligned == Distance(tail, head) % BATCH_SIZE = 0

\* A batch as a sequence: n entries of thread p have been inserted before.
Batch(p, n) == [k \in 1..BATCH_SIZE |-> [from |-> p, at |-> n + k - 1]]

\* A sequence of whole batches.
Batched(s) ==
  /\ Len(s) % BATCH_SIZE = 0
  /\ \A k \in DOMAIN s : (k - 1) % BATCH_SIZE = 0 =>
       \A j \in 0..BATCH_SIZE - 1 :
         /\ k + j \in DOMAIN s
         /\ s[k + j] = [from |-> s[k].from, at |-> s[k].at + j]

\* The entries of s are exactly those of n, in order and in whole batches.
Merged(s, n) ==
  /\ s \in Seq([from : Producers, at : Nat])
  /\ {s[k] : k \in DOMAIN s} = InsertedUpTo(n)
  /\ InOrder(s)
  /\ Batched(s)

-----------------------------------------------------------------------------
\* Going round the ring is one subtraction or none.
LEMMA AheadIs ==
  ASSUME NEW s \in Slots, NEW n \in 0..HASHGEN_THREADS_BUFFER
  PROVE  Ahead(s, n) = IF s + n < HASHGEN_THREADS_BUFFER THEN s + n
                       ELSE s + n - HASHGEN_THREADS_BUFFER
  BY SizesAssumption DEF Ahead, Slots

LEMMA DistanceIs ==
  ASSUME NEW s \in Slots, NEW t \in Slots
  PROVE  Distance(s, t) = IF s <= t THEN t - s ELSE t - s + HASHGEN_THREADS_BUFFER
  BY SizesAssumption DEF Distance, Slots

\* Every place is reached from every other one.
LEMMA AheadInSlots ==
  ASSUME NEW s \in Slots, NEW n \in 0..HASHGEN_THREADS_BUFFER
  PROVE  Ahead(s, n) \in Slots
  BY AheadIs, SizesAssumption DEF Slots

LEMMA DistanceInSlots ==
  ASSUME NEW s \in Slots, NEW t \in Slots
  PROVE  Distance(s, t) \in Slots
  BY DistanceIs, SizesAssumption DEF Slots

LEMMA AheadDistance ==
  ASSUME NEW s \in Slots, NEW t \in Slots
  PROVE  Ahead(s, Distance(s, t)) = t
<1>1. Distance(s, t) \in 0..HASHGEN_THREADS_BUFFER
  BY DistanceInSlots, SizesAssumption DEF Slots
<1> QED  BY <1>1, AheadIs, DistanceIs, SizesAssumption DEF Slots

LEMMA DistanceAhead ==
  ASSUME NEW s \in Slots, NEW n \in Slots
  PROVE  Distance(s, Ahead(s, n)) = n
<1>1. n \in 0..HASHGEN_THREADS_BUFFER
  BY SizesAssumption DEF Slots
<1>2. Ahead(s, n) \in Slots
  BY <1>1, AheadInSlots
<1> QED  BY <1>1, <1>2, AheadIs, DistanceIs, SizesAssumption DEF Slots

\* Two steps are one.
LEMMA AheadTwice ==
  ASSUME NEW s \in Slots, NEW m \in Nat, NEW n \in Nat,
         m + n <= HASHGEN_THREADS_BUFFER
  PROVE  Ahead(Ahead(s, m), n) = Ahead(s, m + n)
<1>1. Ahead(s, m) \in Slots
  BY AheadInSlots, SizesAssumption
<1> QED  BY <1>1, AheadIs, SizesAssumption DEF Slots

\* How far the place n after t is from h, which is Distance(t, h) after t.
LEMMA DistanceBehind ==
  ASSUME NEW t \in Slots, NEW h \in Slots, NEW n \in Slots
  PROVE  Distance(h, Ahead(t, n)) =
           IF n < Distance(t, h) THEN n - Distance(t, h) + HASHGEN_THREADS_BUFFER
           ELSE n - Distance(t, h)
<1>1. n \in 0..HASHGEN_THREADS_BUFFER
  BY SizesAssumption DEF Slots
<1>2. Ahead(t, n) \in Slots
  BY <1>1, AheadInSlots
<1>3. Ahead(t, n) = IF t + n < HASHGEN_THREADS_BUFFER THEN t + n
                    ELSE t + n - HASHGEN_THREADS_BUFFER
  BY <1>1, AheadIs
<1>4. Distance(t, h) = IF t <= h THEN h - t ELSE h - t + HASHGEN_THREADS_BUFFER
  BY DistanceIs
<1>5. Distance(h, Ahead(t, n)) =
        IF h <= Ahead(t, n) THEN Ahead(t, n) - h
        ELSE Ahead(t, n) - h + HASHGEN_THREADS_BUFFER
  BY <1>2, DistanceIs
<1> QED  BY <1>3, <1>4, <1>5, SizesAssumption DEF Slots

-----------------------------------------------------------------------------
\* Multiples of n are n apart.
LEMMA MultiplesApart ==
  ASSUME NEW n \in Nat \ {0}, NEW a \in Nat, NEW b \in Nat,
         a % n = 0, b % n = 0, a < b
  PROVE  a + n <= b
<1>1. a = n * (a \div n) /\ b = n * (b \div n)
  OBVIOUS
<1>2. a \div n \in Nat /\ b \div n \in Nat
  OBVIOUS
<1>3. a \div n < b \div n
  BY <1>1, <1>2
<1> QED  BY <1>1, <1>2, <1>3

LEMMA MultiplesAdd ==
  ASSUME NEW n \in Nat \ {0}, NEW a \in Nat, a % n = 0
  PROVE  (a + n) % n = 0 /\ (n <= a => (a - n) % n = 0)
<1>1. PICK m \in Nat : a = n * m
  <2>1. a = n * (a \div n) /\ a \div n \in Nat
    OBVIOUS
  <2> QED  BY <2>1
<1>2. \A k \in Nat : (n * k) % n = 0
  OBVIOUS
<1>3. a + n = n * (m + 1) /\ a - n = n * (m - 1)
  BY <1>1
<1>4. n <= a => m - 1 \in Nat
  BY <1>1
<1> QED  BY <1>1, <1>2, <1>3, <1>4

\* Quotients are where their multiples enclose the number.
LEMMA DivIs ==
  ASSUME NEW n \in Nat \ {0}, NEW a \in Int, NEW q \in Int,
         n * q <= a, a < n * q + n
  PROVE  a \div n = q
<1> DEFINE d == a \div n
<1>1. d \in Int /\ n * d <= a /\ a < n * d + n
  OBVIOUS
<1> HIDE DEF d
<1>2. n * d < n * (q + 1) /\ n * q < n * (d + 1)
  BY <1>1
<1>3. d < q + 1 /\ q < d + 1
  <2>1. \A x, y \in Int : n * x < n * y => x < y
    OBVIOUS
  <2> QED  BY <2>1, <1>1, <1>2
<1>4. d = q
  BY <1>1, <1>3
<1> QED  BY <1>4 DEF d

LEMMA DivPlus ==
  ASSUME NEW n \in Nat \ {0}, NEW a \in Int
  PROVE  (a + n) \div n = a \div n + 1
<1> DEFINE d == a \div n
<1>1. d \in Int /\ n * d <= a /\ a < n * d + n
  OBVIOUS
<1> HIDE DEF d
<1>2. n * (d + 1) <= a + n /\ a + n < n * (d + 1) + n /\ d + 1 \in Int
  BY <1>1
<1>3. (a + n) \div n = d + 1
  BY <1>2, DivIs
<1> QED  BY <1>3 DEF d

\* In a ring that the batches divide, a ring that is not full has room for two
\* batches, so that head does not catch up with tail, and one that is not empty
\* has a batch to take.
LEMMA RoomIfNotFull ==
  ASSUME HASHGEN_THREADS_BUFFER % BATCH_SIZE = 0,
         head \in Slots, tail \in Slots, Aligned, ~Full
  PROVE  Distance(tail, head) + 2 * BATCH_SIZE <= HASHGEN_THREADS_BUFFER
<1> DEFINE N == HASHGEN_THREADS_BUFFER
           D == Distance(tail, head)
<1>1. D \in Slots
  BY DistanceInSlots
<1>2. D + BATCH_SIZE <= N
  BY <1>1, MultiplesApart, SizesAssumption DEF Aligned, Slots
<1>3. D + BATCH_SIZE # N
  BY AheadIs, DistanceIs, SizesAssumption DEF Full, Slots
<1>4. (D + BATCH_SIZE) % BATCH_SIZE = 0
  BY <1>1, MultiplesAdd, SizesAssumption DEF Aligned, Slots
<1>5. (D + BATCH_SIZE) + BATCH_SIZE <= N
  BY <1>1, <1>2, <1>3, <1>4, MultiplesApart, SizesAssumption DEF Slots
<1> QED  BY <1>1, <1>5, SizesAssumption DEF Slots

\* A full ring has one batch less in it than slots.
LEMMA RoomIfFull ==
  ASSUME head \in Slots, tail \in Slots, Full
  PROVE  Distance(tail, head) + BATCH_SIZE = HASHGEN_THREADS_BUFFER
<1>1. Ahead(head, BATCH_SIZE) = IF head + BATCH_SIZE < HASHGEN_THREADS_BUFFER
                                THEN head + BATCH_SIZE
                                ELSE head + BATCH_SIZE - HASHGEN_THREADS_BUFFER
  BY AheadIs, SizesAssumption
<1>2. Distance(tail, head) = IF tail <= head THEN head - tail
                             ELSE head - tail + HASHGEN_THREADS_BUFFER
  BY DistanceIs
<1> QED  BY <1>1, <1>2, SizesAssumption DEF Full, Slots

LEMMA RoomType ==
  ASSUME head \in Slots, tail \in Slots
  PROVE  /\ Distance(tail, head) \in Nat
         /\ BATCH_SIZE \in Nat \ {0} /\ HASHGEN_THREADS_BUFFER \in Nat
         /\ Room \in Int
<1>1. Distance(tail, head) \in Nat
  BY DistanceInSlots DEF Slots
<1> QED  BY <1>1, SizesAssumption DEF Room

LEMMA FullHasNoRoom ==
  ASSUME head \in Slots, tail \in Slots, Full
  PROVE  Room = 0
<1>1. HASHGEN_THREADS_BUFFER - Distance(tail, head) = BATCH_SIZE
  BY RoomIfFull, RoomType
<1>2. BATCH_SIZE \div BATCH_SIZE = 1
  BY RoomType, DivIs
<1> QED  BY <1>1, <1>2 DEF Room

\* A ring of whole batches that is not empty has one of them.
LEMMA BatchIfNotEmpty ==
  ASSUME head \in Slots, tail \in Slots, Aligned, ~Empty
  PROVE  BATCH_SIZE <= Distance(tail, head)
<1> DEFINE D == Distance(tail, head)
<1>1. D \in Nat /\ D # 0
  <2>1. D = IF tail <= head THEN head - tail ELSE head - tail + HASHGEN_THREADS_BUFFER
    BY DistanceIs
  <2> QED  BY <2>1, SizesAssumption DEF Empty, Slots
<1>2. 0 % BATCH_SIZE = 0
  BY SizesAssumption
<1> QED  BY <1>1, <1>2, MultiplesApart, SizesAssumption DEF Aligned

\* insertBatch never finds an empty ring full, unless one batch fills it.
LEMMA AheadMoves ==
  ASSUME NEW s \in Slots, BATCH_SIZE < HASHGEN_THREADS_BUFFER
  PROVE  Ahead(s, BATCH_SIZE) # s
<1> DEFINE N == HASHGEN_THREADS_BUFFER
<1>1. N \in Nat \ {0} /\ BATCH_SIZE \in 1..N - 1 /\ s \in 0..N - 1
  BY SizesAssumption DEF Slots
<1>2. CASE s + BATCH_SIZE < N
  <2>1. (s + BATCH_SIZE) % N = s + BATCH_SIZE
    BY <1>1, <1>2
  <2> QED  BY <1>1, <2>1 DEF Ahead
<1>3. CASE s + BATCH_SIZE >= N
  <2>1. (s + BATCH_SIZE) % N = s + BATCH_SIZE - N
    BY <1>1, <1>3
  <2> QED  BY <1>1, <2>1 DEF Ahead
<1> QED  BY <1>1, <1>2, <1>3

\* pthread_cond_signal wakes nobody else, and somebody if anybody sleeps.
LEMMA SignalWakes ==
  ASSUME NEW c, NEW d \in Signal(c)
  PROVE  d \subseteq c /\ (c # {} => d # c)
  BY DEF Signal

LEMMA SignalOnly ==
  ASSUME NEW t, NEW c \in SUBSET {t}, NEW d \in Signal(c)
  PROVE  d = {}
  BY DEF Signal
-----------------------------------------------------------------------------
\* insertBatch appends to what the ring holds.
LEMMA InsertAppends ==
  ASSUME NEW t, NEW values, insertBatch(t, values),
         head \in Slots, tail \in Slots,
         Distance(tail, head) + BATCH_SIZE < HASHGEN_THREADS_BUFFER
  PROVE  /\ Distance(tail, head)' = Distance(tail, head) + BATCH_SIZE
         /\ \A k \in 0..Distance(tail, head) - 1 :
              array'[Ahead(tail, k)] = array[Ahead(tail, k)]
         /\ \A k \in 0..BATCH_SIZE - 1 :
              array'[Ahead(tail, Distance(tail, head) + k)] = values[k]
<1> DEFINE N == HASHGEN_THREADS_BUFFER
           D == Distance(tail, head)
<1>1. N \in Nat \ {0} /\ D \in 0..N - 1 /\ BATCH_SIZE \in 1..N
  BY DistanceInSlots, SizesAssumption DEF Slots
<1>2. Ahead(head, BATCH_SIZE) = Ahead(tail, D + BATCH_SIZE)
  BY <1>1, AheadTwice, AheadDistance
<1>3. Distance(tail, head)' = D + BATCH_SIZE
  <2>1. D + BATCH_SIZE \in Slots
    BY <1>1 DEF Slots
  <2>2. Distance(tail, Ahead(tail, D + BATCH_SIZE)) = D + BATCH_SIZE
    BY <2>1, DistanceAhead
  <2> QED  BY <1>2, <2>2 DEF insertBatch, Distance
<1>4. ASSUME NEW k \in 0..D + BATCH_SIZE - 1
      PROVE  /\ Ahead(tail, k) \in Slots
             /\ Distance(head, Ahead(tail, k)) = IF k < D THEN k - D + N ELSE k - D
  <2>1. k \in Slots
    BY <1>1 DEF Slots
  <2> QED  BY <2>1, <1>1, AheadInSlots, DistanceBehind DEF Slots
<1>5. ASSUME NEW k \in 0..D - 1
      PROVE  array'[Ahead(tail, k)] = array[Ahead(tail, k)]
  <2>1. k \in 0..D + BATCH_SIZE - 1 /\ k < D
    BY <1>1
  <2>2. Ahead(tail, k) \in Slots /\ ~(Distance(head, Ahead(tail, k)) < BATCH_SIZE)
    BY <2>1, <1>1, <1>4
  <2> QED  BY <2>2 DEF insertBatch
<1>6. ASSUME NEW k \in 0..BATCH_SIZE - 1
      PROVE  array'[Ahead(tail, D + k)] = values[k]
  <2>1. D + k \in 0..D + BATCH_SIZE - 1 /\ ~(D + k < D)
    BY <1>1
  <2>2. /\ Ahead(tail, D + k) \in Slots
        /\ Distance(head, Ahead(tail, D + k)) = k /\ k < BATCH_SIZE
    BY <2>1, <1>1, <1>4
  <2> QED  BY <2>2 DEF insertBatch
<1> QED  BY <1>3, <1>5, <1>6

\* removeBatch takes from the front of it.
LEMMA RemoveTakes ==
  ASSUME NEW t, removeBatch(t), head \in Slots, tail \in Slots,
         BATCH_SIZE <= Distance(tail, head)
  PROVE  /\ Distance(tail, head)' = Distance(tail, head) - BATCH_SIZE
         /\ \A k \in 0..Distance(tail, head) - BATCH_SIZE - 1 :
              Ahead(tail', k) = Ahead(tail, BATCH_SIZE + k)
<1> DEFINE N == HASHGEN_THREADS_BUFFER
           D == Distance(tail, head)
<1>1. N \in Nat \ {0} /\ D \in 0..N - 1 /\ BATCH_SIZE \in 1..N
  BY DistanceInSlots, SizesAssumption DEF Slots
<1>2. tail' = Ahead(tail, BATCH_SIZE) /\ tail' \in Slots
  BY <1>1, AheadInSlots DEF removeBatch
<1>3. \A k \in 0..D - BATCH_SIZE : Ahead(tail', k) = Ahead(tail, BATCH_SIZE + k)
  BY <1>1, <1>2, AheadTwice
<1>4. head = Ahead(tail', D - BATCH_SIZE)
  <2>1. BATCH_SIZE + (D - BATCH_SIZE) = D /\ D - BATCH_SIZE \in 0..D - BATCH_SIZE
    BY <1>1
  <2> QED  BY <2>1, <1>3, AheadDistance
<1>5. Distance(tail', head) = D - BATCH_SIZE
  <2>1. D - BATCH_SIZE \in Slots
    BY <1>1 DEF Slots
  <2> QED  BY <2>1, <1>2, <1>4, DistanceAhead
<1>6. Distance(tail, head)' = D - BATCH_SIZE
  BY <1>5 DEF removeBatch, Distance
<1> QED  BY <1>1, <1>3, <1>6

\* A batch inserted takes the room of one,
LEMMA InsertTakesRoom ==
  ASSUME NEW t, NEW values, insertBatch(t, values),
         head \in Slots, tail \in Slots,
         Distance(tail, head) + BATCH_SIZE < HASHGEN_THREADS_BUFFER
  PROVE  Room \in Int /\ Room' \in Int /\ Room' + 1 = Room
<1> DEFINE D == Distance(tail, head)
           a == HASHGEN_THREADS_BUFFER - (D + BATCH_SIZE)
<1>1. a \in Int /\ HASHGEN_THREADS_BUFFER - D = a + BATCH_SIZE
  BY RoomType
<1>2. (a + BATCH_SIZE) \div BATCH_SIZE = a \div BATCH_SIZE + 1
  BY <1>1, RoomType, DivPlus
<1>3. Room = (a + BATCH_SIZE) \div BATCH_SIZE - 1
  BY <1>1 DEF Room
<1>4. Room' = a \div BATCH_SIZE - 1
  BY InsertAppends DEF Room
<1>5. a \div BATCH_SIZE \in Int
  BY <1>1, RoomType
<1> HIDE DEF a
<1> QED  BY <1>2, <1>3, <1>4, <1>5

\* and a batch removed makes it.
LEMMA RemoveMakesRoom ==
  ASSUME NEW t, removeBatch(t), head \in Slots, tail \in Slots,
         BATCH_SIZE <= Distance(tail, head)
  PROVE  Room \in Int /\ Room' \in Int /\ Room' = Room + 1
<1> DEFINE D == Distance(tail, head)
           a == HASHGEN_THREADS_BUFFER - D
<1>1. a \in Int /\ HASHGEN_THREADS_BUFFER - (D - BATCH_SIZE) = a + BATCH_SIZE
  BY RoomType
<1>2. (a + BATCH_SIZE) \div BATCH_SIZE = a \div BATCH_SIZE + 1
  BY <1>1, RoomType, DivPlus
<1>3. Room' = (a + BATCH_SIZE) \div BATCH_SIZE - 1
  BY <1>1, RemoveTakes DEF Room
<1>4. Room = a \div BATCH_SIZE - 1
  BY DEF Room
<1>5. a \div BATCH_SIZE \in Int
  BY <1>1, RoomType
<1> HIDE DEF a
<1> QED  BY <1>2, <1>3, <1>4, <1>5

\* Joining sequences is associative, in the form the proofs below apply it.
LEMMA JoinTwice ==
  ASSUME NEW S, NEW x \in Seq(S), NEW y \in Seq(S), NEW z \in Seq(S), NEW yz, yz = y \o z
  PROVE  (x \o y) \o z = x \o yz
<1>1. (x \o y) \o z = x \o (y \o z)
  BY ConcatAssociative
<1> QED  BY <1>1

-----------------------------------------------------------------------------
\* Where the elements of a concatenation are.
LEMMA ConcatPlaces ==
  ASSUME NEW S, NEW s \in Seq(S), NEW t \in Seq(S)
  PROVE  /\ s \o t \in Seq(S) /\ Len(s) \in Nat /\ Len(t) \in Nat
         /\ DOMAIN s = 1..Len(s) /\ DOMAIN (s \o t) = 1..Len(s) + Len(t)
         /\ \A k \in 1..Len(s) : k \in DOMAIN (s \o t) /\ (s \o t)[k] = s[k]
         /\ \A k \in 1..Len(t) :
              Len(s) + k \in DOMAIN (s \o t) /\ (s \o t)[Len(s) + k] = t[k]
<1>1. Len(s) \in Nat /\ Len(t) \in Nat /\ DOMAIN s = 1..Len(s)
  OBVIOUS
<1>2. s \o t \in Seq(S) /\ Len(s \o t) = Len(s) + Len(t)
  BY ConcatProperties
<1>3. DOMAIN (s \o t) = 1..Len(s) + Len(t)
  BY <1>2, LenProperties
<1>4. \A k \in 1..Len(s) + Len(t) :
        (s \o t)[k] = IF k <= Len(s) THEN s[k] ELSE t[k - Len(s)]
  BY ConcatProperties
<1>5. \A k \in 1..Len(t) : /\ Len(s) + k \in 1..Len(s) + Len(t)
                           /\ ~(Len(s) + k <= Len(s)) /\ (Len(s) + k) - Len(s) = k
  BY <1>1
<1>6. \A k \in 1..Len(s) : k \in 1..Len(s) + Len(t) /\ k <= Len(s)
  BY <1>1
<1> QED  BY <1>1, <1>2, <1>3, <1>4, <1>5, <1>6

\* What waits in the ring, place by place.
LEMMA ContentsIs ==
  ASSUME NEW S, array \in [Slots -> S], head \in Slots, tail \in Slots
  PROVE  /\ Contents \in Seq(S)
         /\ Len(Contents) = Distance(tail, head)
         /\ \A k \in 1..Distance(tail, head) :
              Contents[k] = array[Ahead(tail, k - 1)]
<1> DEFINE D == Distance(tail, head)
           c == [k \in 1..D |-> array[Ahead(tail, k - 1)]]
<1>1. D \in Nat /\ D \in Slots
  BY DistanceInSlots DEF Slots
<1>2. \A k \in 1..D : array[Ahead(tail, k - 1)] \in S
  <2>1. \A k \in 1..D : k - 1 \in 0..HASHGEN_THREADS_BUFFER
    BY <1>1, SizesAssumption DEF Slots
  <2> QED  BY <2>1, AheadInSlots
<1> HIDE DEF D
<1>3. c \in Seq(S) /\ Len(c) = D /\ \A k \in 1..D : c[k] = array[Ahead(tail, k - 1)]
  BY <1>1, <1>2
<1> QED  BY <1>3 DEF Contents, D

\* A batch that is inserted comes behind what the ring holds.
LEMMA InsertGrows ==
  ASSUME NEW t, NEW S, NEW values \in [0..BATCH_SIZE - 1 -> S],
         insertBatch(t, values),
         array \in [Slots -> S], head \in Slots, tail \in Slots,
         Distance(tail, head) + BATCH_SIZE < HASHGEN_THREADS_BUFFER
  PROVE  Contents' = Contents \o [k \in 1..BATCH_SIZE |-> values[k - 1]]
<1> DEFINE D == Distance(tail, head)
           b == [k \in 1..BATCH_SIZE |-> values[k - 1]]
           c == [k \in 1..D + BATCH_SIZE |-> array'[Ahead(tail, k - 1)]]
<1>1. D \in Nat /\ BATCH_SIZE \in Nat \ {0}
  BY DistanceInSlots, SizesAssumption DEF Slots
<1>2. Contents \in Seq(S) /\ Len(Contents) = D
      /\ \A k \in 1..D : Contents[k] = array[Ahead(tail, k - 1)]
  BY ContentsIs
<1>3. b \in Seq(S) /\ Len(b) = BATCH_SIZE
  BY <1>1
<1>4. Contents' = c
  <2>1. Distance(tail, head)' = D + BATCH_SIZE
    BY InsertAppends
  <2>2. tail' = tail
    BY DEF insertBatch
  <2>3. Contents' = [k \in 1..Distance(tail, head)' |-> array'[Ahead(tail, k - 1)]]
    BY <2>2 DEF Contents, Ahead
  <2> QED  BY <2>1, <2>3
<1>5. \A k \in 1..D : c[k] = Contents[k] /\ c[k] \in S
  <2> TAKE k \in 1..D
  <2>1. k - 1 \in 0..D - 1 /\ k \in 1..D + BATCH_SIZE
    BY <1>1
  <2>2. array'[Ahead(tail, k - 1)] = array[Ahead(tail, k - 1)]
    BY <2>1, InsertAppends
  <2>3. Contents[k] \in S
    BY <1>2
  <2> QED  BY <2>1, <2>2, <2>3, <1>2
<1>6. \A k \in D + 1..D + BATCH_SIZE : c[k] = b[k - D] /\ c[k] \in S
  <2> TAKE k \in D + 1..D + BATCH_SIZE
  <2> DEFINE j == k - D - 1
  <2>1. j \in 0..BATCH_SIZE - 1 /\ k \in 1..D + BATCH_SIZE /\ k - 1 = D + j
    BY <1>1
  <2>2. array'[Ahead(tail, D + j)] = values[j]
    <3> HIDE DEF j
    <3> QED  BY <2>1, InsertAppends
  <2>3. b[k - D] = values[j]
    BY <1>1
  <2>4. c[k] = array'[Ahead(tail, D + j)]
    BY <2>1
  <2> QED  BY <2>1, <2>2, <2>3, <2>4
<1> HIDE DEF D, b
<1>7. c \in Seq(S) /\ Len(c) = D + BATCH_SIZE
  <2>1. \A k \in 1..D + BATCH_SIZE : array'[Ahead(tail, k - 1)] \in S
    <3>1. \A k \in 1..D + BATCH_SIZE : k \in 1..D \/ k \in D + 1..D + BATCH_SIZE
      BY <1>1
    <3> QED  BY <3>1, <1>1, <1>5, <1>6
  <2> QED  BY <2>1, <1>1
<1> HIDE DEF c
<1>8. /\ Contents \o b \in Seq(S) /\ Len(Contents \o b) = D + BATCH_SIZE
      /\ \A k \in 1..D + BATCH_SIZE :
           (Contents \o b)[k] = IF k <= D THEN Contents[k] ELSE b[k - D]
  <2>1. Contents \in Seq(S) /\ Len(Contents) = D
    BY <1>2
  <2> QED  BY <2>1, <1>3, ConcatProperties
<1>9. \A k \in 1..D + BATCH_SIZE : c[k] = (Contents \o b)[k]
  BY <1>1, <1>5, <1>6, <1>8
<1>10. c = Contents \o b
  BY <1>7, <1>8, <1>9, SeqEqual
<1> QED  BY <1>4, <1>10 DEF b

\* A batch that is removed was at the front of it.
LEMMA RemoveShrinks ==
  ASSUME NEW t, NEW S, removeBatch(t),
         array \in [Slots -> S], head \in Slots, tail \in Slots,
         BATCH_SIZE <= Distance(tail, head)
  PROVE  /\ Contents = [k \in 1..BATCH_SIZE |-> NextBatch[k - 1]] \o Contents'
         /\ [k \in 1..BATCH_SIZE |-> NextBatch[k - 1]] \in Seq(S)
         /\ Contents' \in Seq(S)
<1> DEFINE D == Distance(tail, head)
           b == [k \in 1..BATCH_SIZE |-> NextBatch[k - 1]]
           c == [k \in 1..D - BATCH_SIZE |-> array[Ahead(tail', k - 1)]]
<1>1. D \in Nat /\ BATCH_SIZE \in Nat \ {0} /\ BATCH_SIZE <= D
  BY DistanceInSlots, SizesAssumption DEF Slots
<1>2. Contents \in Seq(S) /\ Len(Contents) = D
      /\ \A k \in 1..D : Contents[k] = array[Ahead(tail, k - 1)] /\ Contents[k] \in S
  <2>1. Contents \in Seq(S) /\ Len(Contents) = D
    BY ContentsIs
  <2>2. \A k \in 1..D : Contents[k] = array[Ahead(tail, k - 1)]
    BY ContentsIs
  <2> QED  BY <2>1, <2>2
<1>3. Contents' = c
  BY RemoveTakes DEF Contents, removeBatch, Ahead, Distance
<1>4. \A k \in 1..BATCH_SIZE : b[k] = Contents[k]
  <2> TAKE k \in 1..BATCH_SIZE
  <2>1. k - 1 \in 0..BATCH_SIZE - 1 /\ k \in 1..D
    BY <1>1
  <2> QED  BY <2>1, <1>2 DEF NextBatch
<1>5. \A k \in 1..D - BATCH_SIZE : c[k] = Contents[BATCH_SIZE + k]
  <2> TAKE k \in 1..D - BATCH_SIZE
  <2>1. k - 1 \in 0..D - BATCH_SIZE - 1 /\ BATCH_SIZE + k \in 1..D
    BY <1>1
  <2>2. Ahead(tail', k - 1) = Ahead(tail, BATCH_SIZE + (k - 1))
    BY <2>1, RemoveTakes
  <2> DEFINE l == BATCH_SIZE + k
  <2>3. Contents[l] = array[Ahead(tail, l - 1)]
    BY <2>1, <1>2
  <2>4. l - 1 = BATCH_SIZE + (k - 1)
    BY <1>1
  <2> QED  BY <2>1, <2>2, <2>3, <2>4
<1> HIDE DEF D
<1>6. b \in Seq(S) /\ Len(b) = BATCH_SIZE
  <2>1. \A k \in 1..BATCH_SIZE : NextBatch[k - 1] \in S
    <3>1. \A k \in 1..BATCH_SIZE : k \in 1..D
      BY <1>1
    <3> QED  BY <3>1, <1>2, <1>4
  <2> QED  BY <2>1, <1>1
<1>7. c \in Seq(S) /\ Len(c) = D - BATCH_SIZE
  <2>1. \A k \in 1..D - BATCH_SIZE : array[Ahead(tail', k - 1)] \in S
    <3>1. \A k \in 1..D - BATCH_SIZE : BATCH_SIZE + k \in 1..D
      BY <1>1
    <3> QED  BY <3>1, <1>2, <1>5
  <2> QED  BY <2>1, <1>1
<1> HIDE DEF b, c
<1>8. b \o c \in Seq(S) /\ Len(b \o c) = D
      /\ \A k \in 1..D : (b \o c)[k] = IF k <= BATCH_SIZE THEN b[k] ELSE c[k - BATCH_SIZE]
  <2>1. Len(b) + Len(c) = D
    BY <1>1, <1>6, <1>7
  <2>2. /\ b \o c \in Seq(S) /\ Len(b \o c) = Len(b) + Len(c)
        /\ \A k \in 1..Len(b) + Len(c) :
             (b \o c)[k] = IF k <= Len(b) THEN b[k] ELSE c[k - Len(b)]
    BY <1>6, <1>7, ConcatProperties
  <2> QED  BY <2>1, <2>2, <1>6
<1>9. \A k \in 1..D : (b \o c)[k] = Contents[k]
  <2> TAKE k \in 1..D
  <2>1. CASE k <= BATCH_SIZE
    BY <2>1, <1>1, <1>4, <1>8
  <2>2. CASE ~(k <= BATCH_SIZE)
    <3>1. k - BATCH_SIZE \in 1..D - BATCH_SIZE /\ BATCH_SIZE + (k - BATCH_SIZE) = k
      BY <2>2, <1>1
    <3>2. c[k - BATCH_SIZE] = Contents[k]
      BY <3>1, <1>5
    <3>3. (b \o c)[k] = IF k <= BATCH_SIZE THEN b[k] ELSE c[k - BATCH_SIZE]
      BY <1>8
    <3> QED  BY <2>2, <3>2, <3>3
  <2> QED  BY <2>1, <2>2
<1>10. Contents = b \o c
  BY <1>2, <1>8, <1>9, SeqEqual
<1> QED  BY <1>3, <1>6, <1>7, <1>10 DEF b

-----------------------------------------------------------------------------
Entry == [from : Producers, at : Nat]

\* A generator's entries up to n are those below n.
LEMMA InsertedIs ==
  ASSUME NEW n \in [Producers -> Nat], NEW e
  PROVE  e \in InsertedUpTo(n) <=> e \in Entry /\ e.at < n[e.from]
<1>1. ASSUME e \in InsertedUpTo(n) PROVE e \in Entry /\ e.at < n[e.from]
  <2>1. PICK p \in Producers : e \in [from : {p}, at : 0..n[p] - 1]
    BY <1>1 DEF InsertedUpTo
  <2> QED  BY <2>1 DEF Entry
<1>2. ASSUME e \in Entry, e.at < n[e.from] PROVE e \in InsertedUpTo(n)
  <2>1. e \in [from : {e.from}, at : 0..n[e.from] - 1] /\ e.from \in Producers
    BY <1>2 DEF Entry
  <2> QED  BY <2>1 DEF InsertedUpTo
<1> QED  BY <1>1, <1>2

\* The next batch of a thread, behind the entries of all, leaves them merged.
LEMMA MergeBatch ==
  ASSUME NEW s, NEW n \in [Producers -> Nat], Merged(s, n), NEW p \in Producers
  PROVE  Merged(s \o Batch(p, n[p]), [n EXCEPT ![p] = @ + BATCH_SIZE])
<1> DEFINE L == Len(s)
           t == s \o Batch(p, n[p])
           m == [n EXCEPT ![p] = @ + BATCH_SIZE]
<1>1. BATCH_SIZE \in Nat \ {0} /\ n[p] \in Nat
  BY SizesAssumption
<1>2. s \in Seq(Entry) /\ L \in Nat /\ L % BATCH_SIZE = 0 /\ DOMAIN s = 1..L
  BY DEF Merged, Batched, Entry
<1>3. Batch(p, n[p]) \in Seq(Entry) /\ Len(Batch(p, n[p])) = BATCH_SIZE
  BY <1>1 DEF Batch, Entry
<1>4. t \in Seq(Entry) /\ Len(t) = L + BATCH_SIZE /\ DOMAIN t = 1..L + BATCH_SIZE
  BY <1>2, <1>3
<1>5. \A k \in 1..L : t[k] = s[k]
  BY <1>2, <1>3
<1>6. \A k \in L + 1..L + BATCH_SIZE : t[k] = [from |-> p, at |-> n[p] + (k - L) - 1]
  <2>1. \A k \in L + 1..L + BATCH_SIZE : k - L \in 1..BATCH_SIZE
    BY <1>1, <1>2
  <2>2. \A k \in L + 1..L + BATCH_SIZE : t[k] = Batch(p, n[p])[k - L]
    BY <1>1, <1>2, <1>3, <2>1
  <2> QED  BY <2>1, <2>2 DEF Batch
<1>6a. \A k \in L + 1..L + BATCH_SIZE :
         t[k] \in Entry /\ t[k].from = p /\ t[k].at = n[p] + (k - L) - 1
  <2> HIDE DEF t, L
  <2> TAKE k \in L + 1..L + BATCH_SIZE
  <2> DEFINE a == n[p] + (k - L) - 1
  <2>1. a \in Nat
    BY <1>1, <1>2
  <2>2. t[k] = [from |-> p, at |-> a]
    BY <1>6
  <2> HIDE DEF a
  <2>3. t[k] \in Entry /\ t[k].from = p /\ t[k].at = a
    BY <2>1, <2>2 DEF Entry
  <2> QED  BY <2>3 DEF a
<1>7. m \in [Producers -> Nat] /\ m[p] = n[p] + BATCH_SIZE
      /\ \A q \in Producers : q # p => m[q] = n[q]
  BY <1>1
<1> HIDE DEF t, L, m
<1>8. \A k \in 1..L : s[k] \in Entry /\ s[k].at < n[s[k].from]
  BY <1>2, InsertedIs DEF Merged
<1>9. {t[k] : k \in DOMAIN t} = InsertedUpTo(m)
  <2>1. ASSUME NEW k \in DOMAIN t PROVE t[k] \in InsertedUpTo(m)
    <3>1. CASE k \in 1..L
      <4>1. t[k] \in Entry /\ t[k].at < n[t[k].from]
        BY <3>1, <1>5, <1>8
      <4>2. t[k].at < m[t[k].from]
        BY <4>1, <1>1, <1>7 DEF Entry
      <4> QED  BY <4>1, <4>2, <1>7, InsertedIs
    <3>2. CASE k \in L + 1..L + BATCH_SIZE
      <4>1. t[k] \in Entry /\ t[k].from = p /\ t[k].at = n[p] + (k - L) - 1
        BY <3>2, <1>6a
      <4>2. t[k].at < m[p]
        BY <3>2, <4>1, <1>1, <1>2, <1>7
      <4> QED  BY <4>1, <4>2, <1>7, InsertedIs
    <3> QED  BY <1>1, <1>2, <1>4, <2>1, <3>1, <3>2
  <2>2. ASSUME NEW e \in InsertedUpTo(m) PROVE \E k \in DOMAIN t : t[k] = e
    <3>1. e \in Entry /\ e.at < m[e.from]
      BY <1>7, InsertedIs
    <3>2. CASE e.at < n[e.from]
      <4>1. PICK k \in DOMAIN s : s[k] = e
        BY <3>1, <3>2, InsertedIs DEF Merged
      <4> QED  BY <4>1, <1>1, <1>2, <1>4, <1>5
    <3>3. CASE ~(e.at < n[e.from])
      <4>1. e.from = p /\ e.at - n[p] \in 0..BATCH_SIZE - 1
        BY <3>1, <3>3, <1>1, <1>7 DEF Entry
      <4>2. L + 1 + (e.at - n[p]) \in L + 1..L + BATCH_SIZE
        BY <4>1, <1>1, <1>2
      <4> DEFINE k == L + 1 + (e.at - n[p])
      <4>3. t[k] \in Entry /\ t[k].from = p /\ t[k].at = e.at
        <5>1. n[p] + (k - L) - 1 = e.at
          BY <3>1, <1>1, <1>2 DEF Entry
        <5> HIDE DEF k
        <5> QED  BY <5>1, <4>2, <1>6a DEF k
      <4>4. k \in DOMAIN t
        BY <4>2, <1>1, <1>2, <1>4
      <4> HIDE DEF k
      <4>5. t[k] = e
        BY <3>1, <4>1, <4>3 DEF Entry
      <4> QED  BY <4>4, <4>5
    <3> QED  BY <3>2, <3>3
  <2> QED  BY <2>1, <2>2
<1>10. InOrder(t)
  <2> SUFFICES ASSUME NEW j \in 1..L + BATCH_SIZE, NEW k \in 1..L + BATCH_SIZE,
                      j < k, t[j].from = t[k].from
               PROVE  t[j].at < t[k].at
    BY <1>4 DEF InOrder
  <2>1. CASE k \in 1..L
    <3>1. j \in 1..L
      BY <2>1, <1>1, <1>2
    <3> QED  BY <2>1, <3>1, <1>2, <1>5 DEF Merged, InOrder
  <2>2. CASE k \in L + 1..L + BATCH_SIZE
    <3>1. t[k].from = p /\ t[k].at = n[p] + (k - L) - 1
      BY <2>2, <1>6a
    <3>2. CASE j \in 1..L
      BY <3>1, <3>2, <2>2, <1>1, <1>2, <1>5, <1>8 DEF Entry
    <3>3. CASE j \in L + 1..L + BATCH_SIZE
      <4>1. t[j].at = n[p] + (j - L) - 1
        BY <3>3, <1>6a
      <4> QED  BY <3>1, <3>3, <4>1, <2>2, <1>1, <1>2
    <3> QED  BY <3>2, <3>3, <1>1, <1>2
  <2> QED  BY <2>1, <2>2, <1>1, <1>2
<1>11. Batched(t)
  <2>1. Len(t) % BATCH_SIZE = 0
    BY <1>1, <1>2, <1>4, MultiplesAdd
  <2> SUFFICES ASSUME NEW k \in 1..L + BATCH_SIZE, (k - 1) % BATCH_SIZE = 0,
                      NEW j \in 0..BATCH_SIZE - 1
               PROVE  /\ k + j \in 1..L + BATCH_SIZE
                      /\ t[k + j] = [from |-> t[k].from, at |-> t[k].at + j]
    BY <2>1, <1>4 DEF Batched
  <2>2. CASE k \in 1..L
    <3>1. DOMAIN s = 1..L
      BY <1>2
    <3>2. k + j \in 1..L /\ s[k + j] = [from |-> s[k].from, at |-> s[k].at + j]
      BY <2>2, <3>1 DEF Merged, Batched
    <3> QED  BY <2>2, <3>2, <1>1, <1>2, <1>5
  <2>3. CASE k \in L + 1..L + BATCH_SIZE
    <3> DEFINE b == k - 1
    <3>1. b \in Nat /\ L <= b /\ b < L + BATCH_SIZE /\ b % BATCH_SIZE = 0
      BY <2>3, <1>1, <1>2
    <3>2. L < b => L + BATCH_SIZE <= b
      <4> HIDE DEF b, L
      <4> QED  BY <3>1, <1>1, <1>2, MultiplesApart
    <3>3. k = L + 1
      BY <3>1, <3>2, <1>1, <1>2
    <3>4. k + j \in L + 1..L + BATCH_SIZE
      BY <3>3, <1>1, <1>2
    <3>5. t[k] = [from |-> p, at |-> n[p]]
      BY <3>3, <2>3, <1>1, <1>2, <1>6
    <3>6. t[k + j] = [from |-> p, at |-> n[p] + j]
      <4>1. n[p] + ((k + j) - L) - 1 = n[p] + j
        BY <3>3, <1>1, <1>2
      <4>2. t[k + j] = [from |-> p, at |-> n[p] + ((k + j) - L) - 1]
        BY <3>4, <1>6
      <4> QED  BY <4>1, <4>2
    <3> QED  BY <3>4, <3>5, <3>6, <1>1, <1>2
  <2> QED  BY <2>2, <2>3, <1>1, <1>2
<1> QED  BY <1>4, <1>9, <1>10, <1>11 DEF Merged, t, m, Entry

\* Where the entries of a thread stand, the one before number j is j.at.
LEMMA CountIsIndex ==
  ASSUME NEW s, NEW n \in [Producers -> Nat], Merged(s, n), NEW j \in DOMAIN s
  PROVE  LET K == {k \in 1..j - 1 : s[k].from = s[j].from}
         IN  IsFiniteSet(K) /\ Cardinality(K) = s[j].at
<1> DEFINE K == {k \in 1..j - 1 : s[k].from = s[j].from}
           T == 0..s[j].at - 1
           f == [k \in K |-> s[k].at]
<1>1. s \in Seq(Entry) /\ Len(s) \in Nat /\ DOMAIN s = 1..Len(s)
  BY DEF Merged, Entry
<1>1a. \A k \in 1..Len(s) : s[k] \in Entry /\ s[k].at \in Nat
  <2>1. \A k \in 1..Len(s) : s[k] \in Entry
    BY <1>1
  <2> QED  BY <2>1 DEF Entry
<1>2. j \in 1..Len(s) /\ s[j] \in Entry /\ s[j].at \in Nat
  BY <1>1, <1>1a
<1>3. IsFiniteSet(1..j - 1)
  BY <1>2, FS_Interval
<1>4. IsFiniteSet(K)
  BY <1>3, FS_Subset
<1>5. Cardinality(T) = s[j].at
  <2>1. \A m \in Nat : Cardinality(0..m - 1) = m
    BY FS_Interval
  <2> QED  BY <2>1, <1>2
<1>6. \A k \in K : k \in DOMAIN s /\ k < j /\ s[k] \in Entry /\ s[k].at \in Nat
  BY <1>1, <1>1a, <1>2
<1>7. \A k \in K : s[k].at < s[j].at
  BY <1>6 DEF Merged, InOrder
<1>8. f \in [K -> T]
  BY <1>2, <1>6, <1>7
<1>9. \A k, l \in K : f[k] = f[l] => k = l
  <2> SUFFICES ASSUME NEW k \in K, NEW l \in K, k < l PROVE s[k].at < s[l].at
    BY <1>1, <1>6
  <2> QED  BY <1>6 DEF Merged, InOrder
<1>10. \A a \in T : \E k \in K : f[k] = a
  <2> TAKE a \in T
  <2> DEFINE e == [from |-> s[j].from, at |-> a]
  <2>1. a \in Nat /\ a < s[j].at
    BY <1>2
  <2>2. e \in InsertedUpTo(n)
    <3>1. s[j].at < n[s[j].from] /\ s[j].from \in Producers
      BY <1>2, InsertedIs DEF Merged, Entry
    <3>2. e \in Entry /\ e.from = s[j].from /\ e.at = a
      BY <2>1, <3>1 DEF Entry
    <3>3. e.at < n[e.from]
      BY <1>2, <2>1, <3>1, <3>2
    <3> QED  BY <3>2, <3>3, InsertedIs
  <2>3. PICK k \in DOMAIN s : s[k] = e
    BY <2>2 DEF Merged
  <2>4. s[k].from = s[j].from /\ s[k].at = a
    BY <2>3
  <2>5. k < j
    <3>1. CASE k = j
      BY <3>1, <2>1, <2>4, <1>2
    <3>2. CASE j < k
      <4>1. s[j].at < s[k].at
        BY <3>2, <2>4 DEF Merged, InOrder
      <4> QED  BY <4>1, <2>1, <2>4, <1>2
    <3> QED  BY <3>1, <3>2, <1>1, <1>2
  <2>6. k \in K
    BY <2>4, <2>5, <1>1, <1>2
  <2> QED  BY <2>4, <2>6
<1> HIDE DEF K, T, f
<1>11. f \in Bijection(K, T)
  BY <1>8, <1>9, <1>10 DEF Bijection, Injection, Surjection, IsInjective
<1>12. Cardinality(T) = Cardinality(K)
  BY <1>4, <1>11, FS_Bijection DEF ExistsBijection
<1> QED  BY <1>4, <1>5, <1>12 DEF K

\* How many entries of s are of thread p.
CountOf(s, p) == Cardinality({k \in DOMAIN s : s[k].from = p})

\* A batch counts for its thread and for no other.
LEMMA CountOfBatch ==
  ASSUME NEW S, NEW s \in Seq(S), NEW p, NEW a, NEW q,
         Batch(p, a) \in Seq(S)
  PROVE  /\ CountOf(s, q) \in Nat
         /\ CountOf(s \o Batch(p, a), q) =
              IF q = p THEN CountOf(s, q) + BATCH_SIZE ELSE CountOf(s, q)
<1> DEFINE L == Len(s)
           t == s \o Batch(p, a)
           K == {k \in DOMAIN s : s[k].from = q}
           M == L + 1..L + BATCH_SIZE
<1>1. L \in Nat /\ DOMAIN s = 1..L /\ BATCH_SIZE \in Nat \ {0}
  BY SizesAssumption
<1>2. IsFiniteSet(K) /\ Cardinality(K) \in Nat
  <2>1. IsFiniteSet(1..L)
    BY <1>1, FS_Interval
  <2>2. K \in SUBSET (1..L)
    BY <1>1
  <2> QED  BY <2>1, <2>2, FS_Subset, FS_CardinalityType
<1>3. IsFiniteSet(M) /\ Cardinality(M) = BATCH_SIZE
  <2>1. \A x, y \in Int : IsFiniteSet(x..y) /\ Cardinality(x..y) = IF x > y THEN 0 ELSE y - x + 1
    BY FS_Interval
  <2>2. L + 1 \in Int /\ L + BATCH_SIZE \in Int /\ ~(L + 1 > L + BATCH_SIZE)
        /\ (L + BATCH_SIZE) - (L + 1) + 1 = BATCH_SIZE
    BY <1>1
  <2> QED  BY <2>1, <2>2
<1>4. Len(Batch(p, a)) = BATCH_SIZE
  BY <1>1 DEF Batch
<1>5. DOMAIN t = 1..L + BATCH_SIZE /\ \A k \in 1..L : t[k] = s[k]
  BY <1>1, <1>4
<1>6. \A k \in M : t[k].from = p
  <2>1. \A k \in M : k - L \in 1..BATCH_SIZE
    BY <1>1
  <2>2. \A k \in M : t[k] = Batch(p, a)[k - L]
    BY <1>1, <1>4, <2>1
  <2>3. \A j \in 1..BATCH_SIZE : Batch(p, a)[j].from = p
    BY DEF Batch
  <2> HIDE DEF t
  <2> QED  BY <2>1, <2>2, <2>3
<1>7. \A k : k \in DOMAIN t <=> k \in 1..L \/ k \in M
  BY <1>1, <1>5
<1> HIDE DEF t
<1>8. {k \in DOMAIN t : t[k].from = q} = IF q = p THEN K \cup M ELSE K
  <2> HIDE DEF L, M
  <2> QED  BY <1>1, <1>5, <1>6, <1>7
<1>9. Cardinality(K \cup M) = Cardinality(K) + BATCH_SIZE
  <2>1. K \cap M = {}
    BY <1>1
  <2> HIDE DEF K, M
  <2>2. Cardinality(K \cup M) = Cardinality(K) + Cardinality(M) - Cardinality({})
    BY <2>1, <1>2, <1>3, FS_Union
  <2> QED  BY <2>2, <1>1, <1>2, <1>3, FS_EmptySet
<1> QED  BY <1>2, <1>8, <1>9 DEF CountOf, t

-----------------------------------------------------------------------------
\* What has been taken out of the ring and what is in it, together: insertBatch
\* adds a batch at the end of them.
LEMMA InsertMerges ==
  ASSUME HASHGEN_THREADS_BUFFER % BATCH_SIZE = 0,
         NEW S, NEW out \in Seq(S), Entry \subseteq S,
         array \in [Slots -> S], head \in Slots, tail \in Slots,
         NEW n \in [Producers -> Nat], Aligned, ~Full, Merged(out \o Contents, n),
         NEW p \in Producers, NEW t,
         insertBatch(t, [j \in 0..BATCH_SIZE - 1 |-> [from |-> p, at |-> n[p] + j]])
  PROVE  /\ Aligned'
         /\ Distance(tail, head) + BATCH_SIZE < HASHGEN_THREADS_BUFFER
         /\ Merged(out \o Contents', [n EXCEPT ![p] = @ + BATCH_SIZE])
<1> DEFINE D == Distance(tail, head)
           values == [j \in 0..BATCH_SIZE - 1 |-> [from |-> p, at |-> n[p] + j]]
<1>1. D + BATCH_SIZE < HASHGEN_THREADS_BUFFER
  <2>1. D + 2 * BATCH_SIZE <= HASHGEN_THREADS_BUFFER
    BY RoomIfNotFull
  <2> QED  BY <2>1, RoomType
<1>2. values \in [0..BATCH_SIZE - 1 -> S]
  <2>1. \A j \in 0..BATCH_SIZE - 1 : [from |-> p, at |-> n[p] + j] \in Entry
    BY RoomType DEF Entry
  <2> QED  BY <2>1
<1>3. Contents' = Contents \o Batch(p, n[p])
  <2>1. [k \in 1..BATCH_SIZE |-> values[k - 1]] = Batch(p, n[p])
    BY RoomType DEF Batch
  <2>2. Contents' = Contents \o [k \in 1..BATCH_SIZE |-> values[k - 1]]
    <3> HIDE DEF values
    <3> QED  BY <1>1, <1>2, InsertGrows DEF values
  <2> QED  BY <2>1, <2>2
<1>4. out \o Contents' = (out \o Contents) \o Batch(p, n[p])
  <2>1. Contents \in Seq(S)
    BY ContentsIs
  <2>2. Batch(p, n[p]) \in Seq(S)
    <3>1. BATCH_SIZE \in Nat \ {0} /\ n[p] \in Nat
      BY RoomType
    <3>2. Batch(p, n[p]) \in Seq(Entry)
      BY <3>1 DEF Batch, Entry
    <3> QED  BY <3>2, SeqMonotonic
  <2>3. (out \o Contents) \o Batch(p, n[p]) = out \o (Contents \o Batch(p, n[p]))
    BY <2>1, <2>2, JoinTwice
  <2> QED  BY <2>3, <1>3, Zenon
<1>5. Merged(out \o Contents', [n EXCEPT ![p] = @ + BATCH_SIZE])
  BY <1>4, MergeBatch
<1>6. Aligned'
  <2>1. Distance(tail, head)' = D + BATCH_SIZE
    BY <1>1, InsertAppends
  <2>2. (D + BATCH_SIZE) % BATCH_SIZE = 0
    BY RoomType, MultiplesAdd DEF Aligned
  <2> QED  BY <2>1, <2>2 DEF Aligned
<1> QED  BY <1>1, <1>5, <1>6

\* removeBatch moves a batch from the one to the other.
LEMMA RemoveMerges ==
  ASSUME NEW S, NEW out \in Seq(S),
         array \in [Slots -> S], head \in Slots, tail \in Slots,
         Aligned, ~Empty, NEW t, removeBatch(t)
  PROVE  LET b == [k \in 1..BATCH_SIZE |-> NextBatch[k - 1]]
         IN  /\ Aligned' /\ BATCH_SIZE <= Distance(tail, head)
             /\ b \in Seq(S) /\ Len(b) = BATCH_SIZE
             /\ Contents = b \o Contents' /\ Contents' \in Seq(S)
             /\ (out \o b) \o Contents' = out \o Contents
<1> DEFINE b == [k \in 1..BATCH_SIZE |-> NextBatch[k - 1]]
           D == Distance(tail, head)
<1>1. BATCH_SIZE <= D
  BY BatchIfNotEmpty
<1>2. Contents = b \o Contents' /\ b \in Seq(S) /\ Contents' \in Seq(S)
  BY <1>1, RemoveShrinks
<1>3. Len(b) = BATCH_SIZE
  BY RoomType
<1>4. Aligned'
  <2>1. Distance(tail, head)' = D - BATCH_SIZE
    BY <1>1, RemoveTakes
  <2>2. (D - BATCH_SIZE) % BATCH_SIZE = 0
    BY <1>1, RoomType, MultiplesAdd DEF Aligned
  <2> QED  BY <2>1, <2>2 DEF Aligned
<1> HIDE DEF b
<1>5. (out \o b) \o Contents' = out \o Contents
  <2>1. (out \o b) \o Contents' = out \o (b \o Contents')
    BY <1>2, JoinTwice
  <2> QED  BY <2>1, <1>2, Zenon
<1> QED  BY <1>1, <1>2, <1>3, <1>4, <1>5 DEF b
=============================================================================
