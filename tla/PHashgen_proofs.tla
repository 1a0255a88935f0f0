--------------------------- MODULE PHashgen_proofs ---------------------------
(***************************************************************************)
(* Theorems about the parallel generator hashgen4.c and its write queue,   *)
(* for any number of workers, writers, buckets and nodes, and any sizes.   *)
(***************************************************************************)
EXTENDS PHashgen, SumTheorems, SequenceTheorems

\* The nodes from front to rear, with places of L, are those that were filled.
QueueInv(L) ==
  /\ arr \in [Nodes -> [write_index : L \cup {NoLocation}, array : Arrays]]
  /\ front \in Nodes \cup {-1} /\ rear \in Nodes \cup {-1}
  /\ front = -1 <=> rear = -1
  /\ size = held
  /\ queueMutex \in Workers \cup {MainThread, NoThread}
  /\ got \in Seq(L) /\ Waiting \in Seq(L)

\* Of the places a writer can seek the last one has a next.
Indexes == 0..2 * NUM_BUCKETS * CHUNKS - 1

\* The mutex of a bucket is held by the worker that enqueues its cup, which is full
\* then and only then; when main goes on no worker has work left.
WorkersInv ==
  /\ \A b \in Buckets :
       IF bucketMutex[b] = NoThread THEN bucketIndex[b] < CUP_SIZE
       ELSE /\ bucketIndex[b] = CUP_SIZE
            /\ worker[bucketMutex[b]] = "enqueue" /\ bucket[bucketMutex[b]] = b
  /\ \A t \in Workers :
       /\ worker[t] = "enqueue" => bucketMutex[bucket[t]] = t
       /\ worker[t] = "lock" => made[t] < iterations
       /\ main # "join" => worker[t] = "done"

\* The hashes of the buckets, in chunks enqueued and in the cup.
Gathered == [b \in Buckets |-> bucketFlush[b] * CUP_SIZE + bucketIndex[b]]
CountInv == main = "join" => SumFunction(made) = SumFunction(Gathered)

\* A node that was dequeued has been filled, and the writer between seek and write
\* holds file_mutex.
WritersInv ==
  \A w \in Writers :
    /\ writer[w] \in {"seek", "write"} => arr[node[w]].write_index \in Indexes
    /\ writer[w] = "write" => /\ fileMutex = w
                              /\ position = sought[w] /\ position \in Indexes

Inv ==
  /\ TypeOK /\ QueueInv(Indexes)
  /\ WorkersInv /\ CountInv /\ WritersInv
  /\ ChunksQueuedOnce /\ FlushesCounted

-----------------------------------------------------------------------------
(* The circular queue.                                                     *)

\* Going round the ring of nodes is one subtraction or none.
LEMMA Wrap ==
  ASSUME NEW n \in Int
  PROVE  /\ n \in 0..QUEUE_SIZE - 1 => n % QUEUE_SIZE = n
         /\ n \in QUEUE_SIZE..2 * QUEUE_SIZE - 1 => n % QUEUE_SIZE = n - QUEUE_SIZE
         /\ n \in -QUEUE_SIZE..-1 => n % QUEUE_SIZE = n + QUEUE_SIZE
BY QueueAssumption

\* Places of the ring, counted from one of them.
LEMMA SumInRange ==
  ASSUME NEW q \in Nat, NEW n \in 0..q - 1, NEW k \in Int, 1 <= k, k <= q
  PROVE  n + k - 1 \in 0..2 * q - 1
OBVIOUS

\* How many nodes are in use, from front and rear.
LEMMA HeldIs ==
  ASSUME NEW L, QueueInv(L)
  PROVE  /\ front = -1 => held = 0
         /\ front # -1 => /\ front \in Nodes /\ rear \in Nodes
                          /\ held = IF front <= rear THEN rear - front + 1
                                    ELSE rear - front + 1 + QUEUE_SIZE
         /\ held \in 0..QUEUE_SIZE
         /\ isFull <=> held = QUEUE_SIZE
<1> USE QueueAssumption
<1>1. CASE front = -1
  <2>1. rear + 1 = 0
    BY <1>1 DEF QueueInv
  <2> QED  BY <1>1, <2>1, Wrap DEF held, isEmpty, isFull
<1>2. CASE front # -1
  <2>1. front \in Nodes /\ rear \in Nodes
    BY <1>2 DEF QueueInv
  <2>2. held = IF front <= rear THEN rear - front + 1
               ELSE rear - front + 1 + QUEUE_SIZE
    BY <1>2, <2>1, Wrap DEF held, isEmpty, Nodes
  <2>3. (rear + 1) % QUEUE_SIZE = IF rear + 1 = QUEUE_SIZE THEN 0 ELSE rear + 1
    BY <2>1, Wrap DEF Nodes
  <2> QED  BY <1>2, <2>1, <2>2, <2>3 DEF isFull, Nodes
<1> QED  BY <1>1, <1>2

\* The k-th node that waits, and the node that is filled next.
LEMMA WaitingIs ==
  ASSUME NEW L, QueueInv(L)
  PROVE  /\ Len(Waiting) = held /\ DOMAIN Waiting = 1..held
         /\ \A k \in 1..held :
              /\ front # -1
              /\ Waiting[k] = arr[IF front + k - 1 < QUEUE_SIZE THEN front + k - 1
                                  ELSE front + k - 1 - QUEUE_SIZE].write_index
<1>1. held \in 0..QUEUE_SIZE /\ QUEUE_SIZE \in Nat
  BY HeldIs, QueueAssumption
<1>2. ASSUME NEW k \in 1..held
      PROVE  /\ front # -1
             /\ (front + k - 1) % QUEUE_SIZE
                  = IF front + k - 1 < QUEUE_SIZE THEN front + k - 1
                    ELSE front + k - 1 - QUEUE_SIZE
  <2>1. front # -1 /\ front \in Nodes
    BY <1>1, HeldIs
  <2> DEFINE n == front + k - 1
  <2>2. n \in 0..2 * QUEUE_SIZE - 1
    BY <1>1, <2>1 DEF Nodes
  <2>3. n % QUEUE_SIZE = IF n < QUEUE_SIZE THEN n ELSE n - QUEUE_SIZE
    <3> HIDE DEF n
    <3> QED  BY <1>1, <2>2, Wrap
  <2>4. n - QUEUE_SIZE = front + k - 1 - QUEUE_SIZE
    BY <1>1, <2>1 DEF Nodes
  <2> QED  BY <2>1, <2>3, <2>4
<1>3. Waiting = [k \in 1..held |-> arr[(front + k - 1) % QUEUE_SIZE].write_index]
  BY DEF Waiting
<1> HIDE DEF Waiting
<1>4. DOMAIN Waiting = 1..held
  BY <1>3
<1>5. Len(Waiting) = held
  BY <1>1, <1>4, LenProperties DEF QueueInv
<1> QED  BY <1>2, <1>3, <1>4, <1>5

\* The node that is filled next, without the remainder.
LEMMA VacantIs ==
  ASSUME NEW L, QueueInv(L), ~isFull
  PROVE  /\ vacant \in Nodes
         /\ vacant = IF front = -1 THEN 0
                     ELSE IF front + held < QUEUE_SIZE THEN front + held
                     ELSE front + held - QUEUE_SIZE
<1> USE QueueAssumption
<1>1. CASE front = -1
  BY <1>1 DEF vacant, isEmpty, Nodes
<1>2. CASE front # -1
  <2>1. (rear + 1) % QUEUE_SIZE = IF rear + 1 = QUEUE_SIZE THEN 0 ELSE rear + 1
    BY <1>2, HeldIs, Wrap DEF Nodes
  <2> QED  BY <1>2, <2>1, HeldIs DEF vacant, isEmpty, Nodes
<1> QED  BY <1>1, <1>2

\* An enqueued chunk comes last,
LEMMA EnqueueAppends ==
  ASSUME NEW L, QueueInv(L), NEW location \in L, enqueue(location)
  PROVE  /\ QueueInv(L)'
         /\ Waiting' = Append(Waiting, location)
         /\ Queued' = Append(Queued, location)
<1> USE QueueAssumption
<1>1. ~isFull /\ held < QUEUE_SIZE /\ held \in Nat
  BY HeldIs DEF enqueue
<1>2. /\ vacant \in Nodes
      /\ vacant = IF front = -1 THEN 0
                  ELSE IF front + held < QUEUE_SIZE THEN front + held
                  ELSE front + held - QUEUE_SIZE
  BY <1>1, VacantIs
<1>3. /\ front' = (IF front = -1 THEN 0 ELSE front)
      /\ rear' = vacant /\ size' = size + 1 /\ got' = got /\ queueMutex' = queueMutex
      /\ arr' = [arr EXCEPT ![vacant].write_index = location]
  BY DEF enqueue, isEmpty
<1>4. /\ front' \in Nodes /\ rear' \in Nodes
      /\ front' # -1 /\ rear' # -1
  BY <1>2, <1>3 DEF QueueInv, Nodes
<1>5. held' = held + 1
  <2>1. held' = ((rear' - front') % QUEUE_SIZE) + 1
    BY <1>4 DEF held, isEmpty
  <2>2. CASE front = -1
    BY <1>2, <1>3, <2>1, <2>2, HeldIs, Wrap
  <2>3. CASE front # -1
    <3>1. /\ front \in Nodes /\ rear \in Nodes
          /\ held = IF front <= rear THEN rear - front + 1
                    ELSE rear - front + 1 + QUEUE_SIZE
      BY <2>3, HeldIs
    <3>2. rear' - front' \in -QUEUE_SIZE..QUEUE_SIZE - 1
      BY <1>2, <1>3, <2>3, <3>1 DEF Nodes
    <3>3. (rear' - front') % QUEUE_SIZE = IF rear' - front' < 0 THEN rear' - front' + QUEUE_SIZE
                                          ELSE rear' - front'
      BY <3>2, Wrap
    <3> QED  BY <1>1, <1>2, <1>3, <2>1, <2>3, <3>1, <3>3 DEF Nodes
  <2> QED  BY <2>2, <2>3
<1>6. arr' \in [Nodes -> [write_index : L \cup {NoLocation}, array : Arrays]]
  BY <1>2, <1>3 DEF QueueInv
<1>7. \A n \in Nodes : arr'[n].write_index = IF n = vacant THEN location ELSE arr[n].write_index
  BY <1>2, <1>3 DEF QueueInv
<1>8. /\ Len(Waiting) = held /\ Waiting \in Seq(L)
      /\ Append(Waiting, location) \in Seq(L)
      /\ Len(Append(Waiting, location)) = held + 1
      /\ \A k \in 1..held + 1 :
           Append(Waiting, location)[k] = IF k = held + 1 THEN location ELSE Waiting[k]
  BY WaitingIs DEF QueueInv
<1>9. ASSUME NEW k \in 1..held + 1
      PROVE  Waiting'[k] = Append(Waiting, location)[k]
  <2> DEFINE n == front' + k - 1
  <2> k \in Int /\ 1 <= k /\ k <= QUEUE_SIZE
    BY <1>1
  <2>1. n \in 0..2 * QUEUE_SIZE - 1
    BY <1>4, SumInRange DEF Nodes
  <2>2. n % QUEUE_SIZE = IF n < QUEUE_SIZE THEN n ELSE n - QUEUE_SIZE
    <3> HIDE DEF n
    <3> QED  BY <2>1, Wrap
  <2>3. Waiting'[k] = arr'[n % QUEUE_SIZE].write_index
    BY <1>5 DEF Waiting
  <2>4. n % QUEUE_SIZE \in Nodes
    <3> HIDE DEF n
    <3> QED  BY <2>1, <2>2 DEF Nodes
  <2>5. CASE k = held + 1
    <3>1. n % QUEUE_SIZE = vacant
      BY <1>1, <1>2, <1>3, <1>4, <2>2, <2>5, HeldIs DEF Nodes
    <3> QED  BY <1>7, <1>8, <2>3, <2>5, <3>1, <1>2
  <2>6. CASE k # held + 1
    <3>1. k \in 1..held
      BY <1>1, <2>6
    <3>2. front # -1 /\ front' = front /\ front \in Nodes
      BY <1>3, <3>1, HeldIs DEF QueueInv
    <3>3. n % QUEUE_SIZE # vacant
      BY <1>1, <1>2, <2>2, <3>1, <3>2 DEF Nodes
    <3>4. n % QUEUE_SIZE = IF front + k - 1 < QUEUE_SIZE THEN front + k - 1
                           ELSE front + k - 1 - QUEUE_SIZE
      BY <2>2, <3>2 DEF Nodes
    <3>5. Waiting[k] = arr[n % QUEUE_SIZE].write_index
      BY <3>1, <3>4, WaitingIs
    <3> QED  BY <1>7, <1>8, <2>3, <2>4, <2>6, <3>3, <3>5
  <2> QED  BY <2>5, <2>6
<1>10. Waiting' = Append(Waiting, location)
  <2>1. DOMAIN Waiting' = 1..held + 1 /\ Waiting' = [k \in 1..held + 1 |-> Waiting'[k]]
    BY <1>5 DEF Waiting
  <2>2. DOMAIN Append(Waiting, location) = 1..held + 1
    BY <1>8, LenProperties
  <2>3. Append(Waiting, location) = [k \in 1..held + 1 |-> Append(Waiting, location)[k]]
    BY <1>8, <2>2, LenProperties
  <2> QED  BY <1>9, <2>1, <2>3
<1>11. QueueInv(L)'
  BY <1>3, <1>4, <1>5, <1>6, <1>8, <1>10 DEF QueueInv
<1>12. Queued' = Append(Queued, location)
  <2>1. got \in Seq(L) /\ Waiting \in Seq(L)
    BY DEF QueueInv
  <2>2. got \o Append(Waiting, location) = Append(got \o Waiting, location)
    BY <2>1
  <2> QED  BY <1>3, <1>10, <2>2 DEF Queued
<1> QED  BY <1>10, <1>11, <1>12

\* and a dequeued one is the oldest.
LEMMA DequeueTakes ==
  ASSUME NEW L, QueueInv(L), dequeue
  PROVE  /\ QueueInv(L)'
         /\ front \in Nodes /\ arr[front].write_index \in L
         /\ Queued' = Queued
         /\ Len(got) < Len(Queued) /\ got' = Append(got, Queued[Len(got) + 1])
<1> USE QueueAssumption
<1> DEFINE item == arr[front].write_index
<1>1. front # -1 /\ front \in Nodes /\ rear \in Nodes
  BY HeldIs DEF dequeue, isEmpty
<1>2. /\ held \in 1..QUEUE_SIZE
      /\ held = IF front <= rear THEN rear - front + 1
                ELSE rear - front + 1 + QUEUE_SIZE
  BY <1>1, HeldIs DEF Nodes
<1>3. /\ front' = (IF held = 1 THEN -1
                   ELSE IF front + 1 < QUEUE_SIZE THEN front + 1 ELSE 0)
      /\ rear' = (IF held = 1 THEN -1 ELSE rear)
  <2>1. front = rear <=> held = 1
    BY <1>1, <1>2 DEF Nodes
  <2>2. (front + 1) % QUEUE_SIZE = IF front + 1 < QUEUE_SIZE THEN front + 1 ELSE 0
    BY <1>1, Wrap DEF Nodes
  <2> QED  BY <2>1, <2>2 DEF dequeue
<1>4. /\ size' = size - 1 /\ got' = Append(got, item)
      /\ arr' = arr /\ queueMutex' = queueMutex
  BY DEF dequeue
<1>5. /\ front' \in Nodes \cup {-1} /\ rear' \in Nodes \cup {-1}
      /\ front' = -1 <=> held = 1
      /\ rear' = -1 <=> held = 1
  BY <1>1, <1>3 DEF Nodes
<1>6. held' = held - 1
  <2>1. CASE held = 1
    BY <1>5, <2>1 DEF held, isEmpty
  <2>2. CASE held # 1
    <3>1. held' = ((rear' - front') % QUEUE_SIZE) + 1
      BY <1>5, <2>2 DEF held, isEmpty
    <3>2. rear' - front' \in -QUEUE_SIZE..QUEUE_SIZE - 1
      BY <1>1, <1>3, <2>2 DEF Nodes
    <3>3. (rear' - front') % QUEUE_SIZE = IF rear' - front' < 0 THEN rear' - front' + QUEUE_SIZE
                                          ELSE rear' - front'
      BY <3>2, Wrap
    <3> QED  BY <1>1, <1>2, <1>3, <2>2, <3>1, <3>3 DEF Nodes
  <2> QED  BY <2>1, <2>2
<1>7. /\ Waiting \in Seq(L) /\ Len(Waiting) = held /\ DOMAIN Waiting = 1..held
      /\ Waiting[1] = item
  <2>1. front + 1 - 1 = front /\ front < QUEUE_SIZE
    BY <1>1 DEF Nodes
  <2> QED  BY <1>2, <2>1, WaitingIs DEF QueueInv
<1>8. item \in L
  BY <1>2, <1>7, ElementOfSeq
<1>9. ASSUME NEW k \in 1..held - 1
      PROVE  Waiting'[k] = Waiting[k + 1]
  <2> DEFINE n == front' + k - 1
  <2>1. held # 1 /\ front' \in Nodes /\ k + 1 \in 1..held
    BY <1>2, <1>5
  <2> k \in Int /\ 1 <= k /\ k <= QUEUE_SIZE
    BY <1>2
  <2>2. n \in 0..2 * QUEUE_SIZE - 1
    BY <2>1, SumInRange DEF Nodes
  <2>3. n % QUEUE_SIZE = IF n < QUEUE_SIZE THEN n ELSE n - QUEUE_SIZE
    <3> HIDE DEF n
    <3> QED  BY <2>2, Wrap
  <2>4. Waiting'[k] = arr[n % QUEUE_SIZE].write_index
    BY <1>4, <1>6 DEF Waiting
  <2>5. n % QUEUE_SIZE = IF front + k < QUEUE_SIZE THEN front + k
                         ELSE front + k - QUEUE_SIZE
    BY <1>1, <1>2, <1>3, <2>1, <2>3 DEF Nodes
  <2>6. front + (k + 1) - 1 = front + k
    BY <1>1 DEF Nodes
  <2>7. Waiting[k + 1] = arr[IF front + k < QUEUE_SIZE THEN front + k
                             ELSE front + k - QUEUE_SIZE].write_index
    BY <2>1, <2>6, WaitingIs
  <2> QED  BY <2>4, <2>5, <2>7
<1>10. Waiting' = Tail(Waiting)
  <2>1. Waiting' = [k \in 1..held - 1 |-> Waiting'[k]]
    BY <1>6 DEF Waiting
  <2>2. Waiting # <<>>
    BY <1>2, <1>7
  <2>3. /\ Tail(Waiting) \in Seq(L) /\ Len(Tail(Waiting)) = held - 1
        /\ \A k \in 1..held - 1 : Tail(Waiting)[k] = Waiting[k + 1]
    BY <1>7, <2>2, HeadTailProperties
  <2>4. Tail(Waiting) = [k \in 1..held - 1 |-> Tail(Waiting)[k]]
    BY <2>3, LenProperties
  <2> QED  BY <1>9, <2>1, <2>3, <2>4
<1>11. Waiting' \in Seq(L)
  BY <1>2, <1>7, <1>10
<1>12. got \in Seq(L) /\ got' \in Seq(L)
  BY <1>4, <1>8 DEF QueueInv
<1>13. QueueInv(L)'
  <2>1. size' = held'
    BY <1>4, <1>6 DEF QueueInv
  <2> QED  BY <1>4, <1>5, <1>11, <1>12, <2>1 DEF QueueInv
<1>14. Queued' = Queued
  <2> HIDE DEF item
  <2>1. Waiting = <<item>> \o Tail(Waiting)
    BY <1>2, <1>7
  <2>2. Append(got, item) \o Tail(Waiting) = got \o (<<item>> \o Tail(Waiting))
    BY <1>8, <1>10, <1>11, <1>12
  <2> QED  BY <1>4, <1>10, <2>1, <2>2 DEF Queued
<1>15. Len(got) < Len(Queued) /\ Queued[Len(got) + 1] = item
  <2>1. /\ Len(Queued) = Len(got) + held
        /\ Len(got) \in Nat
        /\ \A k \in 1..Len(got) + held :
             Queued[k] = IF k <= Len(got) THEN got[k] ELSE Waiting[k - Len(got)]
    BY <1>7, <1>12, ConcatProperties, LenProperties DEF Queued
  <2>2. \A m \in Nat, n \in Nat \ {0} :
          m + 1 \in 1..m + n /\ (m + 1) - m = 1 /\ ~(m + 1 <= m) /\ m < m + n
    OBVIOUS
  <2>3. held \in Nat \ {0}
    BY <1>2
  <2> QED  BY <1>7, <2>1, <2>2, <2>3
<1> QED  BY <1>1, <1>4, <1>8, <1>13, <1>14, <1>15

-----------------------------------------------------------------------------
(* The sizes.                                                              *)

LEMMA Sizes ==
  /\ NUM_BUCKETS \in Nat \ {0} /\ CUP_SIZE \in Nat \ {0} /\ CHUNKS \in Nat \ {0}
  /\ IsFiniteSet(Workers) /\ NUM_HASHGEN_THREADS \in Nat \ {0}
  /\ iterations \in Nat
  /\ NUM_HASHGEN_THREADS * iterations <= NUM_BUCKETS * CHUNKS * CUP_SIZE
  /\ IsFiniteSet(Buckets)
  /\ 0 \in Buckets /\ 0 \in Nodes
<1>1. /\ NUM_BUCKETS \in Nat \ {0} /\ CUP_SIZE \in Nat \ {0} /\ CHUNKS \in Nat \ {0}
      /\ NUM_HASHGEN_THREADS \in Nat \ {0}
  BY PHashgenAssumption
<1>2. \A m \in Nat, n \in Nat \ {0} : m \div n \in Nat /\ n * (m \div n) <= m
  OBVIOUS
<1>3. NUM_BUCKETS * CHUNKS * CUP_SIZE \in Nat
  BY <1>1
<1>4. IsFiniteSet(Workers) /\ IsFiniteSet(Buckets)
  BY <1>1, PHashgenAssumption, FS_Interval DEF Buckets
<1>5. iterations \in Nat /\ NUM_HASHGEN_THREADS * iterations <= NUM_BUCKETS * CHUNKS * CUP_SIZE
  BY <1>1, <1>2, <1>3 DEF iterations
<1> QED  BY <1>1, <1>4, <1>5, QueueAssumption DEF Buckets, Nodes

\* The places of a bucket and of the chunks it can have.
LEMMA LocationFits ==
  ASSUME NEW b \in Buckets, bucketFlush[b] \in Nat, bucketFlush[b] < NUM_BUCKETS * CHUNKS
  PROVE  write_location(b) \in Indexes
<1>1. \A x, y \in Nat, c \in Nat \ {0} : x < y => x * c + c <= y * c
  <2> SUFFICES ASSUME NEW x \in Nat, NEW y \in Nat, NEW c \in Nat \ {0}, x < y
               PROVE  (x + 1) * c <= y * c
    OBVIOUS
  <2> QED  OBVIOUS
<1>2. b * CHUNKS \in Nat /\ NUM_BUCKETS * CHUNKS \in Nat
  BY Sizes DEF Buckets
<1>3. b * CHUNKS + CHUNKS <= NUM_BUCKETS * CHUNKS
  BY <1>1, Sizes DEF Buckets
<1>4. 2 * NUM_BUCKETS * CHUNKS = NUM_BUCKETS * CHUNKS + NUM_BUCKETS * CHUNKS
  BY Sizes
<1> DEFINE p == b * CHUNKS
           q == NUM_BUCKETS * CHUNKS
<1>5. p \in Nat /\ q \in Nat /\ p <= q /\ 2 * NUM_BUCKETS * CHUNKS = q + q
  BY <1>2, <1>3, <1>4, Sizes
<1> HIDE DEF p, q
<1>6. write_location(b) = p + bucketFlush[b]
  BY DEF write_location, p
<1>7. bucketFlush[b] < q
  BY DEF q
<1> QED  BY <1>5, <1>6, <1>7 DEF Indexes

\* A sum that a step adds to one of.
LEMMA SumPlus ==
  ASSUME NEW S, IsFiniteSet(S), NEW f, DOMAIN f = S, \A y \in S : f[y] \in Nat,
         NEW x \in S
  PROVE  SumFunction([f EXCEPT ![x] = @ + 1]) = SumFunction(f) + 1
<1> DEFINE g == [f EXCEPT ![x] = @ + 1]
<1>1. /\ DOMAIN g = S /\ g[x] = f[x] + 1 /\ f[x] \in Nat
      /\ \A y \in S \ {x} : f[y] = g[y]
      /\ \A y \in S : f[y] \in Int /\ g[y] \in Int
  OBVIOUS
<1> HIDE DEF g
<1>2. SumFunctionOnSet(g, S) = SumFunctionOnSet(f, S) + (g[x] - f[x])
  BY <1>1, SumChange
<1>3. SumFunctionOnSet(f, S) \in Int
  BY <1>1, SumType
<1>4. g[x] - f[x] = 1
  BY <1>1
<1> QED  BY <1>1, <1>2, <1>4 DEF SumFunction, g

\* While the workers run, no bucket has more chunks than the plot: the hashes made
\* are what is in the buckets, and each worker makes its share.
LEMMA ChunksBounded ==
  ASSUME TypeOK, CountInv, main = "join", NEW b \in Buckets, bucketIndex[b] = CUP_SIZE
  PROVE  bucketFlush[b] < NUM_BUCKETS * CHUNKS
<1> DEFINE share == [t \in Workers |-> iterations]
<1>1. SumFunction(made) <= NUM_HASHGEN_THREADS * iterations
  <2>1. /\ DOMAIN made = Workers
        /\ \A t \in Workers : made[t] \in Int /\ share[t] \in Int /\ made[t] <= share[t]
    BY Sizes DEF TypeOK
  <2>2. SumFunctionOnSet(made, Workers) <= SumFunctionOnSet(share, Workers)
    <3> HIDE DEF share
    <3> QED  BY <2>1, Sizes, SumMonotone
  <2>3. SumFunctionOnSet(share, Workers) = Cardinality(Workers) * iterations
    <3>1. iterations \in Int /\ \A t \in Workers : share[t] = iterations
      BY Sizes
    <3> HIDE DEF share
    <3> QED  BY <3>1, Sizes, SumConstant
  <2> QED  BY <2>1, <2>2, <2>3 DEF SumFunction, NUM_HASHGEN_THREADS
<1>2. Gathered[b] <= SumFunction(Gathered) /\ SumFunction(Gathered) \in Int
  <2>1. DOMAIN Gathered = Buckets /\ \A c \in Buckets : Gathered[c] \in Nat
    <3> SUFFICES ASSUME NEW c \in Buckets
                 PROVE  bucketFlush[c] * CUP_SIZE + bucketIndex[c] \in Nat
      BY DEF Gathered
    <3>1. bucketFlush[c] \in Nat /\ bucketIndex[c] \in Nat /\ CUP_SIZE \in Nat
      BY Sizes DEF TypeOK
    <3> QED  BY <3>1
  <2> QED  BY <2>1, Sizes, SumBounds, SumType DEF SumFunction
<1>3. bucketFlush[b] * CUP_SIZE + CUP_SIZE <= NUM_BUCKETS * CHUNKS * CUP_SIZE
  <2>1. Gathered[b] = bucketFlush[b] * CUP_SIZE + CUP_SIZE
    BY DEF Gathered
  <2>2. bucketFlush[b] \in Nat
    BY DEF TypeOK
  <2>3. /\ bucketFlush[b] * CUP_SIZE + CUP_SIZE \in Int
        /\ NUM_HASHGEN_THREADS * iterations \in Int
        /\ NUM_BUCKETS * CHUNKS * CUP_SIZE \in Int
    BY <2>2, Sizes
  <2> QED  BY <1>1, <1>2, <2>1, <2>3, Sizes DEF CountInv
<1>4. \A f, q \in Nat, c \in Nat \ {0} : f * c + c <= q * c => f < q
  <2> SUFFICES ASSUME NEW f \in Nat, NEW q \in Nat, NEW c \in Nat \ {0}, q <= f
               PROVE  q * c <= f * c
    OBVIOUS
  <2> QED  OBVIOUS
<1>5. NUM_BUCKETS * CHUNKS \in Nat /\ bucketFlush[b] \in Nat
  BY Sizes DEF TypeOK
<1> QED  BY <1>3, <1>4, <1>5, Sizes

-----------------------------------------------------------------------------
(* Steps.                                                                  *)

\* What a worker or main enqueues is in a place of the file.
LEMMA EnqueueFits ==
  ASSUME Inv, NEW t \in Workers, Enqueue(t)
  PROVE  /\ bucket[t] \in Buckets /\ bucketMutex[bucket[t]] = t
         /\ bucketIndex[bucket[t]] = CUP_SIZE
         /\ main = "join"
         /\ write_location(bucket[t]) \in Indexes
<1>1. bucket[t] \in Buckets /\ bucketMutex[bucket[t]] = t /\ t # NoThread
  BY PHashgenAssumption DEF Enqueue, Inv, WorkersInv, TypeOK
<1>2. bucketIndex[bucket[t]] = CUP_SIZE /\ main = "join"
  BY <1>1 DEF Enqueue, Inv, WorkersInv
<1>3. bucketFlush[bucket[t]] \in Nat /\ bucketFlush[bucket[t]] < NUM_BUCKETS * CHUNKS
  BY <1>1, <1>2, ChunksBounded DEF Inv, TypeOK
<1> QED  BY <1>1, <1>2, <1>3, LocationFits

\* The same of the chunk that main enqueues last.
LEMMA RestFits ==
  ASSUME Inv, RestChunk
  PROVE  rest \in Buckets /\ write_location(rest) \in Indexes
<1>1. rest \in Buckets /\ bucketFlush[rest] \in Nat
  BY Sizes DEF RestChunk, Inv, TypeOK, Buckets
<1>2. CHUNKS <= NUM_BUCKETS * CHUNKS
  <2>1. \A m, n \in Nat \ {0} : n <= m * n
    <3> SUFFICES ASSUME NEW m \in Nat \ {0}, NEW n \in Nat \ {0} PROVE 1 * n <= m * n
      OBVIOUS
    <3> QED  OBVIOUS
  <2> QED  BY <2>1, Sizes
<1>3. bucketFlush[rest] < NUM_BUCKETS * CHUNKS
  <2>1. bucketFlush[rest] < CHUNKS /\ CHUNKS \in Nat /\ NUM_BUCKETS * CHUNKS \in Nat
    BY Sizes DEF RestChunk, Short
  <2> QED  BY <1>1, <1>2, <2>1
<1> QED  BY <1>1, <1>3, LocationFits

\* What a step may do to the queue.
LEMMA QueueSteps ==
  ASSUME Inv, [Next]_vars
  PROVE  \/ \E b \in Buckets :
              /\ write_location(b) \in Indexes /\ enqueue(write_location(b))
              /\ chunkQueued(b)
              /\ UNCHANGED <<writerVars, fileVars>>
         \/ \E w \in Writers : TakeNode(w)
         \/ /\ UNCHANGED <<arr, front, rear, size, got, bucketFlush>>
            /\ queueMutex' \in Workers \cup {MainThread, NoThread}
<1>1. ASSUME NEW t \in Workers, Enqueue(t)
      PROVE  \E b \in Buckets :
              /\ write_location(b) \in Indexes /\ enqueue(write_location(b))
              /\ chunkQueued(b)
              /\ UNCHANGED <<writerVars, fileVars>>
  BY <1>1, EnqueueFits DEF Enqueue
<1>2. ASSUME RestChunk
      PROVE  \E b \in Buckets :
              /\ write_location(b) \in Indexes /\ enqueue(write_location(b))
              /\ chunkQueued(b)
              /\ UNCHANGED <<writerVars, fileVars>>
  BY <1>2, RestFits DEF RestChunk
<1>3. ASSUME NEW t \in Workers, NEW b \in Buckets, Block(t, b) \/ Hash(t, b)
      PROVE  UNCHANGED <<queueVars, bucketFlush>>
  BY <1>3 DEF Block, Hash, bucketVars
<1>4. ASSUME NEW t \in Workers, Spin(t)
      PROVE  UNCHANGED <<arr, front, rear, size, got, bucketFlush>> /\ queueMutex' = t
  BY <1>4 DEF Spin, enqueueSpins, bucketVars
<1>5. ASSUME RestSpin
      PROVE  UNCHANGED <<arr, front, rear, size, got, bucketFlush>> /\ queueMutex' = MainThread
  BY <1>5 DEF RestSpin, enqueueSpins, bucketVars
<1>6. ASSUME NEW t \in Workers, WorkerReturns(t)
      PROVE  UNCHANGED <<queueVars, bucketFlush>>
  BY <1>6 DEF WorkerReturns, bucketVars
<1>7. ASSUME NEW w \in Writers,
             TakeNothing(w) \/ TestFinished(w) \/ Seek(w) \/ Write(w) \/ WriterFails(w)
      PROVE  UNCHANGED <<queueVars, bucketFlush>>
  BY <1>7 DEF TakeNothing, dequeueNULL, TestFinished, Seek, Write, WriterFails, bucketVars
<1>8. ASSUME JoinWorkers \/ RestSkip \/ SetFinished \/ Exit \/ UNCHANGED vars
      PROVE  UNCHANGED <<queueVars, bucketFlush>>
  BY <1>8 DEF JoinWorkers, RestSkip, SetFinished, Exit, vars, bucketVars
<1>9. queueMutex \in Workers \cup {MainThread, NoThread}
  BY DEF Inv, QueueInv
<1> QED  BY <1>1, <1>2, <1>3, <1>4, <1>5, <1>6, <1>7, <1>8, <1>9
         DEF Next, WorkerStep, WriterStep, MainStep, queueVars

LEMMA QueueStep ==
  ASSUME Inv, [Next]_vars
  PROVE  QueueInv(Indexes)'
<1>1. QueueInv(Indexes)
  BY DEF Inv
<1>2. CASE \E b \in Buckets :
             write_location(b) \in Indexes /\ enqueue(write_location(b))
  BY <1>1, <1>2, EnqueueAppends
<1>3. CASE \E w \in Writers : TakeNode(w)
  BY <1>1, <1>3, DequeueTakes DEF TakeNode
<1>4. CASE /\ UNCHANGED <<arr, front, rear, size, got>>
           /\ queueMutex' \in Workers \cup {MainThread, NoThread}
  BY <1>1, <1>4 DEF QueueInv, held, Waiting, isEmpty
<1> QED  BY <1>2, <1>3, <1>4, QueueSteps

\* Cups are full, and mutexes held, by the workers that enqueue them.
LEMMA WorkersStep ==
  ASSUME Inv, [Next]_vars
  PROVE  WorkersInv'
<1> USE DEF WorkersInv
<1>0. /\ WorkersInv /\ NoThread \notin Workers
      /\ worker \in [Workers -> WorkerStates] /\ bucket \in [Workers -> Buckets]
      /\ made \in [Workers -> 0..iterations]
      /\ bucketMutex \in [Buckets -> Workers \cup {NoThread}]
      /\ bucketIndex \in [Buckets -> 0..CUP_SIZE]
  BY PHashgenAssumption DEF Inv, TypeOK
<1>1. ASSUME NEW t \in Workers, NEW b \in Buckets, Block(t, b)
      PROVE  WorkersInv'
  BY <1>0, <1>1 DEF Block, bucketVars, mainVars
<1>2. ASSUME NEW t \in Workers, NEW b \in Buckets, Hash(t, b)
      PROVE  WorkersInv'
  <2>1. /\ bucketMutex[b] = NoThread /\ bucketIndex[b] < CUP_SIZE
        /\ main' = main /\ main = "join" /\ worker[t] # "enqueue"
        /\ bucketIndex' = [bucketIndex EXCEPT ![b] = @ + 1]
        /\ made' = [made EXCEPT ![t] = @ + 1]
    BY <1>0, <1>2 DEF Hash, LockBucket, mainVars
  <2>2. CASE /\ bucketIndex[b] + 1 # CUP_SIZE
             /\ worker' = [worker EXCEPT ![t] = "hash"]
             /\ bucket' = [bucket EXCEPT ![t] = 0]
             /\ UNCHANGED bucketMutex
    BY <1>0, <2>1, <2>2, Sizes
  <2>3. CASE /\ bucketIndex[b] + 1 = CUP_SIZE
             /\ worker' = [worker EXCEPT ![t] = "enqueue"]
             /\ bucket' = [bucket EXCEPT ![t] = b]
             /\ bucketMutex' = [bucketMutex EXCEPT ![b] = t]
    BY <1>0, <2>1, <2>3, Sizes
  <2> QED  BY <1>2, <2>2, <2>3 DEF Hash
<1>3. ASSUME NEW t \in Workers, Enqueue(t)
      PROVE  WorkersInv'
  <2>1. /\ bucket[t] \in Buckets /\ bucketMutex[bucket[t]] = t /\ main = "join"
    BY <1>3, EnqueueFits
  <2>2. /\ bucketIndex' = [bucketIndex EXCEPT ![bucket[t]] = 0]
        /\ bucketMutex' = [bucketMutex EXCEPT ![bucket[t]] = NoThread]
        /\ worker' = [worker EXCEPT ![t] = "hash"]
        /\ bucket' = [bucket EXCEPT ![t] = 0]
        /\ UNCHANGED <<made, main>>
    BY <1>3 DEF Enqueue, chunkQueued, UnlockBucket, mainVars
  <2> QED  BY <1>0, <2>1, <2>2, Sizes
<1>4. ASSUME NEW t \in Workers, WorkerReturns(t)
      PROVE  WorkersInv'
  BY <1>0, <1>4 DEF WorkerReturns, bucketVars, mainVars
<1>5. CASE RestChunk
  <2>1. /\ rest \in Buckets /\ \A t \in Workers : worker[t] = "done"
    BY <1>0, <1>5, RestFits DEF RestChunk
  <2>2. bucketMutex[rest] = NoThread
    BY <1>0, <2>1
  <2>3. /\ bucketIndex' = [bucketIndex EXCEPT ![rest] = 0]
        /\ UNCHANGED <<bucketMutex, worker, bucket, made, main>>
    BY <1>5 DEF RestChunk, chunkQueued, workerVars
  <2> QED  BY <1>0, <2>1, <2>2, <2>3, Sizes
<1>6. CASE JoinWorkers
  BY <1>0, <1>6 DEF JoinWorkers, bucketVars, workerVars
<1>7. CASE RestSkip \/ SetFinished \/ Exit
  BY <1>0, <1>7 DEF RestSkip, SetFinished, Exit, bucketVars, workerVars
<1>8. CASE \/ \E t \in Workers : Spin(t)
           \/ RestSpin \/ UNCHANGED vars
  BY <1>0, <1>8 DEF Spin, RestSpin, vars, bucketVars, workerVars, mainVars
<1>9. CASE \E w \in Writers : WriterStep(w)
  BY <1>0, <1>9 DEF WriterStep, TakeNode, TakeNothing, TestFinished, Seek, Write,
                     WriterFails, bucketVars, workerVars, mainVars
<1> QED  BY <1>1, <1>2, <1>3, <1>4, <1>5, <1>6, <1>7, <1>8, <1>9
         DEF Next, WorkerStep, MainStep

LEMMA HeldNext == (QueueInv(Indexes) => held \in 0..QUEUE_SIZE)'
<1>1. QueueInv(Indexes) => held \in 0..QUEUE_SIZE
  BY HeldIs
<1> QED  BY <1>1, PTL

LEMMA TypeStep ==
  ASSUME Inv, [Next]_vars
  PROVE  TypeOK'
<1>1. /\ worker \in [Workers -> WorkerStates] /\ bucket \in [Workers -> Buckets]
      /\ made \in [Workers -> 0..iterations]
      /\ bucketMutex \in [Buckets -> Workers \cup {NoThread}]
      /\ bucketIndex \in [Buckets -> 0..CUP_SIZE]
      /\ bucketFlush \in [Buckets -> Nat]
      /\ array2D \in [Buckets -> Arrays]
      /\ arr \in [Nodes -> [write_index : Indexes \cup {NoLocation}, array : Arrays]]
  BY DEF Inv, TypeOK, QueueInv
<1>2. /\ writer \in [Writers -> WriterStates]
      /\ node \in [Writers -> Nodes]
      /\ fileMutex \in Writers \cup {NoThread}
      /\ position \in Locations
      /\ file \in [Locations -> Arrays \cup {Hole}]
      /\ totalFlushes \in Nat
      /\ sought \in [Writers -> Locations \cup {NoLocation}]
      /\ finished \in BOOLEAN /\ main \in MainStates /\ rest \in 0..NUM_BUCKETS
  BY DEF Inv, TypeOK
<1>3. Indexes \subseteq Locations /\ \A l \in Indexes : l + 1 \in Locations
  <2>1. NUM_BUCKETS * CHUNKS \in Nat /\ 2 * NUM_BUCKETS * CHUNKS \in Nat
    BY Sizes
  <2> QED  BY <2>1 DEF Indexes, Locations
<1>4. QueueTypeOK(Locations, Arrays, Workers \cup {MainThread})'
  <2>1. QueueInv(Indexes)'
    BY QueueStep
  <2>2. held' \in 0..QUEUE_SIZE
    BY <2>1, HeldNext
  <2>3. got' \in Seq(Locations)
    BY <1>3, <2>1, SeqMonotonic DEF QueueInv
  <2> QED  BY <1>3, <2>1, <2>2, <2>3 DEF QueueInv, QueueTypeOK
<1>5. /\ worker' \in [Workers -> WorkerStates] /\ bucket' \in [Workers -> Buckets]
      /\ made' \in [Workers -> 0..iterations]
  <2>1. CASE \E t \in Workers : \E b \in Buckets : Block(t, b)
    BY <1>1, <2>1 DEF Block, WorkerStates
  <2>2. CASE \E t \in Workers : \E b \in Buckets : Hash(t, b)
    <3>1. PICK t \in Workers, b \in Buckets : Hash(t, b)
      BY <2>2
    <3>2. made[t] \in 0..iterations /\ made[t] < iterations
      BY <1>1, <3>1 DEF Hash, Inv, WorkersInv
    <3>3. made[t] + 1 \in 0..iterations
      BY <3>2, Sizes
    <3>4. made' = [made EXCEPT ![t] = @ + 1] /\ 0 \in Buckets
      BY <3>1, Sizes DEF Hash
    <3> QED  BY <1>1, <3>1, <3>3, <3>4 DEF Hash, WorkerStates
  <2>3. CASE \E t \in Workers : Enqueue(t)
    BY <1>1, <2>3, Sizes DEF Enqueue, WorkerStates
  <2>4. CASE \E t \in Workers : WorkerReturns(t)
    BY <1>1, <2>4 DEF WorkerReturns, WorkerStates
  <2>5. CASE \/ \E t \in Workers : Spin(t)
             \/ MainStep \/ UNCHANGED vars
    BY <1>1, <2>5 DEF Spin, MainStep, JoinWorkers, RestChunk, RestSpin, RestSkip,
                      SetFinished, Exit, vars, workerVars
  <2>6. CASE \E w \in Writers : WriterStep(w)
    BY <1>1, <2>6 DEF WriterStep, TakeNode, TakeNothing, TestFinished, Seek, Write,
                      WriterFails, workerVars
  <2> QED  BY <2>1, <2>2, <2>3, <2>4, <2>5, <2>6 DEF Next, WorkerStep
<1>6. /\ bucketMutex' \in [Buckets -> Workers \cup {NoThread}]
      /\ bucketIndex' \in [Buckets -> 0..CUP_SIZE]
      /\ bucketFlush' \in [Buckets -> Nat]
      /\ array2D' \in [Buckets -> Arrays]
  <2>1. CASE \E t \in Workers : \E b \in Buckets : Hash(t, b)
    <3>1. PICK t \in Workers, b \in Buckets : Hash(t, b)
      BY <2>1
    <3>2. bucketIndex[b] \in 0..CUP_SIZE - 1
      BY <1>1, <3>1, Sizes DEF Hash, LockBucket, Inv, WorkersInv
    <3>3. bucketIndex' \in [Buckets -> 0..CUP_SIZE]
      BY <1>1, <3>1, <3>2, Sizes DEF Hash
    <3>4. array2D' \in [Buckets -> Arrays]
      <4>1. array2D[b] \in Arrays
        BY <1>1
      <4>2. [array2D[b] EXCEPT ![bucketIndex[b]] = Hashed] \in Arrays
        BY <4>1 DEF Arrays
      <4>3. array2D' = [array2D EXCEPT ![b] = [array2D[b] EXCEPT ![bucketIndex[b]] = Hashed]]
        BY <3>1 DEF Hash
      <4> QED  BY <1>1, <4>2, <4>3
    <3> QED  BY <1>1, <3>1, <3>3, <3>4 DEF Hash
  <2>2. ASSUME NEW b \in Buckets, enqueue(write_location(b)), chunkQueued(b)
        PROVE  /\ bucketIndex' \in [Buckets -> 0..CUP_SIZE]
               /\ bucketFlush' \in [Buckets -> Nat]
               /\ array2D' \in [Buckets -> Arrays]
    <3>1. vacant \in Nodes
      BY <2>2, VacantIs DEF Inv, enqueue
    <3>2. copiedOut \in Arrays
      BY <1>1, <3>1 DEF copiedOut
    <3>3. 0 \in 0..CUP_SIZE /\ bucketFlush[b] + 1 \in Nat
      BY <1>1, Sizes
    <3> QED  BY <1>1, <2>2, <3>2, <3>3 DEF chunkQueued
  <2>3. CASE \E t \in Workers : Enqueue(t)
    BY <1>1, <2>2, <2>3, EnqueueFits DEF Enqueue, UnlockBucket
  <2>4. CASE RestChunk
    BY <1>1, <2>2, <2>4, RestFits DEF RestChunk
  <2>5. CASE \/ \E t \in Workers : \/ \E b \in Buckets : Block(t, b)
                                   \/ Spin(t) \/ WorkerReturns(t)
             \/ JoinWorkers \/ RestSpin \/ RestSkip \/ SetFinished \/ Exit
             \/ UNCHANGED vars
    BY <1>1, <2>5 DEF Block, Spin, WorkerReturns, JoinWorkers, RestSpin, RestSkip,
                      SetFinished, Exit, vars, bucketVars
  <2>6. CASE \E w \in Writers : WriterStep(w)
    BY <1>1, <2>6 DEF WriterStep, TakeNode, TakeNothing, TestFinished, Seek, Write,
                      WriterFails, bucketVars
  <2> QED  BY <2>1, <2>3, <2>4, <2>5, <2>6 DEF Next, WorkerStep, MainStep
<1>7. /\ writer' \in [Writers -> WriterStates]
      /\ node' \in [Writers -> Nodes]
      /\ fileMutex' \in Writers \cup {NoThread}
      /\ position' \in Locations
      /\ file' \in [Locations -> Arrays \cup {Hole}]
      /\ totalFlushes' \in Nat
      /\ sought' \in [Writers -> Locations \cup {NoLocation}]
  <2>1. ASSUME NEW w \in Writers, TakeNode(w)
        PROVE  /\ writer' \in [Writers -> WriterStates] /\ node' \in [Writers -> Nodes]
               /\ UNCHANGED <<fileMutex, position, file, totalFlushes, sought>>
    <3>1. front \in Nodes
      BY <2>1, DequeueTakes DEF TakeNode, Inv
    <3> QED  BY <1>2, <2>1, <3>1 DEF TakeNode, WriterStates, fileVars
  <2>2. ASSUME NEW w \in Writers, TakeNothing(w) \/ TestFinished(w)
        PROVE  /\ writer' \in [Writers -> WriterStates]
               /\ UNCHANGED <<node, fileMutex, position, file, totalFlushes, sought>>
    BY <1>2, <2>2 DEF TakeNothing, TestFinished, WriterStates, fileVars
  <2>3. ASSUME NEW w \in Writers, Seek(w)
        PROVE  /\ writer' \in [Writers -> WriterStates]
               /\ node' \in [Writers -> Nodes]
               /\ fileMutex' \in Writers \cup {NoThread}
               /\ position' \in Locations
               /\ file' \in [Locations -> Arrays \cup {Hole}]
               /\ totalFlushes' \in Nat
               /\ sought' \in [Writers -> Locations \cup {NoLocation}]
    <3>1. arr[node[w]].write_index \in Locations
      BY <1>3, <2>3 DEF Seek, Inv, WritersInv
    <3> QED  BY <1>2, <2>3, <3>1 DEF Seek, WriterStates
  <2>4. ASSUME NEW w \in Writers, Write(w)
        PROVE  /\ writer' \in [Writers -> WriterStates]
               /\ node' \in [Writers -> Nodes]
               /\ fileMutex' \in Writers \cup {NoThread}
               /\ position' \in Locations
               /\ file' \in [Locations -> Arrays \cup {Hole}]
               /\ totalFlushes' \in Nat
               /\ sought' \in [Writers -> Locations \cup {NoLocation}]
    <3>1. position \in Indexes
      BY <2>4 DEF Write, Inv, WritersInv
    <3>2. arr[node[w]].array \in Arrays
      BY <1>1, <1>2
    <3>3. position + 1 \in Locations /\ totalFlushes + 1 \in Nat
      BY <1>2, <1>3, <3>1
    <3> QED  BY <1>2, <2>4, <3>2, <3>3, Sizes DEF Write, CountFlush, WriterStates
  <2>5. ASSUME NEW w \in Writers, WriterFails(w)
        PROVE  /\ writer' \in [Writers -> WriterStates]
               /\ node' \in [Writers -> Nodes]
               /\ fileMutex' \in Writers \cup {NoThread}
               /\ position' \in Locations
               /\ file' \in [Locations -> Arrays \cup {Hole}]
               /\ totalFlushes' \in Nat
               /\ sought' \in [Writers -> Locations \cup {NoLocation}]
    BY <1>2, <2>5, Sizes DEF WriterFails, WriterStates
  <2>6. CASE (\E t \in Workers : WorkerStep(t)) \/ MainStep \/ UNCHANGED vars
    BY <1>2, <2>6 DEF WorkerStep, Block, Hash, Enqueue, Spin, WorkerReturns, MainStep,
                      JoinWorkers, RestChunk, RestSpin, RestSkip, SetFinished, Exit,
                      vars, writerVars, fileVars
  <2> QED  BY <1>2, <2>1, <2>2, <2>3, <2>4, <2>5, <2>6 DEF Next, WriterStep
<1>8. finished' \in BOOLEAN /\ main' \in MainStates /\ rest' \in 0..NUM_BUCKETS
  <2>1. CASE RestChunk \/ RestSkip
    <3>1. rest \in 0..NUM_BUCKETS /\ rest < NUM_BUCKETS
      BY <1>2, <2>1 DEF RestChunk, RestSkip
    <3>2. rest + 1 \in 0..NUM_BUCKETS
      BY <3>1, Sizes
    <3> QED  BY <1>2, <2>1, <3>2 DEF RestChunk, RestSkip
  <2>2. CASE JoinWorkers \/ SetFinished \/ Exit
    BY <1>2, <2>2 DEF JoinWorkers, SetFinished, Exit, MainStates
  <2>3. CASE (\E t \in Workers : WorkerStep(t)) \/ RestSpin \/ UNCHANGED vars
    BY <1>2, <2>3 DEF WorkerStep, Block, Hash, Enqueue, Spin, WorkerReturns,
                      RestSpin, vars, mainVars
  <2>4. CASE \E w \in Writers : WriterStep(w)
    BY <1>2, <2>4 DEF WriterStep, TakeNode, TakeNothing, TestFinished, Seek, Write,
                      WriterFails, mainVars
  <2> QED  BY <2>1, <2>2, <2>3, <2>4 DEF Next, MainStep
<1> QED  BY <1>4, <1>5, <1>6, <1>7, <1>8 DEF TypeOK

\* What the workers made goes on to be what the buckets have.
LEMMA CountStep ==
  ASSUME Inv, [Next]_vars
  PROVE  CountInv'
<1> SUFFICES ASSUME main' = "join" PROVE SumFunction(made') = SumFunction(Gathered')
  BY DEF CountInv
<1>1. /\ made \in [Workers -> 0..iterations] /\ CUP_SIZE \in Nat
      /\ bucketIndex \in [Buckets -> 0..CUP_SIZE] /\ bucketFlush \in [Buckets -> Nat]
      /\ main = "join" => SumFunction(made) = SumFunction(Gathered)
  BY Sizes DEF Inv, TypeOK, CountInv
<1>2. ASSUME NEW t \in Workers, NEW b \in Buckets, Hash(t, b)
      PROVE  SumFunction(made') = SumFunction(Gathered')
  <2>1. /\ main = "join" /\ made' = [made EXCEPT ![t] = @ + 1]
        /\ bucketIndex' = [bucketIndex EXCEPT ![b] = @ + 1] /\ bucketFlush' = bucketFlush
    BY <1>2 DEF Hash, mainVars
  <2>2. Gathered' = [Gathered EXCEPT ![b] = @ + 1]
    <3>1. \A c \in Buckets : Gathered'[c] = [Gathered EXCEPT ![b] = @ + 1][c]
      <4> SUFFICES ASSUME NEW c \in Buckets
                   PROVE  bucketFlush'[c] * CUP_SIZE + bucketIndex'[c]
                            = IF c = b THEN bucketFlush[c] * CUP_SIZE + bucketIndex[c] + 1
                              ELSE bucketFlush[c] * CUP_SIZE + bucketIndex[c]
        BY DEF Gathered
      <4>1. bucketFlush[c] * CUP_SIZE \in Nat /\ bucketIndex[c] \in Nat
        BY <1>1
      <4> QED  BY <1>1, <2>1, <4>1
    <3> QED  BY <3>1 DEF Gathered
  <2>3. SumFunction(made') = SumFunction(made) + 1
    <3>1. DOMAIN made = Workers /\ \A u \in Workers : made[u] \in Nat
      BY <1>1, Sizes
    <3> QED  BY <2>1, <3>1, Sizes, SumPlus
  <2>4. SumFunction(Gathered') = SumFunction(Gathered) + 1
    <3>1. DOMAIN Gathered = Buckets /\ \A c \in Buckets : Gathered[c] \in Nat
      <4> SUFFICES ASSUME NEW c \in Buckets
                   PROVE  bucketFlush[c] * CUP_SIZE + bucketIndex[c] \in Nat
        BY DEF Gathered
      <4>1. bucketFlush[c] \in Nat /\ bucketIndex[c] \in Nat
        BY <1>1
      <4> QED  BY <1>1, <4>1
    <3> QED  BY <2>2, <3>1, Sizes, SumPlus
  <2> QED  BY <1>1, <2>1, <2>3, <2>4
<1>3. ASSUME NEW t \in Workers, Enqueue(t)
      PROVE  SumFunction(made') = SumFunction(Gathered')
  <2> DEFINE b == bucket[t]
  <2>1. b \in Buckets /\ bucketIndex[b] = CUP_SIZE /\ main = "join"
    BY <1>3, EnqueueFits
  <2>2. /\ made' = made /\ bucketIndex' = [bucketIndex EXCEPT ![b] = 0]
        /\ bucketFlush' = [bucketFlush EXCEPT ![b] = @ + 1]
    BY <1>3 DEF Enqueue, chunkQueued
  <2> HIDE DEF b
  <2>3. \A f, c \in Nat : (f + 1) * c + 0 = f * c + c
    OBVIOUS
  <2>4. \A c \in Buckets : bucketFlush'[c] * CUP_SIZE + bucketIndex'[c]
                             = bucketFlush[c] * CUP_SIZE + bucketIndex[c]
    <3> SUFFICES ASSUME NEW c \in Buckets
                 PROVE  bucketFlush'[c] * CUP_SIZE + bucketIndex'[c]
                          = bucketFlush[c] * CUP_SIZE + bucketIndex[c]
      OBVIOUS
    <3>1. CASE c = b
      <4>1. bucketFlush'[c] = bucketFlush[c] + 1 /\ bucketIndex'[c] = 0
        BY <1>1, <2>2, <3>1
      <4> QED  BY <1>1, <2>1, <2>3, <3>1, <4>1
    <3>2. CASE c # b
      BY <1>1, <2>2, <3>2
    <3> QED  BY <3>1, <3>2
  <2>5. Gathered' = Gathered
    BY <2>4 DEF Gathered
  <2> QED  BY <1>1, <2>1, <2>2, <2>5
<1>4. ASSUME UNCHANGED <<main, made, bucketIndex, bucketFlush>>
      PROVE  SumFunction(made') = SumFunction(Gathered')
  BY <1>1, <1>4 DEF Gathered
<1>5. ASSUME NEW t \in Workers,
             (\E b \in Buckets : Block(t, b)) \/ Spin(t) \/ WorkerReturns(t)
      PROVE  UNCHANGED <<main, made, bucketIndex, bucketFlush>>
  BY <1>5 DEF Block, Spin, WorkerReturns, bucketVars, workerVars, mainVars
<1>6. ASSUME NEW w \in Writers, WriterStep(w)
      PROVE  UNCHANGED <<main, made, bucketIndex, bucketFlush>>
  BY <1>6 DEF WriterStep, TakeNode, TakeNothing, TestFinished, Seek, Write,
              WriterFails, bucketVars, workerVars, mainVars
<1>7. ~MainStep
  BY DEF MainStep, JoinWorkers, RestChunk, RestSpin, RestSkip, SetFinished, Exit, mainVars
<1>8. CASE UNCHANGED vars
  BY <1>4, <1>8 DEF vars, mainVars, workerVars, bucketVars
<1> QED  BY <1>2, <1>3, <1>4, <1>5, <1>6, <1>7, <1>8 DEF Next, WorkerStep

\* Nobody moves the position of a writer that has sought.
LEMMA WritersStep ==
  ASSUME Inv, [Next]_vars
  PROVE  WritersInv'
<1> USE DEF WritersInv
<1>1. /\ WritersInv /\ NoThread \notin Writers
      /\ writer \in [Writers -> WriterStates] /\ node \in [Writers -> Nodes]
      /\ sought \in [Writers -> Locations \cup {NoLocation}]
      /\ arr \in [Nodes -> [write_index : Indexes \cup {NoLocation}, array : Arrays]]
  BY PHashgenAssumption DEF Inv, TypeOK, QueueInv
<1>2. ASSUME NEW b \in Buckets, write_location(b) \in Indexes,
             enqueue(write_location(b)), UNCHANGED <<writerVars, fileVars>>
      PROVE  WritersInv'
  <2>1. vacant \in Nodes
    BY <1>2, VacantIs DEF Inv, enqueue
  <2>2. arr' = [arr EXCEPT ![vacant].write_index = write_location(b)]
    BY <1>2 DEF enqueue
  <2>3. \A n \in Nodes : arr'[n].write_index \in {arr[n].write_index, write_location(b)}
    BY <1>1, <2>1, <2>2
  <2> QED  BY <1>1, <1>2, <2>3 DEF writerVars, fileVars
<1>3. ASSUME NEW w \in Writers, TakeNode(w)
      PROVE  WritersInv'
  <2>1. front \in Nodes /\ arr[front].write_index \in Indexes
    BY <1>3, DequeueTakes DEF TakeNode, Inv
  <2>2. /\ node' = [node EXCEPT ![w] = front] /\ writer' = [writer EXCEPT ![w] = "seek"]
        /\ UNCHANGED <<arr, fileMutex, position, sought>>
    BY <1>3 DEF TakeNode, dequeue, fileVars
  <2> QED  BY <1>1, <2>1, <2>2
<1>4. ASSUME NEW w \in Writers, TakeNothing(w) \/ TestFinished(w)
      PROVE  WritersInv'
  <2>1. /\ \E to \in {"test", "exited", "dequeue"} : writer' = [writer EXCEPT ![w] = to]
        /\ UNCHANGED <<arr, node, fileMutex, position, sought>>
    BY <1>4 DEF TakeNothing, dequeueNULL, TestFinished, queueVars, fileVars
  <2> QED  BY <1>1, <2>1
<1>5. ASSUME NEW w \in Writers, Seek(w)
      PROVE  WritersInv'
  BY <1>1, <1>5 DEF Seek, LockFile, queueVars
<1>6. ASSUME NEW w \in Writers, Write(w)
      PROVE  WritersInv'
  BY <1>1, <1>6 DEF Write, queueVars
<1>7. ASSUME NEW w \in Writers, WriterFails(w)
      PROVE  WritersInv'
  BY <1>1, <1>7 DEF WriterFails, LockFile, queueVars
<1>8. CASE /\ \/ (\E t \in Workers : WorkerStep(t)) \/ MainStep
              \/ UNCHANGED vars
           /\ UNCHANGED arr
  BY <1>1, <1>8 DEF WorkerStep, Block, Hash, Enqueue, Spin, WorkerReturns, MainStep,
                    JoinWorkers, RestChunk, RestSpin, RestSkip, SetFinished, Exit,
                    vars, writerVars, fileVars
<1> QED  BY <1>2, <1>3, <1>4, <1>5, <1>6, <1>7, <1>8, QueueSteps DEF Next, WriterStep

LEMMA ChunksQueuedStep ==
  ASSUME Inv, [Next]_vars
  PROVE  ChunksQueuedOnce'
<1>1. /\ bucketFlush \in [Buckets -> Nat] /\ got \in Seq(Indexes) /\ Waiting \in Seq(Indexes)
      /\ Queued \in Seq(Indexes) /\ DOMAIN Queued = 1..Len(Queued) /\ Len(Queued) \in Nat
  <2>1. got \in Seq(Indexes) /\ Waiting \in Seq(Indexes)
    BY DEF Inv, QueueInv
  <2>2. Queued \in Seq(Indexes)
    BY <2>1, ConcatProperties DEF Queued
  <2> QED  BY <2>1, <2>2, LenProperties DEF Inv, TypeOK
<1>2. ASSUME NEW b \in Buckets, write_location(b) \in Indexes,
             enqueue(write_location(b)), chunkQueued(b)
      PROVE  ChunksQueuedOnce'
  <2> DEFINE l == write_location(b)
  <2>1. Queued' = Append(Queued, l)
    BY <1>2, EnqueueAppends DEF Inv
  <2>2. bucketFlush' = [bucketFlush EXCEPT ![b] = @ + 1]
    BY <1>2 DEF chunkQueued
  <2>3. l - b * CHUNKS = bucketFlush[b] /\ l \in Int
    BY <1>1, Sizes DEF write_location, Buckets
  <2>4. /\ DOMAIN Queued' = 1..Len(Queued) + 1
        /\ \A k \in 1..Len(Queued) + 1 :
             Queued'[k] = IF k = Len(Queued) + 1 THEN l ELSE Queued[k]
    <3> HIDE DEF l
    <3> QED  BY <1>1, <1>2, <2>1
  <2> SUFFICES ASSUME NEW m \in Locations
               PROVE  Cardinality({k \in DOMAIN Queued' : Queued'[k] = m}) =
                        Cardinality({c \in Buckets : m - c * CHUNKS \in 0..bucketFlush'[c] - 1})
    BY DEF ChunksQueuedOnce
  <2> DEFINE A == {k \in DOMAIN Queued : Queued[k] = m}
             B == {c \in Buckets : m - c * CHUNKS \in 0..bucketFlush[c] - 1}
  <2>5. Cardinality(A) = Cardinality(B)
    BY DEF Inv, ChunksQueuedOnce
  <2>6. IsFiniteSet(A) /\ IsFiniteSet(B)
    <3>1. IsFiniteSet(1..Len(Queued))
      BY <1>1, FS_Interval
    <3> QED  BY <1>1, <3>1, Sizes, FS_Subset
  <2>7. CASE m = l
    <3>1. {k \in DOMAIN Queued' : Queued'[k] = m} = A \cup {Len(Queued) + 1}
      BY <1>1, <2>4, <2>7
    <3>2. {c \in Buckets : m - c * CHUNKS \in 0..bucketFlush'[c] - 1} = B \cup {b}
      <4>1. \A n \in Nat : n \in 0..(n + 1) - 1
        OBVIOUS
      <4>2. bucketFlush'[b] = bucketFlush[b] + 1 /\ bucketFlush[b] \in Nat
        BY <1>1, <2>2
      <4>3. m - b * CHUNKS \in 0..bucketFlush'[b] - 1
        BY <2>3, <2>7, <4>1, <4>2
      <4>4. \A c \in Buckets : c # b => bucketFlush'[c] = bucketFlush[c]
        BY <1>1, <2>2
      <4> HIDE DEF l
      <4> QED  BY <4>3, <4>4
    <3>3. Len(Queued) + 1 \notin A /\ b \notin B
      <4>1. \A n \in Nat : n \notin 0..n - 1
        OBVIOUS
      <4>2. bucketFlush[b] \in Nat
        BY <1>1
      <4> QED  BY <1>1, <2>3, <2>7, <4>1, <4>2
    <3>4. /\ Cardinality(A \cup {Len(Queued) + 1}) = Cardinality(A) + 1
          /\ Cardinality(B \cup {b}) = Cardinality(B) + 1
      <4> HIDE DEF A, B
      <4> QED  BY <2>6, <3>3, FS_AddElement
    <3> QED  BY <2>5, <3>1, <3>2, <3>4
  <2>8. CASE m # l
    <3>1. {k \in DOMAIN Queued' : Queued'[k] = m} = A
      BY <1>1, <2>4, <2>8
    <3>2. {c \in Buckets : m - c * CHUNKS \in 0..bucketFlush'[c] - 1} = B
      <4>1. bucketFlush'[b] = bucketFlush[b] + 1 /\ bucketFlush[b] \in Nat
        BY <1>1, <2>2
      <4>2. \A x, y, f \in Int : x - y # f => (x - y \in 0..(f + 1) - 1 <=> x - y \in 0..f - 1)
        OBVIOUS
      <4>3. b * CHUNKS \in Int /\ m \in Int
        BY Sizes DEF Buckets, Locations
      <4>4. m - b * CHUNKS # bucketFlush[b]
        BY <2>3, <2>8, <4>1, <4>3
      <4>5. m - b * CHUNKS \in 0..bucketFlush'[b] - 1 <=> m - b * CHUNKS \in 0..bucketFlush[b] - 1
        BY <4>1, <4>2, <4>3, <4>4
      <4>6. \A c \in Buckets : c # b => bucketFlush'[c] = bucketFlush[c]
        BY <1>1, <2>2
      <4> HIDE DEF l
      <4> QED  BY <4>5, <4>6
    <3> QED  BY <2>5, <3>1, <3>2
  <2> QED  BY <2>7, <2>8
<1>3. ASSUME Queued' = Queued, bucketFlush' = bucketFlush
      PROVE  ChunksQueuedOnce'
  BY <1>3 DEF Inv, ChunksQueuedOnce
<1>4. CASE \E w \in Writers : TakeNode(w)
  <2>1. Queued' = Queued
    BY <1>4, DequeueTakes DEF TakeNode, Inv
  <2>2. bucketFlush' = bucketFlush
    BY <1>4 DEF TakeNode, bucketVars
  <2> QED  BY <1>3, <2>1, <2>2
<1>5. CASE UNCHANGED <<arr, front, rear, size, got, bucketFlush>>
  <2>1. Queued' = Queued
    BY <1>5 DEF Queued, Waiting, held, isEmpty
  <2> QED  BY <1>3, <1>5, <2>1
<1> QED  BY <1>2, <1>4, <1>5, QueueSteps

LEMMA FlushesStep ==
  ASSUME Inv, [Next]_vars
  PROVE  FlushesCounted'
<1> DEFINE Busy == {w \in Writers : writer[w] \in {"seek", "write", "failed"}}
<1>1. /\ totalFlushes + Cardinality(Busy) = Len(got)
      /\ totalFlushes \in Nat /\ Cardinality(Busy) \in Nat /\ IsFiniteSet(Busy)
      /\ writer \in [Writers -> WriterStates]
      /\ got \in Seq(Indexes)
  <2>1. IsFiniteSet(Busy)
    BY PHashgenAssumption, FS_Subset
  <2> QED  BY <2>1, FS_CardinalityType DEF Inv, FlushesCounted, TypeOK, QueueInv
<1> SUFFICES totalFlushes' + Cardinality(Busy') = Len(got')
  BY DEF FlushesCounted
<1>2. ASSUME NEW w \in Writers, TakeNode(w)
      PROVE  totalFlushes' + Cardinality(Busy') = Len(got')
  <2>1. /\ got' = Append(got, arr[front].write_index) /\ arr[front].write_index \in Indexes
        /\ totalFlushes' = totalFlushes
    BY <1>2, DequeueTakes DEF TakeNode, Inv, dequeue, fileVars
  <2>2. w \notin Busy /\ Busy' = Busy \cup {w}
    BY <1>1, <1>2 DEF TakeNode
  <2>3. Len(got') = Len(got) + 1
    BY <1>1, <2>1
  <2> HIDE DEF Busy
  <2>4. Cardinality(Busy') = Cardinality(Busy) + 1
    BY <1>1, <2>2, FS_AddElement
  <2> QED  BY <1>1, <2>1, <2>3, <2>4
<1>3. ASSUME NEW w \in Writers, Write(w)
      PROVE  totalFlushes' + Cardinality(Busy') = Len(got')
  <2>1. got' = got /\ totalFlushes' = totalFlushes + 1
    BY <1>3 DEF Write, CountFlush, queueVars
  <2>2. w \in Busy /\ Busy' = Busy \ {w}
    BY <1>1, <1>3 DEF Write
  <2> HIDE DEF Busy
  <2>3. Cardinality(Busy') = Cardinality(Busy) - 1
    BY <1>1, <2>2, FS_RemoveElement
  <2> QED  BY <1>1, <2>1, <2>3
<1>4. ASSUME NEW w \in Writers,
             TakeNothing(w) \/ TestFinished(w) \/ Seek(w) \/ WriterFails(w)
      PROVE  totalFlushes' + Cardinality(Busy') = Len(got')
  <2>1. got' = got /\ totalFlushes' = totalFlushes
    BY <1>4 DEF TakeNothing, dequeueNULL, TestFinished, Seek, WriterFails, queueVars, fileVars
  <2>2. Busy' = Busy
    BY <1>1, <1>4 DEF TakeNothing, TestFinished, Seek, WriterFails
  <2> QED  BY <1>1, <2>1, <2>2
<1>5. CASE UNCHANGED <<got, totalFlushes, writer>>
  BY <1>1, <1>5
<1>6. CASE (\E t \in Workers : WorkerStep(t)) \/ MainStep \/ UNCHANGED vars
  <2>1. UNCHANGED <<got, totalFlushes, writer>>
    BY <1>6 DEF WorkerStep, Block, Hash, Enqueue, Spin, WorkerReturns, MainStep,
                JoinWorkers, RestChunk, RestSpin, RestSkip, SetFinished, Exit, enqueue,
                enqueueSpins, vars, queueVars, writerVars, fileVars
  <2> QED  BY <1>5, <2>1
<1> QED  BY <1>2, <1>3, <1>4, <1>6 DEF Next, WriterStep

-----------------------------------------------------------------------------
(* Theorems.                                                               *)

LEMMA Initially == Init => Inv
<1> SUFFICES ASSUME Init PROVE Inv
  OBVIOUS
<1> USE DEF Init, initializeQueue
<1>1. held = 0 /\ Waiting = <<>> /\ Queued = <<>>
  BY DEF held, isEmpty, Waiting, Queued
<1>2. NewArray \in Arrays
  BY PHashgenAssumption DEF Arrays
<1>3. QueueInv(Indexes)
  BY <1>1, <1>2 DEF QueueInv
<1>4. TypeOK
  <2>1. 0 \in Locations /\ 0 \in 0..CUP_SIZE /\ 0 \in 0..NUM_BUCKETS /\ 0 \in 0..iterations
    <3>1. 2 * NUM_BUCKETS * CHUNKS \in Nat
      BY Sizes
    <3> QED  BY <3>1, Sizes DEF Locations
  <2>2. QueueTypeOK(Locations, Arrays, Workers \cup {MainThread})
    BY <1>1, <1>2, QueueAssumption DEF QueueTypeOK
  <2> QED  BY <1>2, <2>1, <2>2, Sizes DEF TypeOK, WorkerStates, WriterStates, MainStates
<1>5. WorkersInv
  BY Sizes DEF WorkersInv
<1>6. CountInv
  <2>1. \A b \in Buckets : Gathered[b] = 0
    BY Sizes DEF Gathered
  <2>2. DOMAIN Gathered = Buckets /\ DOMAIN made = Workers /\ \A t \in Workers : made[t] = 0
    BY DEF Gathered
  <2>3. /\ SumFunctionOnSet(made, Workers) = Cardinality(Workers) * 0
        /\ SumFunctionOnSet(Gathered, Buckets) = Cardinality(Buckets) * 0
    BY <2>1, <2>2, Sizes, SumConstant
  <2>4. Cardinality(Workers) \in Nat /\ Cardinality(Buckets) \in Nat
    BY Sizes, FS_CardinalityType
  <2> QED  BY <2>2, <2>3, <2>4 DEF CountInv, SumFunction
<1>7. WritersInv
  BY DEF WritersInv
<1>8. ChunksQueuedOnce
  <2> SUFFICES ASSUME NEW l \in Locations
               PROVE  Cardinality({k \in DOMAIN Queued : Queued[k] = l}) =
                        Cardinality({b \in Buckets : l - b * CHUNKS \in 0..bucketFlush[b] - 1})
    BY DEF ChunksQueuedOnce
  <2>1. {k \in DOMAIN Queued : Queued[k] = l} = {}
    BY <1>1
  <2>2. {b \in Buckets : l - b * CHUNKS \in 0..bucketFlush[b] - 1} = {}
    BY DEF Buckets
  <2> QED  BY <2>1, <2>2
<1>9. FlushesCounted
  <2>1. {w \in Writers : writer[w] \in {"seek", "write", "failed"}} = {}
    OBVIOUS
  <2>2. Cardinality({}) = 0 /\ Len(got) = 0 /\ totalFlushes = 0
    BY FS_EmptySet
  <2>3. 0 + 0 = 0
    OBVIOUS
  <2> HIDE DEF Init, initializeQueue
  <2> QED  BY <2>1, <2>2, <2>3 DEF FlushesCounted
<1> QED  BY <1>3, <1>4, <1>5, <1>6, <1>7, <1>8, <1>9 DEF Inv

LEMMA InvHolds == Spec => []Inv
<1>1. Inv /\ [Next]_vars => Inv'
  BY TypeStep, QueueStep, WorkersStep, CountStep, WritersStep, ChunksQueuedStep,
     FlushesStep DEF Inv
<1> QED  BY Initially, <1>1, PTL DEF Spec

\* The type invariant: the indexes of buckets and cups, the nodes of the queue and the
\* places sought in the file never leave their ranges, whatever the numbers of threads
\* are and however the prefixes fall.
THEOREM TypeCorrect == Spec => []TypeOK
<1>1. Inv => TypeOK
  BY DEF Inv
<1> QED  BY InvHolds, <1>1, PTL

\* The bucket mutexes lose no update: every hash made is counted once, and a full cup
\* has a worker that enqueues it (generate_hashes).
THEOREM NoHashMiscounted == Spec => []HashesCounted
<1>1. Inv => HashesCounted
  <2> SUFFICES ASSUME Inv, main = "join"
               PROVE  /\ SumFunction(made) = SumFunction(Gathered)
                      /\ \A b \in Buckets : bucketIndex[b] >= CUP_SIZE =>
                           \E t \in Workers : worker[t] = "enqueue" /\ bucket[t] = b
    BY DEF HashesCounted, Gathered
  <2>1. SumFunction(made) = SumFunction(Gathered)
    BY DEF Inv, CountInv
  <2>2. ASSUME NEW b \in Buckets, bucketIndex[b] >= CUP_SIZE
        PROVE  \E t \in Workers : worker[t] = "enqueue" /\ bucket[t] = b
    <3>1. bucketIndex[b] \in 0..CUP_SIZE /\ CUP_SIZE \in Nat
      BY Sizes DEF Inv, TypeOK
    <3>2. bucketMutex[b] # NoThread
      BY <2>2, <3>1 DEF Inv, WorkersInv
    <3>3. bucketMutex[b] \in Workers
      BY <3>2 DEF Inv, TypeOK
    <3> QED  BY <3>2, <3>3 DEF Inv, WorkersInv
  <2> QED  BY <2>1, <2>2
<1> QED  BY InvHolds, <1>1, PTL

\* Every chunk of every bucket is enqueued exactly once and for its own place
\* (addChunkToQueue and the loop of main over what is left).
THEOREM EachChunkOnce == Spec => []ChunksQueuedOnce
<1>1. Inv => ChunksQueuedOnce
  BY DEF Inv
<1> QED  BY InvHolds, <1>1, PTL

\* file_mutex keeps the seek and the write of one writer together (writeToDisk).
THEOREM SeekAndWriteTogether == Spec => []WritesWhereItSought
<1>1. Inv => WritesWhereItSought
  BY DEF Inv, WritersInv, WritesWhereItSought
<1> QED  BY InvHolds, <1>1, PTL

\* totalFlushes counts every chunk dequeued but those in the hands of a writer or lost
\* to a failed one.
THEOREM EachFlushOnce == Spec => []FlushesCounted
<1>1. Inv => FlushesCounted
  BY DEF Inv
<1> QED  BY InvHolds, <1>1, PTL

\* The circular queue implements the write queue that hashgen4.c expects: what is put
\* in is handed out once, in order, for any size of the ring, one node included.
THEOREM QueueImplements == Spec => HandsOutInOrder
<1>1. Init => Queue!Init
  BY DEF Init, initializeQueue, Queue!Init, Queued, Waiting, held, isEmpty
<1>2. Inv /\ [Next]_vars => [Queue!Next]_Queue!vars
  <2> SUFFICES ASSUME Inv, [Next]_vars PROVE Queue!Next \/ UNCHANGED <<Queued, got>>
    BY DEF Queue!vars
  <2>1. ASSUME NEW b \in Buckets, write_location(b) \in Indexes,
               enqueue(write_location(b))
        PROVE  Queue!Next
    <3>1. Queued' = Append(Queued, write_location(b)) /\ got' = got
      BY <2>1, EnqueueAppends DEF Inv, enqueue
    <3>2. write_location(b) \in Locations
      <4>1. NUM_BUCKETS * CHUNKS \in Nat /\ 2 * NUM_BUCKETS * CHUNKS \in Nat
        BY Sizes
      <4> QED  BY <2>1, <4>1 DEF Indexes, Locations
    <3> QED  BY <3>1, <3>2 DEF Queue!Next, Queue!Put
  <2>2. CASE \E w \in Writers : TakeNode(w)
    BY <2>2, DequeueTakes DEF TakeNode, Inv, Queue!Next, Queue!Get
  <2>3. CASE UNCHANGED <<arr, front, rear, size, got, bucketFlush>>
    BY <2>3 DEF Queued, Waiting, held, isEmpty
  <2> QED  BY <2>1, <2>2, <2>3, QueueSteps
<1> QED  BY <1>1, <1>2, InvHolds, PTL DEF Spec, HandsOutInOrder, Queue!Spec
=============================================================================
