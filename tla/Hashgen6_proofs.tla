--------------------------- MODULE Hashgen6_proofs ---------------------------
(***************************************************************************)
(* Theorems about the ring test hashgen6.c, for every choice of its        *)
(* #defines that divide as they do in the program.                         *)
(***************************************************************************)
EXTENDS Hashgen6, CircularArray_proofs

Entries == Entry \cup {Uninitialised}

TypeOK ==
  /\ RingTypeOK(Entry)
  /\ generator \in [Producers -> {"loop", "insert", "done"}]
  /\ i \in [Producers -> Nat]
  /\ main \in {"remove", "finish", "broadcast", "join", "done"}
  /\ consumed \in Seq(Entries)

\* A generator stays within its share, and inserts only what is left of it.
ShareInv ==
  \A p \in Producers :
    /\ i[p] <= NUM_HASHES_PER_THREAD /\ i[p] % BATCH_SIZE = 0
    /\ generator[p] = "insert" => i[p] < NUM_HASHES_PER_THREAD
    /\ Sleeping(p) => generator[p] = "insert"

\* Main waits for hashes that it still wants, in front of an empty ring.
MainWaits == Sleeping(Main) => main = "remove" /\ MoreToConsume /\ Empty

\* While main takes hashes, it and the ring have all that were inserted; after
\* that main has them all.
Fed ==
  IF main = "remove"
  THEN ~producerFinished /\ Aligned /\ Merged(consumed \o Contents, i)
  ELSE Len(consumed) = NUM_HASHES /\ Merged(consumed, i)

\* The generators that are awake with hashes to insert.
Busy == {p \in Producers : ~Sleeping(p) /\ i[p] < NUM_HASHES_PER_THREAD}

\* They fill what room there is while others sleep.
RoomInv ==
  main = "remove" /\ (\E p \in Producers : Sleeping(p)) => Room <= Cardinality(Busy)

Inv == TypeOK /\ ShareInv /\ MainWaits /\ Fed /\ RoomInv
-----------------------------------------------------------------------------
\* The sizes: the threads have equal shares, which are whole batches.
LEMMA Sizes ==
  /\ BATCH_SIZE \in Nat \ {0} /\ HASHGEN_THREADS_BUFFER \in Nat \ {0}
  /\ BATCH_SIZE < HASHGEN_THREADS_BUFFER
  /\ NUM_HASHGEN_THREADS \in Nat \ {0} /\ NUM_HASHES_PER_THREAD \in Nat
  /\ NUM_HASHES = NUM_HASHES_PER_THREAD * NUM_HASHGEN_THREADS
<1>1. \A a \in Nat, n \in Nat \ {0} : a % n = 0 => a \div n \in Nat /\ a = (a \div n) * n
  OBVIOUS
<1> QED  BY <1>1, SizesAssumption, ConstantsAssumption DEF NUM_HASHES_PER_THREAD

LEMMA ProducersExist == Producers # {} /\ IsFiniteSet(Producers)
<1>1. IsFiniteSet(Producers)
  BY ConstantsAssumption, Sizes, FS_Interval
<1> QED  BY <1>1, ConstantsAssumption, Sizes, FS_EmptySet DEF NUM_HASHGEN_THREADS

\* Different entries have different indexes, and all indexes are in range.
LEMMA IndexInRange ==
  ASSUME NEW e \in Entry, e.at < NUM_HASHES_PER_THREAD
  PROVE  hashIndex(e) \in 0..NUM_HASHES - 1
<1> DEFINE H == NUM_HASHES_PER_THREAD
           T == NUM_HASHGEN_THREADS
<1>1. e.from \in 0..T - 1 /\ e.at \in 0..H - 1
  BY ConstantsAssumption, Sizes DEF Entry
<1>2. H \in Nat /\ T \in Nat /\ NUM_HASHES = H * T
  BY Sizes
<1> HIDE DEF H, T
<1>3. \A f \in 0..T - 1 : H * f \in Nat /\ H * f + H <= H * T
  <2> SUFFICES ASSUME NEW f \in 0..T - 1 PROVE H * f \in Nat /\ H * (f + 1) <= H * T
    BY <1>2
  <2>1. f \in Nat /\ f + 1 \in Nat /\ f + 1 <= T
    BY <1>2
  <2>2. \A x, y \in Nat : x <= y => H * x <= H * y
    BY <1>2
  <2> QED  BY <2>1, <2>2, <1>2
<1>4. hashIndex(e) = H * e.from + e.at
  BY DEF hashIndex, H
<1> QED  BY <1>1, <1>2, <1>3, <1>4

\* An index is computed for one entry only: the shares do not overlap.
LEMMA IndexOfOne ==
  ASSUME NEW d \in Entry, d.at < NUM_HASHES_PER_THREAD,
         NEW e \in Entry, e.at < NUM_HASHES_PER_THREAD,
         hashIndex(d) = hashIndex(e)
  PROVE  d = e
<1> DEFINE H == NUM_HASHES_PER_THREAD
<1>1. H \in Nat \ {0} /\ d.from \in Int /\ e.from \in Int
      /\ d.at \in 0..H - 1 /\ e.at \in 0..H - 1
  BY ConstantsAssumption, Sizes DEF Entry
<1>2. H * d.from + d.at = H * e.from + e.at
  BY DEF hashIndex
<1> HIDE DEF H
<1>3. ASSUME NEW f \in Int, NEW a \in 0..H - 1
      PROVE  (H * f + a) \div H = f
  <2> DEFINE x == H * f + a
  <2>1. H * f \in Int
    BY <1>1
  <2>2. x \in Int /\ H * f <= x /\ x < H * f + H
    BY <2>1, <1>1
  <2> HIDE DEF x
  <2>3. x \div H = f
    BY <2>2, <1>1, DivIs
  <2> QED  BY <2>3 DEF x
<1>4. d.from = e.from
  <2>1. (H * d.from + d.at) \div H = d.from /\ (H * e.from + e.at) \div H = e.from
    BY <1>1, <1>3
  <2> QED  BY <2>1, <1>2
<1>5. d.at = e.at
  <2>1. H * e.from \in Int
    BY <1>1
  <2> QED  BY <2>1, <1>1, <1>2, <1>4
<1> QED  BY <1>4, <1>5 DEF Entry

\* Generators that keep to their shares have inserted no more than all the
\* hashes, and all of them only when each has done its share.
LEMMA SharesAddUp ==
  ASSUME NEW n \in [Producers -> Nat], \A p \in Producers : n[p] <= NUM_HASHES_PER_THREAD,
         NEW s, Merged(s, n)
  PROVE  /\ Len(s) \in Nat /\ Len(s) <= NUM_HASHES
         /\ Len(s) = NUM_HASHES =>
              /\ {hashIndex(s[k]) : k \in 1..Len(s)} = 0..NUM_HASHES - 1
              /\ \A p \in Producers : n[p] = NUM_HASHES_PER_THREAD
         /\ (\A p \in Producers : n[p] = NUM_HASHES_PER_THREAD) => Len(s) = NUM_HASHES
<1> DEFINE K == 1..Len(s)
           I == 0..NUM_HASHES - 1
           f == [k \in K |-> hashIndex(s[k])]
<1>1. Len(s) \in Nat /\ DOMAIN s = K /\ NUM_HASHES \in Nat
  BY ConstantsAssumption DEF Merged
<1>2. \A k \in K : s[k] \in Entry /\ s[k].at < NUM_HASHES_PER_THREAD
  <2> TAKE k \in K
  <2>1. s[k] \in Entry /\ s[k].at < n[s[k].from]
    BY <1>1, InsertedIs DEF Merged
  <2>2. s[k].at \in Nat /\ s[k].from \in Producers
    BY <2>1 DEF Entry
  <2> QED  BY <2>1, <2>2, Sizes
<1>3. \A j, k \in K : hashIndex(s[j]) = hashIndex(s[k]) => j = k
  <2> SUFFICES ASSUME NEW j \in K, NEW k \in K, j < k PROVE s[j] # s[k]
    BY <1>1, <1>2, IndexOfOne
  <2>1. s[j] = s[k] => s[j].at < s[k].at
    BY <1>1 DEF Merged, InOrder
  <2>2. s[k].at \in Nat
    BY <1>2 DEF Entry
  <2> QED  BY <2>1, <2>2
<1>4. \A k \in K : hashIndex(s[k]) \in I
  BY <1>2, IndexInRange
<1>5. IsFiniteSet(I) /\ Cardinality(I) = NUM_HASHES /\ Cardinality(K) = Len(s)
      /\ IsFiniteSet(K)
  <2>1. \A m \in Nat : IsFiniteSet(0..m - 1) /\ Cardinality(0..m - 1) = m
                       /\ IsFiniteSet(1..m) /\ Cardinality(1..m) = m
    BY FS_Interval
  <2> QED  BY <2>1, <1>1
<1> HIDE DEF K, I
<1>6. f \in Injection(K, I)
  BY <1>3, <1>4 DEF Injection, IsInjective
<1>7. Len(s) <= NUM_HASHES /\ (Len(s) = NUM_HASHES <=> f \in Surjection(K, I))
  BY <1>5, <1>6, FS_Injection
<1>8. ASSUME NEW p \in Producers, NEW a \in Nat, a < NUM_HASHES_PER_THREAD
      PROVE  LET e == [from |-> p, at |-> a]
             IN  /\ hashIndex(e) \in I
                 /\ \A k \in K : hashIndex(s[k]) = hashIndex(e) => s[k] = e
                 /\ a < n[p] <=> \E k \in K : s[k] = e
  <2> DEFINE e == [from |-> p, at |-> a]
  <2>1. e \in Entry /\ e.at = a /\ e.from = p
    BY DEF Entry
  <2>2. hashIndex(e) \in I
    BY <2>1, <1>8, IndexInRange DEF I
  <2>3. a < n[p] <=> e \in InsertedUpTo(n)
    BY <2>1, InsertedIs
  <2>4. e \in InsertedUpTo(n) <=> \E k \in K : s[k] = e
    BY <1>1 DEF Merged
  <2> HIDE DEF e
  <2>5. \A k \in K : hashIndex(s[k]) = hashIndex(e) => s[k] = e
    BY <2>1, <1>2, <1>8, IndexOfOne
  <2> QED  BY <2>2, <2>3, <2>4, <2>5 DEF e
<1>9. ASSUME Len(s) = NUM_HASHES
      PROVE  /\ {hashIndex(s[k]) : k \in K} = I
             /\ \A p \in Producers : n[p] = NUM_HASHES_PER_THREAD
  <2>1. \A a \in I : \E k \in K : hashIndex(s[k]) = a
    BY <1>7, <1>9 DEF Surjection
  <2>2. ASSUME NEW p \in Producers, n[p] < NUM_HASHES_PER_THREAD PROVE FALSE
    <3>1. n[p] \in Nat
      OBVIOUS
    <3>2. PICK k \in K : s[k] = [from |-> p, at |-> n[p]]
      BY <2>1, <2>2, <3>1, <1>8
    <3> QED  BY <2>2, <3>1, <3>2, <1>8
  <2> QED  BY <2>1, <2>2, <1>4, Sizes
<1>10. ASSUME \A p \in Producers : n[p] = NUM_HASHES_PER_THREAD
       PROVE  Len(s) = NUM_HASHES
  <2> SUFFICES ASSUME NEW a \in I PROVE \E k \in K : hashIndex(s[k]) = a
    BY <1>6, <1>7 DEF Surjection, Injection
  <2> DEFINE H == NUM_HASHES_PER_THREAD
             T == NUM_HASHGEN_THREADS
  <2>1. H \in Nat /\ T \in Nat /\ a \in Nat /\ a < H * T
    BY Sizes DEF I
  <2>2. H # 0
    BY <2>1
  <2> DEFINE p == a \div H
             x == a % H
  <2>3. p \in Int /\ x \in 0..H - 1 /\ a = H * p + x
    <3> HIDE DEF H, T
    <3> QED  BY <2>1, <2>2
  <2>4. p \in 0..T - 1
    <3> HIDE DEF H, T, x, p
    <3>1. \A y \in Int : y < 0 => H * y + x < 0
      <4> SUFFICES ASSUME NEW y \in Int, y < 0 PROVE H * y <= -H
        BY <2>1, <2>2, <2>3
      <4>1. \A u, v \in Int : u <= v => H * u <= H * v
        BY <2>1
      <4>2. y <= -1 /\ -1 \in Int /\ H * (-1) = -H
        BY <2>1
      <4> QED  BY <4>1, <4>2
    <3>2. \A y \in Int : T <= y => H * T <= H * y
      BY <2>1
    <3>3. H * p \in Int
      BY <2>1, <2>3
    <3> QED  BY <2>1, <2>3, <3>1, <3>2, <3>3
  <2>5. p \in Producers
    BY <2>4, ConstantsAssumption
  <2>6. hashIndex([from |-> p, at |-> x]) = a
    BY <2>3 DEF hashIndex
  <2>7. x \in Nat /\ x < H /\ n[p] = H
    BY <2>1, <2>3, <2>5, <1>10
  <2> HIDE DEF p, x
  <2>8. \E k \in K : s[k] = [from |-> p, at |-> x]
    BY <2>5, <2>7, <1>8
  <2> QED  BY <2>6, <2>8
<1> QED  BY <1>1, <1>7, <1>9, <1>10 DEF K, I
-----------------------------------------------------------------------------
LEMMA TypesOfRing ==
  ASSUME TypeOK
  PROVE  /\ array \in [Slots -> Entries] /\ head \in Slots /\ tail \in Slots
         /\ consumed \in Seq(Entries) /\ i \in [Producers -> Nat]
         /\ Entry \subseteq Entries
  BY DEF TypeOK, RingTypeOK, Entries

LEMMA InsertType ==
  ASSUME TypeOK, NEW p \in Producers, Insert(p)
  PROVE  TypeOK'
<1>1. array' \in [Slots -> Entries]
  <2>1. \A k \in 0..BATCH_SIZE - 1 : batch(p)[k] \in Entries
    BY Sizes DEF TypeOK, batch, Entries, Entry
  <2>2. \A k \in Slots : Distance(head, k) \in Nat
    BY DistanceInSlots DEF TypeOK, RingTypeOK, Slots
  <2>3. \A k \in Slots :
          Distance(head, k) < BATCH_SIZE => batch(p)[Distance(head, k)] \in Entries
    BY <2>1, <2>2, Sizes
  <2> QED  BY <2>3, TypesOfRing DEF Insert, insertBatch
<1>2. head' \in Slots
  BY AheadInSlots, SizesAssumption DEF Insert, insertBatch, TypeOK, RingTypeOK
<1>3. not_empty' \subseteq {Main}
  BY SignalWakes DEF Insert, insertBatch, TypeOK, RingTypeOK
<1>4. i' \in [Producers -> Nat]
  BY Sizes DEF Insert, TypeOK
<1> QED  BY <1>1, <1>2, <1>3, <1>4
         DEF Insert, insertBatch, TypeOK, RingTypeOK, Entries

LEMMA RemoveType ==
  ASSUME TypeOK, Remove
  PROVE  TypeOK'
<1>1. tail' \in Slots
  BY AheadInSlots, SizesAssumption DEF Remove, removeBatch, TypeOK, RingTypeOK
<1>2. not_full' \subseteq Producers
  BY SignalWakes DEF Remove, removeBatch, TypeOK, RingTypeOK
<1>3. consumed' \in Seq(Entries)
  <2>1. \A k \in 0..BATCH_SIZE - 1 : Ahead(tail, k) \in Slots
    BY AheadInSlots, SizesAssumption DEF TypeOK, RingTypeOK
  <2>2. \A k \in 1..BATCH_SIZE : NextBatch[k - 1] \in Entries
    BY <2>1, TypesOfRing, Sizes DEF NextBatch
  <2>3. [k \in 1..BATCH_SIZE |-> NextBatch[k - 1]] \in Seq(Entries)
    BY <2>2, Sizes
  <2> QED  BY <2>3, TypesOfRing DEF Remove
<1> QED  BY <1>1, <1>2, <1>3
         DEF Remove, removeBatch, genVars, TypeOK, RingTypeOK, Entries

LEMMA StepType == TypeOK /\ [Next]_vars => TypeOK'
<1> SUFFICES ASSUME TypeOK, [Next]_vars PROVE TypeOK'
  OBVIOUS
<1>1. ASSUME NEW p \in Producers, GeneratorStep(p) PROVE TypeOK'
  <2>1. CASE LoopTest(p)
    BY <2>1 DEF LoopTest, ringVars, waitVars, TypeOK, RingTypeOK
  <2>2. CASE InsertFull(p)
    BY <2>2 DEF InsertFull, insertBatchFull, genVars, waitVars, TypeOK,
                RingTypeOK, Threads
  <2>3. CASE InsertWait(p)
    BY <2>3 DEF InsertWait, insertBatchWait, genVars, TypeOK, RingTypeOK
  <2>4. CASE Insert(p)
    BY <2>4, InsertType
  <2> QED  BY <1>1, <2>1, <2>2, <2>3, <2>4 DEF GeneratorStep
<1>2. ASSUME MainStep PROVE TypeOK'
  <2>1. CASE RemoveEmpty
    BY <2>1 DEF RemoveEmpty, removeBatchEmpty, genVars, waitVars, TypeOK,
                RingTypeOK, Threads
  <2>2. CASE RemoveWait
    BY <2>2 DEF RemoveWait, removeBatchWait, genVars, TypeOK, RingTypeOK
  <2>3. CASE Remove
    BY <2>3, RemoveType
  <2>4. CASE LeaveLoop \/ Join
    BY <2>4 DEF LeaveLoop, Join, ringVars, waitVars, genVars, TypeOK, RingTypeOK
  <2>5. CASE SetProducerFinished
    BY <2>5 DEF SetProducerFinished, waitVars, genVars, TypeOK, RingTypeOK
  <2>6. CASE Broadcast
    BY <2>6 DEF Broadcast, genVars, TypeOK, RingTypeOK
  <2> QED  BY <1>2, <2>1, <2>2, <2>3, <2>4, <2>5, <2>6 DEF MainStep
<1>3. ASSUME Spurious PROVE TypeOK'
  BY <1>3, SizesAssumption
     DEF Spurious, SpuriousWakeup, genVars, TypeOK, RingTypeOK
<1>4. ASSUME Exited \/ UNCHANGED vars PROVE TypeOK'
  BY <1>4 DEF Exited, vars, ringVars, waitVars, genVars, TypeOK, RingTypeOK
<1> QED  BY <1>1, <1>2, <1>3, <1>4 DEF Next

LEMMA InitInv == Init => Inv
<1> SUFFICES ASSUME Init PROVE Inv
  OBVIOUS
<1>1. /\ array = [k \in Slots |-> Uninitialised] /\ head = 0 /\ tail = 0
      /\ ~producerFinished /\ mutex = NoThread /\ not_empty = {} /\ not_full = {}
      /\ spurious = 0 /\ generator = [p \in Producers |-> "loop"]
      /\ i = [p \in Producers |-> 0] /\ main = "remove" /\ consumed = <<>>
      /\ producerFinished \in BOOLEAN
  BY DEF Init, initCircularArray
<1>2. \A t \in Threads : ~Sleeping(t)
  BY <1>1, ThreadsAssumption DEF Sleeping, Threads
<1>3. TypeOK
  <2>1. RingTypeOK(Entry)
    BY <1>1, SizesAssumption DEF RingTypeOK, Slots
  <2> QED  BY <2>1, <1>1 DEF TypeOK
<1>4. ShareInv
  BY <1>1, <1>2, Sizes DEF ShareInv, Threads
<1>5. Fed
  <2>1. Distance(tail, head) = 0
    BY <1>1, SizesAssumption DEF Distance
  <2>2. Aligned
    BY <2>1, Sizes DEF Aligned
  <2>3. consumed \o Contents = <<>>
    BY <2>1, <1>1 DEF Contents
  <2>4. {<<>>[k] : k \in DOMAIN <<>>} = InsertedUpTo(i)
    <3>1. i \in [Producers -> Nat]
      BY <1>1
    <3>2. \A e : e \notin InsertedUpTo(i)
      BY <1>1, <3>1, InsertedIs DEF Entry
    <3> QED  BY <3>2
  <2>5. Merged(<<>>, i)
    BY <2>4, Sizes DEF Merged, InOrder, Batched
  <2> QED  BY <2>2, <2>3, <2>5, <1>1 DEF Fed
<1> QED  BY <1>2, <1>3, <1>4, <1>5 DEF Inv, MainWaits, RoomInv, Threads
-----------------------------------------------------------------------------
\* Past main's loop all shares are done, and nobody waits for room.
LEMMA AfterLoop ==
  ASSUME TypeOK, ShareInv, Fed, main # "remove", NEW p \in Producers
  PROVE  i[p] = NUM_HASHES_PER_THREAD /\ generator[p] # "insert" /\ ~Sleeping(p)
<1>1. i[p] = NUM_HASHES_PER_THREAD
  BY SharesAddUp, TypesOfRing DEF Fed, ShareInv
<1> QED  BY <1>1, Sizes DEF ShareInv

\* Whoever inserts or removes wakes others, and puts nobody to sleep.
LEMMA NobodyFallsAsleep ==
  ASSUME TypeOK, (\E p \in Producers : Insert(p)) \/ Remove, NEW t \in Threads
  PROVE  Sleeping(t)' => Sleeping(t)
  BY SignalWakes DEF Insert, insertBatch, Remove, removeBatch, Sleeping

\* A step that leaves the generators alone and puts none of them to sleep.
LEMMA ShareKept ==
  ASSUME ShareInv, UNCHANGED genVars,
         \A p \in Producers : Sleeping(p)' => Sleeping(p)
  PROVE  ShareInv'
  BY DEF ShareInv, genVars

\* A generator that inserts stays within its share.
LEMMA InsertShare ==
  ASSUME TypeOK, ShareInv, NEW p \in Producers, Insert(p)
  PROVE  ShareInv'
<1>1. i' = [i EXCEPT ![p] = @ + BATCH_SIZE] /\ generator' = [generator EXCEPT ![p] = "loop"]
      /\ generator[p] = "insert" /\ ~Sleeping(p)
  BY DEF Insert, insertBatch, Locks
<1>2. \A q \in Producers : Sleeping(q)' => Sleeping(q)
  BY NobodyFallsAsleep DEF Threads
<1>3. i[p] + BATCH_SIZE <= NUM_HASHES_PER_THREAD
  <2>1. i[p] < NUM_HASHES_PER_THREAD /\ i[p] % BATCH_SIZE = 0 /\ i[p] \in Nat
    BY <1>1, TypesOfRing DEF ShareInv
  <2> QED  BY <2>1, Sizes, ConstantsAssumption, MultiplesApart
<1>4. (i[p] + BATCH_SIZE) % BATCH_SIZE = 0
  BY TypesOfRing, Sizes, MultiplesAdd DEF ShareInv
<1> SUFFICES ASSUME NEW q \in Producers
             PROVE  /\ i'[q] <= NUM_HASHES_PER_THREAD /\ i'[q] % BATCH_SIZE = 0
                    /\ generator'[q] = "insert" => i'[q] < NUM_HASHES_PER_THREAD
                    /\ Sleeping(q)' => generator'[q] = "insert"
  BY DEF ShareInv
<1>5. CASE q = p
  <2>1. i'[q] = i[p] + BATCH_SIZE /\ generator'[q] = "loop" /\ ~Sleeping(q)'
    BY <1>1, <1>2, <1>5 DEF TypeOK
  <2> QED  BY <2>1, <1>3, <1>4
<1>6. CASE q # p
  <2>1. i'[q] = i[q] /\ generator'[q] = generator[q]
    BY <1>1, <1>6 DEF TypeOK
  <2> QED  BY <2>1, <1>2 DEF ShareInv
<1> QED  BY <1>5, <1>6

LEMMA StepShare ==
  ASSUME TypeOK, ShareInv, [Next]_vars
  PROVE  ShareInv'
<1>1. ASSUME NEW p \in Producers, GeneratorStep(p) PROVE ShareInv'
  <2>1. CASE LoopTest(p)
    <3>1. \A q \in Producers : Sleeping(q)' <=> Sleeping(q)
      BY <2>1 DEF LoopTest, ringVars, waitVars, Sleeping
    <3>2. generator[p] = "loop" /\ i' = i /\ generator' = [generator EXCEPT
            ![p] = IF i[p] < NUM_HASHES_PER_THREAD THEN "insert" ELSE "done"]
      BY <2>1 DEF LoopTest
    <3>3. \A q \in Producers : q # p => generator'[q] = generator[q]
      BY <3>2 DEF TypeOK
    <3>4. generator'[p] = "insert" => i[p] < NUM_HASHES_PER_THREAD
      BY <3>2 DEF TypeOK
    <3>5. ~Sleeping(p)
      BY <3>2 DEF ShareInv
    <3> QED  BY <3>1, <3>2, <3>3, <3>4, <3>5 DEF ShareInv
  <2>2. CASE InsertFull(p)
    <3>1. \A q \in Producers : q # p => (Sleeping(q)' => Sleeping(q))
      BY <2>2 DEF InsertFull, insertBatchFull, waitVars, Sleeping
    <3>2. generator[p] = "insert" /\ UNCHANGED genVars
      BY <2>2 DEF InsertFull
    <3> QED  BY <3>1, <3>2 DEF ShareInv, genVars
  <2>3. CASE InsertWait(p)
    BY <2>3, ShareKept, ThreadsAssumption DEF InsertWait, insertBatchWait, Sleeping
  <2>4. CASE Insert(p)
    BY <2>4, InsertShare
  <2> QED  BY <1>1, <2>1, <2>2, <2>3, <2>4 DEF GeneratorStep
<1>2. ASSUME MainStep PROVE ShareInv'
  <2>1. CASE RemoveEmpty
    BY <2>1, ShareKept, ThreadsAssumption
       DEF RemoveEmpty, removeBatchEmpty, waitVars, Sleeping
  <2>2. CASE RemoveWait
    BY <2>2, ShareKept, ThreadsAssumption DEF RemoveWait, removeBatchWait, Sleeping
  <2>3. CASE Remove
    BY <2>3, ShareKept, NobodyFallsAsleep DEF Remove, Threads
  <2>4. CASE LeaveLoop \/ Join
    BY <2>4, ShareKept DEF LeaveLoop, Join, ringVars, waitVars, Sleeping
  <2>5. CASE SetProducerFinished \/ Broadcast
    BY <2>5, ShareKept DEF SetProducerFinished, Broadcast, waitVars, Sleeping
  <2> QED  BY <1>2, <2>1, <2>2, <2>3, <2>4, <2>5 DEF MainStep
<1>3. ASSUME Spurious PROVE ShareInv'
  BY <1>3, ShareKept DEF Spurious, SpuriousWakeup, Sleeping
<1>4. ASSUME Exited \/ UNCHANGED vars PROVE ShareInv'
  BY <1>4, ShareKept DEF Exited, vars, ringVars, waitVars, Sleeping
<1> QED  BY <1>1, <1>2, <1>3, <1>4 DEF Next

\* Main falls asleep in front of an empty ring, and is woken when it no longer
\* is.
LEMMA StepMain ==
  ASSUME TypeOK, MainWaits, [Next]_vars
  PROVE  MainWaits'
<1>1. ASSUME UNCHANGED <<head, tail, main, consumed>>, Sleeping(Main)' => Sleeping(Main)
      PROVE  MainWaits'
  BY <1>1 DEF MainWaits, Empty, MoreToConsume
<1>2. ASSUME NEW p \in Producers, GeneratorStep(p) PROVE MainWaits'
  <2>1. CASE LoopTest(p)
    BY <2>1, <1>1 DEF LoopTest, ringVars, waitVars, Sleeping
  <2>2. CASE InsertFull(p)
    BY <2>2, <1>1, ThreadsAssumption
       DEF InsertFull, insertBatchFull, waitVars, Sleeping
  <2>3. CASE InsertWait(p)
    BY <2>3, <1>1, ThreadsAssumption DEF InsertWait, insertBatchWait, Sleeping
  <2>4. CASE Insert(p)
    <3>1. mutex' = NoThread /\ not_empty' = {} /\ Main \notin not_full'
      BY <2>4, SignalOnly, ThreadsAssumption
         DEF Insert, insertBatch, Locks, TypeOK, RingTypeOK
    <3> QED  BY <3>1, ThreadsAssumption DEF MainWaits, Sleeping
  <2> QED  BY <1>2, <2>1, <2>2, <2>3, <2>4 DEF GeneratorStep
<1>3. ASSUME MainStep PROVE MainWaits'
  <2>1. CASE RemoveEmpty
    BY <2>1 DEF RemoveEmpty, removeBatchEmpty, MainWaits, MoreToConsume, Empty
  <2>2. CASE RemoveWait
    BY <2>2, <1>1 DEF RemoveWait, removeBatchWait, Sleeping
  <2>3. CASE Remove
    BY <2>3, NobodyFallsAsleep DEF Remove, removeBatch, Locks, MainWaits, Threads
  <2>4. CASE LeaveLoop \/ Join
    BY <2>4 DEF LeaveLoop, Join, ringVars, waitVars, Sleeping, MainWaits
  <2>5. CASE SetProducerFinished \/ Broadcast
    BY <2>5 DEF SetProducerFinished, Broadcast, waitVars, Sleeping, MainWaits
  <2> QED  BY <1>3, <2>1, <2>2, <2>3, <2>4, <2>5 DEF MainStep
<1>4. ASSUME Spurious PROVE MainWaits'
  BY <1>4, <1>1 DEF Spurious, SpuriousWakeup, Sleeping
<1>5. ASSUME Exited \/ UNCHANGED vars PROVE MainWaits'
  BY <1>5, <1>1 DEF Exited, vars, ringVars, waitVars, Sleeping
<1> QED  BY <1>2, <1>3, <1>4, <1>5 DEF Next
-----------------------------------------------------------------------------
\* An insertion goes behind what the ring holds, which was not full,
LEMMA InsertFeeds ==
  ASSUME TypeOK, ShareInv, Fed, NEW p \in Producers, Insert(p)
  PROVE  /\ Fed' /\ main = "remove"
         /\ Distance(tail, head) + BATCH_SIZE < HASHGEN_THREADS_BUFFER
<1>1. main = "remove"
  BY AfterLoop DEF Insert
<1>2. ~producerFinished /\ Aligned /\ Merged(consumed \o Contents, i) /\ ~Full
  BY <1>1 DEF Fed, Insert, insertBatch
<1>3. insertBatch(p, [j \in 0..BATCH_SIZE - 1 |-> [from |-> p, at |-> i[p] + j]])
  BY DEF Insert, batch
<1>4. consumed' = consumed /\ i' = [i EXCEPT ![p] = @ + BATCH_SIZE] /\ main' = main
      /\ producerFinished' = producerFinished
  BY DEF Insert, insertBatch
<1>5. /\ Aligned' /\ Distance(tail, head) + BATCH_SIZE < HASHGEN_THREADS_BUFFER
      /\ Merged(consumed \o Contents', [i EXCEPT ![p] = @ + BATCH_SIZE])
  BY <1>2, <1>3, TypesOfRing, ConstantsAssumption, InsertMerges
<1>6. Merged(consumed' \o Contents', i')
  BY <1>4, <1>5
<1> QED  BY <1>1, <1>2, <1>4, <1>5, <1>6
         DEF Merged, Fed, InOrder, Batched, InsertedUpTo

\* and a removal takes what is oldest.
LEMMA RemoveFeeds ==
  ASSUME TypeOK, Fed, Remove
  PROVE  Fed' /\ BATCH_SIZE <= Distance(tail, head)
<1> DEFINE b == [k \in 1..BATCH_SIZE |-> NextBatch[k - 1]]
<1>1. /\ ~producerFinished /\ Aligned /\ Merged(consumed \o Contents, i) /\ ~Empty
      /\ removeBatch(Main)
  BY DEF Fed, Remove, removeBatch
<1>2. consumed' = consumed \o b /\ i' = i /\ main' = "remove" /\ main = "remove"
      /\ producerFinished' = producerFinished
  BY DEF Remove, removeBatch, genVars
<1>3. /\ Aligned' /\ BATCH_SIZE <= Distance(tail, head)
      /\ (consumed \o b) \o Contents' = consumed \o Contents
  BY <1>1, TypesOfRing, RemoveMerges
<1>4. Merged(consumed' \o Contents', i')
  BY <1>1, <1>2, <1>3
<1> HIDE DEF b
<1> QED  BY <1>1, <1>2, <1>3, <1>4 DEF Fed, Merged, InOrder, Batched, InsertedUpTo

\* Main leaves its loop with all the hashes, and an empty ring.
LEMMA LeaveFeeds ==
  ASSUME TypeOK, ShareInv, Fed, LeaveLoop
  PROVE  Fed'
<1>1. main = "remove" /\ main' = "finish" /\ consumed' = consumed /\ i' = i
      /\ ~(Len(consumed) < NUM_HASHES) /\ Merged(consumed \o Contents, i)
  BY DEF LeaveLoop, Fed, MoreToConsume, genVars
<1>2. Len(consumed \o Contents) <= NUM_HASHES
  BY <1>1, SharesAddUp, TypesOfRing DEF ShareInv
<1>3. consumed \in Seq(Entries) /\ Contents \in Seq(Entries)
  BY TypesOfRing, ContentsIs
<1>4. Len(consumed) \in Nat /\ Len(Contents) \in Nat
      /\ Len(consumed \o Contents) = Len(consumed) + Len(Contents)
  BY <1>3, ConcatProperties, LenProperties
<1>5. Len(Contents) = 0 /\ Len(consumed) = NUM_HASHES
  BY <1>1, <1>2, <1>4, ConstantsAssumption
<1>6. consumed \o Contents = consumed
  <2>1. Contents = <<>>
    BY <1>3, <1>5, EmptySeq
  <2> QED  BY <2>1, <1>3, ConcatEmptySeq
<1> QED  BY <1>1, <1>5, <1>6 DEF Fed, Merged, InOrder, Batched, InsertedUpTo

LEMMA StepFed ==
  ASSUME TypeOK, ShareInv, Fed, [Next]_vars
  PROVE  Fed'
<1>1. ASSUME UNCHANGED <<array, head, tail, producerFinished, i, consumed, main>>
      PROVE  Fed'
  BY <1>1 DEF Fed, Aligned, Distance, Contents, Ahead
<1>2. ASSUME NEW p \in Producers, GeneratorStep(p) PROVE Fed'
  <2>1. CASE Insert(p)
    BY <2>1, InsertFeeds
  <2>2. CASE LoopTest(p) \/ InsertFull(p) \/ InsertWait(p)
    BY <2>2, <1>1 DEF LoopTest, InsertFull, insertBatchFull, InsertWait,
       insertBatchWait, ringVars, waitVars, genVars
  <2> QED  BY <1>2, <2>1, <2>2 DEF GeneratorStep
<1>3. ASSUME MainStep PROVE Fed'
  <2>1. CASE RemoveEmpty \/ RemoveWait
    BY <2>1, <1>1 DEF RemoveEmpty, removeBatchEmpty, RemoveWait, removeBatchWait,
       waitVars, genVars
  <2>2. CASE Remove
    BY <2>2, RemoveFeeds
  <2>3. CASE LeaveLoop
    BY <2>3, LeaveFeeds
  <2>4. CASE SetProducerFinished \/ Broadcast \/ Join
    BY <2>4 DEF SetProducerFinished, Broadcast, Join, ringVars, waitVars, genVars, Fed
  <2> QED  BY <1>3, <2>1, <2>2, <2>3, <2>4 DEF MainStep
<1>4. CASE Spurious \/ Exited \/ UNCHANGED vars
  BY <1>4, <1>1 DEF Spurious, SpuriousWakeup, Exited, vars, ringVars, waitVars, genVars
<1> QED  BY <1>2, <1>3, <1>4 DEF Next
-----------------------------------------------------------------------------
LEMMA BusyFinite ==
  /\ IsFiniteSet(Busy) /\ Cardinality(Busy) \in Nat
  /\ IsFiniteSet(Busy') /\ Cardinality(Busy') \in Nat
  BY ProducersExist, FS_Subset, FS_CardinalityType DEF Busy

\* A step that leaves the ring alone and puts no generator to sleep.
LEMMA RoomKept ==
  ASSUME TypeOK, RoomInv, UNCHANGED <<head, tail, i>>,
         main' = "remove" => main = "remove",
         \A p \in Producers : Sleeping(p)' => Sleeping(p)
  PROVE  RoomInv'
<1> SUFFICES ASSUME main = "remove", \E p \in Producers : Sleeping(p)
             PROVE  Room' <= Cardinality(Busy')
  BY DEF RoomInv
<1>1. Room <= Cardinality(Busy)
  BY DEF RoomInv
<1>2. Room' = Room
  BY DEF Room, Distance
<1>3. Busy \subseteq Busy'
  BY DEF Busy
<1>4. Cardinality(Busy) <= Cardinality(Busy')
  BY <1>3, BusyFinite, FS_Subset
<1> QED  BY <1>1, <1>2, <1>4, BusyFinite, RoomType, TypesOfRing

\* A batch takes the room of one, and may be the last of its generator.
LEMMA InsertLeavesRoom ==
  ASSUME TypeOK, ShareInv, Fed, RoomInv, NEW p \in Producers, Insert(p)
  PROVE  RoomInv'
<1>1. \A q \in Producers : Sleeping(q)' => Sleeping(q)
  BY NobodyFallsAsleep DEF Threads
<1> SUFFICES ASSUME \E q \in Producers : Sleeping(q)
             PROVE  Room' <= Cardinality(Busy')
  BY <1>1 DEF RoomInv
<1>2. Room \in Int /\ Room' \in Int /\ Room' + 1 = Room
  BY InsertFeeds, InsertTakesRoom DEF TypeOK, RingTypeOK, Insert
<1>3. Room <= Cardinality(Busy)
  BY InsertFeeds DEF RoomInv
<1>4. Busy \ {p} \subseteq Busy'
  BY <1>1 DEF Busy, Insert, TypeOK
<1>5. /\ Cardinality(Busy) - 1 <= Cardinality(Busy \ {p})
      /\ Cardinality(Busy \ {p}) \in Nat
      /\ Cardinality(Busy \ {p}) <= Cardinality(Busy')
  BY <1>4, BusyFinite, FS_RemoveElement, FS_CardinalityType, FS_Subset
<1>6. Cardinality(Busy) <= Cardinality(Busy') + 1
  BY <1>5, BusyFinite
<1>7. Room' + 1 <= Cardinality(Busy') + 1
  <2>1. Room <= Cardinality(Busy') + 1
    BY <1>2, <1>3, <1>6, BusyFinite
  <2> QED  BY <2>1, <1>2
<1>8. \A a, b \in Int : a + 1 <= b + 1 => a <= b
  OBVIOUS
<1> QED  BY <1>2, <1>7, <1>8, BusyFinite

\* The room that removeBatch makes is for the generator that it wakes.
LEMMA RemoveLeavesRoom ==
  ASSUME TypeOK, ShareInv, Fed, RoomInv, Remove
  PROVE  RoomInv'
<1> SUFFICES ASSUME \E q \in Producers : Sleeping(q)'
             PROVE  Room' <= Cardinality(Busy')
  BY DEF RoomInv
<1>1. mutex = NoThread /\ mutex' = NoThread /\ not_empty' = not_empty
      /\ not_full' \in Signal(not_full) /\ UNCHANGED genVars /\ main = "remove"
      /\ not_full \subseteq Producers /\ not_empty \subseteq {Main}
  BY DEF Remove, removeBatch, Locks, TypeOK, RingTypeOK
<1>2. \A q \in Producers : /\ Sleeping(q) <=> q \in not_full
                           /\ Sleeping(q)' <=> q \in not_full'
  BY <1>1, ThreadsAssumption DEF Sleeping
<1>3. PICK w \in not_full : not_full' = not_full \ {w}
  BY <1>1, <1>2 DEF Signal
<1>4. w \in Producers /\ Sleeping(w) /\ i[w] < NUM_HASHES_PER_THREAD
  BY <1>1, <1>2, <1>3 DEF ShareInv
<1>5. Busy' = Busy \cup {w} /\ w \notin Busy
  BY <1>1, <1>2, <1>3, <1>4 DEF Busy, genVars
<1>6. Cardinality(Busy') = Cardinality(Busy) + 1
  BY <1>5, BusyFinite, FS_AddElement
<1>7. Room <= Cardinality(Busy)
  BY <1>1, <1>4 DEF RoomInv
<1>8. Room \in Int /\ Room' = Room + 1
  BY RemoveFeeds, RemoveMakesRoom DEF TypeOK, RingTypeOK, Remove
<1> QED  BY <1>6, <1>7, <1>8, BusyFinite

\* Each step leaves as many busy generators as there is room for batches.
LEMMA StepRoom ==
  ASSUME TypeOK, ShareInv, Fed, RoomInv, [Next]_vars
  PROVE  RoomInv'
<1>1. ASSUME NEW p \in Producers, GeneratorStep(p) PROVE RoomInv'
  <2>1. CASE LoopTest(p)
    BY <2>1, RoomKept DEF LoopTest, ringVars, waitVars, Sleeping
  <2>2. CASE InsertFull(p)
    <3>1. Room = 0
      BY <2>2, FullHasNoRoom DEF InsertFull, insertBatchFull, TypeOK, RingTypeOK
    <3>2. Room' = Room
      BY <2>2 DEF InsertFull, insertBatchFull, Room, Distance
    <3> QED  BY <3>1, <3>2, BusyFinite DEF RoomInv
  <2>3. CASE InsertWait(p)
    BY <2>3, RoomKept, ThreadsAssumption
       DEF InsertWait, insertBatchWait, genVars, Sleeping
  <2>4. CASE Insert(p)
    BY <2>4, InsertLeavesRoom
  <2> QED  BY <1>1, <2>1, <2>2, <2>3, <2>4 DEF GeneratorStep
<1>2. ASSUME MainStep PROVE RoomInv'
  <2>1. CASE RemoveEmpty
    BY <2>1, RoomKept, ThreadsAssumption
       DEF RemoveEmpty, removeBatchEmpty, waitVars, genVars, Sleeping
  <2>2. CASE RemoveWait
    BY <2>2, RoomKept, ThreadsAssumption
       DEF RemoveWait, removeBatchWait, genVars, Sleeping
  <2>3. CASE Remove
    BY <2>3, RemoveLeavesRoom
  <2>4. CASE LeaveLoop \/ SetProducerFinished \/ Broadcast \/ Join
    BY <2>4 DEF LeaveLoop, SetProducerFinished, Broadcast, Join, RoomInv
  <2> QED  BY <1>2, <2>1, <2>2, <2>3, <2>4 DEF MainStep
<1>3. ASSUME Spurious PROVE RoomInv'
  BY <1>3, RoomKept DEF Spurious, SpuriousWakeup, genVars, Sleeping
<1>4. ASSUME Exited \/ UNCHANGED vars PROVE RoomInv'
  BY <1>4, RoomKept DEF Exited, vars, ringVars, waitVars, genVars, Sleeping
<1> QED  BY <1>1, <1>2, <1>3, <1>4 DEF Next

LEMMA Inductive == Init /\ [][Next]_vars => []Inv
<1>1. Inv /\ [Next]_vars => Inv'
  BY StepType, StepShare, StepMain, StepFed, StepRoom DEF Inv
<1> QED  BY <1>1, InitInv, PTL
-----------------------------------------------------------------------------
\* hashgen6.c, like hashgen7.c, signals one thread at a time, and here the
\* generators stop by themselves: main still never waits for hashes that nobody
\* who is awake will insert.
THEOREM MainNeverStarves == Spec => []MainIsServed
<1>1. Inv => MainIsServed
  <2> SUFFICES ASSUME Inv, Sleeping(Main)
               PROVE  \E p \in Producers : p \in Busy
    BY DEF MainIsServed, Busy
  <2>1. /\ TypeOK /\ ShareInv /\ Fed /\ RoomInv /\ main = "remove"
        /\ Len(consumed) < NUM_HASHES /\ tail = head
    BY DEF Inv, MainWaits, MoreToConsume, Empty
  <2>2. Distance(tail, head) = 0
    BY <2>1, TypesOfRing, DistanceIs DEF Slots
  <2>3. CASE \E p \in Producers : Sleeping(p)
    <3>1. Room <= Cardinality(Busy)
      BY <2>1, <2>3 DEF RoomInv
    <3>2. Room > 0
      <4> DEFINE N == HASHGEN_THREADS_BUFFER
                 q == N \div BATCH_SIZE
      <4>1. Room = q - 1
        BY <2>2, Sizes DEF Room
      <4>2. q \in Nat /\ N = q * BATCH_SIZE
        BY Sizes, ConstantsAssumption
      <4>3. BATCH_SIZE < N /\ BATCH_SIZE \in Nat
        BY Sizes
      <4> HIDE DEF q, N
      <4>4. q # 0 /\ q # 1
        BY <4>2, <4>3
      <4> QED  BY <4>1, <4>2, <4>4
    <3>3. Cardinality(Busy) # 0
      BY <3>1, <3>2, BusyFinite, RoomType, TypesOfRing, <2>1
    <3>4. Busy # {}
      BY <3>3, FS_EmptySet
    <3> QED  BY <3>4 DEF Busy
  <2>4. CASE \A p \in Producers : ~Sleeping(p)
    <3>1. consumed \o Contents = consumed
      <4>1. Contents = <<>>
        BY <2>2 DEF Contents
      <4> QED  BY <4>1, <2>1, TypesOfRing, ConcatEmptySeq
    <3>2. Merged(consumed, i)
      BY <3>1, <2>1 DEF Fed
    <3>3. PICK p \in Producers : i[p] # NUM_HASHES_PER_THREAD
      BY <3>2, <2>1, SharesAddUp, TypesOfRing DEF ShareInv
    <3>4. i[p] < NUM_HASHES_PER_THREAD
      BY <3>3, <2>1, Sizes, TypesOfRing DEF ShareInv
    <3> QED  BY <3>4, <2>4 DEF Busy
  <2> QED  BY <2>3, <2>4
<1> QED  BY <1>1, Inductive, PTL DEF Spec

\* When main of hashgen6.c leaves its loop it has had every hash, once.
THEOREM AllIndexesOnce == Spec => []EveryIndexOnce
<1>1. Inv => EveryIndexOnce
  BY SharesAddUp, TypesOfRing DEF Inv, Fed, ShareInv, EveryIndexOnce
<1> QED  BY <1>1, Inductive, PTL DEF Spec

\* The flag that main of hashgen6.c sets, and the broadcast of the wrong
\* condition variable, find nobody waiting.
THEOREM NobodyNeedsFlag == Spec => []FlagIsIdle
<1>1. Inv => FlagIsIdle
  BY AfterLoop DEF Inv, FlagIsIdle
<1> QED  BY <1>1, Inductive, PTL DEF Spec
=============================================================================
