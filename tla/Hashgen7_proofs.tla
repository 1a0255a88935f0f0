--------------------------- MODULE Hashgen7_proofs ---------------------------
(***************************************************************************)
(* Theorems about the generation phase of hashgen7.c, for any number of    *)
(* threads, any size of the ring and any number of hashes.                 *)
(***************************************************************************)
EXTENDS Hashgen7, CircularArray_proofs

Entries == Values \cup {Uninitialised}

-----------------------------------------------------------------------------
\* A batch, as insertBatch copies it, is made of well-formed entries.
LEMMA BatchType ==
  ASSUME TypeOK, NEW p \in Producers
  PROVE  batch(p) \in [0..BATCH_SIZE - 1 -> Entries]
  BY SizesAssumption DEF TypeOK, batch, Entries, Values

\* So is one that removeBatch copies.
LEMMA NextBatchType ==
  ASSUME TypeOK
  PROVE  [k \in 1..BATCH_SIZE |-> NextBatch[k - 1]] \in Seq(Entries)
<1>1. \A k \in 0..BATCH_SIZE - 1 : Ahead(tail, k) \in Slots
  BY AheadInSlots, SizesAssumption DEF TypeOK, RingTypeOK
<1>2. \A k \in 1..BATCH_SIZE : NextBatch[k - 1] \in Entries
  BY <1>1, SizesAssumption DEF NextBatch, TypeOK, RingTypeOK, Entries
<1> QED  BY <1>2, SizesAssumption

LEMMA InitType == Init => TypeOK
<1> SUFFICES ASSUME Init PROVE TypeOK
  OBVIOUS
<1>1. RingTypeOK(Values)
  BY SizesAssumption DEF Init, initCircularArray, RingTypeOK, Slots
<1>2. consumed \in Seq(Entries)
  BY DEF Init
<1> QED  BY <1>1, <1>2 DEF Init, TypeOK, MainStates, Entries

\* The steps of the ring's own actions.
LEMMA InsertType ==
  ASSUME TypeOK, NEW p \in Producers, Insert(p)
  PROVE  TypeOK'
<1>1. array' \in [Slots -> Entries]
  <2>1. \A s \in Slots : Distance(head, s) \in Nat
    BY DistanceInSlots DEF TypeOK, RingTypeOK, Slots
  <2>2. \A s \in Slots :
          Distance(head, s) < BATCH_SIZE => batch(p)[Distance(head, s)] \in Entries
    BY <2>1, BatchType, SizesAssumption
  <2> QED  BY <2>2 DEF Insert, insertBatch, TypeOK, RingTypeOK, Entries
<1>2. head' \in Slots
  BY AheadInSlots, SizesAssumption
     DEF Insert, insertBatch, TypeOK, RingTypeOK, Slots
<1>3. not_empty' \subseteq {Main}
  BY SignalWakes DEF Insert, insertBatch, TypeOK, RingTypeOK
<1>4. i' \in [Producers -> Nat]
  BY SizesAssumption DEF Insert, TypeOK
<1> QED  BY <1>1, <1>2, <1>3, <1>4
         DEF Insert, insertBatch, TypeOK, RingTypeOK, Entries

LEMMA RemoveType ==
  ASSUME TypeOK, Remove
  PROVE  TypeOK'
<1>1. tail' \in Slots
  BY AheadInSlots, SizesAssumption
     DEF Remove, removeBatch, TypeOK, RingTypeOK, Slots
<1>2. not_full' \subseteq Producers
  BY SignalWakes DEF Remove, removeBatch, TypeOK, RingTypeOK
<1>3. consumed' \in Seq(Entries)
  <2>1. consumed \in Seq(Entries)
    BY DEF TypeOK, Entries
  <2> QED  BY <2>1, NextBatchType DEF Remove
<1> QED  BY <1>1, <1>2, <1>3
         DEF Remove, removeBatch, genVars, TypeOK, RingTypeOK, Entries, MainStates

LEMMA StepType == TypeOK /\ [Next]_vars => TypeOK'
<1> SUFFICES ASSUME TypeOK, [Next]_vars PROVE TypeOK'
  OBVIOUS
<1>1. ASSUME NEW p \in Producers, GeneratorStep(p) PROVE TypeOK'
  <2>1. CASE LoopTest(p)
    BY <2>1 DEF LoopTest, ringVars, waitVars, TypeOK, RingTypeOK
  <2>2. CASE InsertFull(p)
    BY <2>2 DEF InsertFull, insertBatchFull, genVars, waitVars, TypeOK,
                RingTypeOK, Threads
  <2>3. CASE InsertWait(p)
    BY <2>3 DEF InsertWait, insertBatchWait, genVars, TypeOK, RingTypeOK
  <2>4. CASE Insert(p)
    BY <2>4, InsertType
  <2> QED  BY <1>1, <2>1, <2>2, <2>3, <2>4 DEF GeneratorStep
<1>2. ASSUME MainStep PROVE TypeOK'
  <2>1. CASE RemoveEmpty
    BY <2>1 DEF RemoveEmpty, removeBatchEmpty, genVars, waitVars, TypeOK,
                RingTypeOK, Threads
  <2>2. CASE RemoveWait
    BY <2>2 DEF RemoveWait, removeBatchWait, genVars, TypeOK, RingTypeOK
  <2>3. CASE Remove
    BY <2>3, RemoveType
  <2>4. CASE ProcessBatch \/ LeaveLoop \/ FinalFlush \/ Join
    BY <2>4 DEF ProcessBatch, LeaveLoop, FinalFlush, Join, ringVars, waitVars,
                genVars, TypeOK, RingTypeOK, MainStates
  <2>5. CASE SetProducerFinished
    BY <2>5 DEF SetProducerFinished, waitVars, genVars, TypeOK, RingTypeOK,
                MainStates
  <2>6. CASE Broadcast
    BY <2>6 DEF Broadcast, genVars, TypeOK, RingTypeOK, MainStates
  <2> QED  BY <1>2, <2>1, <2>2, <2>3, <2>4, <2>5, <2>6 DEF MainStep
<1>3. ASSUME Spurious PROVE TypeOK'
  BY <1>3, SizesAssumption
     DEF Spurious, SpuriousWakeup, genVars, TypeOK, RingTypeOK
<1>4. ASSUME UNCHANGED vars PROVE TypeOK'
  BY <1>4 DEF vars, ringVars, waitVars, genVars, TypeOK, RingTypeOK
<1> QED  BY <1>1, <1>2, <1>3, <1>4 DEF Next

\* The variables of hashgen7.c keep their types: in particular head and tail
\* stay within the ring, whether or not the batches divide it.
THEOREM TypeCorrect == Spec => []TypeOK
  BY InitType, StepType, PTL DEF Spec
-----------------------------------------------------------------------------
WaitInv == TypeOK /\ SleepersHaveCause

LEMMA ProducersExist == Producers # {}
  BY ThreadIDsAssumption, FS_EmptySet DEF NUM_HASHGEN_THREADS

LEMMA InitWait == Init => SleepersHaveCause
<1> SUFFICES ASSUME Init PROVE SleepersHaveCause
  OBVIOUS
<1>1. \A t \in Threads : ~Sleeping(t)
  BY ThreadsAssumption DEF Init, initCircularArray, Sleeping, Threads
<1> QED  BY <1>1, ProducersExist DEF SleepersHaveCause, Threads

\* A step that leaves the ring alone and puts nobody to sleep.
LEMMA NobodyFallsAsleep ==
  ASSUME SleepersHaveCause,
         UNCHANGED <<head, tail>>,
         \A t \in Threads : Sleeping(t)' => Sleeping(t)
  PROVE  SleepersHaveCause'
  BY DEF SleepersHaveCause, Empty, Full, Ahead, Threads

\* Who inserts is awake, and so is main after it.
LEMMA InsertKeepsCause ==
  ASSUME TypeOK, NEW p \in Producers, Insert(p)
  PROVE  SleepersHaveCause'
<1>1. mutex' = NoThread /\ p \notin not_full'
  BY DEF Insert, insertBatch, Locks, Sleeping
<1>2. not_empty' = {}
  BY SignalOnly DEF Insert, insertBatch, TypeOK, RingTypeOK
<1>3. Main \notin not_full'
  BY ThreadsAssumption DEF Insert, insertBatch, TypeOK, RingTypeOK
<1>4. ~Sleeping(p)' /\ ~Sleeping(Main)'
  BY <1>1, <1>2, <1>3, ThreadsAssumption DEF Sleeping
<1> QED  BY <1>4 DEF SleepersHaveCause

\* Who removes is main, and if every generator slept, one no longer does.
LEMMA RemoveKeepsCause ==
  ASSUME TypeOK, Remove
  PROVE  SleepersHaveCause'
<1>1. mutex' = NoThread /\ Main \notin not_empty' /\ not_empty' = not_empty
  BY DEF Remove, removeBatch, Locks, Sleeping
<1>2. not_full' \subseteq not_full /\ (not_full # {} => not_full' # not_full)
  BY SignalWakes DEF Remove, removeBatch
<1>3. not_full \subseteq Producers /\ not_empty = {}
  BY <1>1, ThreadsAssumption DEF TypeOK, RingTypeOK
<1>4. ~Sleeping(Main)'
  BY <1>1, <1>2, <1>3, ThreadsAssumption DEF Sleeping
<1>5. \E p \in Producers : ~Sleeping(p)'
  <2>1. PICK p \in Producers : p \notin not_full'
    BY <1>2, <1>3, ProducersExist
  <2> QED  BY <2>1, <1>1, <1>3, ThreadsAssumption DEF Sleeping
<1> QED  BY <1>4, <1>5 DEF SleepersHaveCause

\* A thread that is about to sleep has just tested the ring.
LEMMA FullKeepsCause ==
  ASSUME TypeOK, NEW p \in Producers, InsertFull(p), SleepersHaveCause
  PROVE  SleepersHaveCause'
<1>1. Full'
  BY DEF InsertFull, insertBatchFull, Full, Ahead
<1>2. Sleeping(Main)' => Sleeping(Main)
  BY ThreadsAssumption DEF InsertFull, insertBatchFull, waitVars, Sleeping
<1>3. Empty' <=> Empty
  BY DEF InsertFull, insertBatchFull, Empty
<1> QED  BY <1>1, <1>2, <1>3 DEF SleepersHaveCause

\* Main begins to wait only in front of an empty ring.
LEMMA EmptyKeepsCause ==
  ASSUME TypeOK, RemoveEmpty, SleepersHaveCause
  PROVE  SleepersHaveCause'
<1>1. Empty'
  BY DEF RemoveEmpty, removeBatchEmpty, Empty
<1>2. \A p \in Producers : Sleeping(p)' => Sleeping(p)
  BY ThreadsAssumption DEF RemoveEmpty, removeBatchEmpty, waitVars, Sleeping
<1>3. Full' <=> Full
  BY DEF RemoveEmpty, removeBatchEmpty, Full, Ahead
<1> QED  BY <1>1, <1>2, <1>3 DEF SleepersHaveCause

LEMMA StepWait == WaitInv /\ [Next]_vars => SleepersHaveCause'
<1> SUFFICES ASSUME TypeOK, SleepersHaveCause, [Next]_vars
             PROVE  SleepersHaveCause'
  BY DEF WaitInv
<1> USE NobodyFallsAsleep
<1>1. ASSUME NEW p \in Producers, GeneratorStep(p) PROVE SleepersHaveCause'
  <2>1. CASE LoopTest(p)
    BY <2>1 DEF LoopTest, ringVars, waitVars, Sleeping
  <2>2. CASE InsertFull(p)
    BY <2>2, FullKeepsCause
  <2>3. CASE InsertWait(p)
    BY <2>3, ThreadsAssumption DEF InsertWait, insertBatchWait, Sleeping, Threads
  <2>4. CASE Insert(p)
    BY <2>4, InsertKeepsCause
  <2> QED  BY <1>1, <2>1, <2>2, <2>3, <2>4 DEF GeneratorStep
<1>2. ASSUME MainStep PROVE SleepersHaveCause'
  <2>1. CASE RemoveEmpty
    BY <2>1, EmptyKeepsCause
  <2>2. CASE RemoveWait
    BY <2>2, ThreadsAssumption DEF RemoveWait, removeBatchWait, Sleeping, Threads
  <2>3. CASE Remove
    BY <2>3, RemoveKeepsCause
  <2>4. CASE ProcessBatch \/ LeaveLoop \/ FinalFlush \/ Join
    BY <2>4 DEF ProcessBatch, LeaveLoop, FinalFlush, Join, ringVars, waitVars,
                Sleeping
  <2>5. CASE SetProducerFinished \/ Broadcast
    BY <2>5 DEF SetProducerFinished, Broadcast, waitVars, Sleeping
  <2> QED  BY <1>2, <2>1, <2>2, <2>3, <2>4, <2>5 DEF MainStep
<1>3. ASSUME Spurious PROVE SleepersHaveCause'
  BY <1>3 DEF Spurious, SpuriousWakeup, Sleeping
<1>4. ASSUME UNCHANGED vars PROVE SleepersHaveCause'
  BY <1>4 DEF vars, ringVars, waitVars, Sleeping
<1> QED  BY <1>1, <1>2, <1>3, <1>4 DEF Next

\* Threads sleep in the wait loops of removeBatch and insertBatch for a reason:
\* main in front of an empty ring, all the generators only in front of a full
\* one.
THEOREM CauseOfSleep == Spec => []SleepersHaveCause
<1>1. Init => WaitInv
  BY InitType, InitWait DEF WaitInv
<1>2. WaitInv /\ [Next]_vars => WaitInv'
  BY StepType, StepWait DEF WaitInv
<1>3. WaitInv => SleepersHaveCause
  BY DEF WaitInv
<1> QED  BY <1>1, <1>2, <1>3, PTL DEF Spec

\* With two generators or more, however many, main and the generators never
\* sleep all at once: signals sent one by one are enough.
THEOREM NoDeadlock ==
  ASSUME NUM_HASHGEN_THREADS > 1
  PROVE  Spec => []NeverAllAsleep
<1>1. BATCH_SIZE < HASHGEN_THREADS_BUFFER
  <2>1. \A n \in Nat \ {0}, t \in Nat : t > 1 => n \div t < n
    OBVIOUS
  <2> QED  BY <2>1, SizesAssumption, ThreadIDsAssumption
<1>2. TypeOK /\ SleepersHaveCause => NeverAllAsleep
  <2> SUFFICES ASSUME TypeOK, SleepersHaveCause, \A t \in Threads : Sleeping(t)
               PROVE  FALSE
    BY DEF NeverAllAsleep
  <2>1. Full /\ Empty
    BY DEF SleepersHaveCause, Threads
  <2> QED  BY <2>1, <1>1, AheadMoves DEF Full, Empty, TypeOK, RingTypeOK
<1> QED  BY <1>2, TypeCorrect, CauseOfSleep, PTL
-----------------------------------------------------------------------------
\* Only main, past its loop, sets the flag; until it does the ring holds whole
\* batches, and what it holds is, behind what main has had, a merge of all that
\* the generators have inserted.
MainSetsFlag == producerFinished => main \in {"broadcast", "join", "done"}
WholeBatches == Aligned /\ Len(consumed) % BATCH_SIZE = 0
Fed == ~producerFinished => WholeBatches /\ Merged(Passed, i)

StreamInv == TypeOK /\ MainSetsFlag /\ Fed

LEMMA InitStream == Init => MainSetsFlag /\ Fed
<1> SUFFICES ASSUME Init PROVE Fed /\ ~producerFinished
  BY DEF MainSetsFlag
<1>1. head = 0 /\ tail = 0 /\ consumed = <<>> /\ ~producerFinished
      /\ i = [p \in Producers |-> 0]
  BY DEF Init, initCircularArray
<1>2. Distance(tail, head) = 0
  BY <1>1, SizesAssumption DEF Distance
<1>3. Aligned
  BY <1>2, SizesAssumption DEF Aligned
<1>4. Contents = <<>>
  BY <1>2 DEF Contents
<1>5. Passed = <<>>
  BY <1>1, <1>4 DEF Passed
<1>6. {<<>>[k] : k \in DOMAIN <<>>} = InsertedUpTo(i)
  <2>1. i \in [Producers -> Nat]
    BY <1>1
  <2>2. \A e : e \notin InsertedUpTo(i)
    BY <1>1, <2>1, InsertedIs DEF Entry
  <2> QED  BY <2>2
<1>7. Merged(<<>>, i)
  BY <1>6, SizesAssumption DEF Merged, InOrder, Batched
<1> QED  BY <1>1, <1>3, <1>5, <1>7, SizesAssumption DEF Fed, WholeBatches

\* insertBatch adds the next batch of its caller and overwrites nothing.
LEMMA InsertFeeds ==
  ASSUME HASHGEN_THREADS_BUFFER % BATCH_SIZE = 0,
         TypeOK, Fed, NEW p \in Producers, Insert(p), ~producerFinished
  PROVE  /\ Fed'
         /\ Distance(tail, head) + BATCH_SIZE < HASHGEN_THREADS_BUFFER
<1>1. /\ array \in [Slots -> Entries] /\ head \in Slots /\ tail \in Slots
      /\ consumed \in Seq(Entries) /\ i \in [Producers -> Nat]
      /\ Entry \subseteq Entries
  BY DEF TypeOK, RingTypeOK, Entries, Entry, Values
<1>2. Aligned /\ Merged(consumed \o Contents, i) /\ ~Full
  BY DEF Fed, WholeBatches, Passed, Insert, insertBatch
<1>3. insertBatch(p, [j \in 0..BATCH_SIZE - 1 |-> [from |-> p, at |-> i[p] + j]])
  BY DEF Insert, batch
<1>4. consumed' = consumed /\ i' = [i EXCEPT ![p] = @ + BATCH_SIZE]
  BY DEF Insert
<1>5. /\ Aligned' /\ Distance(tail, head) + BATCH_SIZE < HASHGEN_THREADS_BUFFER
      /\ Merged(consumed \o Contents', [i EXCEPT ![p] = @ + BATCH_SIZE])
  BY <1>1, <1>2, <1>3, InsertMerges
<1>6. Merged(Passed', i')
  BY <1>4, <1>5 DEF Passed
<1> QED  BY <1>4, <1>5, <1>6
         DEF Merged, Fed, WholeBatches, InOrder, Batched, InsertedUpTo

\* removeBatch hands main the oldest batch of the ring.
LEMMA RemoveFeeds ==
  ASSUME TypeOK, Fed, Remove, ~producerFinished
  PROVE  Fed' /\ BATCH_SIZE <= Distance(tail, head)
<1> DEFINE b == [k \in 1..BATCH_SIZE |-> NextBatch[k - 1]]
<1>1. /\ array \in [Slots -> Entries] /\ head \in Slots /\ tail \in Slots
      /\ consumed \in Seq(Entries)
  BY DEF TypeOK, RingTypeOK, Entries
<1>2. /\ Aligned /\ Len(consumed) % BATCH_SIZE = 0 /\ Merged(Passed, i) /\ ~Empty
      /\ removeBatch(Main)
  BY DEF Fed, WholeBatches, Remove, removeBatch
<1>3. consumed' = consumed \o b /\ i' = i
  BY DEF Remove, genVars
<1>4. /\ Aligned' /\ BATCH_SIZE <= Distance(tail, head)
      /\ b \in Seq(Entries) /\ Len(b) = BATCH_SIZE
      /\ (consumed \o b) \o Contents' = consumed \o Contents
  BY <1>1, <1>2, RemoveMerges
<1>5. Passed' = Passed
  BY <1>3, <1>4 DEF Passed
<1>6. Len(consumed)' % BATCH_SIZE = 0
  <2> HIDE DEF b
  <2>1. Len(consumed) \in Nat /\ Len(consumed') = Len(consumed) + BATCH_SIZE
    BY <1>1, <1>3, <1>4, ConcatProperties, LenProperties
  <2> QED  BY <2>1, <1>1, <1>2, RoomType, MultiplesAdd
<1> QED  BY <1>2, <1>3, <1>4, <1>5, <1>6
         DEF Fed, Merged, WholeBatches, InOrder, Batched, InsertedUpTo

\* What main has had and the ring holds stays all that was inserted.
LEMMA StepStream ==
  ASSUME HASHGEN_THREADS_BUFFER % BATCH_SIZE = 0,
         StreamInv, [Next]_vars
  PROVE  StreamInv'
<1>1. TypeOK /\ MainSetsFlag /\ Fed /\ TypeOK'
  BY StepType DEF StreamInv
<1>2. MainSetsFlag'
  BY <1>1 DEF MainSetsFlag, Next, vars, ringVars, waitVars, GeneratorStep, LoopTest,
     InsertFull, insertBatchFull, InsertWait, insertBatchWait, Insert,
     insertBatch, MainStep, RemoveEmpty, removeBatchEmpty, RemoveWait,
     removeBatchWait, Remove, removeBatch, ProcessBatch, LeaveLoop, FinalFlush,
     SetProducerFinished, Broadcast, Join, Spurious, SpuriousWakeup
<1>3. Fed'
  <2>1. ASSUME producerFinished' \/ UNCHANGED <<array, head, tail, producerFinished,
                                                i, consumed>>
        PROVE  Fed'
    BY <2>1, <1>1 DEF Fed, WholeBatches, Aligned, Distance, Passed, Contents, Ahead
  <2>2. ASSUME NEW p \in Producers, GeneratorStep(p), ~Insert(p) PROVE Fed'
    BY <2>1, <2>2 DEF GeneratorStep, LoopTest, InsertFull, insertBatchFull,
       InsertWait, insertBatchWait, ringVars, waitVars, genVars
  <2>3. ASSUME MainStep, ~Remove PROVE Fed'
    BY <2>1, <2>3 DEF MainStep, RemoveEmpty, removeBatchEmpty, RemoveWait,
       removeBatchWait, ProcessBatch, LeaveLoop, FinalFlush,
       SetProducerFinished, Broadcast, Join, ringVars, waitVars, genVars
  <2>4. CASE Spurious \/ UNCHANGED vars
    BY <2>1, <2>4 DEF Spurious, SpuriousWakeup, vars, ringVars, waitVars, genVars
  <2>5. ASSUME NEW p \in Producers, Insert(p) PROVE Fed'
    BY <2>1, <2>5, <1>1, InsertFeeds DEF Insert, insertBatch
  <2>6. ASSUME Remove PROVE Fed'
    BY <2>1, <2>6, <1>1, RemoveFeeds DEF Remove, removeBatch
  <2> QED  BY <2>2, <2>3, <2>4, <2>5, <2>6, <1>1 DEF Next
<1> QED  BY <1>1, <1>2, <1>3 DEF StreamInv

\* With a ring that the batches divide, nothing the generators insert is lost in
\* the ring of hashgen7.c, taken twice or reordered: until the shutdown, what
\* main has had and what the ring holds are all of it.
THEOREM AllPassOn ==
  ASSUME HASHGEN_THREADS_BUFFER % BATCH_SIZE = 0
  PROVE  Spec => []NothingLost
<1>1. Init => StreamInv
  BY InitType, InitStream DEF StreamInv
<1>2. StreamInv /\ [Next]_vars => StreamInv'
  BY StepStream
<1>3. StreamInv => NothingLost
  BY DEF StreamInv, Fed, Merged, NothingLost
<1> QED  BY <1>1, <1>2, <1>3, PTL DEF Spec
-----------------------------------------------------------------------------
\* The batch that main removes is the next one of the thread that made it.
LEMMA NextOfSomeone ==
  ASSUME StreamInv, Remove
  PROVE  \E p \in Producers :
           /\ [k \in 1..BATCH_SIZE |-> NextBatch[k - 1]] = Batch(p, CountOf(consumed, p))
           /\ Batch(p, CountOf(consumed, p)) \in Seq(Entries)
<1> DEFINE b == [k \in 1..BATCH_SIZE |-> NextBatch[k - 1]]
           L == Len(consumed)
<1>1. /\ array \in [Slots -> Entries] /\ head \in Slots /\ tail \in Slots
      /\ consumed \in Seq(Entries) /\ i \in [Producers -> Nat] /\ TypeOK
  BY DEF StreamInv, TypeOK, RingTypeOK, Entries
<1>2. ~producerFinished
  BY DEF StreamInv, MainSetsFlag, Remove
<1>3. Aligned /\ L % BATCH_SIZE = 0 /\ Merged(Passed, i) /\ ~Empty
  BY <1>2 DEF StreamInv, Fed, WholeBatches, Remove, removeBatch
<1>4. removeBatch(Main)
  BY DEF Remove
<1>5. Contents = b \o Contents' /\ b \in Seq(Entries) /\ Contents' \in Seq(Entries)
  BY <1>1, <1>3, <1>4, RemoveMerges
<1>6. /\ L \in Nat /\ DOMAIN consumed = 1..L /\ BATCH_SIZE \in Nat \ {0}
      /\ Len(b) = BATCH_SIZE
  BY <1>1, SizesAssumption
<1>7. Passed \in Seq(Entry)
  BY <1>3 DEF Merged, Entry
<1>8. /\ \A k \in 1..L : k \in DOMAIN Passed /\ Passed[k] = consumed[k]
      /\ \A k \in 1..BATCH_SIZE : L + k \in DOMAIN Passed /\ Passed[L + k] = b[k]
  <2> HIDE DEF b
  <2>1. PICK c \in Seq(Entries) : Contents = b \o c
    BY <1>5
  <2> DEFINE d == b \o c
  <2>2. d \in Seq(Entries) /\ \A k \in 1..BATCH_SIZE : k \in DOMAIN d /\ d[k] = b[k]
    BY <1>5, <1>6, ConcatPlaces
  <2>3. Passed = consumed \o d
    BY <2>1 DEF Passed
  <2> HIDE DEF d
  <2>4. DOMAIN d = 1..Len(d)
    BY <2>2, LenProperties
  <2> QED  BY <2>2, <2>3, <2>4, <1>1, <1>6, ConcatPlaces
<1> HIDE DEF L
<1> DEFINE e == Passed[L + 1]
<1>9. L + 1 \in DOMAIN Passed /\ e \in Entry
  BY <1>6, <1>7, <1>8
<1>10. \A j \in 0..BATCH_SIZE - 1 :
          Passed[(L + 1) + j] = [from |-> e.from, at |-> e.at + j]
  <2>1. ((L + 1) - 1) % BATCH_SIZE = 0
    BY <1>3, <1>6
  <2> QED  BY <2>1, <1>3, <1>9 DEF Merged, Batched
<1>11. e.from \in Producers /\ e.at \in Nat
  BY <1>9 DEF Entry
<1>12. CountOf(consumed, e.from) = e.at
  <2> DEFINE K == {k \in 1..(L + 1) - 1 : Passed[k].from = Passed[L + 1].from}
  <2>1. Cardinality(K) = e.at
    BY <1>1, <1>3, <1>9, CountIsIndex
  <2>2. K = {k \in DOMAIN consumed : consumed[k].from = e.from}
    <3>1. (L + 1) - 1 = L
      BY <1>6
    <3> QED  BY <3>1, <1>6, <1>8
  <2> QED  BY <2>1, <2>2 DEF CountOf
<1>13. b = Batch(e.from, e.at)
  <2>1. \A k \in 1..BATCH_SIZE : b[k] = [from |-> e.from, at |-> e.at + k - 1]
    <3> TAKE k \in 1..BATCH_SIZE
    <3>1. k - 1 \in 0..BATCH_SIZE - 1 /\ (L + 1) + (k - 1) = L + k
      BY <1>6
    <3>2. Passed[L + k] = [from |-> e.from, at |-> e.at + (k - 1)]
      BY <3>1, <1>10
    <3> QED  BY <3>2, <1>8
  <2> QED  BY <2>1 DEF Batch
<1> QED  BY <1>5, <1>11, <1>12, <1>13

\* The ring begins as HashStream does,
LEMMA InitMaps == Init => Stream!Init
<1> SUFFICES ASSUME Init PROVE Stream!Init
  OBVIOUS
<1>1. consumed = <<>>
  BY DEF Init
<1>2. \A p \in Producers :
        Cardinality({k \in DOMAIN consumed : consumed[k].from = p}) = 0
  <2>1. \A p \in Producers : {k \in DOMAIN consumed : consumed[k].from = p} = {}
    BY <1>1
  <2> QED  BY <2>1, FS_EmptySet
<1> QED  BY <1>1, <1>2 DEF Stream!Init

\* Remove is a delivery.
LEMMA RemoveMaps ==
  ASSUME StreamInv, Remove
  PROVE  Stream!Next
<1>1. PICK p \in Producers :
        /\ [k \in 1..BATCH_SIZE |-> NextBatch[k - 1]] = Batch(p, CountOf(consumed, p))
        /\ Batch(p, CountOf(consumed, p)) \in Seq(Entries)
  BY NextOfSomeone
<1> DEFINE c == CountOf(consumed, p)
<1>2. consumed' = consumed \o Batch(p, c)
  BY <1>1 DEF Remove
<1>3. consumed \in Seq(Entries)
  BY DEF StreamInv, TypeOK, Entries
<1>4. \A q : CountOf(consumed', q) =
               IF q = p THEN CountOf(consumed, q) + BATCH_SIZE ELSE CountOf(consumed, q)
  BY <1>1, <1>2, <1>3, CountOfBatch
<1>5. [q \in Producers |-> CountOf(consumed', q)] =
        [[q \in Producers |-> CountOf(consumed, q)] EXCEPT ![p] = @ + BATCH_SIZE]
  BY <1>4
<1>6. Stream!Deliver(p)
  BY <1>2, <1>5 DEF Stream!Deliver, Stream!Batch, Batch, CountOf
<1> QED  BY <1>6 DEF Stream!Next

\* and each of its steps is one of HashStream or none.
LEMMA StepMaps ==
  ASSUME StreamInv, [Next]_vars
  PROVE  [Stream!Next]_(Stream!vars)
<1>1. ASSUME UNCHANGED consumed PROVE UNCHANGED Stream!vars
  BY <1>1 DEF Stream!vars
<1>2. ~Remove => UNCHANGED consumed
  BY DEF Next, vars, GeneratorStep, LoopTest, InsertFull, InsertWait, Insert,
     MainStep, RemoveEmpty, RemoveWait, ProcessBatch, LeaveLoop, FinalFlush,
     SetProducerFinished, Broadcast, Join, Spurious
<1> QED  BY <1>1, <1>2, RemoveMaps

\* The ring of hashgen7.c implements HashStream: what main gets is a merge of
\* the generators' own sequences, in whole batches.
THEOREM RingImplementsStream ==
  ASSUME HASHGEN_THREADS_BUFFER % BATCH_SIZE = 0
  PROVE  Spec => MergesStreams
<1>1. Init => StreamInv
  BY InitType, InitStream DEF StreamInv
<1>2. StreamInv /\ [Next]_vars => StreamInv'
  BY StepStream
<1>3. StreamInv /\ [Next]_vars => [Stream!Next]_(Stream!vars)
  BY StepMaps
<1> QED  BY <1>1, <1>2, <1>3, InitMaps, PTL DEF Spec, MergesStreams, Stream!Spec
-----------------------------------------------------------------------------
Awake == {p \in Producers : ~Sleeping(p)}

WakeupInv == StreamInv /\ NoLostWakeup

LEMMA AwakeFinite == IsFiniteSet(Awake) /\ Cardinality(Awake) \in Nat
<1>1. IsFiniteSet(Producers)
  BY ThreadIDsAssumption, FS_Interval
<1> QED  BY <1>1, FS_Subset, FS_CardinalityType DEF Awake

\* The same, of the state that a step leads to.
LEMMA AwakeGrows ==
  ASSUME \A p \in Producers : Sleeping(p)' => Sleeping(p)
  PROVE  Awake \subseteq Awake' /\ Cardinality(Awake) <= Cardinality(Awake')
         /\ Cardinality(Awake') \in Nat
<1>1. IsFiniteSet(Producers)
  BY ThreadIDsAssumption, FS_Interval
<1>2. Awake \subseteq Awake' /\ Awake' \subseteq Producers
  BY DEF Awake
<1>3. IsFiniteSet(Awake') /\ Cardinality(Awake') \in Nat
  BY <1>1, <1>2, FS_Subset, FS_CardinalityType
<1> QED  BY <1>2, <1>3, FS_Subset

\* A step that leaves the ring alone and puts no generator to sleep.
LEMMA RoomKept ==
  ASSUME TypeOK, NoLostWakeup, UNCHANGED <<head, tail>>,
         producerFinished => producerFinished',
         \A p \in Producers : Sleeping(p)' => Sleeping(p)
  PROVE  NoLostWakeup'
<1> SUFFICES ASSUME ~producerFinished, \E p \in Producers : Sleeping(p)
             PROVE  Room' <= Cardinality(Awake')
  BY DEF NoLostWakeup, Awake
<1>1. Room <= Cardinality(Awake)
  BY DEF NoLostWakeup, Awake
<1>2. Room' = Room
  BY DEF Room, Distance
<1>3. Cardinality(Awake) <= Cardinality(Awake') /\ Cardinality(Awake') \in Nat
  BY AwakeGrows
<1> QED  BY <1>1, <1>2, <1>3, RoomType, AwakeFinite DEF TypeOK, RingTypeOK

\* A generator that finds the ring full leaves no room behind.
LEMMA FullLosesNothing ==
  ASSUME TypeOK, NEW p \in Producers, InsertFull(p)
  PROVE  NoLostWakeup'
<1>1. Room' = 0
  <2>1. Room = 0
    BY FullHasNoRoom DEF InsertFull, insertBatchFull, TypeOK, RingTypeOK
  <2> QED  BY <2>1 DEF InsertFull, insertBatchFull, Room, Distance
<1>2. Cardinality(Awake') \in Nat
  <2>1. IsFiniteSet(Producers) /\ Awake' \in SUBSET Producers
    BY ThreadIDsAssumption, FS_Interval DEF Awake
  <2> QED  BY <2>1, FS_Subset, FS_CardinalityType
<1> QED  BY <1>1, <1>2 DEF NoLostWakeup, Awake

\* A batch takes the room of one.
LEMMA InsertLosesNothing ==
  ASSUME HASHGEN_THREADS_BUFFER % BATCH_SIZE = 0,
         TypeOK, Fed, NoLostWakeup, NEW p \in Producers, Insert(p)
  PROVE  NoLostWakeup'
<1> SUFFICES ASSUME ~producerFinished, \E q \in Producers : Sleeping(q)
             PROVE  Room' <= Cardinality(Awake')
  <2>1. \A q \in Producers : Sleeping(q)' => Sleeping(q)
    BY SignalWakes, ThreadsAssumption DEF Insert, insertBatch, Sleeping
  <2> QED  BY <2>1 DEF NoLostWakeup, Awake, Insert, insertBatch
<1>1. Room \in Int /\ Room' \in Int /\ Room' + 1 = Room
  BY InsertFeeds, InsertTakesRoom DEF TypeOK, RingTypeOK, Insert
<1>2. Room <= Cardinality(Awake)
  BY DEF NoLostWakeup, Awake
<1>3. Cardinality(Awake) <= Cardinality(Awake') /\ Cardinality(Awake') \in Nat
  <2>1. \A q \in Producers : Sleeping(q)' => Sleeping(q)
    BY SignalWakes, ThreadsAssumption DEF Insert, insertBatch, Sleeping
  <2> QED  BY <2>1, AwakeGrows
<1>4. Room' <= Room
  <2>1. \A a, b \in Int : a + 1 = b => a <= b
    OBVIOUS
  <2> QED  BY <2>1, <1>1
<1> QED  BY <1>1, <1>2, <1>3, <1>4, AwakeFinite

\* The room that removeBatch makes is for the generator that it wakes.
LEMMA RemoveLosesNothing ==
  ASSUME TypeOK, Fed, NoLostWakeup, Remove
  PROVE  NoLostWakeup'
<1> SUFFICES ASSUME ~producerFinished, \E q \in Producers : Sleeping(q)'
             PROVE  Room' <= Cardinality(Awake')
  BY DEF NoLostWakeup, Awake, Remove, removeBatch
<1>1. mutex = NoThread /\ mutex' = NoThread /\ not_empty' = not_empty
      /\ not_full' \in Signal(not_full)
      /\ not_full \subseteq Producers /\ not_empty \subseteq {Main}
  BY DEF Remove, removeBatch, Locks, TypeOK, RingTypeOK
<1>2. \A q \in Producers : /\ Sleeping(q) <=> q \in not_full
                           /\ Sleeping(q)' <=> q \in not_full'
  BY <1>1, ThreadsAssumption DEF Sleeping
<1>3. PICK w \in not_full : not_full' = not_full \ {w}
  BY <1>1, <1>2 DEF Signal
<1>4. Awake' = Awake \cup {w} /\ w \notin Awake
  BY <1>1, <1>2, <1>3 DEF Awake
<1>5. Cardinality(Awake') = Cardinality(Awake) + 1
  BY <1>4, AwakeFinite, FS_AddElement
<1>6. Room <= Cardinality(Awake)
  <2>1. Sleeping(w) /\ w \in Producers
    BY <1>1, <1>2, <1>3
  <2> QED  BY <2>1 DEF NoLostWakeup, Awake
<1>7. Room \in Int /\ Room' = Room + 1
  BY RemoveFeeds, RemoveMakesRoom DEF TypeOK, RingTypeOK, Remove
<1> QED  BY <1>5, <1>6, <1>7, AwakeFinite

\* An insertion takes room and its generator stays awake; a removal makes room and wakes one.
LEMMA StepWakeup ==
  ASSUME HASHGEN_THREADS_BUFFER % BATCH_SIZE = 0,
         WakeupInv, [Next]_vars
  PROVE  NoLostWakeup'
<1>1. TypeOK /\ Fed /\ NoLostWakeup
  BY DEF WakeupInv, StreamInv
<1>2. ASSUME NEW p \in Producers, GeneratorStep(p) PROVE NoLostWakeup'
  <2>1. CASE LoopTest(p)
    BY <2>1, <1>1, RoomKept DEF LoopTest, ringVars, waitVars, Sleeping
  <2>2. CASE InsertFull(p)
    BY <2>2, <1>1, FullLosesNothing
  <2>3. CASE InsertWait(p)
    BY <2>3, <1>1, RoomKept, ThreadsAssumption
       DEF InsertWait, insertBatchWait, Sleeping
  <2>4. CASE Insert(p)
    BY <2>4, <1>1, InsertLosesNothing
  <2> QED  BY <1>2, <2>1, <2>2, <2>3, <2>4 DEF GeneratorStep
<1>3. ASSUME MainStep PROVE NoLostWakeup'
  <2>1. CASE RemoveEmpty
    BY <2>1, <1>1, RoomKept, ThreadsAssumption
       DEF RemoveEmpty, removeBatchEmpty, waitVars, Sleeping, Locks
  <2>2. CASE RemoveWait
    BY <2>2, <1>1, RoomKept, ThreadsAssumption
       DEF RemoveWait, removeBatchWait, Sleeping
  <2>3. CASE Remove
    BY <2>3, <1>1, RemoveLosesNothing
  <2>4. CASE ProcessBatch \/ LeaveLoop \/ FinalFlush \/ Join
    BY <2>4, <1>1, RoomKept DEF ProcessBatch, LeaveLoop, FinalFlush, Join,
       ringVars, waitVars, Sleeping
  <2>5. CASE SetProducerFinished \/ Broadcast
    BY <2>5, <1>1, RoomKept DEF SetProducerFinished, Broadcast, waitVars, Sleeping
  <2> QED  BY <1>3, <2>1, <2>2, <2>3, <2>4, <2>5 DEF MainStep
<1>4. CASE Spurious
  BY <1>4, <1>1, RoomKept DEF Spurious, SpuriousWakeup, Sleeping
<1>5. CASE UNCHANGED vars
  BY <1>5, <1>1, RoomKept DEF vars, ringVars, waitVars, Sleeping
<1> QED  BY <1>2, <1>3, <1>4, <1>5 DEF Next

\* The pthread_cond_signal of removeBatch, which wakes one thread, is enough for
\* any number of generators: while one sleeps, those awake fill what room there is.
THEOREM SignalSuffices ==
  ASSUME HASHGEN_THREADS_BUFFER % BATCH_SIZE = 0
  PROVE  Spec => []NoLostWakeup
<1>1. Init => WakeupInv
  <2> SUFFICES ASSUME Init PROVE WakeupInv
    OBVIOUS
  <2>1. \A p \in Producers : ~Sleeping(p)
    BY ThreadsAssumption DEF Init, initCircularArray, Sleeping
  <2>2. TypeOK /\ MainSetsFlag /\ Fed
    BY InitType, InitStream
  <2> QED  BY <2>1, <2>2 DEF WakeupInv, NoLostWakeup, StreamInv
<1>2. WakeupInv /\ [Next]_vars => WakeupInv'
  BY StepStream, StepWakeup DEF WakeupInv
<1>3. WakeupInv => NoLostWakeup
  BY DEF WakeupInv
<1> QED  BY <1>1, <1>2, <1>3, PTL DEF Spec
==============================================================================
