------------------------------- MODULE Hashgen7 -------------------------------
(***************************************************************************)
(* The hash generation phase of hashgen7.c: the generator threads, main as *)
(* their only consumer, and the shutdown.  What main does with a batch     *)
(* (the buckets and the file) is the subject of BucketPlot; here it either *)
(* succeeds or ends the process.                                           *)
(***************************************************************************)
EXTENDS CircularArray

CONSTANT NUM_HASHES

ASSUME HashesAssumption == NUM_HASHES \in Nat

NUM_HASHGEN_THREADS == Cardinality(Producers)

\* A producer is its threadID; main sets BATCH_SIZE before it creates any.
ASSUME ThreadIDsAssumption ==
  /\ NUM_HASHGEN_THREADS \in Nat \ {0}
  /\ Producers = 0..NUM_HASHGEN_THREADS - 1
  /\ BATCH_SIZE = HASHGEN_THREADS_BUFFER \div NUM_HASHGEN_THREADS

VARIABLES
  generator, \* where each arrayGenerationThread is: "loop", "insert" or "done"
  i,         \* its variable of that name
  main,      \* where main is
  consumed   \* every entry main has removed, in order

genVars == <<generator, i>>
vars == <<ringVars, genVars, main, consumed>>

MainStates ==
  {"remove", "process", "flush", "finish", "broadcast", "join", "done", "failed"}

------------------------------------------------------------------------------
\* Seeded faults.

batch_SameIndex(p) == [j \in 0..BATCH_SIZE - 1 |-> [from |-> p, at |-> i[p]]]
Broadcast_Signal ==
  /\ main = "broadcast"
  /\ main' = "join"
  /\ not_full' \in Signal(not_full)
  /\ UNCHANGED <<array, head, tail, producerFinished, mutex, not_empty, spurious,
                 genVars, consumed>>

------------------------------------------------------------------------------
\* An entry of the ring is named by the thread that made it and its i + j.
batch(p) == [j \in 0..BATCH_SIZE - 1 |-> [from |-> p, at |-> i[p] + j]]

Init ==
  /\ initCircularArray
  /\ generator = [p \in Producers |-> "loop"]
  /\ i = [p \in Producers |-> 0]
  /\ main = "remove"
  /\ consumed = <<>>

Running == main \notin {"done", "failed"}

\* The loop test: producerFinished is read without the mutex.
LoopTest(p) ==
  /\ Running
  /\ generator[p] = "loop"
  /\ generator' = [generator EXCEPT
                     ![p] = IF producerFinished THEN "done" ELSE "insert"]
  /\ UNCHANGED <<ringVars, i, main, consumed>>

InsertFull(p) ==
  /\ Running
  /\ generator[p] = "insert"
  /\ insertBatchFull(p)
  /\ UNCHANGED <<genVars, main, consumed>>

InsertWait(p) ==
  /\ Running
  /\ insertBatchWait(p)
  /\ UNCHANGED <<genVars, main, consumed>>

Insert(p) ==
  /\ Running
  /\ generator[p] = "insert"
  /\ insertBatch(p, batch(p))
  /\ generator' = [generator EXCEPT ![p] = "loop"]
  /\ i' = [i EXCEPT ![p] = @ + BATCH_SIZE]
  /\ UNCHANGED <<main, consumed>>

GeneratorStep(p) == LoopTest(p) \/ InsertFull(p) \/ InsertWait(p) \/ Insert(p)

\* Main's loop goes on while its own i, the number of hashes taken, is short.
MoreToConsume == Len(consumed) < NUM_HASHES

RemoveEmpty ==
  /\ main = "remove" /\ MoreToConsume
  /\ removeBatchEmpty(Main)
  /\ UNCHANGED <<genVars, main, consumed>>

RemoveWait ==
  /\ removeBatchWait(Main)
  /\ UNCHANGED <<genVars, main, consumed>>

Remove ==
  /\ main = "remove" /\ MoreToConsume
  /\ removeBatch(Main)
  /\ consumed' = consumed \o [k \in 1..BATCH_SIZE |-> NextBatch[k - 1]]
  /\ main' = "process"
  /\ UNCHANGED genVars

\* A failed seek or write ends the process, with every thread in it.
ProcessBatch ==
  /\ main = "process"
  /\ main' \in {"remove", "failed"}
  /\ UNCHANGED <<ringVars, genVars, consumed>>

LeaveLoop ==
  /\ main = "remove" /\ ~MoreToConsume
  /\ main' = "flush"
  /\ UNCHANGED <<ringVars, genVars, consumed>>

\* The remaining buckets are written, the file closed and the buckets freed.
FinalFlush ==
  /\ main = "flush"
  /\ main' \in {"finish", "failed"}
  /\ UNCHANGED <<ringVars, genVars, consumed>>

\* Without the mutex.
SetProducerFinished ==
  /\ main = "finish"
  /\ producerFinished' = TRUE
  /\ main' = "broadcast"
  /\ UNCHANGED <<array, head, tail, mutex, waitVars, genVars, consumed>>

\* pthread_cond_broadcast(not_full), without the mutex.
Broadcast ==
  /\ main = "broadcast"
  /\ not_full' = {}
  /\ main' = "join"
  /\ UNCHANGED <<array, head, tail, producerFinished, mutex, not_empty, spurious,
                 genVars, consumed>>

Join ==
  /\ main = "join"
  /\ \A p \in Producers : generator[p] = "done"
  /\ main' = "done"
  /\ UNCHANGED <<ringVars, genVars, consumed>>

MainStep ==
  \/ RemoveEmpty \/ RemoveWait \/ Remove \/ ProcessBatch \/ LeaveLoop
  \/ FinalFlush \/ SetProducerFinished \/ Broadcast \/ Join

Spurious ==
  /\ Running
  /\ \E t \in Threads : SpuriousWakeup(t)
  /\ UNCHANGED <<genVars, main, consumed>>

Next == (\E p \in Producers : GeneratorStep(p)) \/ MainStep \/ Spurious

Spec == Init /\ [][Next]_vars

\* Every thread that can run is scheduled in the end.
FairSpec ==
  /\ Spec
  /\ \A p \in Producers : WF_vars(GeneratorStep(p))
  /\ WF_vars(MainStep)

------------------------------------------------------------------------------
Values == [from : Producers, at : Nat]

TypeOK ==
  /\ RingTypeOK(Values)
  /\ generator \in [Producers -> {"loop", "insert", "done"}]
  /\ i \in [Producers -> Nat]
  /\ main \in MainStates
  /\ consumed \in Seq(Values \cup {Uninitialised})

------------------------------------------------------------------------------
\* Main and all the generators never wait for each other at once.  A thread
\* counts from its failed test on, since nothing stops it from falling asleep
\* (the wait loops of insertBatch and removeBatch).
NeverAllAsleep == \E t \in Threads : ~Sleeping(t)

\* What makes it so: main sleeps only in front of an empty ring, and all the
\* generators together only in front of a full one.
SleepersHaveCause ==
  /\ Sleeping(Main) => Empty
  /\ (\A p \in Producers : Sleeping(p)) => Full

\* pthread_cond_signal, which wakes one thread, is enough in removeBatch: as
\* long as a generator sleeps, the room in the ring is no more than what the
\* generators that are awake will fill with a batch each.
NoLostWakeup ==
  ~producerFinished /\ (\E p \in Producers : Sleeping(p))
    => Room <= Cardinality({p \in Producers : ~Sleeping(p)})

\* What main has removed, and behind it what the ring holds.
Passed == consumed \o Contents

\* Until the shutdown, what main has removed and what the ring holds are
\* together all that every generator has inserted, each in its order: no batch
\* is overwritten in the ring, taken twice, or skipped.
NothingLost ==
  ~producerFinished =>
    /\ {Passed[k] : k \in DOMAIN Passed} = InsertedUpTo(i)
    /\ InOrder(Passed)

\* Main is served a merge of the streams of the generators, batch by batch.
Stream == INSTANCE HashStream WITH
            delivered <- consumed,
            next <- [p \in Producers |->
                       Cardinality({k \in DOMAIN consumed : consumed[k].from = p})]
MergesStreams == Stream!Spec

\* Main gets all the hashes it asked for, unless the disk stops it.
AllConsumed == <>(main = "failed" \/ ~MoreToConsume)

Terminated == main \in {"failed", "done"}

\* "Wait for threads to finish" (hashgen7.c:985) comes to an end.
ShutdownCompletes == <>Terminated

\* It does if no generator is between its test and its pthread_cond_wait when
\* main, without the mutex, has set the flag and broadcasts.
ShutdownCompletesUnlessRaced ==
  [](main = "broadcast" => mutex = NoThread) => <>Terminated
==============================================================================
