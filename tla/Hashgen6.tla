------------------------------- MODULE Hashgen6 -------------------------------
(***************************************************************************)
(* hashgen6.c, the throughput test of the ring: like the generation phase  *)
(* of hashgen7.c, but every generator makes just its share of the hashes,  *)
(* main throws them away, and all the sizes are constants of the program.  *)
(***************************************************************************)
EXTENDS CircularArray

CONSTANT NUM_HASHES

NUM_HASHGEN_THREADS == Cardinality(Producers)
NUM_HASHES_PER_THREAD == NUM_HASHES \div NUM_HASHGEN_THREADS

\* What the #defines say: threads divide hashes, batches divide both the share
\* of a thread and the ring, which has room for at least two of them.
ASSUME ConstantsAssumption ==
  /\ NUM_HASHGEN_THREADS \in Nat \ {0}
  /\ Producers = 0..NUM_HASHGEN_THREADS - 1
  /\ NUM_HASHES \in Nat /\ NUM_HASHES % NUM_HASHGEN_THREADS = 0
  /\ NUM_HASHES_PER_THREAD % BATCH_SIZE = 0
  /\ HASHGEN_THREADS_BUFFER % BATCH_SIZE = 0
  /\ BATCH_SIZE < HASHGEN_THREADS_BUFFER

VARIABLES
  generator, \* where each arrayGenerationThread is: "loop", "insert" or "done"
  i,         \* its variable of that name
  main,      \* "remove", "finish", "broadcast", "join" or "done"
  consumed   \* every entry main has removed, in order

genVars == <<generator, i>>
vars == <<ringVars, genVars, main, consumed>>

\* An entry of the ring is named by the thread that made it and its i + j.
batch(p) == [j \in 0..BATCH_SIZE - 1 |-> [from |-> p, at |-> i[p] + j]]

\* Seeded faults.
hashIndex_NoThread(entry) == entry.at
LoopTest_OneLess(p) ==
  /\ generator[p] = "loop"
  /\ generator' = [generator EXCEPT
       ![p] = IF i[p] + BATCH_SIZE < NUM_HASHES_PER_THREAD THEN "insert" ELSE "done"]
  /\ UNCHANGED <<ringVars, i, main, consumed>>
LoopTest_UntilFinished(p) ==
  /\ generator[p] = "loop"
  /\ generator' = [generator EXCEPT ![p] = IF producerFinished THEN "done" ELSE "insert"]
  /\ UNCHANGED <<ringVars, i, main, consumed>>

hashIndex(entry) == NUM_HASHES_PER_THREAD * entry.from + entry.at

------------------------------------------------------------------------------
Init ==
  /\ initCircularArray
  /\ generator = [p \in Producers |-> "loop"]
  /\ i = [p \in Producers |-> 0]
  /\ main = "remove"
  /\ consumed = <<>>

LoopTest(p) ==
  /\ generator[p] = "loop"
  /\ generator' = [generator EXCEPT
       ![p] = IF i[p] < NUM_HASHES_PER_THREAD THEN "insert" ELSE "done"]
  /\ UNCHANGED <<ringVars, i, main, consumed>>

InsertFull(p) ==
  /\ generator[p] = "insert"
  /\ insertBatchFull(p)
  /\ UNCHANGED <<genVars, main, consumed>>

InsertWait(p) ==
  /\ insertBatchWait(p)
  /\ UNCHANGED <<genVars, main, consumed>>

Insert(p) ==
  /\ generator[p] = "insert"
  /\ insertBatch(p, batch(p))
  /\ generator' = [generator EXCEPT ![p] = "loop"]
  /\ i' = [i EXCEPT ![p] = @ + BATCH_SIZE]
  /\ UNCHANGED <<main, consumed>>

GeneratorStep(p) == LoopTest(p) \/ InsertFull(p) \/ InsertWait(p) \/ Insert(p)

\* Main's loop goes on while its own i, the number of hashes taken, is short.
MoreToConsume == Len(consumed) < NUM_HASHES

RemoveEmpty ==
  /\ main = "remove" /\ MoreToConsume
  /\ removeBatchEmpty(Main)
  /\ UNCHANGED <<genVars, main, consumed>>

RemoveWait ==
  /\ removeBatchWait(Main)
  /\ UNCHANGED <<genVars, main, consumed>>

Remove ==
  /\ main = "remove" /\ MoreToConsume
  /\ removeBatch(Main)
  /\ consumed' = consumed \o [k \in 1..BATCH_SIZE |-> NextBatch[k - 1]]
  /\ UNCHANGED <<genVars, main>>

LeaveLoop ==
  /\ main = "remove" /\ ~MoreToConsume
  /\ main' = "finish"
  /\ UNCHANGED <<ringVars, genVars, consumed>>

\* Without the mutex, as in hashgen7.c.
SetProducerFinished ==
  /\ main = "finish"
  /\ producerFinished' = TRUE
  /\ main' = "broadcast"
  /\ UNCHANGED <<array, head, tail, mutex, waitVars, genVars, consumed>>

\* pthread_cond_broadcast, of the condition variable only main ever waits for.
Broadcast ==
  /\ main = "broadcast"
  /\ not_empty' = {}
  /\ main' = "join"
  /\ UNCHANGED <<array, head, tail, producerFinished, mutex, not_full, spurious,
                 genVars, consumed>>

Join ==
  /\ main = "join"
  /\ \A p \in Producers : generator[p] = "done"
  /\ main' = "done"
  /\ UNCHANGED <<ringVars, genVars, consumed>>

MainStep ==
  \/ RemoveEmpty \/ RemoveWait \/ Remove \/ LeaveLoop
  \/ SetProducerFinished \/ Broadcast \/ Join

Spurious ==
  /\ \E t \in Threads : SpuriousWakeup(t)
  /\ UNCHANGED <<genVars, main, consumed>>

\* The process has ended.
Exited == main = "done" /\ UNCHANGED vars

Next == (\E p \in Producers : GeneratorStep(p)) \/ MainStep \/ Spurious \/ Exited

\* Every thread that can run is scheduled in the end.
Spec ==
  /\ Init /\ [][Next]_vars
  /\ \A p \in Producers : WF_vars(GeneratorStep(p))
  /\ WF_vars(MainStep)

------------------------------------------------------------------------------
\* Main sleeps (removeBatch) only while a generator that is awake still has
\* hashes to insert: signals wake main in time, and the hashes it waits for are
\* not the ones a full ring lost.
MainIsServed ==
  Sleeping(Main) =>
    \E p \in Producers : ~Sleeping(p) /\ i[p] < NUM_HASHES_PER_THREAD

\* When main leaves its loop it has had the hash of every index, once.
EveryIndexOnce ==
  main # "remove" =>
    /\ Len(consumed) = NUM_HASHES
    /\ {hashIndex(consumed[k]) : k \in 1..Len(consumed)} = 0..NUM_HASHES - 1

\* By the time main sets the flag nobody needs it: no generator is left in
\* insertBatch, so broadcasting the wrong condition variable does no harm.
FlagIsIdle ==
  main # "remove" => \A p \in Producers : ~Sleeping(p) /\ generator[p] # "insert"

\* The program ends.
Terminates == <>(main = "done")
==============================================================================
