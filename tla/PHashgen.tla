------------------------------- MODULE PHashgen -------------------------------
(***************************************************************************)
(* hashgen4.c, the parallel generator (make phashgen): workers fill the    *)
(* buckets and enqueue full ones, writers dequeue them and write them to   *)
(* the file, main waits for the workers, enqueues what is left and ends    *)
(* the program.  The queue is CircularQueue.                               *)
(*                                                                         *)
(* Places in the file are counted in chunks.  A record holds a hash or     *)
(* nothing yet; the prefix of a hash is any bucket.  fclose, free and the  *)
(* return of main are one step and stop every thread.  So does joining the *)
(* worker threads again, if it does not fail: that is undefined.           *)
(***************************************************************************)
EXTENDS CircularQueue, FiniteSetsExt

CONSTANTS
  Workers, Writers, MainThread,
  NUM_BUCKETS, CUP_SIZE,
  CHUNKS,         \* BUCKET_SIZE / CUP_SIZE
  Hashed,         \* a record with the NONCE of a hash
  Uninitialised,  \* a record of malloc'ed memory
  Hole            \* a chunk of the file that was never written

NUM_HASHGEN_THREADS == Cardinality(Workers)
iterations == (NUM_BUCKETS * CHUNKS * CUP_SIZE) \div NUM_HASHGEN_THREADS

ASSUME PHashgenAssumption ==
  /\ NUM_BUCKETS \in Nat \ {0} /\ CUP_SIZE \in Nat \ {0} /\ CHUNKS \in Nat \ {0}
  /\ NUM_HASHGEN_THREADS \in Nat \ {0}
  /\ Workers = 0..NUM_HASHGEN_THREADS - 1 \* the thread_ids
  /\ IsFiniteSet(Writers) /\ Writers \cap (Workers \cup {MainThread, NoThread}) = {}
  /\ {MainThread, NoThread} \cap Workers = {} /\ MainThread # NoThread
  /\ NewArray = [s \in 0..CUP_SIZE - 1 |-> Uninitialised]

VARIABLES
  worker,       \* where each generate_hashes is: "hash", "lock", "enqueue" or "done"
  bucket,       \* the bucket it waits for, or enqueues the chunk of; else 0
  made,         \* its i, the hashes it has made
  bucketMutex,
  bucketIndex, bucketFlush, array2D,
  finished,
  writer,       \* where each writeToDisk is
  node,         \* what dequeue returned to it, 0 when that is out of scope
  fileMutex, position, file, totalFlushes,
  main,         \* "join", "rest", "close" or "exited"
  rest,         \* the bucket main's loop over what is left has come to
  sought        \* history: where each writer has sought last

bucketVars == <<bucketMutex, bucketIndex, bucketFlush, array2D>>
workerVars == <<worker, bucket, made>>
writerVars == <<writer, node, sought>>
fileVars == <<fileMutex, position, file, totalFlushes>>
mainVars == <<finished, main, rest>>
vars == <<queueVars, bucketVars, workerVars, writerVars, fileVars, mainVars>>

Buckets == 0..NUM_BUCKETS - 1
\* All the chunks of the plot could be those of the last bucket.
Locations == 0..2 * NUM_BUCKETS * CHUNKS
Arrays == [0..CUP_SIZE - 1 -> {Hashed, Uninitialised}]

Init ==
  /\ initializeQueue
  /\ worker = [t \in Workers |-> "hash"]
  /\ bucket = [t \in Workers |-> 0]
  /\ made = [t \in Workers |-> 0]
  /\ bucketMutex = [b \in Buckets |-> NoThread]
  /\ bucketIndex = [b \in Buckets |-> 0]
  /\ bucketFlush = [b \in Buckets |-> 0]
  /\ array2D = [b \in Buckets |-> NewArray]
  /\ finished = FALSE
  /\ writer = [w \in Writers |-> "dequeue"]
  /\ node = [w \in Writers |-> 0]
  /\ fileMutex = NoThread
  /\ position = 0
  /\ file = [l \in Locations |-> Hole]
  /\ totalFlushes = 0
  /\ main = "join" /\ rest = 0
  /\ sought = [w \in Writers |-> NoLocation]

Running == main # "exited"

------------------------------------------------------------------------------
\* Seeded faults.
LockBucket_Not(b) == TRUE
LockFile_Not == TRUE
chunkQueued_NoFlush(b) ==
  /\ bucketIndex' = [bucketIndex EXCEPT ![b] = 0]
  /\ array2D' = [array2D EXCEPT ![b] = copiedOut]
  /\ UNCHANGED bucketFlush
CountFlush_Not == UNCHANGED totalFlushes
UnlockBucket_Not(b) == UNCHANGED bucketMutex

------------------------------------------------------------------------------
LockBucket(b) == bucketMutex[b] = NoThread
UnlockBucket(b) == bucketMutex' = [bucketMutex EXCEPT ![b] = NoThread]
LockFile == fileMutex = NoThread
CountFlush == totalFlushes' = totalFlushes + 1

write_location(b) == b * CHUNKS + bucketFlush[b]

\* A worker has made a hash and finds the mutex of its bucket taken.
Block(t, b) ==
  /\ Running
  /\ worker[t] = "hash" /\ made[t] < iterations
  /\ ~LockBucket(b)
  /\ worker' = [worker EXCEPT ![t] = "lock"]
  /\ bucket' = [bucket EXCEPT ![t] = b]
  /\ UNCHANGED <<queueVars, bucketVars, made, writerVars, fileVars, mainVars>>

\* A worker puts the hash it makes, or made before it blocked, into the bucket of
\* its prefix.  If that fills the bucket, the worker keeps the mutex and goes on
\* to addChunkToQueue.
Hash(t, b) ==
  /\ Running
  /\ \/ worker[t] = "hash" /\ made[t] < iterations
     \/ worker[t] = "lock" /\ bucket[t] = b
  /\ LockBucket(b)
  /\ array2D' = [array2D EXCEPT ![b][bucketIndex[b]] = Hashed]
  /\ bucketIndex' = [bucketIndex EXCEPT ![b] = @ + 1]
  /\ made' = [made EXCEPT ![t] = @ + 1]
  /\ \/ /\ bucketIndex[b] + 1 # CUP_SIZE
        /\ worker' = [worker EXCEPT ![t] = "hash"]
        /\ bucket' = [bucket EXCEPT ![t] = 0]
        /\ UNCHANGED bucketMutex
     \/ /\ bucketIndex[b] + 1 = CUP_SIZE
        /\ worker' = [worker EXCEPT ![t] = "enqueue"]
        /\ bucket' = [bucket EXCEPT ![t] = b]
        /\ bucketMutex' = [bucketMutex EXCEPT ![b] = t]
  /\ UNCHANGED <<queueVars, bucketFlush, writerVars, fileVars, mainVars>>

\* addChunkToQueue, after enqueue has returned.
chunkQueued(b) ==
  /\ bucketFlush' = [bucketFlush EXCEPT ![b] = @ + 1]
  /\ bucketIndex' = [bucketIndex EXCEPT ![b] = 0]
  /\ array2D' = [array2D EXCEPT ![b] = copiedOut]

Enqueue(t) ==
  /\ Running
  /\ worker[t] = "enqueue"
  /\ enqueue(write_location(bucket[t]))
  /\ chunkQueued(bucket[t])
  /\ UnlockBucket(bucket[t])
  /\ worker' = [worker EXCEPT ![t] = "hash"]
  /\ bucket' = [bucket EXCEPT ![t] = 0]
  /\ UNCHANGED <<made, writerVars, fileVars, mainVars>>

Spin(t) ==
  /\ Running
  /\ worker[t] = "enqueue"
  /\ enqueueSpins(t)
  /\ UNCHANGED <<bucketVars, workerVars, writerVars, fileVars, mainVars>>

WorkerReturns(t) ==
  /\ Running
  /\ worker[t] = "hash" /\ made[t] = iterations
  /\ worker' = [worker EXCEPT ![t] = "done"]
  /\ UNCHANGED <<queueVars, bucketVars, bucket, made, writerVars, fileVars, mainVars>>

WorkerStep(t) ==
  \/ \E b \in Buckets : Block(t, b) \/ Hash(t, b)
  \/ Enqueue(t) \/ Spin(t) \/ WorkerReturns(t)

------------------------------------------------------------------------------
\* dequeue returns a node.
TakeNode(w) ==
  /\ Running
  /\ writer[w] = "dequeue"
  /\ dequeue
  /\ node' = [node EXCEPT ![w] = front]
  /\ writer' = [writer EXCEPT ![w] = "seek"]
  /\ UNCHANGED <<bucketVars, workerVars, sought, fileVars, mainVars>>

\* dequeue returns NULL; finished is read after that, without a mutex.
TakeNothing(w) ==
  /\ Running
  /\ writer[w] = "dequeue"
  /\ dequeueNULL
  /\ writer' = [writer EXCEPT ![w] = "test"]
  /\ UNCHANGED <<bucketVars, workerVars, node, sought, fileVars, mainVars>>

TestFinished(w) ==
  /\ Running
  /\ writer[w] = "test"
  /\ writer' = [writer EXCEPT ![w] = IF finished THEN "exited" ELSE "dequeue"]
  /\ UNCHANGED <<queueVars, bucketVars, workerVars, node, sought, fileVars, mainVars>>

\* The node is read now; it may have been enqueued again in the meantime.
Seek(w) ==
  /\ Running
  /\ writer[w] = "seek"
  /\ LockFile
  /\ fileMutex' = w
  /\ position' = arr[node[w]].write_index
  /\ sought' = [sought EXCEPT ![w] = arr[node[w]].write_index]
  /\ writer' = [writer EXCEPT ![w] = "write"]
  /\ UNCHANGED <<queueVars, bucketVars, workerVars, node, file, totalFlushes, mainVars>>

Write(w) ==
  /\ Running
  /\ writer[w] = "write"
  /\ file' = [file EXCEPT ![position] = arr[node[w]].array]
  /\ position' = position + 1
  /\ CountFlush
  /\ fileMutex' = NoThread
  /\ writer' = [writer EXCEPT ![w] = "dequeue"]
  /\ node' = [node EXCEPT ![w] = 0]
  /\ sought' = [sought EXCEPT ![w] = NoLocation]
  /\ UNCHANGED <<queueVars, bucketVars, workerVars, mainVars>>

\* The seek or the write fails: the thread returns and keeps file_mutex.
WriterFails(w) ==
  /\ Running
  /\ \/ writer[w] = "seek" /\ LockFile
     \/ writer[w] = "write"
  /\ fileMutex' = w
  /\ writer' = [writer EXCEPT ![w] = "failed"]
  /\ node' = [node EXCEPT ![w] = 0]
  /\ sought' = [sought EXCEPT ![w] = NoLocation]
  /\ UNCHANGED <<queueVars, bucketVars, workerVars, position, file, totalFlushes,
                 mainVars>>

WriterStep(w) ==
  \/ TakeNode(w) \/ TakeNothing(w) \/ TestFinished(w)
  \/ Seek(w) \/ Write(w) \/ WriterFails(w)

------------------------------------------------------------------------------
JoinWorkers ==
  /\ main = "join"
  /\ \A t \in Workers : worker[t] = "done"
  /\ main' = "rest"
  /\ UNCHANGED <<queueVars, bucketVars, workerVars, writerVars, fileVars, finished, rest>>

Short(b) == bucketFlush[b] < CHUNKS

RestChunk ==
  /\ main = "rest" /\ rest < NUM_BUCKETS
  /\ Short(rest)
  /\ enqueue(write_location(rest))
  /\ chunkQueued(rest)
  /\ rest' = rest + 1
  /\ UNCHANGED <<bucketMutex, workerVars, writerVars, fileVars, finished, main>>

RestSpin ==
  /\ main = "rest" /\ rest < NUM_BUCKETS
  /\ Short(rest)
  /\ enqueueSpins(MainThread)
  /\ UNCHANGED <<bucketVars, workerVars, writerVars, fileVars, mainVars>>

RestSkip ==
  /\ main = "rest" /\ rest < NUM_BUCKETS
  /\ ~Short(rest)
  /\ rest' = rest + 1
  /\ UNCHANGED <<queueVars, bucketVars, workerVars, writerVars, fileVars, finished, main>>

SetFinished ==
  /\ main = "rest" /\ rest = NUM_BUCKETS
  /\ finished' = TRUE
  /\ main' = "close"
  /\ UNCHANGED <<queueVars, bucketVars, workerVars, writerVars, fileVars, rest>>

\* The second join is of the worker threads again, not of the writers, so that
\* it waits for nobody.
Exit ==
  /\ main = "close"
  /\ main' = "exited"
  /\ UNCHANGED <<queueVars, bucketVars, workerVars, writerVars, fileVars, finished, rest>>

MainStep == JoinWorkers \/ RestChunk \/ RestSpin \/ RestSkip \/ SetFinished \/ Exit

Next ==
  \/ \E t \in Workers : WorkerStep(t)
  \/ \E w \in Writers : WriterStep(w)
  \/ MainStep

Spec == Init /\ [][Next]_vars

\* Every thread that can run is scheduled in the end.
FairSpec ==
  /\ Spec
  /\ \A t \in Workers : WF_vars(WorkerStep(t))
  /\ \A w \in Writers : WF_vars(WriterStep(w))
  /\ WF_vars(MainStep)
------------------------------------------------------------------------------
WorkerStates == {"hash", "lock", "enqueue", "done"}
WriterStates == {"dequeue", "test", "seek", "write", "exited", "failed"}
MainStates == {"join", "rest", "close", "exited"}

TypeOK ==
  /\ QueueTypeOK(Locations, Arrays, Workers \cup {MainThread})
  /\ worker \in [Workers -> WorkerStates]
  /\ bucket \in [Workers -> Buckets]
  /\ made \in [Workers -> 0..iterations]
  /\ bucketMutex \in [Buckets -> Workers \cup {NoThread}]
  /\ bucketIndex \in [Buckets -> 0..CUP_SIZE]
  /\ bucketFlush \in [Buckets -> Nat]
  /\ array2D \in [Buckets -> Arrays]
  /\ writer \in [Writers -> WriterStates]
  /\ node \in [Writers -> Nodes]
  /\ fileMutex \in Writers \cup {NoThread}
  /\ position \in Locations
  /\ file \in [Locations -> Arrays \cup {Hole}]
  /\ totalFlushes \in Nat
  /\ sought \in [Writers -> Locations \cup {NoLocation}]
  /\ finished \in BOOLEAN /\ main \in MainStates /\ rest \in 0..NUM_BUCKETS

\* The workers lose no update of the buckets: while they run, every hash made is
\* counted once, in a chunk enqueued or in a bucketIndex, and a cup that is full
\* is on its way to the queue (the bucket mutexes, hashgen4.c:120-132).
HashesCounted ==
  main = "join" =>
    /\ SumFunction(made)
         = SumFunction([b \in Buckets |-> bucketFlush[b] * CUP_SIZE + bucketIndex[b]])
    /\ \A b \in Buckets : bucketIndex[b] >= CUP_SIZE =>
         \E t \in Workers : worker[t] = "enqueue" /\ bucket[t] = b

\* The places enqueued so far, in order.
Queued == got \o Waiting

\* Each chunk of each bucket has been enqueued exactly once, and for its own
\* place, although bucketFlush is advanced after enqueue has returned.
ChunksQueuedOnce ==
  \A l \in Locations :
    Cardinality({k \in DOMAIN Queued : Queued[k] = l}) =
      Cardinality({b \in Buckets : l - b * CHUNKS \in 0..bucketFlush[b] - 1})

\* The circular queue hands out each place once and in order.
Queue == INSTANCE WriteQueue WITH Items <- Locations, put <- Queued
HandsOutInOrder == Queue!Spec

\* What a writer writes goes where that writer has sought: the other writers do
\* not move the file position in between (file_mutex, hashgen4.c:52-79).
WritesWhereItSought ==
  \A w \in Writers : writer[w] = "write" => position = sought[w]

\* Every chunk dequeued is written, being written, or lost to a failed write:
\* totalFlushes counts exactly the others.
FlushesCounted ==
  totalFlushes + Cardinality({w \in Writers : writer[w] \in {"seek", "write", "failed"}})
    = Len(got)

\* The program ends, unless a thread spins in front of a full queue.
EndsUnlessQueueFull == <>(main = "exited" \/ queueMutex # NoThread)

\* "bucket is full, should write to disk" (hashgen3.c:163), for the generator
\* that leaves the writing to others: when the program ends, the place of every
\* chunk that was enqueued has been written.
ChunksReachDisk ==
  main = "exited" /\ (\A w \in Writers : writer[w] # "failed") =>
    \A b \in Buckets : \A k \in 0..bucketFlush[b] - 1 : file[b * CHUNKS + k] # Hole

\* "// free(node)" (hashgen4.c:71): a node dequeued is the writer's own until it
\* has written it, so that what it seeks is a place nobody else seeks.
NodeIsOwned ==
  \A v, w \in Writers :
    v # w /\ writer[v] \in {"seek", "write"} /\ writer[w] \in {"seek", "write"}
      => node[v] # node[w]
==============================================================================
