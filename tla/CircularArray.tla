---------------------------- MODULE CircularArray ----------------------------
(***************************************************************************)
(* The ring of hash objects that the hash generation threads share with    *)
(* main (struct CircularArray of hashgen7.c; hashgen6.c has the same code  *)
(* with constant sizes).  The module has the state of the ring and one     *)
(* action per critical section; the programs that run the threads extend   *)
(* it (Hashgen6, Hashgen7).                                                *)
(*                                                                         *)
(* Everything but producerFinished is touched under the mutex only, so a   *)
(* critical section that does not wait is one step.  One that waits is     *)
(* two: main writes producerFinished and broadcasts without the mutex, and *)
(* both can fall between the test of the wait loop and pthread_cond_wait.  *)
(* A thread returning from pthread_cond_wait tests again, like one that    *)
(* enters.                                                                 *)
(***************************************************************************)
EXTENDS Integers, FiniteSets, Sequences

CONSTANTS
  Producers,              \* the threads that call insertBatch
  Main,                   \* the one thread that calls removeBatch
  NoThread,               \* "the mutex is free"
  HASHGEN_THREADS_BUFFER, \* entries of the ring
  BATCH_SIZE,             \* entries moved by one call
  Uninitialised,          \* an entry nothing was copied to
  MaxSpurious             \* bound: spurious returns of pthread_cond_wait

ASSUME ThreadsAssumption ==
  /\ Main \notin Producers
  /\ NoThread \notin Producers \cup {Main}

ASSUME SizesAssumption ==
  /\ HASHGEN_THREADS_BUFFER \in Nat \ {0}
  /\ BATCH_SIZE \in 1..HASHGEN_THREADS_BUFFER
  /\ MaxSpurious \in Nat

VARIABLES
  array, head, tail,   \* the entries, the next one to write and to read
  producerFinished,
  mutex,               \* the thread that is about to wait, or NoThread
  not_empty, not_full, \* the threads asleep in each condition variable
  spurious             \* spurious returns so far

waitVars == <<not_empty, not_full, spurious>>
ringVars == <<array, head, tail, producerFinished, mutex, waitVars>>

Threads == Producers \cup {Main}
Slots == 0..HASHGEN_THREADS_BUFFER - 1

initCircularArray ==
  /\ array = [s \in Slots |-> Uninitialised]
  /\ head = 0 /\ tail = 0
  /\ producerFinished = FALSE
  /\ mutex = NoThread
  /\ not_empty = {} /\ not_full = {}
  /\ spurious = 0

------------------------------------------------------------------------------
\* Seeded faults: what a slip in the definition below it would look like.

Ahead_WholeBuffer(i, n) == (i + n) % (HASHGEN_THREADS_BUFFER + 1)
Full_LastSlot == (head + 1) % HASHGEN_THREADS_BUFFER = tail
Signal_Nobody(c) == {c}

------------------------------------------------------------------------------
\* The slot n places after i.
Ahead(i, n) == (i + n) % HASHGEN_THREADS_BUFFER

\* The slots from i up to j, in the order they are read.
Distance(i, j) == (j - i) % HASHGEN_THREADS_BUFFER

Full  == Ahead(head, BATCH_SIZE) = tail
Empty == tail = head

\* pthread_cond_signal: the possible sleepers left, one fewer if there is any.
Signal(c) == IF c = {} THEN {c} ELSE {c \ {t} : t \in c}

\* Asleep in a condition variable, or bound to be: it has tested already.
Sleeping(t) == t \in not_empty \cup not_full \/ mutex = t

\* The mutex is free and t is after it.
Locks(t) == mutex = NoThread /\ ~Sleeping(t)

------------------------------------------------------------------------------
\* insertBatch finds the ring full: it keeps the mutex and is going to wait.
insertBatchFull(t) ==
  /\ Locks(t)
  /\ Full /\ ~producerFinished
  /\ mutex' = t
  /\ UNCHANGED <<array, head, tail, producerFinished, waitVars>>

\* pthread_cond_wait(not_full): the mutex is released as the thread falls asleep.
insertBatchWait(t) ==
  /\ mutex = t
  /\ mutex' = NoThread
  /\ not_full' = not_full \cup {t}
  /\ UNCHANGED <<array, head, tail, producerFinished, not_empty, spurious>>

\* insertBatch finds room, or finds that the consumer has finished.
insertBatch(t, values) ==
  /\ Locks(t)
  /\ ~Full \/ producerFinished
  /\ array' = [s \in Slots |-> IF Distance(head, s) < BATCH_SIZE
                               THEN values[Distance(head, s)]
                               ELSE array[s]]
  /\ head' = Ahead(head, BATCH_SIZE)
  /\ not_empty' \in Signal(not_empty)
  /\ UNCHANGED <<tail, producerFinished, mutex, not_full, spurious>>

\* removeBatch finds the ring empty: it keeps the mutex and is going to wait.
removeBatchEmpty(t) ==
  /\ Locks(t)
  /\ Empty /\ ~producerFinished
  /\ mutex' = t
  /\ UNCHANGED <<array, head, tail, producerFinished, waitVars>>

\* pthread_cond_wait(not_empty).
removeBatchWait(t) ==
  /\ mutex = t
  /\ mutex' = NoThread
  /\ not_empty' = not_empty \cup {t}
  /\ UNCHANGED <<array, head, tail, producerFinished, not_full, spurious>>

\* The entries that removeBatch copies to its caller.
NextBatch == [k \in 0..BATCH_SIZE - 1 |-> array[Ahead(tail, k)]]

\* removeBatch finds something to take.
removeBatch(t) ==
  /\ Locks(t)
  /\ ~Empty \/ producerFinished
  /\ tail' = Ahead(tail, BATCH_SIZE)
  /\ not_full' \in Signal(not_full)
  /\ UNCHANGED <<array, head, producerFinished, mutex, not_empty, spurious>>

\* pthread_cond_wait may return although nobody signalled.
SpuriousWakeup(t) ==
  /\ t \in not_empty \cup not_full
  /\ spurious < MaxSpurious
  /\ spurious' = spurious + 1
  /\ not_empty' = not_empty \ {t}
  /\ not_full' = not_full \ {t}
  /\ UNCHANGED <<array, head, tail, producerFinished, mutex>>

\* What the ring holds, oldest first.
Contents == [k \in 1..Distance(tail, head) |-> array[Ahead(tail, k - 1)]]

\* The batches insertBatch lets in before the ring counts as full.
Room == (HASHGEN_THREADS_BUFFER - Distance(tail, head)) \div BATCH_SIZE - 1

\* The entries of generators that have inserted n[p] of them each.
InsertedUpTo(n) == UNION {[from : {p}, at : 0..n[p] - 1] : p \in Producers}

\* The entries of each thread come in the order it made them, none twice.
InOrder(s) ==
  \A j, k \in DOMAIN s : j < k /\ s[j].from = s[k].from => s[j].at < s[k].at

RingTypeOK(Values) ==
  /\ array \in [Slots -> Values \cup {Uninitialised}]
  /\ head \in Slots /\ tail \in Slots
  /\ producerFinished \in BOOLEAN
  /\ mutex \in Threads \cup {NoThread}
  /\ not_empty \subseteq {Main} /\ not_full \subseteq Producers
  /\ spurious \in 0..MaxSpurious
==============================================================================
