---------------------------- MODULE CircularQueue ----------------------------
(***************************************************************************)
(* The write queue of circular_queue.c, a ring of nodes under one mutex.   *)
(* A node is a place in the file and an array of records of its own, which *)
(* is allocated once.  PHashgen has the threads that call it.              *)
(*                                                                         *)
(* Here queueMutex is held between two steps only by a thread that spins   *)
(* in enqueue: front and rear change under the mutex alone, so the loop    *)
(* "while (isFull(queue))", which does not release it, is never left.      *)
(***************************************************************************)
EXTENDS Integers, Sequences

CONSTANTS
  QUEUE_SIZE,
  NoThread,   \* "the mutex is free"
  NoLocation, \* a write_index that was never assigned
  NewArray    \* what the array of a node holds: memory from malloc

ASSUME QueueAssumption == QUEUE_SIZE \in Nat \ {0}

VARIABLES
  arr,         \* the nodes
  front, rear, \* -1 when the queue is empty
  size,
  queueMutex,
  got          \* history: the places dequeued, in order

queueVars == <<arr, front, rear, size, queueMutex, got>>

Nodes == 0..QUEUE_SIZE - 1

initializeQueue ==
  /\ arr = [n \in Nodes |-> [write_index |-> NoLocation, array |-> NewArray]]
  /\ front = -1 /\ rear = -1
  /\ size = 0
  /\ queueMutex = NoThread
  /\ got = <<>>

\* Seeded fault.
isFull_Never == FALSE

isEmpty == front = -1
isFull == (rear + 1) % QUEUE_SIZE = front

\* Thread t finds the queue full and keeps the mutex while it spins.
enqueueSpins(t) ==
  /\ queueMutex = NoThread
  /\ isFull
  /\ queueMutex' = t
  /\ UNCHANGED <<arr, front, rear, size, got>>

\* The node that enqueue fills next.
vacant == IF isEmpty THEN 0 ELSE (rear + 1) % QUEUE_SIZE

\* The arguments of memcpy are swapped: the node's own array does not change,
\* the caller's is overwritten with it (copiedOut).
copiedOut == arr[vacant].array
enqueue(write_index) ==
  /\ queueMutex = NoThread
  /\ ~isFull
  /\ front' = IF isEmpty THEN 0 ELSE front
  /\ rear' = vacant
  /\ arr' = [arr EXCEPT ![vacant].write_index = write_index]
  /\ size' = size + 1
  /\ UNCHANGED <<queueMutex, got>>

\* dequeue returns &arr[front], to be read after the mutex is released ...
dequeue ==
  /\ queueMutex = NoThread
  /\ ~isEmpty
  /\ front' = IF front = rear THEN -1 ELSE (front + 1) % QUEUE_SIZE
  /\ rear' = IF front = rear THEN -1 ELSE rear
  /\ size' = size - 1
  /\ got' = Append(got, arr[front].write_index)
  /\ UNCHANGED <<arr, queueMutex>>

\* ... or NULL.
dequeueNULL ==
  /\ queueMutex = NoThread
  /\ isEmpty
  /\ UNCHANGED queueVars

------------------------------------------------------------------------------
\* The places in the queue, from front to rear.
held == IF isEmpty THEN 0 ELSE ((rear - front) % QUEUE_SIZE) + 1
Waiting == [k \in 1..held |-> arr[(front + k - 1) % QUEUE_SIZE].write_index]

QueueTypeOK(Locations, Arrays, Callers) ==
  /\ arr \in [Nodes -> [write_index : Locations \cup {NoLocation}, array : Arrays]]
  /\ front \in Nodes \cup {-1} /\ rear \in Nodes \cup {-1}
  /\ size \in 0..QUEUE_SIZE /\ size = held
  /\ queueMutex \in Callers \cup {NoThread}
  /\ got \in Seq(Locations)
==============================================================================
