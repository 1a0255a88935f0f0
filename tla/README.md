# Verification of the proof-of-space plot generators

This directory holds TLA+ models of the programs in `buckets/`, the TLC runs that check them on small instances, and
TLAPS proofs of what matters most. The programs make *plots*: files of (hash, NONCE) records, grouped into *buckets* by
the prefix of the hash, which are then sorted and searched.

## 1. The system

| Component | Source | State | Operations | Model |
|---|---|---|---|---|
| Ring of hashes | `hashgen7.c:148-212`, `hashgen6.c:18-81` | array, head, tail, flag, mutex, two condition variables | `insertBatch`, `removeBatch` | `CircularArray` |
| Generators, main and shutdown | `hashgen7.c:246-273, 753-991` | each thread's place and `i`; main's place | the threads' loops, main's loop, flag, broadcast, join | `Hashgen7` |
| Throughput test | `hashgen6.c:98-187` | the same | the same, bounded by a share | `Hashgen6` |
| Buckets and file | `hashgen.c`, `hashgen2.c`, `hashgen3.c`, `blake3_hashgen_2024.c`, `hashgen7.c:753-960` | `bucketIndex`, `bucketFlush`, `array2D`, `totalFlushes`, the file | store a hash, flush a cup, final loop, sort | `BucketPlot` with `Hashgen3`, `Hashgen2024`, `Hashgen7Plot`; `PlotGenerators` |
| Parallel generator | `hashgen4.c` | bucket, queue and file mutexes, buckets, `finished`, the file | `generate_hashes`, `addChunkToQueue`, `writeToDisk`, main | `PHashgen` |
| Circular write queue | `circular_queue.c` | nodes, `front`, `rear`, `size` | `enqueue`, `dequeue` | `CircularQueue` |
| Linked write queue | `write_queue.c` | nodes, `front`, `rear`, `count` | `enqueue`, `dequeue` | not modelled: no program includes it |
| Sorting | `sort.c`, `psort.c`, `hashgen7.c:276-516` | a group of chunks in memory, the file | read, sort in threads, write back | `ParallelSort` |
| Search | `bsearch.c` | `left`, `right`, `mid`; the loops of main | `binarySearch`, the search of a bucket | `BinarySearch`, `SortAndSearch` |
| Other searches | `search.c`, `gen_search.c` | none | a linear scan; random targets | not modelled |
| Mapped plot | `mmap/mmap-example.c` | `bucket_offsets`, `bucketFull`, the mapping | store, or skip a full bucket | `MmapPlot`, `PlotGenerators` |
| Hasher | `blake3.c` | key, chunk state, stack of chaining values | init, update, finalize, reset | `Blake3Hasher` |
| Lanes and compression | `blake3_dispatch.c`, `blake3_neon.c`, `blake3_portable.c`, `*.S` | the features of the processor | hash many inputs, compress | `Blake3Hasher`, partly |
| Utilities | `open_test.c`, `read_hashes.c`, `testsort.c`, `try_codes.c` | none | one read or write and a print | not modelled: pure I/O |

How they interact. In `hashgen7` and `hashgen6` the generator threads and main share the ring only; main alone touches
the buckets and the file. In `hashgen4` workers share the buckets (one mutex each), workers and writers share the queue
(one mutex), writers share the file (one mutex), and main shares `finished` with the writers without any. The programs
for sorting and searching meet the generators in the plot file only. Every generator calls the hasher, in one thread and
with one short input per hash; the hasher keeps nothing between hashes.

What is hard in this code is the concurrency of the first and the fifth row: condition variables with `signal` where
several threads sleep, a flag written without the mutex, a full test by equality, a spinning lock holder, a pointer into
a ring slot that is free again, and a join of the wrong threads. In the sequential programs it is the arithmetic of the
file positions over long runs, what happens to a bucket that gets more than its share, and writes that fail half way.
In the hasher it is the tree over an input that comes in calls of any length: which subtrees are hashed at once, in how
many lanes, and when their chaining values are merged.
`PROJECT.json` lists each of these hazards at its line with the properties that watch over it.

What makes the components correct:
- the ring: main gets the batches of each generator whole, in order, each once; nobody sleeps for ever;
- the generators: all hashes asked for are served, and the process ends;
- the plot: the region of a bucket holds the hashes of that bucket in the order they came;
- the parallel generator: no hash is lost between threads, no chunk is written to another's place, the program ends and
  everything enqueued is on disk by then;
- the queues: first in, first out, each item once;
- the hasher: the digest depends on the bytes alone, not on how they were handed over nor on the machine.

## 2. The modules

`CircularArray` has one action per critical section. Under the mutex nothing else can happen, so a critical section that
does not wait is one step. A critical section that waits is two (`insertBatchFull` then `insertBatchWait`, and the same
for `removeBatch`): main writes `producerFinished` and broadcasts *without* the mutex, and both can fall between the
test and `pthread_cond_wait`. A thread that is woken tests again, like one that enters, which is the `while` of the
code. `Signal` removes one sleeper of any choice, `SpuriousWakeup` removes one for no reason, at most `MaxSpurious`
times.

`Hashgen7` extends it with a program counter per generator (`"loop"`, `"insert"`, `"done"`) and for main. Main's
handling of a batch is `ProcessBatch`: it succeeds or the process ends. The records are `[from, at]`, the thread and its
`i + j`, from which the code computes the hash. `Hashgen6` is the same program with bounded generators and the other
condition variable broadcast. `HashStream` is the abstract specification of the ring: batches arrive whole, each the
next one of some generator.

`BucketPlot` has the buckets, the counters and the file of the five sequential generators that have this loop. The file
is a function from record offsets to records; writing behind its end makes it longer. What runs is a variable, `plot`, a
member of `Plots`: the program with its `CUP_SIZE`, `BUCKET_SIZE` and `BATCH_SIZE`, because three of the programs find
their sizes at run time. The `arrivals` variable is a history of what each bucket was given; `Expected` says from it
what the region must hold. Three modules add the control: when the loop ends, whether there is a final loop, and which
results of a write count as errors.
- `Hashgen3` is three programs. `hashgen3.c` and `hashgen.c` take a short `fwrite` for an error, `hashgen2.c` only a
  `write` of -1, so that a chunk of which some records are missing counts as flushed (`Flushed`, `Failed`; `short`
  counts such chunks, up to `MaxShort`).
- `Hashgen2024` goes on until the number of flushes is the ideal one, and has no final loop.
- `Hashgen7Plot` is what main of `hashgen7.c` does with the hashes the ring serves: it counts in batches, writes cups of
  24-byte records as if the records had 16 bytes (`word`, `packed`: a record is three words in memory and two in the
  file), and at the end calls `psort`, which takes the size of a chunk from the size of the file. That file has been
  truncated when it was opened again (`initFile`), so it ends where the last chunk was written. The order of the hashes
  is chosen from two, one the reverse of the other; a record of a chunk goes to the place of its `rank`, the number of
  records that come before it. `psort` is the call that succeeds. `psortFails` is the one that stops at an error, of
  which main does not ask: the groups are written one after another, so that the file begins with what was written,
  up to any record of a group. (A write may stop inside a record too; the model cuts between records, and what it says
  of a failure is about the other buckets.) The steps of the sort are in `ParallelSort`.

`MmapPlot` is the mapped plot: a hash is stored at once or dropped. `bucket_offsets` are shorts, and wrap behind
`SHRT_MAX`; what lies in front of the mapping cannot be written (`Crash`).

`PlotGenerators` composes these four: one of `Plots` runs, from the initial state of all, with the step relation of its
program and the rest unchanged. The properties of the plot are stated there once, for all programs they hold for.

`Blake3Hasher` is the incremental hasher. The compression function is symbolic: its result is the tuple of its
arguments, which makes it injective, so that two digests are equal only if they come from the same tree. Bytes are
numbered by their place in the input. `Update(n)` is `blake3_hasher_update` with the next `n` bytes, as one step, from
filling the begun chunk to the last merge; `finalize` changes nothing and is an operator
(`blake3_hasher_finalize_seek`). `blake3_hash_many` and what is above it (`compress_chunks_parallel`,
`compress_parents_parallel`, `blake3_compress_subtree_wide`) work with as many lanes as `blake3_simd_degree` finds for
the features of the processor; the array the two halves of a subtree are put into has `Garbage` where neither has
written (`cv_array`). The lanes themselves are `blake3_neon.c`, and the assembly of x86 is taken to do the same with its
own number of them. `Tree` is the reference definition, written from the comments: the left subtree is the largest power
of two that leaves a byte for the right one. A pointer into the input and a length are two numbers, `at` and `len`; a
loop is a recursive function of the number of its turns (`nextSubtree`, `mergeTop`, `condenseOnce` are one turn each).

`PHashgen` has a process per worker and per writer and main; a step is what happens under one lock. `Hash` is one
iteration of the loop of `generate_hashes` under the mutex of a bucket; if it fills the bucket, the worker keeps that
mutex until `Enqueue`. `Seek` and `Write` are two steps under `file_mutex`, because what a node says can change in
between. `Exit` is the end of `main` and with it of all threads. `CircularQueue` models `enqueue` and `dequeue`; the
mutex is visible only when a thread spins in front of a full queue, because it is then held for ever. `WriteQueue` is
the abstract queue it implements. What the properties do not tell apart is left out of the state: a record in memory is
hashed or uninitialised, and locals are reset when they are dead.

`ParallelSort` is `psort`, of `hashgen7.c` and of `psort.c`: a group of chunks, one per thread, is read, sorted by the
threads in any order (`sortBucket(t)`, a step of its own for each) and written back; seek, read and write may fail, the
write half way. A record is its place in the order of `memcmp`. `qsort` is external and modelled by what it promises:
the chunk comes to be in order (`InOrder`) and holds each record as often as before (`SameRecords`). `fwrite` is taken
to write when it is called. The chunks of `psort.c` are those of its constants; `psort` of `hashgen7.c` derives them
from the size of the file, with one chunk in a bucket, which is a case of the model's constants.

`BinarySearch` is `binarySearch` one iteration per step. The conversions are kept, because they decide what happens for
a target below the chunk: `left` and `right` are unsigned (`SIZE_T` values), `mid` is a signed `int` (`INT` values), and
`right = mid - 1` with `mid = 0` is the largest `size_t`. What is read at `array[-1]` is undefined; it is chosen once
(`outside`) and is the same at each later read, since nobody writes to memory.

`SortAndSearch` composes the two through the file: when the sort is done, main of `bsearch.c` searches the chunks of the
bucket of any prefix for any target. The names of the files and the constants differ from program to program in the
repository; the composition takes them to be the same, as they must be for the search to make sense.

Every module keeps, under "Seeded faults", variants of its definitions with a plausible slip (a dropped reset, a wrong
modulus, a lock not taken). They are not used by the models; each property is known to fail when the named definition is
replaced by such a variant, so none of them holds by construction.

## 3. The runs

Passing runs:

- `hashgen7` (3 generators, ring of 3 batches of 2, 6 hashes, one spurious wakeup): type invariant; no state where all
  threads sleep (`NeverAllAsleep`, with `SleepersHaveCause`); one `signal` per removal is enough (`NoLostWakeup`: the
  room in the ring never exceeds what the generators awake will fill, while some generator sleeps); the ring and main
  together hold all that was inserted, in order (`NothingLost`); main's view refines `HashStream` (`MergesStreams`);
  main gets all its hashes or the disk fails (`AllConsumed`); the process ends unless the broadcast raced with a
  generator about to wait (`ShutdownCompletesUnlessRaced`). Three generators are the least with which a signal can wake
  the wrong one of two sleepers while a third runs; main takes each batch of the ring once, and the generators go on
  around it, with head behind tail. That tail goes round a second time is in `hashgen6`. Deadlock is not checked, since
  the shutdown really can hang (below).
- `hashgen6` (3 generators, ring of 2 batches, 12 hashes): main waits only while somebody still has hashes for it
  (`MainIsServed`); the hash of every index arrives once (`EveryIndexOnce`); by the time the flag is set no generator
  can need it (`FlagIsIdle`); the program terminates. Main goes three times round the ring.
- `plots` (2 buckets, 12 members of `Plots`): for every distribution of the prefixes, and a failure at any write,
  - no hash and no chunk goes missing from the counters (`Accounting`);
  - the regions hold what they should, up to what spills from an earlier bucket (`PlotMatchesArrivals`), and at the end
    of a program with whole cups every hash that fits is in its place (`WhatFitsIsWritten`);
  - with a short write that goes unnoticed every record is the right one or a hole (`ShortWritesLeaveHoles`);
  - the loop of `blake3_hashgen_2024.c` ends and in time (`EndsInTime`), although what one bucket has too much counts
    for what another lacks;
  - the mapped plot holds its hashes in the order they came, up to the largest short; where a bucket is larger than that
    its offset wraps, and the hashes that come next are written over the bucket before, over no other, until the offset
    is 0 again (`MappedInPlace`). Only the first bucket, which has none before it, takes the process down;
  - the sort of `hashgen7` leaves records in their buckets, if the file ends where the last bucket does, and when it
    fails, half way through the write of a group of two buckets even, all buckets but one keep their records
    (`SortKeepsBuckets`). Of the bucket the write stopped in nothing can be said: records are lost in it and others are
    there twice.

  Two buckets are enough for one to spill into the other, three cups for the first, a middle and the last chunk. The
  members have regions of whole cups, of a cup and a half, of half a cup, batches that divide the hashes and batches
  that do not, smaller and larger than a cup; and mapped regions below, at and beyond `SHRT_MAX`, here 3. A process that
  has ended stutters, so deadlock is checked.
- `phashgen` (2 workers, 2 writers, queue of 2, 3 buckets): no update of a bucket is lost (`HashesCounted`), each chunk
  is enqueued once and for its place (`ChunksQueuedOnce`; the enqueue and the advance of the bucket's counter are one step
  here, since both are under the mutex of the bucket, which nobody else gets in between), a writer writes where it sought, the flushes are counted, the
  queue refines `WriteQueue`, and the program ends or the queue has been found full. A queue of 2 is
  full with both workers' chunks in it and wraps around. Deadlock is not checked: the program has ended, or it spins.
- `sort_and_search` (2 buckets of 4 chunks of 3 records, 3 threads; `INT` = 16, `SIZE_T` = 256): every order of the
  threads, every failure of a read or a write, in the first group and, with the first one written back, in the second.
  The chunks of the groups before hold the records they held, in order (`SortedSoFar`); what comes after the group at
  work is untouched even after a failure (`RestUntouched`). The search never passes the target by (`NotPassedBy`),
  returns the right answer (`ReturnsMatch`) and leaves the array at -1 only, for a target below it only
  (`LeavesArrayOnlyBelow`); what main says is true of the plot as it was before it was sorted (`AnswersAreRight`), where
  the sort has come to the bucket; and the search ends unless it has left the array (`SearchEndsInside`).

  Three threads make two groups of the eight chunks and leave two over. Two groups are what it takes for something to
  fail after a group was sorted, and for the place of a group to depend on its number; of the second bucket half is left
  unsorted. `MCSortAndSearch` bounds the plots: of the eight chunks any two, or one, hold the same records and the
  others hold others, each any three records of two kinds (`MCPlots`). So each pair of chunks differs in some plot, which
  is what a chunk in the place of another shows in. The five targets lie below, on, between and above the two kinds. The
  widths are scaled down: what matters of them is that half of the two largest `size_t` is -1 as an `int`, which
  `SearchAssumption` states and 2^32 and 2^64 satisfy. Deadlock is not checked: the programs end.
- `blake3` (blocks of 2 bytes, chunks of 4, a context of 9 and inputs of up to 73 bytes; 4 hashers): however an input is
  cut into calls, what `finalize` returns from three places on, in two lengths, is that part of the digest of its tree
  (`DigestIsTheTree`); the stack is as `finalize` takes it to be (`StackIsReady`) and small enough (`StackFits`). What
  `update` hashes at once always is a power of two of whole chunks, so the paths for an odd number of chaining values
  and for a chunk that is not whole would not be reached: `SubtreesOfAnyLength` checks these functions for every length.
  73 bytes are 18 chunks and a byte: more than the 16 lanes of the widest machine, an odd number of parents, and a
  subtree that has to be shrunk more than once. The hashers have 16, 8, 4 and 1 lanes, and each of the three ways to
  begin.

Violation runs, each of a statement the repository makes:

- `hashgen7_shutdown`: "Wait for threads to finish" (`hashgen7.c:985`) may wait for ever. `producerFinished` is set and
  `not_full` broadcast without the mutex; a generator that has tested the flag and not yet begun to wait is not woken.
- `hashgen7_uneven`: "Wait while the circular array is full" (`hashgen7.c:177`): with a number of threads that does not
  divide the ring (3 and 16, batches of 5) the equality is jumped over and batches are overwritten.
- `hashgen7_plot` (2 buckets of 1 cup of 3): "Write the buffer to the file" (`hashgen7.c:841`): of a chunk that was
  written the last third is not in the file, because records of 24 bytes are counted as 16.
- `phashgen_lost_chunks`: main joins the workers twice and never the writers, and exits with chunks in the queue.
- `phashgen_node_reuse`: a dequeued node is a slot that `enqueue` may fill again before its writer has read it.
- `search_below`: "Element not found" (`bsearch.c:87`) is not reached for a target below the whole chunk: `right` wraps
  around, `mid` is -1 from then on whatever is there, and the loop does not end unless `array[-1]` equals the target.

Met while modelling and not the subject of a run: with one generator the batch is the whole ring and an empty ring
counts as full (`NoDeadlock` is therefore proved for two or more, and false for one); the indices of hashgen7's threads
overlap, since their loop is not bounded by their share; `enqueue` copies in the wrong direction
(`circular_queue.c:62`), so that hashes never reach the file; a thread that finds the queue full keeps its mutex for
ever; and the percentage of hashes written that `mmap-example.c` prints (257) counts those that were overwritten since.

Fairness. `FairSpec` of `Hashgen7` and `PHashgen`, and `Spec` of `Hashgen6`, assume weak fairness of each thread's step
as a whole: a thread that can run is scheduled in the end. This is what a preemptive scheduler gives. `FairSpec` of
`SortAndSearch` assumes only that the programs keep running (weak fairness of `Next`). Nothing is assumed of the choice
among sleepers, of spurious wakeups, of which hashes come, or of the disk.

## 4. The proofs

Eight modules hold theorems, for every value of the constants that the named assumptions allow. All properties of the
passing runs that are invariants are proved; so are both refinements and the action property.

| Module | About | Theorems |
|---|---|---|
| `Hashgen7_proofs` | `Hashgen7` | `TypeCorrect`, `CauseOfSleep`, `NoDeadlock`, `AllPassOn`, `RingImplementsStream`, `SignalSuffices` |
| `Hashgen6_proofs` | `Hashgen6` | `MainNeverStarves`, `AllIndexesOnce`, `NobodyNeedsFlag` |
| `PlotGenerators_proofs` | `PlotGenerators`, all six programs | `Invariant`, `TypeCorrect`, `EveryHashAccounted`, `PlotIsAsExpected`, `ShortWritesAreHoles`, `NothingThatFitsIsLost`, `LoopEnds`, `MappingIsInOrder`, `SortingKeepsBuckets` |
| `PHashgen_proofs` | `PHashgen` with `CircularQueue` | `TypeCorrect`, `NoHashMiscounted`, `EachChunkOnce`, `SeekAndWriteTogether`, `EachFlushOnce`, `QueueImplements` |
| `SortAndSearch_proofs` | `SortAndSearch` with `BinarySearch` | `TypeCorrect`, `GroupsAreSorted`, `RestIsUntouched`, `AnswersAreTrue`, `RightAnswer`, `NeverPassedBy`, `StaysInsideUnlessBelow` |
| `Blake3Hasher_proofs` | `Blake3Hasher` | `DigestAlways`, `SubtreesAlways`, `StackAlwaysReady`, `StackAlwaysFits`, `HasherTypes` |
| `CircularArray_proofs` | the ring of both programs | lemmas |
| `SumTheorems` | sums, induction, places in a file | lemmas |

### The ring (`CircularArray_proofs`, `Hashgen7_proofs`, `Hashgen6_proofs`)

*Nobody sleeps for ever.* `NeverAllAsleep` is not inductive. That all threads sleep can only be excluded by the reason
they sleep for: main sleeps only when the ring is empty, and all the generators at once only when it is full
(`SleepersHaveCause`). Each step that could spoil the reason also wakes somebody: `insertBatch` signals `not_empty`, and
main is the only one that can be in it; `removeBatch` signals `not_full`, so that at least one generator is awake. With
two or more generators `BATCH_SIZE < HASHGEN_THREADS_BUFFER`, so a ring cannot be empty and full at once; with one it
can, and `NoDeadlock` assumes more than one.

*Nothing is lost.* The invariant `StreamInv` says that, until the flag is set, head and tail are at borders of batches
and that what main has had, followed by what the ring holds (`Contents`), is a merge of the generators' sequences as far
as they have come (`Merged(Passed, i)`). The borders are needed because "full" is an equality: a head that stood
between two batches would jump over it. `InsertGrows` and `RemoveShrinks` say what the two critical sections do to
`Contents`; `InsertMerges` and `RemoveMerges` conclude. Once the flag is set a batch may be put into a full ring, and
nothing is claimed; main takes nothing any more. From the same invariant each step of the program is a step of
`HashStream` or leaves its variables alone (`RingImplementsStream`): only `Remove` moves it, and the batch it takes is
the next one of some generator.

*One signal is enough.* `NoLostWakeup` is inductive with `StreamInv`: while a generator sleeps, `Room`, counted in
batches, is at most the number of generators awake. An insertion takes one from the room and its generator stays awake,
a generator begins to wait only when the room is 0, and a removal adds one and wakes one.

`AllPassOn`, `RingImplementsStream` and `SignalSuffices` assume that the batches divide the ring,
`HASHGEN_THREADS_BUFFER % BATCH_SIZE = 0`. The code does not see to it; it is so when the number of threads divides the
ring, as powers of two do. Without it `NothingLost` is false: the run `hashgen7_uneven` is the counterexample.

In `hashgen6` the generators are bounded. The invariant adds that each stays within its share and inserts only what is
left of it (`ShareInv`), and `RoomInv` counts only those awake *with hashes left* (`Busy`). Main waits in front of an
empty ring with hashes missing, so some share is not used up, and its generator is awake. By the time main leaves its
loop it has all indexes, each generator is at the end of its share, and no one is in `insertBatch` to need the flag. The
sizes are as the `#define`s have them (`ConstantsAssumption`).

### The plot (`PlotGenerators_proofs`)

What is to be proved is about the file; what makes it true is in memory. The invariant `Inv` has these parts:

- `TypeInv`, with the file as a function from `0..size - 1` to records that were written or holes;
- `MemoryInv`: the cup of a bucket holds what its next chunk should hold, duplicates behind the last hash included
  (`InMemory`), up to the final flush of that bucket;
- `FileInv`: in each region that no earlier bucket has spilled into, each record is the expected one, or a hole if there
  was a short write;
- `CountInv`: the counters are the sums of the lengths of the arrivals and of the flushes over all buckets;
- `RestInv`: the final loop leaves behind it no bucket with hashes that have a place in their region;
- `EndInv`, `MapInv`, `MapCount`: the bound on `NONCE` of `blake3_hashgen_2024.c`; in the mapped plot, that the offset
  of a bucket is the number of its hashes up to the largest short, and then counts up to 0 again in a region larger than
  that (`OffsetOK`); and what was dropped.

None of the properties is inductive by itself: without `MemoryInv` nothing is known of a chunk that is written, and
`FileInv` has to speak of short writes also where `PlotMatchesArrivals` does not. The steps of the four modules are
first brought into one list (`BucketStep`), so that each kind of step is treated once for all programs, the layout of
hashgen7 with its two thirds of a cup included. `WriteKeepsRight` is the centre: a chunk written from a cup that is as
it should be makes its own records right and touches no other record of an intact region, since those lie in other
regions or chunks. `OneMore` bounds the loop of `blake3_hashgen_2024.c`: before each hash there are fewer flushes than
the ideal number and each cup has a free place, and the sum over the buckets is within the bound.

`MappingIsInOrder` follows from `MapInv`: a place at or behind the start of the region is the one of the hash's number,
and a place in front of it lies in the region before (`WhoseRegion`), because an offset has wrapped only where the region
is larger than the largest short (`InMapping`); in the first bucket it lies in front of the mapping.

For `SortingKeepsBuckets` sorting is shown to be a permutation of each chunk: in a total order of the records of a chunk
each rank is taken once (`RanksAreAll`), so the rank is a bijection of the chunk's places and keeps how often each
record occurs; and a file of `MAX_HASHES` records is cut at the borders of buckets (`ChunksAreBuckets`). A sort that
fails leaves the first `n` records sorted and the rest as it was; a bucket that lies on one side of `n` keeps its
records (`SortKeepsBag`), and only one can have `n` inside (`OneDamaged`).

Assumptions: `PlotAssumption` (sizes are positive) and `GeneratorsAssumption` (the programs are these six, and regions
of the three with constant sizes are whole cups, as `common.c` defines them).

### The parallel generator and its queue (`PHashgen_proofs`)

`Inv` is the type invariant, `QueueInv` (front, rear and size agree, and the nodes in use hold places of the file),
`WorkersInv` (the mutex of a bucket is held if and only if its cup is full, by the worker that enqueues it), `CountInv`
(as many hashes are in the buckets as were made), `WritersInv` (a writer between seek and write holds the mutex of the
file and its position), `ChunksQueuedOnce` and `FlushesCounted`. `CountInv` is needed even for the types: no worker
makes more than its share, so no bucket gets more chunks than the plot has, and no index leaves the range of places. The
queue implements `WriteQueue` for every number of nodes, one included. The assumption of the module is that the sets of
threads are finite and disjoint and the sizes positive.

### Sort and search (`SortAndSearch_proofs`)

`binarySearch`: `left <= right` does not bound `mid`, because `right` may have wrapped. The invariant has two cases:
either `right` is a place of the array, and then so is `mid`; or it has wrapped, `left` is 0 and the target is below the
first record. In the second case `mid` is -1, and what is read there makes no difference to the answer: the loop goes on
with `left` = 0, or ends by finding "equal", with result -1. With that, a step to the left or to the right of a record
of a sorted chunk discards no place of the target. This holds for all widths that relate as `SearchAssumption` says.

The sort: while a group is sorted, the part of a thread that is not finished is the chunk of the plot, and the part of
one that is finished is in order with the same records (`GroupInv`); the parts are disjoint (`PlaceInPart`), so the
order of the threads does not matter. Main of the search: the chunks before the one it is at did not hold the target,
*in the plot as it was before the sort* (`MainInv`), which follows because the sort keeps the records of each chunk.

### The hasher (`Blake3Hasher_proofs`)

The theorem that matters is `DigestAlways`: for an input of any length, cut into calls anywhere, with any number of
lanes and any of the three ways to begin, `finalize` returns, from every place on and in every length, that part of the
digest of `Tree` over the whole input. `DigestIsTheTree`, which the run checks, asks for six such parts.

The inductive invariant is `IInv`: `HasherState(hasher, Bytes, expectedKey, expectedFlags, given)`. It says that the
bytes given are `c` chunks and `len` bytes; that the chunk state is that of those `len` bytes (`ChunkState`, a function
of the input and not of the calls); and that the stack holds the roots of subtrees that lie side by side and make up the
`c` chunks (`OnStack`). None of the properties is inductive without it: the digest is computed from all three parts.

- *The chunk.* `ChunkStateUpdate`: from the state behind `len` bytes, `chunk_state_update` leads to the state behind
  `len + n`. Its output is the leaf of the tree.
- *The stack.* Each of its subtrees is a power of two of chunks long, and twice its length divides its place; only the
  last may be the second of a pair, which waits at the top, because merging is lazy, until something follows (`Bounds`;
  `Settled` when there is no such pair). `BoundsPopcnt`: with no pair the number of subtrees is that of the 1-bits of
  `c`, so that the loop of `hasher_merge_cv_stack` stops exactly there (`MergeStack`). From the lengths of the subtrees
  `StackAlwaysFits` follows.
- *What is hashed at once.* The subtree that `update` cuts off is the longest power of two that divides its place
  (`Shrunk`), so it may be pushed (`PushStack`); `NextTurn` and `SubtreesState` carry the invariant through the loop.
- *Lanes.* `blake3_hash_many` is, for any number of lanes, the compression of each input by itself. The chaining values
  of a wide subtree are the roots of a row of subtrees (`Level`, `Roots`); pairing a row leaves a row of the same tree,
  an odd one at the end included. By strong induction on the length the row has two values at least and as many as
  there are lanes at most (`WideRoots`), and the loop that condenses it ends with the pair of the children (`Condense`,
  `SubtreePair`). That is `SubtreesAlways`, for subtrees of every length, with and without the special case of one lane.
- *The root.* What follows a subtree on the stack is no longer than it (`AllFit`), so each step of rolling up makes the
  node that the reference definition cuts in the same place (`RollUp`, `RootOutput`). With an empty chunk the root is
  the parent of the top two, and there are two, or nothing was given (`StackAlwaysReady`). `RootBytes` is about the
  output from `seek` on.
- *The derived key* (`ContextKey`) is the same theorem for the context, as `Init` hashes it.

Assumptions: `HasherAssumption`, which says that blocks are two keys long, that a chunk is a power of two of bytes and
whole blocks, and that the hashers have one of the three modes; the set of hashers, the length of the context and the
bound on the input are arbitrary. As in the runs, the compression function is the tuple of its arguments. The proofs
need its being injective for one thing only: that the pair `compress_subtree_to_parent_node` returns is the block of the
node above it. All recursive definitions are functions, and their equations come from `SumTheorems`' way of induction.

### Sums and induction (`SumTheorems`)

Counters over all buckets are sums by `SumFunction` of the community modules, which is defined by recursion on sets. The
library's induction theorems take an operator as a parameter, which the provers cannot instantiate; induction is
therefore stated about a *set*: one that holds 0 and with each number the next holds them all (`NatIsLeast`, from
`WFMin`), and one that holds each subset of a finite set from which what is left without any one element is held
(`SubsetsByRemoval`). With these a sum is shown to exist and to be read off step by step, and to change as one
of its summands does (`SumChange`), to be monotone and linear (`SumMonotone`, `SumLinear`).

### What is only model-checked, and why

- Liveness: `AllConsumed`, `ShutdownCompletesUnlessRaced`, `Terminates` of `Hashgen6`, `EndsUnlessQueueFull` of
  `PHashgen` and `SearchEndsInside`. They rest on weak fairness, hence on `ENABLED`, which the prover does not reason
  about. `NoDeadlock`, `SignalSuffices`, `MainNeverStarves` and `LoopEnds` are what can be said of progress as safety.
- The runs that expect a violation: a counterexample is a proof of its own.

## 5. The plan, and what is left out

All that was planned for the proofs is done but for the negative side of `hashgen7_plot`: how much of a chunk is in the
file, for cups of any size.

### Not modelled

Left out for good: parsing of the command line, progress reports and timing, the bytes of hashes, allocation failures
(they end the program before any thread runs), the queue no program includes (`write_queue.c`), the scan of a bucket and
the choice of random targets (`search.c`, `gen_search.c`, which has one loop that ends only if the plot holds a record
that is not zero), the utilities. Of the hasher, the rounds of the compression function are bit
arithmetic that the properties do not tell apart, and the assembly is not C. The detection of the processor's features
(`blake3_dispatch.c`) is raced by the generator threads, but each of them stores the same value in one store, so it is
modelled by its result.

