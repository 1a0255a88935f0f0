----------------------------- MODULE Hashgen2024 -----------------------------
(***************************************************************************)
(* blake3_hashgen_2024.c: the sizes follow from the memory and disk space  *)
(* of the machine, so a region need not be a whole number of cups, and the *)
(* loop goes on until as many chunks are flushed as the regions hold.      *)
(* There is no final loop: what is left in memory is dropped.              *)
(***************************************************************************)
EXTENDS BucketPlot

ideal_number_of_flushes == NUM_BUCKETS * (BUCKET_SIZE \div CUP_SIZE)

Init == initBuckets

MoreToMake == phase = "generate" /\ totalFlushes # ideal_number_of_flushes

Generate ==
  /\ MoreToMake
  /\ \E b \in Buckets : Store(b) \/ StoreAndFlush(b, CUP_SIZE)
  /\ UNCHANGED <<phase, i>>

GenerateFails ==
  /\ MoreToMake
  /\ \E b \in Buckets, n \in 0..CUP_SIZE - 1 : StoreAndFail(b, n)
  /\ phase' = "failed"
  /\ UNCHANGED i

\* The loop ends; fclose, free and return.
Finish ==
  /\ phase = "generate" /\ totalFlushes = ideal_number_of_flushes
  /\ phase' = "written"
  /\ UNCHANGED <<bucketVars, i>>

Next == Generate \/ GenerateFails \/ Finish

Spec == Init /\ [][Next]_plotVars
==============================================================================
