------------------------------- MODULE Hashgen3 -------------------------------
(***************************************************************************)
(* hashgen3.c, hashgen.c and hashgen2.c: one hash per iteration,           *)
(* MAX_HASHES of them, then one more chunk for every bucket that has not   *)
(* been flushed often enough.  hashgen.c and hashgen3.c write with fwrite  *)
(* and fail if a chunk is not written whole; hashgen2.c opens the file     *)
(* with O_DIRECT and writes with write(2), of which only the result -1 is  *)
(* taken for an error: a chunk written short counts as flushed.            *)
(***************************************************************************)
EXTENDS BucketPlot

CONSTANT MaxShort \* bound: no more chunks than these are written short

VARIABLE short \* how many chunks were written short and counted as flushed

vars == <<plotVars, short>>

Init ==
  /\ initBuckets
  /\ short = 0

\* A chunk is taken for flushed after n records of it are written.
Flushed(n) ==
  /\ n < CUP_SIZE => program = "hashgen2" /\ short < MaxShort
  /\ short' = IF n = CUP_SIZE THEN short ELSE short + 1

\* The program fails after n records of a chunk are written.
Failed(n) == n = 0 \/ program # "hashgen2"

MoreToMake == phase = "generate" /\ NONCE < MAX_HASHES

Generate ==
  /\ MoreToMake
  /\ \E b \in Buckets :
       \/ Store(b) /\ UNCHANGED short
       \/ \E n \in 0..CUP_SIZE : StoreAndFlush(b, n) /\ Flushed(n)
  /\ UNCHANGED <<phase, i>>

GenerateFails ==
  /\ MoreToMake
  /\ \E b \in Buckets, n \in 0..CUP_SIZE - 1 : StoreAndFail(b, n) /\ Failed(n)
  /\ phase' = "failed"
  /\ UNCHANGED <<i, short>>

LeaveLoop ==
  /\ phase = "generate" /\ NONCE = MAX_HASHES
  /\ phase' = "flush"
  /\ UNCHANGED <<bucketVars, i, short>>

FinalFlush == \E n \in 0..CUP_SIZE : FlushRest(n) /\ Flushed(n)

FinalSkip == SkipRest /\ UNCHANGED short

FinalFails == \E n \in 0..CUP_SIZE - 1 : FailRest(n) /\ Failed(n) /\ UNCHANGED short

Finish == FinishRest /\ UNCHANGED short

Next ==
  \/ Generate \/ GenerateFails \/ LeaveLoop
  \/ FinalFlush \/ FinalSkip \/ FinalFails \/ Finish

Spec == Init /\ [][Next]_vars
==============================================================================
