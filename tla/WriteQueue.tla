------------------------------ MODULE WriteQueue ------------------------------
(***************************************************************************)
(* What hashgen4.c expects of its write queue, whichever of the two        *)
(* implementations it includes: chunks are handed out once each, in the    *)
(* order they were put.                                                    *)
(***************************************************************************)
EXTENDS Sequences, Naturals

CONSTANT Items

VARIABLES
  put, \* what has been enqueued, in order
  got  \* what has been dequeued, in order

vars == <<put, got>>

Init == put = <<>> /\ got = <<>>

Put(item) == put' = Append(put, item) /\ UNCHANGED got

Get ==
  /\ Len(got) < Len(put)
  /\ got' = Append(got, put[Len(got) + 1])
  /\ UNCHANGED put

Next == Get \/ \E item \in Items : Put(item)

Spec == Init /\ [][Next]_vars
==============================================================================
