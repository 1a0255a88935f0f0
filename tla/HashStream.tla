------------------------------ MODULE HashStream ------------------------------
(***************************************************************************)
(* What the ring promises to main (hashgen6.c, hashgen7.c): the hashes     *)
(* come in whole batches, each the next one of some generator.  Nothing is *)
(* lost, repeated, torn or reordered between a generator and main; the     *)
(* generators may be merged in any order.                                  *)
(***************************************************************************)
EXTENDS Integers, Sequences

CONSTANTS Producers, BATCH_SIZE

VARIABLES
  delivered, \* the hashes main has got, in order
  next       \* next[p]: the index in p's range of the next hash due from p

vars == <<delivered, next>>

Batch(p, i) == [k \in 1..BATCH_SIZE |-> [from |-> p, at |-> i + k - 1]]

Init ==
  /\ delivered = <<>>
  /\ next = [p \in Producers |-> 0]

Deliver(p) ==
  /\ delivered' = delivered \o Batch(p, next[p])
  /\ next' = [next EXCEPT ![p] = @ + BATCH_SIZE]

Next == \E p \in Producers : Deliver(p)

Spec == Init /\ [][Next]_vars
==============================================================================
