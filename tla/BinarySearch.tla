----------------------------- MODULE BinarySearch -----------------------------
(***************************************************************************)
(* binarySearch of bsearch.c, for one chunk and one target at a time.  Its *)
(* left and right are size_t, its mid is an int, and the conversions       *)
(* between them are part of what it does.  A record is its byteArray, and  *)
(* that an integer in the order of memcmp.                                 *)
(*                                                                         *)
(* array[-1] is the memory in front of the array.  The function reads it,  *)
(* which is undefined; what it finds there compares with the target in     *)
(* some way, and in the same way each time.                                *)
(***************************************************************************)
EXTENDS Integers

CONSTANTS
  Length,  \* records of the array
  Keys,    \* the values of a byteArray
  INT,     \* how many values an int has: 2^32
  SIZE_T   \* how many values a size_t has: 2^64

ASSUME SearchAssumption ==
  /\ Length \in Nat \ {0} /\ Keys \subseteq Int
  /\ INT \in Nat /\ SIZE_T \in Nat
  /\ Length < INT \div 2 /\ INT < SIZE_T
  \* halving size_t's largest values leaves all the bits of an int set
  /\ ((SIZE_T - 1) \div 2) % INT = INT - 1 /\ ((SIZE_T - 2) \div 2) % INT = INT - 1

VARIABLES
  place,   \* "idle", "search" or "returned"
  array, target, left, right,
  outside, \* how the target compares with array[-1], once that is read
  result

searchVars == <<place, array, target, left, right, outside, result>>

Places == 0..Length - 1
Arrays == [Places -> Keys]

\* Conversion to size_t and to int.
size_t(x) == x % SIZE_T
int(x) == IF x % INT < INT \div 2 THEN x % INT ELSE (x % INT) - INT

initSearch ==
  /\ place = "idle"
  /\ array = <<>> /\ target = 0
  /\ left = 0 /\ right = 0 /\ outside = 0 /\ result = 0

------------------------------------------------------------------------------
\* Seeded faults.
GoLeft_Past(m) == right' = size_t(m - 2)
GoRight_NotPast(m) == left' = size_t(m)
GoRight_Past(m) == left' = size_t(m + 2)
Call_PastEnd(a, t) ==
  /\ place = "idle"
  /\ place' = "search"
  /\ array' = a /\ target' = t
  /\ left' = 0 /\ right' = Length
  /\ UNCHANGED <<outside, result>>

------------------------------------------------------------------------------
Call(a, t) ==
  /\ place = "idle"
  /\ place' = "search"
  /\ array' = a /\ target' = t
  /\ left' = 0 /\ right' = Length - 1
  /\ UNCHANGED <<outside, result>>

\* mid of the iteration that starts with this left and right.
middle == int(left + size_t(right - left) \div 2)

\* The sign of compareByteArrays(target, array[m].byteArray).
compare(m) ==
  IF m \notin Places THEN outside
  ELSE IF target = array[m] THEN 0 ELSE IF target < array[m] THEN -1 ELSE 1

GoLeft(m) == right' = size_t(m - 1)
GoRight(m) == left' = size_t(m + 1)

NotFound ==
  /\ place = "search" /\ left > right
  /\ place' = "returned" /\ result' = -1
  /\ UNCHANGED <<array, target, left, right, outside>>

Found ==
  /\ place = "search" /\ left <= right
  /\ compare(middle) = 0
  /\ place' = "returned" /\ result' = middle
  /\ UNCHANGED <<array, target, left, right, outside>>

\* What is in array[-1] is chosen when it is about to be read: right has become
\* the largest size_t.
SearchLeft ==
  /\ place = "search" /\ left <= right
  /\ compare(middle) = -1
  /\ GoLeft(middle)
  /\ outside' \in IF middle = 0 THEN {-1, 0, 1} ELSE {outside}
  /\ UNCHANGED <<place, array, target, left, result>>

SearchRight ==
  /\ place = "search" /\ left <= right
  /\ compare(middle) = 1
  /\ GoRight(middle)
  /\ UNCHANGED <<place, array, target, right, outside, result>>

Iterate == NotFound \/ Found \/ SearchLeft \/ SearchRight

\* The caller has used the result.
Back ==
  /\ place = "returned"
  /\ place' = "idle"
  /\ array' = <<>> /\ target' = 0
  /\ left' = 0 /\ right' = 0 /\ outside' = 0 /\ result' = 0

SearchNext ==
  \/ \E a \in Arrays, t \in Keys : Call(a, t)
  \/ Iterate \/ Back

SearchSpec == initSearch /\ [][SearchNext]_searchVars

------------------------------------------------------------------------------
SearchTypeOK ==
  /\ place \in {"idle", "search", "returned"}
  /\ place # "idle" => array \in Arrays /\ target \in Keys
  /\ left \in 0..Length
  /\ right \in 0..Length - 1 \cup {SIZE_T - 1, SIZE_T - 2}
  /\ outside \in {-1, 0, 1}
  /\ result \in -1..Length - 1

Sorted == \A p, q \in Places : p <= q => array[p] <= array[q]

\* In a sorted chunk the search never passes the target by: if it is there, all
\* its places are between left and right.
NotPassedBy ==
  place = "search" /\ Sorted =>
    \A p \in Places : array[p] = target => left <= p /\ p <= right

\* "Found a match, return the index" (bsearch.c:72), and "Element not found"
\* (bsearch.c:87): in a sorted chunk what is returned is a place of the target,
\* and -1 if and only if it has none, whatever is in front of the array.
ReturnsMatch ==
  place = "returned" /\ Sorted =>
    \/ result \in Places /\ array[result] = target
    \/ result = -1 /\ \A p \in Places : array[p] # target

\* The function reads nothing outside the array but array[-1], and that only
\* for a target below the whole chunk: right = mid - 1 with mid = 0 is the
\* largest size_t, half of which is -1 as an int.
LeavesArrayOnlyBelow ==
  place = "search" /\ left <= right =>
    \/ middle \in Places
    \/ middle = -1 /\ target < array[0]
==============================================================================
