----------------------------- MODULE Blake3Hasher -----------------------------
(***************************************************************************)
(* The incremental hasher of blake3.c, on which every hash of the plots    *)
(* rests.  The input comes in calls of any length; the chunks it is cut    *)
(* into are the leaves of a binary tree, of which cv_stack holds the       *)
(* subtrees that are complete.                                             *)
(*                                                                         *)
(* The compression function is taken to be injective: its result is the    *)
(* tuple of its arguments <<cv, block, block_len, counter, flags>>, so     *)
(* that an output_t and its chaining value are the same.  A byte is a      *)
(* tuple too, whose length tells it from a chaining value; a block of a    *)
(* parent is the pair of the chaining values of its children.              *)
(*                                                                         *)
(* A pointer into the input and a length are the numbers at and len: the   *)
(* bytes input[at + 1] to input[at + len].  A loop is a recursive function *)
(* of the number of its turns, unless nothing but such numbers goes from   *)
(* one turn to the next.                                                   *)
(***************************************************************************)
EXTENDS Integers, Sequences

CONSTANTS
  BLOCK_LEN, CHUNK_LEN, KEY_LEN, \* in bytes, scaled down
  Hashers,                       \* what may run: [mode, arch, features]
  ContextLen, MaxLen             \* bounds: bytes of a context, and of an input

pow2[k \in Nat] == IF k = 0 THEN 1 ELSE 2 * pow2[k - 1]

ASSUME HasherAssumption ==
  /\ KEY_LEN \in Nat \ {0} /\ BLOCK_LEN = 2 * KEY_LEN
  /\ CHUNK_LEN \in Nat \ {0} /\ CHUNK_LEN % BLOCK_LEN = 0
  /\ \E k \in 0..CHUNK_LEN : CHUNK_LEN = pow2[k]
  /\ ContextLen \in Nat /\ MaxLen \in Nat
  /\ \A h \in Hashers : h.mode \in {"hash", "keyed_hash", "derive_key"}

VARIABLES
  used,   \* which of Hashers runs
  hasher, \* [key, chunk, cv_stack]
  given   \* history: how many bytes it was given since it was initialised

vars == <<used, hasher, given>>

------------------------------------------------------------------------------
Zero == <<>>
Bytes == [k \in 1..MaxLen |-> <<k>>] \* the input
Context == [k \in 1..ContextLen |-> <<"context", 0, k>>]
IV == <<"IV">>
Key == <<"key">>
Garbage == <<"garbage">>             \* memory nobody has written

Min2(m, n) == IF m < n THEN m ELSE n

\* Seeded faults.
SubtreeDivides_Always(subtree_len, count) == TRUE
FinalMerge_Not(self) == self

------------------------------------------------------------------------------
MAX_SIMD_DEGREE == CASE used.arch = "x86" -> 16 [] used.arch = "neon" -> 4 [] OTHER -> 1
MAX_SIMD_DEGREE_OR_2 == IF MAX_SIMD_DEGREE > 2 THEN MAX_SIMD_DEGREE ELSE 2

blake3_simd_degree ==
  CASE used.arch = "x86" /\ {"AVX512F", "AVX512VL"} \subseteq used.features -> 16
    [] used.arch = "x86" /\ ~{"AVX512F", "AVX512VL"} \subseteq used.features
         /\ "AVX2" \in used.features -> 8
    [] used.arch = "x86" /\ ~{"AVX512F", "AVX512VL"} \subseteq used.features
         /\ "AVX2" \notin used.features /\ used.features \cap {"SSE41", "SSE2"} # {} -> 4
    [] used.arch = "neon" -> 4
    [] OTHER -> 1

\* The place of the highest 1-bit of x # 0.
highest_one(x) == CHOOSE k \in 0..x : pow2[k] <= x /\ x < pow2[k + 1]

round_down_to_power_of_2(x) == pow2[highest_one(IF x = 0 THEN 1 ELSE x)]

popcnt[x \in Nat] == IF x = 0 THEN 0 ELSE (x % 2) + popcnt[x \div 2]

compress(cv, block, block_len, counter, flags) == <<cv, block, block_len, counter, flags>>

\* A 64-byte block of output: the output with this counter and the root flag.
compress_xof(output, counter) ==
  [n \in 1..BLOCK_LEN |->
     <<compress(output[1], output[2], output[3], counter, output[5] \cup {"ROOT"}), n>>]

------------------------------------------------------------------------------
(* Chunks.                                                                 *)

chunk_state_init(key, counter, flags) ==
  [cv |-> key, chunk_counter |-> counter, buf |-> [k \in 1..BLOCK_LEN |-> Zero],
   buf_len |-> 0, blocks_compressed |-> 0, flags |-> flags]

chunk_state_reset(self, key, counter) == chunk_state_init(key, counter, self.flags)

\* Seeded fault.
chunk_state_len_OfBuffer(self) == self.buf_len

chunk_state_len(self) == BLOCK_LEN * self.blocks_compressed + self.buf_len

take(self, len) == Min2(BLOCK_LEN - self.buf_len, len)

chunk_state_fill_buf(self, input, at, len) ==
  [self EXCEPT
     !.buf = [k \in 1..BLOCK_LEN |-> IF k - self.buf_len \in 1..take(self, len)
                                     THEN input[at + k - self.buf_len] ELSE @[k]],
     !.buf_len = @ + take(self, len)]

start_flag(blocks_compressed) == IF blocks_compressed = 0 THEN {"CHUNK_START"} ELSE {}
chunk_state_maybe_start_flag(self) == start_flag(self.blocks_compressed)

compressBlock(self, block) ==
  [self EXCEPT
     !.cv = compress(@, block, BLOCK_LEN, self.chunk_counter,
                     self.flags \cup chunk_state_maybe_start_flag(self)),
     !.blocks_compressed = @ + 1]

compressBuf(self) ==
  [compressBlock(self, self.buf) EXCEPT
     !.buf_len = 0, !.buf = [k \in 1..BLOCK_LEN |-> Zero]]

blockAt(input, at) == [k \in 1..BLOCK_LEN |-> input[at + k]]

\* How many blocks of len bytes are not the last.
blocksBefore(len) == IF len = 0 THEN 0 ELSE (len - 1) \div BLOCK_LEN

\* The blocks of the input are compressed where they are, but for the last.
whole_blocks(self, input, at, len) ==
  LET n == blocksBefore(len)
      after[b \in 0..n] ==
        IF b = 0 THEN self
        ELSE compressBlock(after[b - 1], blockAt(input, at + (b - 1) * BLOCK_LEN))
  IN chunk_state_fill_buf(after[n], input, at + n * BLOCK_LEN, len - n * BLOCK_LEN)

chunk_state_update(self, input, at, len) ==
  LET n      == take(self, len)
      filled == chunk_state_fill_buf(self, input, at, len)
  IN IF self.buf_len = 0 THEN whole_blocks(self, input, at, len)
     ELSE IF n = len THEN filled
     ELSE whole_blocks(compressBuf(filled), input, at + n, len - n)

chunk_state_output(self) ==
  compress(self.cv, self.buf, self.buf_len, self.chunk_counter,
           self.flags \cup chunk_state_maybe_start_flag(self) \cup {"CHUNK_END"})

parent_output(block, key, flags) == compress(key, block, BLOCK_LEN, 0, flags \cup {"PARENT"})

------------------------------------------------------------------------------
(* Hashing many inputs, each a sequence of so many blocks.                 *)

\* The inputs in the lanes of a vector, from this one on, block by block.
hash_lanes(inputs, from, lanes, blocks, key, counter, increment_counter, flags, start, end) ==
  LET h_vecs[n \in 0..blocks] ==
        IF n = 0 THEN [l \in 1..lanes |-> key]
        ELSE [l \in 1..lanes |->
               compress(h_vecs[n - 1][l], inputs[from + l - 1][n], BLOCK_LEN,
                        IF increment_counter THEN counter + l - 1 ELSE counter,
                        flags \cup (IF n = 1 THEN start ELSE {})
                              \cup (IF n = blocks THEN end ELSE {}))]
  IN h_vecs[blocks]

\* As many inputs at a time as the platform has lanes, then one at a time: input
\* i is in a group with those from first on.  The assembly of x86 is taken to do
\* what blake3_neon.c does, with its own lanes.
blake3_hash_many(inputs, blocks, key, counter, increment_counter, flags, start, end) ==
  [i \in 1..Len(inputs) |->
     LET lanes == IF i <= (Len(inputs) \div blake3_simd_degree) * blake3_simd_degree
                  THEN blake3_simd_degree ELSE 1
         first == i - ((i - 1) % lanes)
     IN hash_lanes(inputs, first, lanes, blocks, key,
                   IF increment_counter THEN counter + first - 1 ELSE counter,
                   increment_counter, flags, start, end)[i - first + 1]]

\* The whole chunks of an input, in blocks.
chunks_array(input, at, len) ==
  [c \in 1..len \div CHUNK_LEN |->
    [b \in 1..CHUNK_LEN \div BLOCK_LEN |->
       blockAt(input, at + (c - 1) * CHUNK_LEN + (b - 1) * BLOCK_LEN)]]

compress_chunks_parallel(input, at, len, key, chunk_counter, flags) ==
  LET n    == len \div CHUNK_LEN
      cvs  == blake3_hash_many(chunks_array(input, at, len), CHUNK_LEN \div BLOCK_LEN, key,
                               chunk_counter, TRUE, flags, {"CHUNK_START"}, {"CHUNK_END"})
      rest == len - n * CHUNK_LEN
      last == chunk_state_output(chunk_state_update(
                chunk_state_init(key, chunk_counter + n, flags),
                input, at + n * CHUNK_LEN, rest))
  IN cvs \o (IF rest = 0 THEN <<>> ELSE <<last>>)

compress_parents_parallel(cvs, key, flags) ==
  LET parents == [p \in 1..Len(cvs) \div 2 |-> << <<cvs[2 * p - 1], cvs[2 * p]>> >>]
      out     == blake3_hash_many(parents, 1, key, 0, FALSE, flags \cup {"PARENT"}, {}, {})
  IN out \o (IF Len(cvs) % 2 = 0 THEN <<>> ELSE <<cvs[Len(cvs)]>>)

------------------------------------------------------------------------------
(* Subtrees.                                                               *)

left_len(len) == round_down_to_power_of_2((len - 1) \div CHUNK_LEN) * CHUNK_LEN

\* Seeded fault: without the special case of one lane.
cv_array_AtSimdDegree(left, right, degree, n) ==
  [k \in 1..n |-> IF k - blake3_simd_degree \in DOMAIN right THEN right[k - blake3_simd_degree]
                  ELSE IF k \in DOMAIN left THEN left[k] ELSE Garbage]

\* The first n of the array that the two halves have written into.
cv_array(left, right, degree, n) ==
  [k \in 1..n |-> IF k - degree \in DOMAIN right THEN right[k - degree]
                  ELSE IF k \in DOMAIN left THEN left[k] ELSE Garbage]

\* What becomes of the chaining values of the halves.
joined(left, right, degree, key, flags) ==
  IF Len(left) = 1 THEN cv_array(left, right, degree, 2)
  ELSE compress_parents_parallel(cv_array(left, right, degree, Len(left) + Len(right)), key, flags)

\* wide[n][from]: the call for n bytes, from bytes behind the beginning.
blake3_compress_subtree_wide(input, at, len, key, chunk_counter, flags) ==
  LET degree(left) == IF left > CHUNK_LEN /\ blake3_simd_degree = 1 THEN 2
                      ELSE blake3_simd_degree
      wide[n \in 1..len] ==
        [from \in Nat |->
           IF n <= blake3_simd_degree * CHUNK_LEN
           THEN compress_chunks_parallel(input, at + from, n, key,
                                         chunk_counter + from \div CHUNK_LEN, flags)
           ELSE joined(wide[left_len(n)][from], wide[n - left_len(n)][from + left_len(n)],
                       degree(left_len(n)), key, flags)]
  IN wide[len][0]

\* One turn of the loop, of those that leave fewer chaining values.
condenseOnce(cvs, key, flags) ==
  IF Len(cvs) > 2 /\ Len(cvs) <= MAX_SIMD_DEGREE_OR_2
  THEN compress_parents_parallel(cvs, key, flags) ELSE cvs

condense(cvs, key, flags) ==
  LET turn[k \in 0..Len(cvs)] == IF k = 0 THEN cvs ELSE condenseOnce(turn[k - 1], key, flags)
      last == turn[Len(cvs)]
  IN <<last[1], last[2]>>

compress_subtree_to_parent_node(input, at, len, key, chunk_counter, flags) ==
  condense(blake3_compress_subtree_wide(input, at, len, key, chunk_counter, flags), key, flags)

------------------------------------------------------------------------------
(* The hasher.                                                             *)

hasher_init_base(key, flags) ==
  [key |-> key, chunk |-> chunk_state_init(key, 0, flags), cv_stack |-> <<>>]

\* The topmost two values give way to their parent.
mergeTop(stack, key, flags) ==
  [i \in 1..Len(stack) - 1 |->
     IF i < Len(stack) - 1 THEN stack[i]
     ELSE parent_output(<<stack[i], stack[i + 1]>>, key, flags)]

hasher_merge_cv_stack(self, total_len) ==
  LET n == Len(self.cv_stack)
      after[k \in 0..n] ==
        IF k = 0 THEN self.cv_stack ELSE mergeTop(after[k - 1], self.key, self.chunk.flags)
  IN IF n > popcnt[total_len] THEN [self EXCEPT !.cv_stack = after[n - popcnt[total_len]]]
     ELSE self

\* Seeded fault: without merging.
hasher_push_cv_NoMerge(self, new_cv, chunk_counter) ==
  [self EXCEPT !.cv_stack = Append(@, new_cv)]

hasher_push_cv(self, new_cv, chunk_counter) ==
  [hasher_merge_cv_stack(self, chunk_counter) EXCEPT !.cv_stack = Append(@, new_cv)]

\* May a subtree of this length follow count bytes?  (For a power of two the
\* mask of the code is this remainder.)
SubtreeDivides(subtree_len, count) == count % subtree_len = 0

\* The length of a subtree of at most len bytes, halved until it divides count:
\* the highest power of two of those that do.
shrunk(len, count) ==
  pow2[CHOOSE k \in 0..highest_one(len) :
         /\ SubtreeDivides(pow2[k], count)
         /\ \A j \in k + 1..highest_one(len) : ~SubtreeDivides(pow2[j], count)]

\* A subtree of more than one chunk is pushed as the pair of its halves.
pushSubtree(self, input, at, len) ==
  LET counter == self.chunk.chunk_counter
      chunks  == len \div CHUNK_LEN
      single  == chunk_state_update(chunk_state_init(self.key, counter, self.chunk.flags),
                                    input, at, len)
      pair    == compress_subtree_to_parent_node(input, at, len, self.key, counter,
                                                 self.chunk.flags)
      pushed  == IF len <= CHUNK_LEN
                 THEN hasher_push_cv(self, chunk_state_output(single), counter)
                 ELSE hasher_push_cv(hasher_push_cv(self, pair[1], counter),
                                     pair[2], counter + chunks \div 2)
  IN [pushed EXCEPT !.chunk.chunk_counter = @ + chunks]

FinalMerge(self) == hasher_merge_cv_stack(self, self.chunk.chunk_counter)

\* One turn of the loop over the subtrees, of those that take a byte at least.
nextSubtree(turn, input, at, len) ==
  LET left == len - turn.taken
      n    == shrunk(left, turn.self.chunk.chunk_counter * CHUNK_LEN)
  IN IF left > CHUNK_LEN
     THEN [self |-> pushSubtree(turn.self, input, at + turn.taken, n), taken |-> turn.taken + n]
     ELSE turn

subtrees(self, input, at, len) ==
  LET turn[k \in 0..len] == IF k = 0 THEN [self |-> self, taken |-> 0]
                            ELSE nextSubtree(turn[k - 1], input, at, len)
      last == turn[len]
  IN IF last.taken = len THEN last.self
     ELSE FinalMerge([last.self EXCEPT !.chunk =
            chunk_state_update(@, input, at + last.taken, len - last.taken)])

\* blake3_hasher_update: the chunk begun before is finished first, but it stays
\* in the chunk state as long as it may be the last one.
blake3_hasher_update(self, input, at, len) ==
  LET room  == Min2(CHUNK_LEN - chunk_state_len(self.chunk), len)
      begun == [self EXCEPT !.chunk = chunk_state_update(@, input, at, room)]
      ended == hasher_push_cv(begun, chunk_state_output(begun.chunk), begun.chunk.chunk_counter)
  IN IF len = 0 THEN self
     ELSE IF chunk_state_len(self.chunk) = 0 THEN subtrees(self, input, at, len)
     ELSE IF room = len THEN begun
     ELSE subtrees([ended EXCEPT !.chunk = chunk_state_reset(@, self.key, @.chunk_counter + 1)],
                   input, at + room, len - room)

\* The first block of the output from where seek is in it, then whole blocks.
output_root_bytes(output, seek, out_len) ==
  LET offset      == seek % BLOCK_LEN
      wide_buf(n) == compress_xof(output, seek \div BLOCK_LEN + n)
      behind(k)   == k - (BLOCK_LEN - offset) - 1 \* place of k behind the first block
  IN [k \in 1..out_len |->
        IF behind(k) < 0 THEN wide_buf(0)[offset + k]
        ELSE wide_buf(1 + behind(k) \div BLOCK_LEN)[(behind(k) % BLOCK_LEN) + 1]]

\* The root above an output and the cvs_remaining lowest values of the stack.
rollUp(self, output, cvs_remaining) ==
  LET up[k \in 0..cvs_remaining] ==
        IF k = 0 THEN output
        ELSE parent_output(<<self.cv_stack[cvs_remaining - k + 1], up[k - 1]>>,
                           self.key, self.chunk.flags)
  IN up[cvs_remaining]

\* Which chunk or parent is the root.  With an empty chunk the root is above the
\* two topmost values; if there is one only, the code reads in front of the stack.
rootOutput(self) ==
  LET n   == Len(self.cv_stack)
      top == <<IF n > 1 THEN self.cv_stack[n - 1] ELSE Garbage, self.cv_stack[n]>>
  IN IF n = 0 THEN chunk_state_output(self.chunk)
     ELSE IF chunk_state_len(self.chunk) > 0
     THEN rollUp(self, chunk_state_output(self.chunk), n)
     ELSE rollUp(self, parent_output(top, self.key, self.chunk.flags), IF n > 1 THEN n - 2 ELSE 0)

blake3_hasher_finalize_seek(self, seek, out_len) ==
  output_root_bytes(rootOutput(self), seek, out_len)

\* The three ways to initialise a hasher; the key derived from a context is its
\* hash.
context_key ==
  blake3_hasher_finalize_seek(
    blake3_hasher_update(hasher_init_base(IV, {"DERIVE_KEY_CONTEXT"}), Context, 0, ContextLen),
    0, KEY_LEN)

blake3_hasher_init ==
  CASE used.mode = "hash"       -> hasher_init_base(IV, {})
    [] used.mode = "keyed_hash" -> hasher_init_base(Key, {"KEYED_HASH"})
    [] used.mode = "derive_key" -> hasher_init_base(context_key, {"DERIVE_KEY_MATERIAL"})

------------------------------------------------------------------------------
Init ==
  /\ used \in Hashers
  /\ hasher = blake3_hasher_init
  /\ given = 0

\* blake3_hasher_update with the next n bytes.
Update(n) ==
  /\ hasher' = blake3_hasher_update(hasher, Bytes, given, n)
  /\ given' = given + n
  /\ UNCHANGED used

\* blake3_hasher_reset: the key and the flags stay.
Reset ==
  /\ hasher' = [hasher EXCEPT !.chunk = chunk_state_reset(@, hasher.key, 0), !.cv_stack = <<>>]
  /\ given' = 0
  /\ UNCHANGED used

Next == (\E n \in 0..MaxLen - given : Update(n)) \/ Reset

Spec == Init /\ [][Next]_vars

------------------------------------------------------------------------------
(* The tree of an input, as its comments define it.                        *)

\* The chaining values behind 0, 1, ... whole blocks of the chunk from the place
\* first on.
BlockCvs(input, first, key, flags) ==
  LET cv[b \in 0..CHUNK_LEN \div BLOCK_LEN] ==
        IF b = 0 THEN key
        ELSE compress(cv[b - 1], blockAt(input, first + (b - 1) * BLOCK_LEN), BLOCK_LEN,
                      first \div CHUNK_LEN, flags \cup start_flag(b - 1))
  IN cv

\* Its first len bytes as the output of a chunk.
ChunkOutput(input, first, len, key, flags) ==
  LET before == blocksBefore(len)
      behind == first + before * BLOCK_LEN
      last   == [k \in 1..BLOCK_LEN |-> IF k <= len - before * BLOCK_LEN THEN input[behind + k]
                                        ELSE Zero]
  IN compress(BlockCvs(input, first, key, flags)[before], last, len - before * BLOCK_LEN,
              first \div CHUNK_LEN, flags \cup start_flag(before) \cup {"CHUNK_END"})

\* "This is the largest power-of-2 number of chunks that leaves at least 1 byte
\* for the right subtree." (blake3.c:155)
LeftOf(len) ==
  CHUNK_LEN * pow2[CHOOSE k \in 0..len : pow2[k] * CHUNK_LEN < len /\ len <= pow2[k + 1] * CHUNK_LEN]

\* Tree(...)[n][first]: the tree over the n bytes from the place first on.
Tree(input, key, flags) ==
  LET tree[n \in 0..MaxLen + ContextLen] ==
        [first \in Nat |->
           IF n <= CHUNK_LEN THEN ChunkOutput(input, first, n, key, flags)
           ELSE parent_output(<<tree[LeftOf(n)][first], tree[n - LeftOf(n)][first + LeftOf(n)]>>,
                              key, flags)]
  IN tree

\* Byte n, from 0, of the digest.
DigestByte(root, n) ==
  <<compress(root[1], root[2], root[3], n \div BLOCK_LEN, root[5] \cup {"ROOT"}),
    (n % BLOCK_LEN) + 1>>

expectedKey ==
  CASE used.mode = "hash"       -> IV
    [] used.mode = "keyed_hash" -> Key
    [] used.mode = "derive_key" ->
         [n \in 1..KEY_LEN |->
            DigestByte(Tree(Context, IV, {"DERIVE_KEY_CONTEXT"})[ContextLen][0], n - 1)]

expectedFlags ==
  CASE used.mode = "hash"       -> {}
    [] used.mode = "keyed_hash" -> {"KEYED_HASH"}
    [] used.mode = "derive_key" -> {"DERIVE_KEY_MATERIAL"}

------------------------------------------------------------------------------
TypeOK ==
  /\ used \in Hashers
  /\ given \in 0..MaxLen
  /\ hasher.chunk.buf_len \in 0..BLOCK_LEN
  /\ chunk_state_len(hasher.chunk) \in 0..CHUNK_LEN
  /\ hasher.chunk.chunk_counter * CHUNK_LEN + chunk_state_len(hasher.chunk) = given

\* However the input is cut into calls, and whatever the machine can do at once,
\* what finalize returns from any place on is that part of the digest of the
\* tree of the whole input; a hasher that was reset is like a new one.
DigestIsTheTree ==
  LET root == Tree(Bytes, expectedKey, expectedFlags)[given][0]
  IN \A seek \in {0, BLOCK_LEN - 1, 2 * BLOCK_LEN}, out_len \in {KEY_LEN, 2 * BLOCK_LEN + 1} :
       blake3_hasher_finalize_seek(hasher, seek, out_len)
         = [n \in 1..out_len |-> DigestByte(root, seek + n - 1)]

\* "Hash a subtree with compress_subtree_wide(), and then condense the resulting
\* list of chaining values down to a single parent node." (blake3.c:324): so it
\* is for inputs of every length, not only for those update cuts off, and the
\* array of the halves has neither gaps nor overlaps.
SubtreesOfAnyLength ==
  given = 0 =>
    \A n \in CHUNK_LEN + 1..MaxLen :
      LET key   == hasher.key
          flags == hasher.chunk.flags
      IN /\ Len(blake3_compress_subtree_wide(Bytes, 0, n, key, 0, flags))
              \in 2..MAX_SIMD_DEGREE_OR_2
         /\ compress_subtree_to_parent_node(Bytes, 0, n, key, 0, flags)
              = Tree(Bytes, key, flags)[n][0][2]

\* What finalize takes the stack for.  With bytes in the chunk "none of the
\* subtrees in the stack need to be merged with each other first" (blake3.c:586):
\* there is one value for each complete subtree of the chunks before, which are
\* the 1-bits of their number.  With an empty chunk "there are always at least
\* 2 CVs in the stack" (blake3.c:598), unless there are none.
StackIsReady ==
  LET values == Len(hasher.cv_stack)
  IN IF chunk_state_len(hasher.chunk) > 0
     THEN values = popcnt[hasher.chunk.chunk_counter]
     ELSE values # 1

\* "The stack size is MAX_DEPTH + 1 because we do lazy merging." (blake3.h:55):
\* n values on the stack take at least 2^(n - 1) chunks, so that the 2^54 of the
\* longest input leave no more than 55 of them.
StackFits ==
  hasher.cv_stack # <<>> => pow2[Len(hasher.cv_stack) - 1] <= hasher.chunk.chunk_counter
==============================================================================
