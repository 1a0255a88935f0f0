-------------------------- MODULE Blake3Hasher_proofs --------------------------
(***************************************************************************)
(* Proofs about Blake3Hasher: the digest is that of the tree, for inputs   *)
(* and contexts of any length, cut into calls anywhere.                    *)
(***************************************************************************)
EXTENDS Blake3Hasher, SumTheorems

------------------------------------------------------------------------------
(* Powers of two and bits.                                                 *)

\* A set that holds each number when it holds those below it holds them all.
LEMMA NatStrong ==
  ASSUME NEW T, \A n \in Nat : (\A m \in 0..n - 1 : m \in T) => n \in T
  PROVE  Nat \subseteq T
<1> DEFINE S == {n \in Nat : \A m \in 0..n - 1 : m \in T}
<1>1. 0 \in S
  OBVIOUS
<1>2. \A n \in Nat : n \in S => n + 1 \in S
  OBVIOUS
<1>3. Nat \subseteq S
  <2> HIDE DEF S
  <2> QED BY <1>1, <1>2, NatIsLeast
<1> QED BY <1>3

\* The recursive function pow2 is what its definition says.
LEMMA Pow2Def == pow2 = [k \in Nat |-> IF k = 0 THEN 1 ELSE 2 * pow2[k - 1]]
<1> DEFINE Is(g, n) == g = [k \in 0..n |-> IF k = 0 THEN 1 ELSE 2 * g[k - 1]]
           N == {n \in Nat : \E g : Is(g, n)}
           G(n) == CHOOSE g : Is(g, n)
<1>1. 0 \in N
  <2>1. Is([k \in 0..0 |-> 1], 0)
    OBVIOUS
  <2> QED BY <2>1
<1>2. ASSUME NEW n \in Nat, n \in N PROVE n + 1 \in N
  <2>1. PICK g : Is(g, n)
    BY <1>2
  <2> DEFINE h == [k \in 0..n + 1 |-> IF k = 0 THEN 1 ELSE 2 * g[k - 1]]
  <2>2. \A k \in 0..n : h[k] = g[k]
    BY <2>1
  <2>3. \A k \in 0..n + 1 : h[k] = IF k = 0 THEN 1 ELSE 2 * h[k - 1]
    <3> SUFFICES ASSUME NEW k \in 0..n + 1, k # 0 PROVE h[k] = 2 * h[k - 1]
      OBVIOUS
    <3>1. k - 1 \in 0..n
      OBVIOUS
    <3> QED BY <2>2, <3>1
  <2>4. h = [k \in 0..n + 1 |-> h[k]]
    OBVIOUS
  <2>5. Is(h, n + 1)
    <3> HIDE DEF h
    <3> QED BY <2>3, <2>4
  <2> HIDE DEF h, Is
  <2> QED BY <2>5
<1>3. \A n \in Nat : Is(G(n), n)
  <2>1. Nat \subseteq N
    <3> HIDE DEF N
    <3> QED BY <1>1, <1>2, NatIsLeast
  <2> QED BY <2>1
<1>4. ASSUME NEW a \in Nat, NEW b \in Nat, NEW g, NEW h, Is(g, a), Is(h, b)
      PROVE  \A k \in Nat : k <= a /\ k <= b => g[k] = h[k]
  <2> DEFINE K == {k \in Nat : k <= a /\ k <= b => g[k] = h[k]}
  <2>1. 0 \in K
    BY <1>4
  <2>2. ASSUME NEW k \in Nat, k \in K PROVE k + 1 \in K
    <3> SUFFICES ASSUME k + 1 <= a, k + 1 <= b PROVE g[k + 1] = h[k + 1]
      OBVIOUS
    <3>1. g[k + 1] = 2 * g[k] /\ h[k + 1] = 2 * h[k]
      BY <1>4
    <3> QED BY <2>2, <3>1
  <2>3. Nat \subseteq K
    <3> HIDE DEF K
    <3> QED BY <2>1, <2>2, NatIsLeast
  <2> QED BY <2>3
<1> DEFINE f == [k \in Nat |-> G(k)[k]]
<1>5. f = [k \in Nat |-> IF k = 0 THEN 1 ELSE 2 * f[k - 1]]
  <2> SUFFICES ASSUME NEW k \in Nat PROVE f[k] = IF k = 0 THEN 1 ELSE 2 * f[k - 1]
    OBVIOUS
  <2>1. G(k)[k] = IF k = 0 THEN 1 ELSE 2 * G(k)[k - 1]
    <3> HIDE DEF G
    <3> QED BY <1>3
  <2>2. k # 0 => G(k)[k - 1] = G(k - 1)[k - 1]
    <3> HIDE DEF G, Is
    <3> QED BY <1>3, <1>4
  <2> HIDE DEF G
  <2> QED BY <2>1, <2>2
<1> HIDE DEF f
<1> QED BY <1>5 DEF pow2

\* The recursive function popcnt is what its definition says.
LEMMA PopcntDef == popcnt = [x \in Nat |-> IF x = 0 THEN 0 ELSE (x % 2) + popcnt[x \div 2]]
<1> DEFINE Is(g, n) == g = [x \in 0..n |-> IF x = 0 THEN 0 ELSE (x % 2) + g[x \div 2]]
           N == {n \in Nat : \E g : Is(g, n)}
           G(n) == CHOOSE g : Is(g, n)
<1>0. \A x \in Nat : x # 0 => x \div 2 \in 0..x - 1
  OBVIOUS
<1>1. 0 \in N
  <2>1. Is([x \in 0..0 |-> 0], 0)
    OBVIOUS
  <2> QED BY <2>1
<1>2. ASSUME NEW n \in Nat, n \in N PROVE n + 1 \in N
  <2>1. PICK g : Is(g, n)
    BY <1>2
  <2> DEFINE h == [x \in 0..n + 1 |-> IF x = 0 THEN 0 ELSE (x % 2) + g[x \div 2]]
  <2>2. \A x \in 0..n : h[x] = g[x]
    BY <2>1
  <2>3. \A x \in 0..n + 1 : h[x] = IF x = 0 THEN 0 ELSE (x % 2) + h[x \div 2]
    <3> SUFFICES ASSUME NEW x \in 0..n + 1, x # 0 PROVE h[x] = (x % 2) + h[x \div 2]
      OBVIOUS
    <3>1. x \div 2 \in 0..n
      BY <1>0
    <3> QED BY <2>2, <3>1
  <2>4. h = [x \in 0..n + 1 |-> h[x]]
    OBVIOUS
  <2>5. Is(h, n + 1)
    <3> HIDE DEF h
    <3> QED BY <2>3, <2>4
  <2> HIDE DEF h, Is
  <2> QED BY <2>5
<1>3. \A n \in Nat : Is(G(n), n)
  <2>1. Nat \subseteq N
    <3> HIDE DEF N
    <3> QED BY <1>1, <1>2, NatIsLeast
  <2> QED BY <2>1
<1>4. ASSUME NEW a \in Nat, NEW b \in Nat, NEW g, NEW h, Is(g, a), Is(h, b)
      PROVE  \A x \in Nat : x <= a /\ x <= b => g[x] = h[x]
  <2> DEFINE K == {x \in Nat : x <= a /\ x <= b => g[x] = h[x]}
  <2>1. ASSUME NEW x \in Nat, \A y \in 0..x - 1 : y \in K PROVE x \in K
    <3> SUFFICES ASSUME x <= a, x <= b PROVE g[x] = h[x]
      OBVIOUS
    <3>1. x # 0 => g[x \div 2] = h[x \div 2]
      BY <1>0, <2>1
    <3> QED BY <1>4, <3>1
  <2>2. Nat \subseteq K
    <3> HIDE DEF K
    <3> QED BY <2>1, NatStrong
  <2> QED BY <2>2
<1> DEFINE f == [x \in Nat |-> G(x)[x]]
<1>5. f = [x \in Nat |-> IF x = 0 THEN 0 ELSE (x % 2) + f[x \div 2]]
  <2> SUFFICES ASSUME NEW x \in Nat PROVE f[x] = IF x = 0 THEN 0 ELSE (x % 2) + f[x \div 2]
    OBVIOUS
  <2>1. G(x)[x] = IF x = 0 THEN 0 ELSE (x % 2) + G(x)[x \div 2]
    <3> HIDE DEF G
    <3> QED BY <1>3
  <2>2. x # 0 => G(x)[x \div 2] = G(x \div 2)[x \div 2]
    <3> HIDE DEF G, Is
    <3> QED BY <1>0, <1>3, <1>4
  <2> HIDE DEF G
  <2> QED BY <1>0, <2>1, <2>2
<1> HIDE DEF f
<1> QED BY <1>5 DEF popcnt

LEMMA PowersOfTwo ==
  /\ pow2[0] = 1
  /\ \A k \in Nat : pow2[k + 1] = 2 * pow2[k] /\ pow2[k] \in Nat /\ k < pow2[k]
<1>1. pow2[0] = 1 /\ \A k \in Nat : pow2[k + 1] = 2 * pow2[k]
  BY Pow2Def
<1> DEFINE T == {k \in Nat : pow2[k] \in Nat /\ k < pow2[k]}
<1>2. 0 \in T
  BY <1>1
<1>3. \A k \in Nat : k \in T => k + 1 \in T
  BY <1>1
<1>4. Nat \subseteq T
  <2> HIDE DEF T
  <2> QED BY <1>2, <1>3, NatIsLeast
<1> QED BY <1>1, <1>4

Pow == {pow2[k] : k \in Nat}

LEMMA PowType ==
  /\ 1 \in Pow
  /\ \A p \in Pow : /\ p \in Nat \ {0} /\ 2 * p \in Pow
                    /\ p # 1 => \E q \in Pow : p = 2 * q
<1>1. 1 \in Pow
  BY PowersOfTwo DEF Pow
<1> SUFFICES ASSUME NEW k \in Nat
             PROVE  /\ pow2[k] \in Nat \ {0} /\ 2 * pow2[k] \in Pow
                    /\ pow2[k] # 1 => \E q \in Pow : pow2[k] = 2 * q
  BY <1>1 DEF Pow
<1>2. pow2[k] \in Nat \ {0}
  BY PowersOfTwo
<1>3. 2 * pow2[k] \in Pow
  BY PowersOfTwo, k + 1 \in Nat DEF Pow
<1>4. ASSUME pow2[k] # 1 PROVE \E q \in Pow : pow2[k] = 2 * q
  <2>1. k # 0
    BY <1>4, PowersOfTwo
  <2>2. k - 1 \in Nat /\ k = (k - 1) + 1
    BY <2>1
  <2>3. pow2[k] = 2 * pow2[k - 1]
    BY <2>2, PowersOfTwo
  <2> QED BY <2>2, <2>3 DEF Pow
<1> QED BY <1>2, <1>3, <1>4

\* Of two powers of two the smaller, doubled, divides the greater.
LEMMA PowOrder ==
  ASSUME NEW p \in Pow, NEW q \in Pow, p < q
  PROVE  2 * p <= q /\ \E m \in Nat \ {0} : q = m * (2 * p)
<1> DEFINE T == {k \in Nat : \A j \in 0..k : \E m \in Nat \ {0} : pow2[k] = m * pow2[j]}
<1>1. 0 \in T
  BY PowersOfTwo
<1>2. ASSUME NEW k \in Nat, k \in T PROVE k + 1 \in T
  <2> SUFFICES ASSUME NEW j \in 0..k + 1 PROVE \E m \in Nat \ {0} : pow2[k + 1] = m * pow2[j]
    OBVIOUS
  <2>1. CASE j = k + 1
    <3>1. pow2[k + 1] = 1 * pow2[j]
      BY <2>1, PowersOfTwo
    <3> QED BY <3>1
  <2>2. CASE j \in 0..k
    <3>1. PICK m \in Nat \ {0} : pow2[k] = m * pow2[j]
      BY <1>2, <2>2
    <3>2. pow2[j] \in Nat /\ pow2[k + 1] = 2 * pow2[k]
      BY <2>2, PowersOfTwo
    <3>3. 2 * (m * pow2[j]) = (2 * m) * pow2[j]
      BY <3>2
    <3>4. 2 * m \in Nat \ {0} /\ pow2[k + 1] = (2 * m) * pow2[j]
      BY <3>1, <3>2, <3>3
    <3> QED BY <3>4
  <2> QED BY <2>1, <2>2
<1>3. \A k \in Nat : \A j \in 0..k : \E m \in Nat \ {0} : pow2[k] = m * pow2[j]
  <2>1. Nat \subseteq T
    <3> HIDE DEF T
    <3> QED BY <1>1, <1>2, NatIsLeast
  <2> QED BY <2>1
<1>4. PICK j \in Nat, k \in Nat : p = pow2[j] /\ q = pow2[k]
  BY DEF Pow
<1>5. p \in Nat \ {0} /\ q \in Nat \ {0}
  BY PowType
<1>6. j + 1 \in 0..k
  <2> SUFFICES ASSUME k \in 0..j PROVE FALSE
    OBVIOUS
  <2>1. PICK m \in Nat \ {0} : p = m * q
    BY <1>3, <1>4
  <2>2. m * q >= q
    BY <1>5
  <2> QED BY <1>5, <2>1, <2>2
<1>7. PICK m \in Nat \ {0} : q = m * (2 * p)
  <2>1. PICK m \in Nat \ {0} : pow2[k] = m * pow2[j + 1]
    BY <1>3, <1>6
  <2>2. pow2[j + 1] = 2 * p
    BY <1>4, PowersOfTwo
  <2>3. q = m * (2 * p)
    BY <1>4, <2>1, <2>2
  <2> QED BY <2>3
<1>8. m * (2 * p) >= 2 * p
  BY <1>5
<1> QED BY <1>5, <1>7, <1>8

LEMMA HighestOne ==
  ASSUME NEW x \in Nat \ {0}
  PROVE  /\ highest_one(x) \in 0..x
         /\ pow2[highest_one(x)] <= x /\ x < 2 * pow2[highest_one(x)]
<1> DEFINE Is(y, k) == k \in 0..y /\ pow2[k] <= y /\ y < pow2[k + 1]
           T == {y \in Nat : y # 0 => \E k \in Nat : Is(y, k)}
<1>1. 0 \in T
  OBVIOUS
<1>2. ASSUME NEW y \in Nat, y \in T PROVE y + 1 \in T
  <2>1. CASE y = 0
    <3>1. Is(1, 0)
      BY PowersOfTwo
    <3> QED BY <2>1, <3>1
  <2>2. CASE y # 0
    <3>1. PICK k \in Nat : Is(y, k)
      BY <1>2, <2>2
    <3>2. CASE y + 1 < pow2[k + 1]
      <4>1. Is(y + 1, k)
        BY <3>1, <3>2, PowersOfTwo
      <4> QED BY <4>1
    <3>3. CASE ~(y + 1 < pow2[k + 1])
      <4>1. pow2[k + 1] \in Nat /\ pow2[k + 2] = 2 * pow2[k + 1] /\ k + 1 < pow2[k + 1]
        BY PowersOfTwo
      <4>2. Is(y + 1, k + 1)
        BY <3>1, <3>3, <4>1
      <4> QED BY <4>2
    <3> QED BY <3>2, <3>3
  <2> QED BY <2>1, <2>2
<1>3. Nat \subseteq T
  <2> HIDE DEF T
  <2> QED BY <1>1, <1>2, NatIsLeast
<1>4. \E k \in 0..x : pow2[k] <= x /\ x < pow2[k + 1]
  BY <1>3
<1>5. highest_one(x) \in 0..x /\ pow2[highest_one(x)] <= x /\ x < pow2[highest_one(x) + 1]
  BY <1>4 DEF highest_one
<1> QED BY <1>5, PowersOfTwo

LEMMA RoundDown ==
  ASSUME NEW x \in Nat \ {0}
  PROVE  /\ round_down_to_power_of_2(x) \in Pow
         /\ round_down_to_power_of_2(x) <= x /\ x < 2 * round_down_to_power_of_2(x)
BY HighestOne DEF round_down_to_power_of_2, Pow

\* How the 1-bits of a number are counted.
LEMMA Popcnt ==
  /\ popcnt[0] = 0
  /\ \A q \in Nat : /\ popcnt[q] \in Nat /\ popcnt[2 * q] = popcnt[q]
                    /\ popcnt[2 * q + 1] = popcnt[q] + 1
<1>1. popcnt[0] = 0 /\ \A x \in Nat \ {0} : popcnt[x] = (x % 2) + popcnt[x \div 2]
  BY PopcntDef
<1> DEFINE T == {x \in Nat : popcnt[x] \in Nat}
<1>2. ASSUME NEW x \in Nat, \A y \in 0..x - 1 : y \in T PROVE x \in T
  <2>1. x # 0 => x \div 2 \in 0..x - 1 /\ x % 2 \in Nat
    OBVIOUS
  <2> QED BY <1>1, <1>2, <2>1
<1>3. Nat \subseteq T
  <2> HIDE DEF T
  <2> QED BY <1>2, NatStrong
<1>4. ASSUME NEW q \in Nat
      PROVE  popcnt[2 * q] = popcnt[q] /\ popcnt[2 * q + 1] = popcnt[q] + 1
  <2>1. /\ (2 * q) % 2 = 0 /\ (2 * q) \div 2 = q
        /\ (2 * q + 1) % 2 = 1 /\ (2 * q + 1) \div 2 = q
    OBVIOUS
  <2>2. 2 * q \in Nat /\ 2 * q + 1 \in Nat \ {0} /\ (q # 0 => 2 * q # 0) /\ popcnt[q] \in Nat
    BY <1>3
  <2> DEFINE d == 2 * q
  <2>3. popcnt[d + 1] = popcnt[q] + 1
    <3> HIDE DEF d
    <3>1. popcnt[d + 1] = ((d + 1) % 2) + popcnt[(d + 1) \div 2]
      <4> USE DEF d
      <4> QED BY <1>1, <2>2
    <3>2. (d + 1) % 2 = 1 /\ (d + 1) \div 2 = q
      BY <2>1 DEF d
    <3> QED BY <2>2, <3>1, <3>2
  <2>4. popcnt[d] = popcnt[q]
    <3>1. CASE q = 0
      BY <3>1
    <3>2. CASE q # 0
      <4>1. d \in Nat \ {0} /\ d % 2 = 0 /\ d \div 2 = q
        BY <2>1, <2>2, <3>2
      <4> HIDE DEF d
      <4>2. popcnt[d] = (d % 2) + popcnt[d \div 2]
        BY <1>1, <4>1
      <4> QED BY <2>2, <4>1, <4>2
    <3> QED BY <3>1, <3>2
  <2> QED BY <2>3, <2>4
<1> QED BY <1>1, <1>3, <1>4

\* Shifting a number leaves its 1-bits,
LEMMA PopcntShift ==
  ASSUME NEW p \in Pow, NEW m \in Nat
  PROVE  popcnt[m * p] = popcnt[m]
<1> DEFINE T == {k \in Nat : \A n \in Nat : popcnt[n * pow2[k]] = popcnt[n]}
<1>1. 0 \in T
  BY PowersOfTwo
<1>2. ASSUME NEW k \in Nat, k \in T PROVE k + 1 \in T
  <2> SUFFICES ASSUME NEW n \in Nat PROVE popcnt[n * pow2[k + 1]] = popcnt[n]
    OBVIOUS
  <2>1. pow2[k] \in Nat /\ pow2[k + 1] = 2 * pow2[k]
    BY PowersOfTwo
  <2>2. n * (2 * pow2[k]) = (2 * n) * pow2[k]
    BY <2>1
  <2>3. popcnt[(2 * n) * pow2[k]] = popcnt[2 * n]
    BY <1>2
  <2> QED BY <2>1, <2>2, <2>3, Popcnt
<1>3. Nat \subseteq T
  <2> HIDE DEF T
  <2> QED BY <1>1, <1>2, NatIsLeast
<1> QED BY <1>3 DEF Pow

\* and a lower bit adds one.
LEMMA PopcntAdd ==
  ASSUME NEW p \in Pow, NEW m \in Nat
  PROVE  popcnt[m * (2 * p) + p] = popcnt[m] + 1
<1>1. p \in Nat
  BY PowType
<1>2. m * (2 * p) + p = (2 * m + 1) * p
  BY <1>1
<1> QED BY <1>2, PopcntShift, Popcnt

\* Counting on adds one 1-bit at most,
LEMMA PopcntNext ==
  ASSUME NEW x \in Nat
  PROVE  popcnt[x + 1] <= popcnt[x] + 1
<1> DEFINE T == {y \in Nat : popcnt[y + 1] <= popcnt[y] + 1}
<1>1. ASSUME NEW y \in Nat, \A z \in 0..y - 1 : z \in T PROVE y \in T
  <2>1. PICK q \in Nat : y = 2 * q \/ y = 2 * q + 1
    <3>1. y \div 2 \in Nat /\ (y = 2 * (y \div 2) \/ y = 2 * (y \div 2) + 1)
      OBVIOUS
    <3> QED BY <3>1
  <2>2. CASE y = 2 * q
    <3>1. popcnt[y] = popcnt[q] /\ popcnt[y + 1] = popcnt[q] + 1 /\ popcnt[q] \in Nat
      BY <2>2, Popcnt
    <3> QED BY <3>1
  <2>3. CASE y = 2 * q + 1
    <3>1. popcnt[q + 1] <= popcnt[q] + 1
      BY <1>1, <2>3
    <3>2. y + 1 = 2 * (q + 1)
      BY <2>3
    <3>3. popcnt[y + 1] = popcnt[q + 1] /\ popcnt[y] = popcnt[q] + 1
      BY <2>3, <3>2, Popcnt, q + 1 \in Nat
    <3>4. popcnt[q] \in Nat /\ popcnt[q + 1] \in Nat
      BY Popcnt, q + 1 \in Nat
    <3> QED BY <3>1, <3>3, <3>4
  <2> QED BY <2>1, <2>2, <2>3
<1>2. Nat \subseteq T
  <2> HIDE DEF T
  <2> QED BY <1>1, NatStrong
<1> QED BY <1>2

\* and n of them take a number of 2^n - 1 at least.
LEMMA PopcntBound ==
  ASSUME NEW x \in Nat
  PROVE  pow2[popcnt[x]] <= x + 1
<1> DEFINE T == {y \in Nat : pow2[popcnt[y]] <= y + 1}
<1>1. ASSUME NEW y \in Nat, \A z \in 0..y - 1 : z \in T PROVE y \in T
  <2>1. PICK q \in Nat : y = 2 * q \/ y = 2 * q + 1
    <3>1. y \div 2 \in Nat /\ (y = 2 * (y \div 2) \/ y = 2 * (y \div 2) + 1)
      OBVIOUS
    <3> QED BY <3>1
  <2>2. CASE y = 0
    BY <2>2, Popcnt, PowersOfTwo
  <2>3. CASE y # 0
    <3>1. pow2[popcnt[q]] <= q + 1
      BY <1>1, <2>1, <2>3
    <3>2. /\ popcnt[q] \in Nat /\ pow2[popcnt[q]] \in Nat
          /\ pow2[popcnt[q] + 1] = 2 * pow2[popcnt[q]]
      BY Popcnt, PowersOfTwo
    <3>3. popcnt[2 * q] = popcnt[q] /\ popcnt[2 * q + 1] = popcnt[q] + 1
      BY Popcnt
    <3>4. CASE y = 2 * q
      BY <3>1, <3>2, <3>3, <3>4
    <3>5. CASE y = 2 * q + 1
      BY <3>1, <3>2, <3>3, <3>5
    <3> QED BY <2>1, <3>4, <3>5
  <2> QED BY <2>2, <2>3
<1>2. Nat \subseteq T
  <2> HIDE DEF T
  <2> QED BY <1>1, NatStrong
<1> QED BY <1>2

------------------------------------------------------------------------------
(* Chunks.                                                                 *)

\* What div is.
LEMMA Division ==
  ASSUME NEW a \in Nat, NEW b \in Nat \ {0}
  PROVE  /\ a \div b \in Nat /\ a % b \in 0..b - 1 /\ a = (a \div b) * b + (a % b)
         /\ \A q \in Nat : q * b <= a /\ a < q * b + b => a \div b = q /\ a % b = a - q * b
<1>1. a \div b \in Nat /\ a % b \in 0..b - 1 /\ a = (a \div b) * b + (a % b)
  OBVIOUS
<1>2. ASSUME NEW q \in Nat, q * b <= a, a < q * b + b PROVE a \div b = q
  <2> DEFINE d == a \div b
  <2>1. d \in Nat /\ d * b <= a /\ a < d * b + b
    BY <1>1
  <2> HIDE DEF d
  <2>2. ~ d + 1 <= q
    <3> SUFFICES ASSUME d + 1 <= q PROVE FALSE
      OBVIOUS
    <3>1. (d + 1) * b <= q * b /\ (d + 1) * b = d * b + b
      BY <2>1
    <3> QED BY <1>2, <2>1, <3>1
  <2>3. ~ q + 1 <= d
    <3> SUFFICES ASSUME q + 1 <= d PROVE FALSE
      OBVIOUS
    <3>1. (q + 1) * b <= d * b /\ (q + 1) * b = q * b + b
      BY <2>1
    <3> QED BY <1>2, <2>1, <3>1
  <2>4. d = q
    BY <2>1, <2>2, <2>3
  <2> QED BY <2>4 DEF d
<1> QED BY <1>1, <1>2

BLOCKS == CHUNK_LEN \div BLOCK_LEN

LEMMA Lengths ==
  /\ BLOCK_LEN \in Nat \ {0} /\ CHUNK_LEN \in Nat \ {0} /\ KEY_LEN \in Nat \ {0}
  /\ BLOCKS \in Nat \ {0} /\ CHUNK_LEN = BLOCKS * BLOCK_LEN
  /\ CHUNK_LEN \in Pow
  /\ ContextLen \in Nat /\ MaxLen \in Nat
<1>1. BLOCK_LEN \in Nat \ {0} /\ CHUNK_LEN \in Nat \ {0} /\ KEY_LEN \in Nat \ {0}
  BY HasherAssumption
<1>2. BLOCKS \in Nat /\ CHUNK_LEN = BLOCKS * BLOCK_LEN
  <2>1. BLOCKS \in Nat /\ CHUNK_LEN = BLOCKS * BLOCK_LEN + (CHUNK_LEN % BLOCK_LEN)
    BY <1>1, Division DEF BLOCKS
  <2>2. BLOCKS * BLOCK_LEN \in Nat
    BY <1>1, <2>1
  <2> QED BY <1>1, <2>1, <2>2, HasherAssumption
<1>3. BLOCKS # 0
  BY <1>1, <1>2
<1>4. CHUNK_LEN \in Pow
  BY HasherAssumption DEF Pow
<1> QED BY <1>1, <1>2, <1>3, <1>4, HasherAssumption

LEMMA BlocksBefore ==
  ASSUME NEW len \in Nat
  PROVE  /\ blocksBefore(len) \in Nat
         /\ len = 0 => blocksBefore(len) = 0
         /\ len > 0 => /\ blocksBefore(len) * BLOCK_LEN < len
                       /\ len <= blocksBefore(len) * BLOCK_LEN + BLOCK_LEN
         /\ \A b \in Nat : b * BLOCK_LEN < len /\ len <= b * BLOCK_LEN + BLOCK_LEN
              => blocksBefore(len) = b
         /\ len <= CHUNK_LEN => blocksBefore(len) < BLOCKS
<1>1. BLOCK_LEN \in Nat \ {0}
  BY Lengths
<1>2. CASE len = 0
  <2>1. \A b \in Nat : ~ b * BLOCK_LEN < 0
    BY <1>1
  <2> QED BY <1>2, <2>1, Lengths DEF blocksBefore
<1>3. CASE len > 0
  <2>1. len - 1 \in Nat /\ blocksBefore(len) = (len - 1) \div BLOCK_LEN
    BY <1>3 DEF blocksBefore
  <2>2. /\ blocksBefore(len) \in Nat
        /\ blocksBefore(len) * BLOCK_LEN < len
        /\ len <= blocksBefore(len) * BLOCK_LEN + BLOCK_LEN
    <3> DEFINE n == blocksBefore(len)
    <3>1. /\ n \in Nat /\ (len - 1) % BLOCK_LEN \in 0..BLOCK_LEN - 1
          /\ len - 1 = n * BLOCK_LEN + ((len - 1) % BLOCK_LEN)
      BY <1>1, <2>1, Division
    <3> HIDE DEF n
    <3>2. n * BLOCK_LEN \in Nat
      BY <1>1, <3>1
    <3>3. n \in Nat /\ n * BLOCK_LEN < len /\ len <= n * BLOCK_LEN + BLOCK_LEN
      BY <1>1, <3>1, <3>2
    <3> QED BY <3>3 DEF n
  <2>3. \A b \in Nat : b * BLOCK_LEN < len /\ len <= b * BLOCK_LEN + BLOCK_LEN
              => blocksBefore(len) = b
    <3> SUFFICES ASSUME NEW b \in Nat, b * BLOCK_LEN < len, len <= b * BLOCK_LEN + BLOCK_LEN
                 PROVE  blocksBefore(len) = b
      OBVIOUS
    <3>1. b * BLOCK_LEN \in Nat
      BY <1>1
    <3>2. b * BLOCK_LEN <= len - 1 /\ len - 1 < b * BLOCK_LEN + BLOCK_LEN
      BY <1>1, <3>1
    <3> QED BY <1>1, <2>1, <3>2, Division
  <2>4. len <= CHUNK_LEN => blocksBefore(len) < BLOCKS
    <3> DEFINE n == blocksBefore(len)
    <3> SUFFICES ASSUME len <= CHUNK_LEN, BLOCKS <= n PROVE FALSE
      BY <2>2, Lengths
    <3>1. n \in Nat /\ n * BLOCK_LEN < len
      BY <2>2
    <3> HIDE DEF n
    <3>2. BLOCKS * BLOCK_LEN <= n * BLOCK_LEN
      BY <3>1, Lengths
    <3>3. n * BLOCK_LEN \in Nat
      BY <1>1, <3>1
    <3> QED BY <3>1, <3>2, <3>3, Lengths
  <2> QED BY <1>3, <2>2, <2>3, <2>4
<1> QED BY <1>2, <1>3

\* The number of the chunk that begins at the place first, where its block b
\* begins, and the first len bytes of a block.
CounterAt(first) == first \div CHUNK_LEN
Place(first, b) == first + b * BLOCK_LEN
Rest(input, at, len) == [k \in 1..BLOCK_LEN |-> IF k <= len THEN input[at + k] ELSE Zero]

LEMMA BlockCvsDef ==
  ASSUME NEW input, NEW first, NEW key, NEW flags
  PROVE  /\ BlockCvs(input, first, key, flags)[0] = key
         /\ \A b \in 0..BLOCKS - 1 :
              BlockCvs(input, first, key, flags)[b + 1]
                = compress(BlockCvs(input, first, key, flags)[b], blockAt(input, Place(first, b)),
                           BLOCK_LEN, CounterAt(first), flags \cup start_flag(b))
<1> DEFINE Body(x, b) ==
             compress(x, blockAt(input, Place(first, b - 1)), BLOCK_LEN, CounterAt(first),
                      flags \cup start_flag(b - 1))
           Is(g, n) == g = [b \in 0..n |-> IF b = 0 THEN key ELSE Body(g[b - 1], b)]
           N == {n \in Nat : \E g : Is(g, n)}
<1> HIDE DEF Body
<1>1. 0 \in N
  <2>1. Is([b \in 0..0 |-> key], 0)
    OBVIOUS
  <2> QED BY <2>1
<1>2. ASSUME NEW n \in Nat, n \in N PROVE n + 1 \in N
  <2>1. PICK g : Is(g, n)
    BY <1>2
  <2> DEFINE h == [b \in 0..n + 1 |-> IF b = 0 THEN key ELSE Body(g[b - 1], b)]
  <2>2. \A b \in 0..n : h[b] = g[b]
    BY <2>1
  <2>3. \A b \in 0..n + 1 : h[b] = IF b = 0 THEN key ELSE Body(h[b - 1], b)
    <3> SUFFICES ASSUME NEW b \in 0..n + 1, b # 0 PROVE h[b] = Body(h[b - 1], b)
      OBVIOUS
    <3>1. b - 1 \in 0..n
      OBVIOUS
    <3> QED BY <2>2, <3>1
  <2>4. h = [b \in 0..n + 1 |-> h[b]]
    OBVIOUS
  <2>5. Is(h, n + 1)
    <3> HIDE DEF h
    <3> QED BY <2>3, <2>4
  <2> HIDE DEF h, Is
  <2> QED BY <2>5
<1>3. \E g : Is(g, BLOCKS)
  <2>1. Nat \subseteq N
    <3> HIDE DEF N
    <3> QED BY <1>1, <1>2, NatIsLeast
  <2> QED BY <2>1, Lengths
<1> DEFINE cv == BlockCvs(input, first, key, flags)
<1>4. cv = [b \in 0..BLOCKS |-> IF b = 0 THEN key ELSE Body(cv[b - 1], b)]
  BY <1>3 DEF BlockCvs, BLOCKS, Body, Place, CounterAt
<1> HIDE DEF cv
<1>5. cv[0] = key /\ \A b \in 0..BLOCKS - 1 : cv[b + 1] = Body(cv[b], b + 1)
  BY <1>4, Lengths
<1>6. \A b \in Nat : (b + 1) - 1 = b
  OBVIOUS
<1> QED BY <1>5, <1>6 DEF cv, Body

\* The chunk state behind b whole blocks and r bytes, and behind len bytes.
StateAt(input, first, b, r, key, flags) ==
  [cv |-> BlockCvs(input, first, key, flags)[b], chunk_counter |-> CounterAt(first),
   buf |-> Rest(input, Place(first, b), r), buf_len |-> r, blocks_compressed |-> b,
   flags |-> flags]
ChunkState(input, first, len, key, flags) ==
  StateAt(input, first, blocksBefore(len), len - blocksBefore(len) * BLOCK_LEN, key, flags)

LEMMA ChunkStateIs ==
  ASSUME NEW input, NEW first, NEW len, NEW key, NEW flags, NEW b, NEW r,
         b = blocksBefore(len), r = len - b * BLOCK_LEN
  PROVE  ChunkState(input, first, len, key, flags) = StateAt(input, first, b, r, key, flags)
BY DEF ChunkState

LEMMA ChunkStateOutput ==
  ASSUME NEW input, NEW first, NEW len, NEW key, NEW flags
  PROVE  chunk_state_output(ChunkState(input, first, len, key, flags))
           = ChunkOutput(input, first, len, key, flags)
BY DEF ChunkState, StateAt, Place, CounterAt, Rest, chunk_state_output, chunk_state_maybe_start_flag,
       ChunkOutput

LEMMA ChunkStateLen ==
  ASSUME NEW input, NEW first, NEW len \in Nat, NEW key, NEW flags
  PROVE  /\ chunk_state_len(ChunkState(input, first, len, key, flags)) = len
         /\ len <= CHUNK_LEN =>
              ChunkState(input, first, len, key, flags).buf_len \in 0..BLOCK_LEN
<1> DEFINE n == blocksBefore(len)
<1>1. n \in Nat /\ BLOCK_LEN \in Nat
  BY BlocksBefore, Lengths
<1>2. len = 0 => n = 0
  BY BlocksBefore
<1>3. len > 0 => n * BLOCK_LEN < len /\ len <= n * BLOCK_LEN + BLOCK_LEN
  BY BlocksBefore
<1>4. chunk_state_len(ChunkState(input, first, len, key, flags))
        = BLOCK_LEN * n + (len - n * BLOCK_LEN)
  BY DEF ChunkState, StateAt, chunk_state_len
<1>5. ChunkState(input, first, len, key, flags).buf_len = len - n * BLOCK_LEN
  BY DEF ChunkState, StateAt
<1> HIDE DEF n
<1>6. n * BLOCK_LEN \in Nat /\ BLOCK_LEN * n = n * BLOCK_LEN
  BY <1>1
<1> QED BY <1>1, <1>2, <1>3, <1>4, <1>5, <1>6

LEMMA ChunkCounter ==
  ASSUME NEW c \in Nat
  PROVE  (c * CHUNK_LEN) \div CHUNK_LEN = c
<1>1. c * CHUNK_LEN \in Nat /\ c * CHUNK_LEN < c * CHUNK_LEN + CHUNK_LEN
  BY Lengths
<1> QED BY <1>1, Division, Lengths

LEMMA ChunkStateInit ==
  ASSUME NEW input, NEW c \in Nat, NEW key, NEW flags
  PROVE  chunk_state_init(key, c, flags) = ChunkState(input, c * CHUNK_LEN, 0, key, flags)
<1>1. (c * CHUNK_LEN) \div CHUNK_LEN = c
  BY ChunkCounter
<1>2. blocksBefore(0) = 0
  BY BlocksBefore
<1>3. BlockCvs(input, c * CHUNK_LEN, key, flags)[0] = key
  BY BlockCvsDef
<1>4. 0 - 0 * BLOCK_LEN = 0
  BY Lengths
<1>5. \A at : Rest(input, at, 0) = [k \in 1..BLOCK_LEN |-> Zero]
  BY DEF Rest
<1> QED BY <1>1, <1>2, <1>3, <1>4, <1>5 DEF chunk_state_init, ChunkState, StateAt, CounterAt

LEMMA BlockCvsNext ==
  ASSUME NEW input, NEW first, NEW key, NEW flags, NEW b \in 0..BLOCKS - 1
  PROVE  BlockCvs(input, first, key, flags)[b + 1]
           = compress(BlockCvs(input, first, key, flags)[b], blockAt(input, Place(first, b)),
                      BLOCK_LEN, CounterAt(first), flags \cup start_flag(b))
<1> DEFINE cv == BlockCvs(input, first, key, flags)
           Next1(c) == cv[c + 1] = compress(cv[c], blockAt(input, Place(first, c)), BLOCK_LEN,
                                            CounterAt(first), flags \cup start_flag(c))
<1>1. \A c \in 0..BLOCKS - 1 : Next1(c)
  BY BlockCvsDef
<1>2. Next1(b)
  <2> HIDE DEF Next1
  <2> QED BY <1>1
<1> QED BY <1>2

\* A block compressed is a step from one state to the next, also when it was put
\* together in the buffer.
LEMMA BlockStateNext ==
  ASSUME NEW input, NEW first, NEW key, NEW flags, NEW b \in 0..BLOCKS - 1
  PROVE  compressBlock(StateAt(input, first, b, 0, key, flags), blockAt(input, Place(first, b)))
           = StateAt(input, first, b + 1, 0, key, flags)
<1> DEFINE cv == BlockCvs(input, first, key, flags)
           block == blockAt(input, Place(first, b))
           fl == flags \cup start_flag(b)
           Zeros == [k \in 1..BLOCK_LEN |-> Zero]
<1>1. cv[b + 1] = compress(cv[b], block, BLOCK_LEN, CounterAt(first), fl)
  BY BlockCvsNext
<1> DEFINE x == StateAt(input, first, b, 0, key, flags)
           y == compressBlock(x, block)
<1>0. \A at : Rest(input, at, 0) = Zeros
  BY DEF Rest
<1> HIDE DEF Zeros
<1>2. x = [cv |-> cv[b], chunk_counter |-> CounterAt(first), buf |-> Zeros, buf_len |-> 0,
           blocks_compressed |-> b, flags |-> flags]
  BY <1>0 DEF StateAt
<1>3. y = [cv |-> compress(cv[b], block, BLOCK_LEN, CounterAt(first), fl),
           chunk_counter |-> CounterAt(first), buf |-> Zeros, buf_len |-> 0,
           blocks_compressed |-> b + 1, flags |-> flags]
  <2>1. y = compressBlock(x, block)
    OBVIOUS
  <2> HIDE DEF x, y, cv, block
  <2> QED BY <1>2, <2>1 DEF compressBlock, chunk_state_maybe_start_flag
<1> QED BY <1>0, <1>1, <1>3 DEF StateAt

LEMMA BufStateNext ==
  ASSUME NEW input, NEW first, NEW key, NEW flags, NEW b \in 0..BLOCKS - 1
  PROVE  compressBuf(StateAt(input, first, b, BLOCK_LEN, key, flags))
           = StateAt(input, first, b + 1, 0, key, flags)
<1> DEFINE cv == BlockCvs(input, first, key, flags)
           block == blockAt(input, Place(first, b))
           counter == CounterAt(first)
           cv1 == compress(cv[b], block, BLOCK_LEN, counter, flags \cup start_flag(b))
           Zeros == [k \in 1..BLOCK_LEN |-> Zero]
           x == StateAt(input, first, b, BLOCK_LEN, key, flags)
           y == compressBlock(x, x.buf)
           z == [y EXCEPT !.buf_len = 0, !.buf = Zeros]
           next == b + 1
<1>1. cv[b + 1] = cv1
  BY BlockCvsNext
<1>2. Rest(input, Place(first, b), BLOCK_LEN) = block
  BY DEF Rest, blockAt
<1>3. Rest(input, Place(first, b + 1), 0) = Zeros
  BY DEF Rest
<1>4. compressBuf(x) = z
  BY DEF compressBuf
<1> HIDE DEF Zeros
<1>5. x = [cv |-> cv[b], chunk_counter |-> counter, buf |-> block, buf_len |-> BLOCK_LEN,
           blocks_compressed |-> b, flags |-> flags]
  BY <1>2 DEF StateAt
<1>6. y = compressBlock(x, x.buf) /\ z = [y EXCEPT !.buf_len = 0, !.buf = Zeros]
  OBVIOUS
<1>7. StateAt(input, first, next, 0, key, flags)
        = [cv |-> cv1, chunk_counter |-> counter, buf |-> Zeros, buf_len |-> 0,
           blocks_compressed |-> next, flags |-> flags]
  BY <1>1, <1>3 DEF StateAt
<1> HIDE DEF x, y, z, cv, block, counter
<1>8. y = [cv |-> cv1, chunk_counter |-> counter, buf |-> block, buf_len |-> BLOCK_LEN,
           blocks_compressed |-> next, flags |-> flags]
  BY <1>5, <1>6 DEF compressBlock, chunk_state_maybe_start_flag
<1> HIDE DEF cv1, next
<1>9. z = [cv |-> cv1, chunk_counter |-> counter, buf |-> Zeros, buf_len |-> 0,
           blocks_compressed |-> next, flags |-> flags]
  <2> DEFINE w == [y EXCEPT !.buf_len = 0]
  <2>1. z = [w EXCEPT !.buf = Zeros]
    BY <1>6
  <2>2. w = [cv |-> cv1, chunk_counter |-> counter, buf |-> block, buf_len |-> 0,
             blocks_compressed |-> next, flags |-> flags]
    BY <1>8
  <2> HIDE DEF w
  <2> QED BY <2>1, <2>2
<1> QED BY <1>4, <1>7, <1>9 DEF x, next

\* The loop over the blocks of n bytes behind b whole blocks.
LEMMA WholeBlocksLoop ==
  ASSUME NEW input, NEW first \in Nat, NEW key, NEW flags, NEW b \in Nat, NEW n \in Nat,
         NEW m, m = blocksBefore(n), b + m < BLOCKS
  PROVE  whole_blocks(StateAt(input, first, b, 0, key, flags), input, Place(first, b), n)
           = chunk_state_fill_buf(StateAt(input, first, b + m, 0, key, flags), input,
                                  Place(first, b + m), n - m * BLOCK_LEN)
<1> DEFINE at == Place(first, b)
           State(k) == StateAt(input, first, b + k, 0, key, flags)
           Body(x, k) == compressBlock(x, blockAt(input, at + (k - 1) * BLOCK_LEN))
           start == StateAt(input, first, b, 0, key, flags)
           Is(g, z) == g = [k \in 0..z |-> IF k = 0 THEN start ELSE Body(g[k - 1], k)]
           g == [k \in 0..m |-> State(k)]
<1>1. m \in Nat /\ BLOCK_LEN \in Nat /\ b + m < BLOCKS /\ BLOCKS \in Nat
  BY BlocksBefore, Lengths
<1>0. State(0) = start
  <2>1. b + 0 = b
    OBVIOUS
  <2> QED BY <2>1
<1>2. ASSUME NEW k \in 1..m
      PROVE  Body(State(k - 1), k) = State(k)
  <2>1. b + (k - 1) \in 0..BLOCKS - 1 /\ (b + (k - 1)) + 1 = b + k
    BY <1>1
  <2>2. at + (k - 1) * BLOCK_LEN = Place(first, b + (k - 1))
    BY <1>1 DEF Place
  <2> QED BY <2>1, <2>2, BlockStateNext
<1> HIDE DEF Body, start, State
<1>3. Is(g, m)
  <2>1. \A k \in 0..m : g[k] = IF k = 0 THEN start ELSE Body(g[k - 1], k)
    <3> SUFFICES ASSUME NEW k \in 0..m PROVE g[k] = IF k = 0 THEN start ELSE Body(g[k - 1], k)
      OBVIOUS
    <3>1. k # 0 => g[k - 1] = State(k - 1)
      BY <1>1
    <3> QED BY <1>0, <1>1, <1>2, <3>1
  <2>2. g = [k \in 0..m |-> g[k]]
    OBVIOUS
  <2> HIDE DEF g
  <2> QED BY <2>1, <2>2
<1> DEFINE after == CHOOSE f : Is(f, m)
<1>4. Is(after, m)
  <2> HIDE DEF Is, g
  <2> QED BY <1>3
<1>5. whole_blocks(start, input, at, n)
        = chunk_state_fill_buf(after[m], input, at + m * BLOCK_LEN, n - m * BLOCK_LEN)
  BY DEF whole_blocks, Body
<1> DEFINE T == {k \in Nat : k <= m => after[k] = State(k)}
<1> HIDE DEF after
<1>6. 0 \in T
  BY <1>0, <1>1, <1>4
<1>7. ASSUME NEW k \in Nat, k \in T PROVE k + 1 \in T
  <2> SUFFICES ASSUME k + 1 <= m
               PROVE  after[k + 1] = State(k + 1)
    OBVIOUS
  <2>1. after[k + 1] = Body(after[k], k + 1)
    BY <1>1, <1>4
  <2>2. (k + 1) - 1 = k /\ k + 1 \in 1..m
    BY <1>1
  <2> QED BY <1>1, <1>2, <1>7, <2>1, <2>2
<1>8. after[m] = State(m)
  <2>1. Nat \subseteq T
    <3> HIDE DEF T
    <3> QED BY <1>6, <1>7, NatIsLeast
  <2> QED BY <1>1, <2>1
<1>9. at + m * BLOCK_LEN = Place(first, b + m)
  BY <1>1 DEF Place
<1> QED BY <1>5, <1>8, <1>9 DEF start, State

\* What is left of the bytes goes into the buffer.
LEMMA FillBuf ==
  ASSUME NEW input, NEW first \in Nat, NEW key, NEW flags, NEW b \in Nat, NEW r \in 0..BLOCK_LEN,
         NEW n \in Nat, NEW t, t = Min2(BLOCK_LEN - r, n)
  PROVE  chunk_state_fill_buf(StateAt(input, first, b, r, key, flags), input,
                              Place(first, b) + r, n)
           = StateAt(input, first, b, r + t, key, flags)
<1> DEFINE x == StateAt(input, first, b, r, key, flags)
           at == Place(first, b)
           y == chunk_state_fill_buf(x, input, at + r, n)
           cvb == BlockCvs(input, first, key, flags)[b]
           counter == CounterAt(first)
           len == r + t
<1>1. x = [cv |-> cvb, chunk_counter |-> counter, buf |-> Rest(input, at, r), buf_len |-> r,
           blocks_compressed |-> b, flags |-> flags]
  BY DEF StateAt
<1>2. BLOCK_LEN \in Nat /\ at \in Nat
  <2>1. BLOCK_LEN \in Nat
    BY Lengths
  <2>2. b * BLOCK_LEN \in Nat
    BY <2>1
  <2> QED BY <2>1, <2>2 DEF Place
<1>3. StateAt(input, first, b, len, key, flags)
        = [cv |-> cvb, chunk_counter |-> counter, buf |-> Rest(input, at, len),
           buf_len |-> len, blocks_compressed |-> b, flags |-> flags]
  BY DEF StateAt
<1> HIDE DEF x, at, cvb, counter
<1>4. x.buf_len = r /\ x.buf = Rest(input, at, r) /\ take(x, n) = t /\ t \in Nat
  BY <1>1, <1>2 DEF take, Min2
<1>5. [k \in 1..BLOCK_LEN |-> IF k - x.buf_len \in 1..take(x, n)
                              THEN input[at + r + k - x.buf_len] ELSE x.buf[k]]
        = Rest(input, at, len)
  <2>1. ASSUME NEW k \in 1..BLOCK_LEN
        PROVE  (IF k - x.buf_len \in 1..take(x, n) THEN input[at + r + k - x.buf_len]
                ELSE x.buf[k])
                 = IF k <= len THEN input[at + k] ELSE Zero
    <3>1. at + r + k - x.buf_len = at + k
      BY <1>2, <1>4
    <3>2. x.buf[k] = IF k <= r THEN input[at + k] ELSE Zero
      BY <1>4 DEF Rest
    <3>3. k - x.buf_len \in 1..take(x, n) <=> r < k /\ k <= len
      BY <1>2, <1>4
    <3>4. r <= len
      BY <1>4
    <3>5. k \in Int /\ len \in Int
      BY <1>4
    <3> HIDE DEF len
    <3>6. CASE r < k /\ k <= len
      BY <3>1, <3>3, <3>6
    <3>7. CASE k <= r
      BY <3>2, <3>3, <3>4, <3>5, <3>7
    <3>8. CASE len < k
      BY <3>2, <3>3, <3>4, <3>5, <3>8
    <3> QED BY <3>5, <3>6, <3>7, <3>8
  <2> QED BY <2>1 DEF Rest
<1>6. y = [x EXCEPT !.buf = Rest(input, at, len), !.buf_len = len]
  BY <1>4, <1>5 DEF chunk_state_fill_buf
<1> HIDE DEF y, len
<1>7. y = [cv |-> cvb, chunk_counter |-> counter, buf |-> Rest(input, at, len), buf_len |-> len,
           blocks_compressed |-> b, flags |-> flags]
  BY <1>1, <1>6
<1> QED BY <1>3, <1>7 DEF x, at, y, len

\* The loop over n bytes behind b whole blocks.
LEMMA WholeBlocks ==
  ASSUME NEW input, NEW first \in Nat, NEW key, NEW flags, NEW b \in Nat, NEW n \in Nat,
         NEW len, len = b * BLOCK_LEN + n, b = 0 \/ n > 0, len <= CHUNK_LEN
  PROVE  whole_blocks(StateAt(input, first, b, 0, key, flags), input, Place(first, b), n)
           = ChunkState(input, first, len, key, flags)
<1> DEFINE m == blocksBefore(n)
           r == n - m * BLOCK_LEN
           c == b + m
<1>a. /\ BLOCK_LEN \in Nat \ {0} /\ m \in Nat /\ (n = 0 => m = 0)
      /\ n > 0 => m * BLOCK_LEN < n /\ n <= m * BLOCK_LEN + BLOCK_LEN
  BY BlocksBefore, Lengths
<1>b. m = blocksBefore(n)
  OBVIOUS
<1> HIDE DEF m
<1>1. /\ BLOCK_LEN \in Nat \ {0} /\ m \in Nat /\ len \in Nat /\ b * BLOCK_LEN \in Nat
      /\ m * BLOCK_LEN \in Nat /\ c \in Nat /\ c * BLOCK_LEN = b * BLOCK_LEN + m * BLOCK_LEN
  BY <1>a
<1>2. blocksBefore(len) = c
  <2>1. CASE n = 0
    <3>1. len = 0 /\ c = 0
      BY <1>a, <1>1, <2>1
    <3> QED BY <3>1, BlocksBefore
  <2>2. CASE n > 0
    <3>1. c * BLOCK_LEN < len /\ len <= c * BLOCK_LEN + BLOCK_LEN
      BY <1>a, <1>1, <2>2
    <3> HIDE DEF c
    <3> QED BY <1>1, <3>1, BlocksBefore
  <2> QED BY <2>1, <2>2
<1>3. c < BLOCKS
  BY <1>1, <1>2, BlocksBefore
<1>4. len - c * BLOCK_LEN = r /\ r \in 0..BLOCK_LEN
  <2>1. n > 0 \/ n = 0
    OBVIOUS
  <2> HIDE DEF c
  <2> QED BY <1>a, <1>1, <2>1
<1>5. whole_blocks(StateAt(input, first, b, 0, key, flags), input, Place(first, b), n)
        = chunk_state_fill_buf(StateAt(input, first, c, 0, key, flags), input,
                               Place(first, c), r)
  BY <1>b, <1>3, WholeBlocksLoop
<1> HIDE DEF c, r
<1>6. ChunkState(input, first, len, key, flags) = StateAt(input, first, c, r, key, flags)
  BY <1>2, <1>4, ChunkStateIs
<1>7. Place(first, c) + 0 = Place(first, c) /\ r = Min2(BLOCK_LEN - 0, r) /\ 0 + r = r
  <2>1. Place(first, c) \in Nat
    BY <1>1 DEF Place
  <2> QED BY <1>1, <1>4, <2>1 DEF Min2
<1>8. chunk_state_fill_buf(StateAt(input, first, c, 0, key, flags), input,
                           Place(first, c) + 0, r)
        = StateAt(input, first, c, 0 + r, key, flags)
  <2>1. 0 \in 0..BLOCK_LEN /\ r \in Nat
    BY <1>1, <1>4
  <2> QED BY <1>1, <1>7, <2>1, FillBuf
<1> QED BY <1>5, <1>6, <1>7, <1>8

\* However the bytes of a chunk are handed over, the state is that behind all of
\* them.
LEMMA ChunkStateUpdate ==
  ASSUME NEW input, NEW first \in Nat, NEW len \in Nat, NEW n \in Nat, NEW key, NEW flags,
         len + n <= CHUNK_LEN
  PROVE  chunk_state_update(ChunkState(input, first, len, key, flags), input, first + len, n)
           = ChunkState(input, first, len + n, key, flags)
<1> DEFINE m == blocksBefore(len)
           r == len - m * BLOCK_LEN
           all == len + n
<1>1. /\ BLOCK_LEN \in Nat \ {0} /\ CHUNK_LEN \in Nat /\ m \in Nat /\ m = blocksBefore(len)
      /\ len = 0 => m = 0
      /\ len > 0 => m * BLOCK_LEN < len /\ len <= m * BLOCK_LEN + BLOCK_LEN
      /\ m < BLOCKS /\ BLOCKS \in Nat
  <2>1. len <= CHUNK_LEN
    BY Lengths
  <2> QED BY <2>1, BlocksBefore, Lengths
<1> HIDE DEF m
<1>2. m * BLOCK_LEN \in Nat
  BY <1>1
<1>3. ChunkState(input, first, len, key, flags) = StateAt(input, first, m, r, key, flags)
  BY <1>1, ChunkStateIs
<1> DEFINE x == StateAt(input, first, m, r, key, flags)
<1>4. x.buf_len = r
  BY DEF StateAt
<1>5. CASE len = 0
  <2>1. m = 0 /\ r = 0 /\ all = 0 * BLOCK_LEN + n /\ first + len = Place(first, 0) /\ all = n
    BY <1>1, <1>2, <1>5 DEF Place
  <2>2. chunk_state_update(x, input, first + len, n) = whole_blocks(x, input, first + len, n)
    BY <1>4, <2>1 DEF chunk_state_update
  <2> HIDE DEF x
  <2>3. whole_blocks(StateAt(input, first, 0, 0, key, flags), input, Place(first, 0), n)
          = ChunkState(input, first, all, key, flags)
    <3> HIDE DEF all
    <3> QED BY <2>1, WholeBlocks DEF all
  <2> QED BY <1>3, <2>1, <2>2, <2>3 DEF x
<1>6. CASE len > 0
  <2>1. r \in 1..BLOCK_LEN /\ r + m * BLOCK_LEN = len
    BY <1>1, <1>2, <1>6
  <2>2. first + len = Place(first, m) + r
    BY <1>1, <1>2 DEF Place
  <2>3. all - m * BLOCK_LEN = r + n /\ m * BLOCK_LEN < all
    BY <1>1, <1>2, <1>6, <2>1
  <2> DEFINE t == take(x, n)
  <2>4. t = Min2(BLOCK_LEN - r, n)
    BY <1>4 DEF take
  <2> HIDE DEF x, t, r
  <2>5. t \in Nat /\ t <= n /\ r + t <= BLOCK_LEN /\ (t = n \/ r + t = BLOCK_LEN)
    BY <1>1, <2>1, <2>4 DEF Min2
  <2>6. chunk_state_fill_buf(x, input, first + len, n)
          = StateAt(input, first, m, r + t, key, flags)
    <3>1. r \in 0..BLOCK_LEN
      BY <1>1, <2>1
    <3> QED BY <1>1, <2>2, <2>4, <3>1, FillBuf DEF x
  <2>7. CASE t = n
    <3>1. chunk_state_update(x, input, first + len, n) = StateAt(input, first, m, r + n, key, flags)
      BY <1>1, <1>4, <2>1, <2>6, <2>7 DEF chunk_state_update, t
    <3> HIDE DEF all
    <3>2. all <= m * BLOCK_LEN + BLOCK_LEN
      <4>1. all \in Nat /\ r \in Int
        BY <2>1 DEF all
      <4> QED BY <1>1, <1>2, <2>3, <2>5, <2>7, <4>1
    <3>3. blocksBefore(all) = m
      <4>1. all \in Nat
        BY DEF all
      <4> QED BY <1>1, <2>3, <3>2, <4>1, BlocksBefore
    <3>4. ChunkState(input, first, all, key, flags) = StateAt(input, first, m, r + n, key, flags)
      BY <2>3, <3>3, ChunkStateIs
    <3> QED BY <1>3, <3>1, <3>4 DEF x, all
  <2>8. CASE t # n
    <3>1. r + t = BLOCK_LEN /\ n - t \in Nat /\ n - t > 0
      BY <2>5, <2>8
    <3>2. chunk_state_update(x, input, first + len, n)
            = whole_blocks(compressBuf(StateAt(input, first, m, BLOCK_LEN, key, flags)), input,
                           first + len + t, n - t)
      BY <1>1, <1>4, <2>1, <2>6, <2>8, <3>1 DEF chunk_state_update, t
    <3>3. compressBuf(StateAt(input, first, m, BLOCK_LEN, key, flags))
            = StateAt(input, first, m + 1, 0, key, flags)
      <4>1. m \in 0..BLOCKS - 1
        BY <1>1
      <4> QED BY <4>1, BufStateNext
    <3>4. (m + 1) * BLOCK_LEN = m * BLOCK_LEN + BLOCK_LEN
      BY <1>1
    <3>a. r \in Int
      BY <2>1
    <3>b. (m + 1) * BLOCK_LEN = len + t
      BY <1>2, <2>1, <2>5, <3>1, <3>4, <3>a
    <3>5. first + len + t = Place(first, m + 1)
      BY <2>5, <3>b DEF Place
    <3>6. all = (m + 1) * BLOCK_LEN + (n - t)
      BY <1>1, <1>2, <2>1, <2>5, <3>1, <3>4
    <3> DEFINE next == m + 1
               left == n - t
    <3>7. next \in Nat /\ left \in Nat /\ left > 0 /\ all = next * BLOCK_LEN + left
          /\ all <= CHUNK_LEN
      BY <1>1, <3>1, <3>6
    <3> HIDE DEF next, left, all
    <3>8. whole_blocks(StateAt(input, first, next, 0, key, flags), input, Place(first, next), left)
            = ChunkState(input, first, all, key, flags)
      BY <3>7, WholeBlocks
    <3> QED BY <1>3, <3>2, <3>3, <3>5, <3>8 DEF x, next, left, all
  <2> QED BY <2>7, <2>8
<1> QED BY <1>5, <1>6
------------------------------------------------------------------------------
(* What divides what.                                                      *)

Divides(p, x) == \E m \in Nat : x = m * p

LEMMA DividesSum ==
  ASSUME NEW p \in Nat, NEW x \in Nat, NEW y \in Nat
  PROVE  /\ Divides(p, 0) /\ Divides(p, p)
         /\ Divides(p, x) /\ Divides(p, y) => Divides(p, x + y)
<1>1. Divides(p, 0)
  <2>1. 0 = 0 * p
    OBVIOUS
  <2> QED BY <2>1 DEF Divides
<1>2. Divides(p, p)
  <2>1. p = 1 * p
    OBVIOUS
  <2> QED BY <2>1 DEF Divides
<1>3. ASSUME Divides(p, x), Divides(p, y) PROVE Divides(p, x + y)
  <2>1. PICK m \in Nat, n \in Nat : x = m * p /\ y = n * p
    BY <1>3 DEF Divides
  <2>2. x + y = (m + n) * p /\ m + n \in Nat
    BY <2>1
  <2> QED BY <2>2 DEF Divides
<1> QED BY <1>1, <1>2, <1>3

\* What a power of two divides the lower ones divide, and it is not above it.
LEMMA DividesLower ==
  ASSUME NEW p \in Pow, NEW q \in Pow, p <= q, NEW x \in Nat, Divides(q, x)
  PROVE  Divides(p, x) /\ (p # q => Divides(2 * p, x)) /\ (x # 0 => q <= x)
<1>1. p \in Nat \ {0} /\ q \in Nat \ {0}
  BY PowType
<1>2. PICK m \in Nat : x = m * q
  BY DEF Divides
<1>3. x # 0 => q <= x
  BY <1>1, <1>2
<1>4. CASE p = q
  BY <1>3, <1>4
<1>5. CASE p # q
  <2>1. PICK n \in Nat : q = n * (2 * p)
    BY <1>1, <1>5, PowOrder
  <2>2. x = (m * n) * (2 * p) /\ m * n \in Nat
    BY <1>1, <1>2, <2>1
  <2>3. (m * n) * (2 * p) = (2 * (m * n)) * p /\ 2 * (m * n) \in Nat
    BY <1>1, <2>2
  <2>4. Divides(2 * p, x) /\ Divides(p, x)
    BY <2>2, <2>3 DEF Divides
  <2> QED BY <1>3, <1>5, <2>4
<1> QED BY <1>4, <1>5

\* The lowest 1-bit is the greatest power of two that divides.
LEMMA DividesOdd ==
  ASSUME NEW p \in Pow, NEW x \in Nat, Divides(2 * p, x)
  PROVE  /\ ~ Divides(2 * p, x + p)
         /\ \A q \in Pow : Divides(q, x + p) => q <= p
<1>1. p \in Nat \ {0} /\ 2 * p \in Pow
  BY PowType
<1>2. PICK m \in Nat : x = m * (2 * p)
  BY DEF Divides
<1>3. ~ Divides(2 * p, x + p)
  <2> SUFFICES ASSUME NEW n \in Nat, x + p = n * (2 * p) PROVE FALSE
    BY DEF Divides
  <2>1. (2 * m + 1) * p = (2 * n) * p
    BY <1>1, <1>2
  <2>2. 2 * m + 1 = 2 * n
    BY <1>1, <2>1
  <2> QED BY <2>2
<1>4. ASSUME NEW q \in Pow, Divides(q, x + p) PROVE q <= p
  <2> SUFFICES ASSUME p < q PROVE FALSE
    BY <1>1, PowType
  <2>1. p <= q /\ p # q /\ x + p \in Nat
    BY <1>1, PowType
  <2> QED BY <1>3, <1>4, <2>1, DividesLower
<1> QED BY <1>3, <1>4

LEMMA PopcntDivides ==
  ASSUME NEW p \in Pow, NEW x \in Nat
  PROVE  /\ Divides(2 * p, x) => popcnt[x + p] = popcnt[x] + 1
         /\ Divides(p, x) => popcnt[x + p] <= popcnt[x] + 1
<1>1. p \in Nat
  BY PowType
<1>2. ASSUME Divides(2 * p, x) PROVE popcnt[x + p] = popcnt[x] + 1
  <2>1. PICK m \in Nat : x = m * (2 * p)
    BY <1>2 DEF Divides
  <2>2. popcnt[m * (2 * p) + p] = popcnt[m] + 1 /\ popcnt[m * (2 * p)] = popcnt[m]
    BY PopcntAdd, PopcntShift, PowType
  <2> QED BY <2>1, <2>2
<1>3. ASSUME Divides(p, x) PROVE popcnt[x + p] <= popcnt[x] + 1
  <2>1. PICK m \in Nat : x = m * p
    BY <1>3 DEF Divides
  <2>2. x + p = (m + 1) * p /\ m + 1 \in Nat
    BY <1>1, <2>1
  <2>3. popcnt[m * p] = popcnt[m] /\ popcnt[(m + 1) * p] = popcnt[m + 1]
    BY <2>2, PopcntShift
  <2> QED BY <2>1, <2>2, <2>3, PopcntNext
<1> QED BY <1>2, <1>3

------------------------------------------------------------------------------
(* The stack.                                                              *)

\* The values of the stack are those of the chunks between these bounds: each
\* subtree is a power of two of chunks, twice as many of which divide those
\* before it, but for the last, which may be the second of a pair.
Bounds(b, n, c) ==
  /\ n \in Nat /\ b \in [0..n -> Nat] /\ b[0] = 0 /\ b[n] = c
  /\ \A i \in 1..n : b[i] - b[i - 1] \in Pow
  /\ \A i \in 1..n - 1 : Divides(2 * (b[i] - b[i - 1]), b[i - 1])
  /\ n # 0 => Divides(b[n] - b[n - 1], b[n - 1])

\* Nothing is left to be merged.
Settled(b, n) == n # 0 => Divides(2 * (b[n] - b[n - 1]), b[n - 1])

\* Each subtree but the last is a 1-bit of their number.
LEMMA BoundsPopcnt ==
  ASSUME NEW b, NEW n, NEW c, Bounds(b, n, c)
  PROVE  /\ \A i \in 0..n - 1 : popcnt[b[i]] = i
         /\ Settled(b, n) => popcnt[c] = n
<1>1. n \in Nat /\ b \in [0..n -> Nat] /\ b[0] = 0 /\ b[n] = c
  BY DEF Bounds
<1> DEFINE T == {i \in Nat : i < n \/ (i = n /\ Settled(b, n)) => popcnt[b[i]] = i}
<1>2. 0 \in T
  BY <1>1, Popcnt
<1>3. ASSUME NEW i \in Nat, i \in T PROVE i + 1 \in T
  <2> SUFFICES ASSUME i + 1 < n \/ (i + 1 = n /\ Settled(b, n)) PROVE popcnt[b[i + 1]] = i + 1
    OBVIOUS
  <2> DEFINE p == b[i + 1] - b[i]
  <2>1. i + 1 \in 1..n /\ (i + 1) - 1 = i /\ i \in 0..n /\ i < n
    BY <1>1
  <2>2. p \in Pow /\ b[i] \in Nat /\ b[i + 1] \in Nat
    BY <1>1, <2>1 DEF Bounds
  <2>3. Divides(2 * p, b[i])
    <3>1. CASE i + 1 < n
      <4>1. i + 1 \in 1..n - 1
        BY <1>1, <3>1
      <4> QED BY <2>1, <4>1 DEF Bounds
    <3>2. CASE i + 1 = n /\ Settled(b, n)
      BY <2>1, <3>2 DEF Settled
    <3> QED BY <3>1, <3>2
  <2>4. popcnt[b[i]] = i
    BY <1>3, <2>1
  <2>5. b[i + 1] = b[i] + p
    BY <2>2
  <2> HIDE DEF p
  <2>6. popcnt[b[i] + p] = popcnt[b[i]] + 1
    BY <2>2, <2>3, PopcntDivides
  <2> QED BY <2>4, <2>5, <2>6
<1>4. Nat \subseteq T
  <2> HIDE DEF T
  <2> QED BY <1>2, <1>3, NatIsLeast
<1>5. ASSUME NEW i \in 0..n - 1 PROVE popcnt[b[i]] = i
  <2>1. i \in Nat /\ i < n
    BY <1>1
  <2>2. i \in T
    <3> HIDE DEF T
    <3> QED BY <1>4, <2>1
  <2> QED BY <1>1, <2>1, <2>2
<1>6. Settled(b, n) => popcnt[c] = n
  BY <1>1, <1>4
<1> QED BY <1>5, <1>6

\* If the last subtree is the second of a pair, the one before it is the first,
\* and there are more values than 1-bits.
LEMMA NotSettled ==
  ASSUME NEW b, NEW n, NEW c, Bounds(b, n, c), ~ Settled(b, n)
  PROVE  /\ n >= 2 /\ b[n] - b[n - 1] = b[n - 1] - b[n - 2]
         /\ Divides(2 * (b[n] - b[n - 1]), b[n - 2])
         /\ popcnt[c] < n
<1> DEFINE p == b[n] - b[n - 1]
           q == b[n - 1] - b[n - 2]
           x == b[n - 2]
<1>1. n \in Nat /\ b \in [0..n -> Nat] /\ b[0] = 0 /\ b[n] = c
  BY DEF Bounds
<1>2. n # 0 /\ ~ Divides(2 * p, b[n - 1]) /\ Divides(p, b[n - 1])
  BY DEF Bounds, Settled
<1>3. p \in Pow /\ b[n - 1] \in Nat
  BY <1>1, <1>2 DEF Bounds
<1>4. n >= 2
  <2> SUFFICES ASSUME n = 1 PROVE FALSE
    BY <1>1, <1>2
  <2>1. b[n - 1] = 0
    BY <1>1
  <2>2. 2 * p \in Nat
    <3> HIDE DEF p
    <3> QED BY <1>3, PowType
  <2> HIDE DEF p
  <2> QED BY <1>2, <2>1, <2>2, DividesSum
<1>5. q \in Pow /\ x \in Nat /\ b[n - 1] = x + q /\ Divides(2 * q, x)
  <2>1. n - 1 \in 1..n /\ n - 1 \in 1..n - 1 /\ (n - 1) - 1 = n - 2 /\ n - 2 \in 0..n
    BY <1>1, <1>4
  <2>2. b[n - 1] - b[(n - 1) - 1] \in Pow /\ Divides(2 * (b[n - 1] - b[(n - 1) - 1]), b[(n - 1) - 1])
    BY <2>1 DEF Bounds
  <2>3. x \in Nat /\ b[n - 1] \in Nat
    BY <1>1, <2>1
  <2> QED BY <2>1, <2>2, <2>3
<1>6. popcnt[x] = n - 2
  <2>1. n - 2 \in 0..n - 1
    BY <1>1, <1>4
  <2> QED BY <2>1, BoundsPopcnt
<1>7. c = b[n - 1] + p
  BY <1>1, <1>3
<1> HIDE DEF p, q, x
<1>8. p \in Nat /\ q \in Nat /\ 2 * p \in Pow /\ 2 * q \in Pow
  BY <1>3, <1>5, PowType
<1>9. p <= q
  BY <1>2, <1>3, <1>5, DividesOdd
<1>10. p = q
  <2> SUFFICES ASSUME p # q PROVE FALSE
    OBVIOUS
  <2>1. Divides(2 * p, q)
    BY <1>3, <1>5, <1>8, <1>9, DividesLower, DividesSum
  <2>2. q <= 2 * q /\ Divides(q, x)
    BY <1>5, <1>8, DividesLower
  <2>3. Divides(2 * p, x)
    BY <1>3, <1>5, <1>9, <2>2, DividesLower
  <2> QED BY <1>2, <1>5, <1>8, <2>1, <2>3, DividesSum
<1>11. popcnt[c] < n
  <2> DEFINE d == 2 * q
  <2>1. c = x + d
    BY <1>5, <1>7, <1>8, <1>10
  <2>2. d \in Pow /\ Divides(d, x)
    BY <1>5, <1>8
  <2> HIDE DEF d
  <2>3. popcnt[x + d] <= popcnt[x] + 1
    BY <1>5, <2>2, PopcntDivides
  <2>4. popcnt[x + d] \in Nat
    <3>1. x \in Nat /\ d \in Nat
      BY <1>5, <2>2, PowType
    <3> QED BY <3>1, Popcnt
  <2> QED BY <1>1, <1>6, <2>1, <2>3, <2>4
<1> QED BY <1>4, <1>5, <1>10, <1>11 DEF p, q, x

\* So the code counts right: there is something to be merged if and only if there
\* are more values than 1-bits.
LEMMA WhenToMerge ==
  ASSUME NEW b, NEW n, NEW c, Bounds(b, n, c)
  PROVE  /\ popcnt[c] <= n /\ popcnt[c] \in Nat /\ n \in Nat /\ c \in Nat
         /\ popcnt[c] < n <=> ~ Settled(b, n)
<1>1. n \in Nat /\ c \in Nat
  BY DEF Bounds
<1>2. popcnt[c] \in Nat
  BY <1>1, Popcnt
<1>3. Settled(b, n) => popcnt[c] = n
  BY BoundsPopcnt
<1>4. ~ Settled(b, n) => popcnt[c] < n
  BY NotSettled
<1> QED BY <1>1, <1>2, <1>3, <1>4

\* The bounds when the last two subtrees are merged, and when one is pushed.
MergedBounds(b, n) == [i \in 0..n - 1 |-> IF i = n - 1 THEN b[n] ELSE b[i]]
PushedBounds(b, n, p) == [i \in 0..n + 1 |-> IF i = n + 1 THEN b[n] + p ELSE b[i]]

LEMMA BoundsMerge ==
  ASSUME NEW b, NEW n, NEW c, Bounds(b, n, c), ~ Settled(b, n)
  PROVE  Bounds(MergedBounds(b, n), n - 1, c)
<1> DEFINE d == MergedBounds(b, n)
           p == b[n] - b[n - 1]
           x == b[n - 2]
<1>1. n \in Nat /\ b \in [0..n -> Nat] /\ b[0] = 0 /\ b[n] = c
  BY DEF Bounds
<1>2. n >= 2 /\ p = b[n - 1] - x /\ Divides(2 * p, x)
  BY NotSettled
<1>3. /\ n - 1 \in Nat /\ n - 1 # 0 /\ (n - 1) - 1 = n - 2 /\ n - 2 \in 0..n /\ n - 1 \in 0..n
      /\ n - 1 \in 1..n /\ n \in 1..n
  BY <1>1, <1>2
<1>4. d[n - 1] = c /\ \A i \in 0..n - 2 : d[i] = b[i]
  BY <1>1, <1>2 DEF MergedBounds
<1>5. d \in [0..n - 1 -> Nat] /\ d[0] = 0
  <2>1. \A i \in 0..n - 1 : i \in 0..n /\ b[i] \in Nat
    BY <1>1
  <2>2. c \in Nat /\ 0 \in 0..n - 2
    BY <1>1, <1>2
  <2> QED BY <1>1, <1>4, <2>1, <2>2 DEF MergedBounds
<1>6. d[n - 1] - d[n - 2] \in Pow /\ Divides(d[n - 1] - d[n - 2], d[n - 2])
  <2>1. p \in Pow /\ x \in Nat /\ b[n - 1] \in Nat /\ c \in Nat
    BY <1>1, <1>3 DEF Bounds
  <2>2. p \in Nat
    BY <2>1, PowType
  <2>3. d[n - 1] - d[n - 2] = 2 * p /\ d[n - 2] = x
    <3>1. d[n - 1] = c /\ d[n - 2] = x
      BY <1>2, <1>3, <1>4
    <3>2. p = c - b[n - 1] /\ p = b[n - 1] - x
      BY <1>1, <1>2
    <3> DEFINE y == b[n - 1]
    <3>3. p = c - y /\ p = y - x /\ x \in Nat /\ y \in Nat /\ c \in Nat /\ p \in Nat
      BY <2>1, <2>2, <3>2
    <3> HIDE DEF y, p, x
    <3>4. c - x = 2 * p
      BY <3>3
    <3> HIDE DEF d
    <3> QED BY <3>1, <3>4
  <2> HIDE DEF p, x, d
  <2> QED BY <1>2, <2>1, <2>3, PowType
<1>7. ASSUME NEW i \in 1..n - 1 PROVE d[i] - d[i - 1] \in Pow
  <2>1. CASE i = n - 1
    BY <1>3, <1>6, <2>1
  <2>2. CASE i # n - 1
    <3>1. i \in 1..n /\ d[i] = b[i] /\ d[i - 1] = b[i - 1]
      BY <1>1, <1>4, <2>2
    <3>2. b[i] - b[i - 1] \in Pow
      BY <3>1 DEF Bounds
    <3> QED BY <3>1, <3>2
  <2> QED BY <2>1, <2>2
<1>8. ASSUME NEW i \in 1..(n - 1) - 1 PROVE Divides(2 * (d[i] - d[i - 1]), d[i - 1])
  <2>1. i \in 1..n - 1 /\ d[i] = b[i] /\ d[i - 1] = b[i - 1]
    BY <1>1, <1>4
  <2>2. Divides(2 * (b[i] - b[i - 1]), b[i - 1])
    BY <2>1 DEF Bounds
  <2> QED BY <2>1, <2>2
<1> HIDE DEF d
<1> QED BY <1>3, <1>4, <1>5, <1>6, <1>7, <1>8 DEF Bounds, d

LEMMA BoundsPush ==
  ASSUME NEW b, NEW n, NEW c, Bounds(b, n, c), Settled(b, n), NEW p \in Pow, Divides(p, c)
  PROVE  Bounds(PushedBounds(b, n, p), n + 1, c + p)
<1> DEFINE d == PushedBounds(b, n, p)
<1>1. n \in Nat /\ b \in [0..n -> Nat] /\ b[0] = 0 /\ b[n] = c /\ c \in Nat /\ p \in Nat
  BY PowType DEF Bounds
<1>2. d[n + 1] = c + p /\ \A i \in 0..n : d[i] = b[i]
  BY <1>1 DEF PushedBounds
<1>3. d \in [0..n + 1 -> Nat] /\ d[0] = 0
  <2>1. \A i \in 0..n + 1 : i # n + 1 => b[i] \in Nat
    BY <1>1
  <2> QED BY <1>1, <1>2, <2>1 DEF PushedBounds
<1> HIDE DEF d
<1>4. ASSUME NEW i \in 1..n + 1 PROVE d[i] - d[i - 1] \in Pow
  <2>1. CASE i = n + 1
    <3>1. d[i] - d[i - 1] = p
      BY <1>1, <1>2, <2>1
    <3> QED BY <3>1
  <2>2. CASE i # n + 1
    <3>1. i \in 1..n /\ d[i] = b[i] /\ d[i - 1] = b[i - 1]
      BY <1>1, <1>2, <2>2
    <3>2. b[i] - b[i - 1] \in Pow
      BY <3>1 DEF Bounds
    <3> QED BY <3>1, <3>2
  <2> QED BY <2>1, <2>2
<1>5. ASSUME NEW i \in 1..(n + 1) - 1 PROVE Divides(2 * (d[i] - d[i - 1]), d[i - 1])
  <2>1. i \in 1..n /\ d[i] = b[i] /\ d[i - 1] = b[i - 1]
    BY <1>1, <1>2
  <2>2. Divides(2 * (b[i] - b[i - 1]), b[i - 1])
    <3>1. CASE i = n
      BY <1>1, <3>1 DEF Settled
    <3>2. CASE i # n
      <4>1. i \in 1..n - 1
        BY <1>1, <2>1, <3>2
      <4> QED BY <4>1 DEF Bounds
    <3> QED BY <3>1, <3>2
  <2> QED BY <2>1, <2>2
<1>6. Divides(d[n + 1] - d[(n + 1) - 1], d[(n + 1) - 1])
  <2>1. d[n + 1] - d[(n + 1) - 1] = p /\ d[(n + 1) - 1] = c
    BY <1>1, <1>2
  <2> QED BY <2>1
<1>7. n + 1 \in Nat /\ n + 1 # 0
  BY <1>1
<1> QED BY <1>2, <1>3, <1>4, <1>5, <1>6, <1>7 DEF Bounds, d
------------------------------------------------------------------------------
(* The tree.                                                               *)

\* The bytes of x chunks.
Chunks(x) == x * CHUNK_LEN

LEMMA ChunksFacts ==
  /\ Chunks(0) = 0 /\ Chunks(1) = CHUNK_LEN
  /\ \A x \in Nat : Chunks(x) \in Nat /\ x <= Chunks(x) /\ CounterAt(Chunks(x)) = x
  /\ \A x, y \in Nat : /\ Chunks(x + y) = Chunks(x) + Chunks(y)
                       /\ x < y => Chunks(x) + CHUNK_LEN <= Chunks(y)
                       /\ x <= y => Chunks(x) <= Chunks(y)
<1>1. CHUNK_LEN \in Nat \ {0}
  BY Lengths
<1>2. Chunks(0) = 0 /\ Chunks(1) = CHUNK_LEN
  BY <1>1 DEF Chunks
<1>3. ASSUME NEW x \in Nat
      PROVE  Chunks(x) \in Nat /\ x <= Chunks(x) /\ CounterAt(Chunks(x)) = x
  BY <1>1, ChunkCounter DEF Chunks, CounterAt
<1>4. ASSUME NEW x \in Nat, NEW y \in Nat PROVE Chunks(x + y) = Chunks(x) + Chunks(y)
  BY <1>1 DEF Chunks
<1>5. ASSUME NEW x \in Nat, NEW y \in Nat, x < y PROVE Chunks(x) + CHUNK_LEN <= Chunks(y)
  <2>1. (x + 1) * CHUNK_LEN <= y * CHUNK_LEN
    BY <1>1, <1>5
  <2>2. (x + 1) * CHUNK_LEN = x * CHUNK_LEN + CHUNK_LEN
    BY <1>1
  <2> QED BY <2>1, <2>2 DEF Chunks
<1>6. ASSUME NEW x \in Nat, NEW y \in Nat, x <= y PROVE Chunks(x) <= Chunks(y)
  <2>1. x = y \/ x < y
    BY <1>6
  <2>2. Chunks(x) \in Nat /\ Chunks(y) \in Nat
    BY <1>3
  <2> QED BY <1>1, <1>5, <2>1, <2>2
<1> QED BY <1>2, <1>3, <1>4, <1>5, <1>6

\* The number of chunks that begin before byte n.
LEMMA ChunksBefore ==
  ASSUME NEW n \in Nat \ {0}
  PROVE  /\ (n - 1) \div CHUNK_LEN \in Nat
         /\ Chunks((n - 1) \div CHUNK_LEN) < n
         /\ n <= Chunks((n - 1) \div CHUNK_LEN) + CHUNK_LEN
<1> DEFINE d == (n - 1) \div CHUNK_LEN
           r == (n - 1) % CHUNK_LEN
<1>1. n - 1 \in Nat /\ CHUNK_LEN \in Nat \ {0}
  BY Lengths
<1>2. d \in Nat /\ r \in 0..CHUNK_LEN - 1 /\ n - 1 = d * CHUNK_LEN + r
  BY <1>1, Division
<1> HIDE DEF d, r
<1>3. d * CHUNK_LEN \in Nat
  BY <1>1, <1>2
<1>4. d \in Nat /\ Chunks(d) < n /\ n <= Chunks(d) + CHUNK_LEN
  BY <1>1, <1>2, <1>3 DEF Chunks
<1> QED BY <1>4 DEF d

\* One power of two only is the number of chunks on the left.
LEMMA LeftUnique ==
  ASSUME NEW p \in Pow, NEW q \in Pow, NEW n \in Nat,
         Chunks(p) < n, n <= Chunks(2 * p), Chunks(q) < n, n <= Chunks(2 * q)
  PROVE  p = q
<1>1. p \in Nat /\ q \in Nat /\ 2 * p \in Nat /\ 2 * q \in Nat
  BY PowType
<1>2. Chunks(p) \in Nat /\ Chunks(q) \in Nat /\ Chunks(2 * p) \in Nat /\ Chunks(2 * q) \in Nat
  BY <1>1, ChunksFacts
<1>3. ~ p < q
  <2> SUFFICES ASSUME p < q PROVE FALSE
    OBVIOUS
  <2>1. 2 * p <= q
    BY PowOrder
  <2>2. Chunks(2 * p) <= Chunks(q)
    BY <1>1, <2>1, ChunksFacts
  <2> QED BY <1>2, <2>2
<1>4. ~ q < p
  <2> SUFFICES ASSUME q < p PROVE FALSE
    OBVIOUS
  <2>1. 2 * q <= p
    BY PowOrder
  <2>2. Chunks(2 * q) <= Chunks(p)
    BY <1>1, <2>1, ChunksFacts
  <2> QED BY <1>2, <2>2
<1> QED BY <1>1, <1>3, <1>4

\* The code finds it,
LEMMA LeftLen ==
  ASSUME NEW n \in Nat, n > CHUNK_LEN
  PROVE  \E p \in Pow : left_len(n) = Chunks(p) /\ Chunks(p) < n /\ n <= Chunks(2 * p)
<1> DEFINE d == (n - 1) \div CHUNK_LEN
           p == round_down_to_power_of_2(d)
<1>1. CHUNK_LEN \in Nat \ {0} /\ n \in Nat \ {0}
  BY Lengths
<1>2. d \in Nat /\ Chunks(d) < n /\ n <= Chunks(d) + CHUNK_LEN
  BY <1>1, ChunksBefore
<1>3. left_len(n) = Chunks(p)
  BY DEF left_len, Chunks
<1> HIDE DEF d
<1>4. d # 0
  BY <1>1, <1>2, ChunksFacts
<1>5. p \in Pow /\ p <= d /\ d < 2 * p
  BY <1>2, <1>4, RoundDown
<1> HIDE DEF p
<1>6. p \in Nat /\ 2 * p \in Nat
  BY <1>5, PowType
<1>7. Chunks(p) <= Chunks(d) /\ Chunks(d) + CHUNK_LEN <= Chunks(2 * p)
  BY <1>2, <1>5, <1>6, ChunksFacts
<1>8. Chunks(p) \in Nat /\ Chunks(d) \in Nat /\ Chunks(2 * p) \in Nat
  BY <1>2, <1>6, ChunksFacts
<1> QED BY <1>1, <1>2, <1>3, <1>5, <1>7, <1>8

\* and it is that of the tree.
LEMMA LeftIs ==
  ASSUME NEW n \in Nat, NEW p \in Pow, Chunks(p) < n, n <= Chunks(2 * p)
  PROVE  n > CHUNK_LEN /\ left_len(n) = Chunks(p) /\ LeftOf(n) = Chunks(p)
<1>1. p \in Nat \ {0} /\ CHUNK_LEN \in Nat \ {0} /\ Chunks(p) \in Nat /\ CHUNK_LEN <= Chunks(p)
  <2>1. p \in Nat \ {0} /\ CHUNK_LEN \in Nat \ {0} /\ 1 <= p
    BY PowType, Lengths
  <2> QED BY <2>1, ChunksFacts
<1>2. n > CHUNK_LEN
  BY <1>1
<1>3. left_len(n) = Chunks(p)
  BY <1>2, LeftLen, LeftUnique
<1> DEFINE Is(k) == pow2[k] * CHUNK_LEN < n /\ n <= pow2[k + 1] * CHUNK_LEN
           k == CHOOSE j \in 0..n : Is(j)
<1>4. \A j \in Nat : Is(j) <=> Chunks(pow2[j]) < n /\ n <= Chunks(2 * pow2[j])
  BY PowersOfTwo DEF Chunks
<1>5. \E j \in 0..n : Is(j)
  <2>1. PICK j \in Nat : p = pow2[j]
    BY DEF Pow
  <2>2. j < p /\ p <= Chunks(p)
    BY <1>1, <2>1, PowersOfTwo, ChunksFacts
  <2>3. Is(j)
    <3> HIDE DEF Is
    <3> QED BY <1>4, <2>1
  <2>4. j \in 0..n
    BY <1>1, <2>1, <2>2
  <2> HIDE DEF Is
  <2> QED BY <2>3, <2>4
<1>6. k \in 0..n /\ Is(k)
  <2> HIDE DEF Is
  <2> QED BY <1>5
<1>7. LeftOf(n) = CHUNK_LEN * pow2[k]
  BY DEF LeftOf
<1> HIDE DEF k, Is
<1>8. k \in Nat /\ pow2[k] \in Nat /\ pow2[k] \in Pow
  BY <1>6, PowersOfTwo DEF Pow
<1>9. pow2[k] = p
  BY <1>4, <1>6, <1>8, LeftUnique
<1>10. CHUNK_LEN * p = Chunks(p)
  BY <1>1 DEF Chunks
<1> QED BY <1>2, <1>3, <1>7, <1>9, <1>10

\* A bound on all that is hashed.
AllLen == MaxLen + ContextLen

\* The recursive function Tree is what its definition says.
TreeNode(input, key, flags, n, first) ==
  parent_output(<<Tree(input, key, flags)[LeftOf(n)][first],
                  Tree(input, key, flags)[n - LeftOf(n)][first + LeftOf(n)]>>, key, flags)

LEMMA TreeDef ==
  ASSUME NEW input, NEW key, NEW flags, NEW n \in 0..AllLen, NEW first \in Nat,
         NEW v, v = Tree(input, key, flags)[n][first]
  PROVE  v = IF n <= CHUNK_LEN THEN ChunkOutput(input, first, n, key, flags)
             ELSE TreeNode(input, key, flags, n, first)
<1> DEFINE Leaf(x) == [from \in Nat |-> ChunkOutput(input, from, x, key, flags)]
           Body(g, x) ==
             [from \in Nat |->
                IF x <= CHUNK_LEN THEN ChunkOutput(input, from, x, key, flags)
                ELSE parent_output(<<g[LeftOf(x)][from], g[x - LeftOf(x)][from + LeftOf(x)]>>,
                                   key, flags)]
           Is(g, z) == g = [x \in 0..z |-> Body(g, x)]
           N == {z \in Nat : \E g : Is(g, z)}
<1>1. \A x \in Nat : x > CHUNK_LEN => LeftOf(x) \in 0..x - 1 /\ x - LeftOf(x) \in 0..x - 1
  <2> SUFFICES ASSUME NEW x \in Nat, x > CHUNK_LEN
               PROVE  LeftOf(x) \in 0..x - 1 /\ x - LeftOf(x) \in 0..x - 1
    OBVIOUS
  <2>1. PICK p \in Pow : Chunks(p) < x /\ x <= Chunks(2 * p)
    BY LeftLen
  <2>2. LeftOf(x) = Chunks(p)
    BY <2>1, LeftIs
  <2>3. p \in Nat /\ 1 <= p
    BY PowType
  <2>4. Chunks(p) \in Nat /\ 1 <= Chunks(p)
    BY <2>3, ChunksFacts
  <2> QED BY <2>1, <2>2, <2>4
<1>2. ASSUME NEW g, NEW h, NEW x \in Nat, \A y \in 0..x - 1 : g[y] = h[y]
      PROVE  Body(g, x) = Body(h, x)
  <2>1. CASE x <= CHUNK_LEN
    BY <2>1
  <2>2. CASE ~ x <= CHUNK_LEN
    <3>1. x > CHUNK_LEN
      BY <2>2, Lengths
    <3>2. g[LeftOf(x)] = h[LeftOf(x)] /\ g[x - LeftOf(x)] = h[x - LeftOf(x)]
      BY <1>1, <1>2, <3>1
    <3> QED BY <3>2
  <2> QED BY <2>1, <2>2
<1> HIDE DEF Body
<1>3. 0 \in N
  <2> DEFINE g0 == [x \in 0..0 |-> Body(<<>>, x)]
  <2>1. g0 = [x \in 0..0 |-> Body(g0, x)]
    <3> HIDE DEF g0
    <3>1. \A x \in 0..0 : Body(g0, x) = Body(<<>>, x)
      BY <1>2
    <3> QED BY <3>1 DEF g0
  <2> HIDE DEF g0
  <2> QED BY <2>1
<1>4. ASSUME NEW z \in Nat, z \in N PROVE z + 1 \in N
  <2>1. PICK g : Is(g, z)
    BY <1>4
  <2> DEFINE h == [x \in 0..z + 1 |-> Body(g, x)]
  <2>2. \A x \in 0..z : h[x] = g[x]
    BY <2>1
  <2>3. \A x \in 0..z + 1 : Body(h, x) = Body(g, x)
    <3> SUFFICES ASSUME NEW x \in 0..z + 1 PROVE Body(h, x) = Body(g, x)
      OBVIOUS
    <3>1. x \in Nat /\ 0..x - 1 \subseteq 0..z
      OBVIOUS
    <3> HIDE DEF h
    <3>2. \A y \in 0..x - 1 : h[y] = g[y]
      BY <2>2, <3>1
    <3> QED BY <1>2, <3>1, <3>2
  <2>4. h = [x \in 0..z + 1 |-> Body(h, x)]
    <3>1. h = [x \in 0..z + 1 |-> Body(g, x)]
      OBVIOUS
    <3> HIDE DEF h
    <3> QED BY <2>3, <3>1
  <2> HIDE DEF h
  <2> QED BY <2>4
<1>5. \E g : Is(g, AllLen)
  <2>1. Nat \subseteq N
    <3> HIDE DEF N
    <3> QED BY <1>3, <1>4, NatIsLeast
  <2>2. AllLen \in Nat
    BY Lengths DEF AllLen
  <2> QED BY <2>1, <2>2
<1> DEFINE t == CHOOSE g : Is(g, AllLen)
<1>6. Is(t, AllLen)
  <2> HIDE DEF Is
  <2> QED BY <1>5
<1>7. t = Tree(input, key, flags)
  BY DEF Tree, Body, AllLen
<1> HIDE DEF t
<1>8. t[n] = Body(t, n)
  BY <1>6
<1>9. t[n][first]
        = IF n <= CHUNK_LEN THEN ChunkOutput(input, first, n, key, flags)
          ELSE parent_output(<<t[LeftOf(n)][first], t[n - LeftOf(n)][first + LeftOf(n)]>>,
                             key, flags)
  BY <1>8 DEF Body
<1>10. v = t[n][first]
  BY <1>7
<1>11. TreeNode(input, key, flags, n, first)
         = parent_output(<<t[LeftOf(n)][first], t[n - LeftOf(n)][first + LeftOf(n)]>>, key, flags)
  BY <1>7 DEF TreeNode
<1> QED BY <1>9, <1>10, <1>11

LEMMA TreeChunk ==
  ASSUME NEW input, NEW key, NEW flags, NEW n \in 0..AllLen, NEW first \in Nat, n <= CHUNK_LEN
  PROVE  Tree(input, key, flags)[n][first] = ChunkOutput(input, first, n, key, flags)
<1> DEFINE v == Tree(input, key, flags)[n][first]
<1>1. n \in 0..AllLen /\ first \in Nat /\ v = Tree(input, key, flags)[n][first]
  OBVIOUS
<1> HIDE DEF v
<1>2. v = IF n <= CHUNK_LEN THEN ChunkOutput(input, first, n, key, flags)
          ELSE TreeNode(input, key, flags, n, first)
  BY ONLY <1>1, TreeDef
<1> QED BY <1>2 DEF v

LEMMA TreeParent ==
  ASSUME NEW input, NEW key, NEW flags, NEW n \in 0..AllLen, NEW first \in Nat,
         NEW p \in Pow, Chunks(p) < n, n <= Chunks(2 * p)
  PROVE  Tree(input, key, flags)[n][first]
           = parent_output(<<Tree(input, key, flags)[Chunks(p)][first],
                             Tree(input, key, flags)[n - Chunks(p)][first + Chunks(p)]>>,
                           key, flags)
<1>1. n \in Nat
  BY DEF AllLen
<1>2. n > CHUNK_LEN /\ LeftOf(n) = Chunks(p)
  BY <1>1, LeftIs
<1>3. ~ n <= CHUNK_LEN
  BY <1>1, <1>2, Lengths
<1> DEFINE v == Tree(input, key, flags)[n][first]
<1>4. n \in 0..AllLen /\ first \in Nat /\ v = Tree(input, key, flags)[n][first]
  OBVIOUS
<1> HIDE DEF v
<1>5. v = IF n <= CHUNK_LEN THEN ChunkOutput(input, first, n, key, flags)
          ELSE TreeNode(input, key, flags, n, first)
  BY ONLY <1>4, TreeDef
<1>6. v = TreeNode(input, key, flags, n, first)
  BY <1>3, <1>5
<1> QED BY <1>2, <1>6 DEF TreeNode, v

------------------------------------------------------------------------------
(* The values on the stack.                                                *)

\* The tree over p chunks behind x chunks.
Node(input, key, flags, p, x) == Tree(input, key, flags)[Chunks(p)][Chunks(x)]
Values(input, key, flags, b, n) ==
  [i \in 1..n |-> Node(input, key, flags, b[i] - b[i - 1], b[i - 1])]
Hasher(key, chunk, stack) == [key |-> key, chunk |-> chunk, cv_stack |-> stack]

\* What is on the stack behind c chunks.
OnStack(input, key, flags, c, stack) ==
  \E b, n : Bounds(b, n, c) /\ stack = Values(input, key, flags, b, n)

LEMMA NodeParent ==
  ASSUME NEW input, NEW key, NEW flags, NEW p \in Pow, NEW x \in Nat, Chunks(x + 2 * p) <= AllLen
  PROVE  Node(input, key, flags, 2 * p, x)
           = parent_output(<<Node(input, key, flags, p, x), Node(input, key, flags, p, x + p)>>,
                           key, flags)
<1> DEFINE n == Chunks(2 * p)
           first == Chunks(x)
           q == 2 * p
<1>1. p \in Nat \ {0} /\ q \in Nat /\ q = p + p /\ p < q
  BY PowType
<1>2. Chunks(x + q) = first + n /\ first \in Nat /\ n \in Nat /\ AllLen \in Nat
  <2>1. AllLen \in Nat
    BY Lengths DEF AllLen
  <2> HIDE DEF q
  <2>2. Chunks(x + q) = Chunks(x) + Chunks(q) /\ Chunks(x) \in Nat /\ Chunks(q) \in Nat
    BY <1>1, ChunksFacts
  <2> QED BY <2>1, <2>2 DEF q
<1>3. n \in 0..AllLen
  BY <1>2
<1>4. Chunks(q) = Chunks(p) + Chunks(p) /\ Chunks(p) \in Nat /\ Chunks(x + p) = first + Chunks(p)
  <2> HIDE DEF q
  <2> QED BY <1>1, ChunksFacts
<1>5. n - Chunks(p) = Chunks(p) /\ Chunks(p) < n /\ n <= Chunks(2 * p)
  <2>1. Chunks(p) + CHUNK_LEN <= Chunks(q) /\ CHUNK_LEN \in Nat \ {0}
    <3> HIDE DEF q
    <3> QED BY <1>1, ChunksFacts, Lengths
  <2> QED BY <1>2, <1>4, <2>1
<1> HIDE DEF n, first
<1>6. Tree(input, key, flags)[n][first]
        = parent_output(<<Tree(input, key, flags)[Chunks(p)][first],
                          Tree(input, key, flags)[n - Chunks(p)][first + Chunks(p)]>>,
                        key, flags)
  BY <1>2, <1>3, <1>5, TreeParent
<1> QED BY <1>4, <1>5, <1>6 DEF Node, n, first

LEMMA MergeTop ==
  ASSUME NEW input, NEW key, NEW flags, NEW b, NEW n, NEW c, Bounds(b, n, c), ~ Settled(b, n),
         Chunks(c) <= AllLen
  PROVE  mergeTop(Values(input, key, flags, b, n), key, flags)
           = Values(input, key, flags, MergedBounds(b, n), n - 1)
<1> DEFINE S == Values(input, key, flags, b, n)
           d == MergedBounds(b, n)
           p == b[n] - b[n - 1]
           x == b[n - 2]
           N(i) == Node(input, key, flags, d[i] - d[i - 1], d[i - 1])
<1>1. n \in Nat /\ b \in [0..n -> Nat] /\ b[0] = 0 /\ b[n] = c
  BY DEF Bounds
<1>2. n >= 2 /\ p = b[n - 1] - x
  BY NotSettled
<1>3. /\ n - 1 \in 1..n /\ n \in 1..n /\ n - 2 \in 0..n /\ (n - 1) - 1 = n - 2
      /\ n - 1 \in 0..n /\ (n - 1) + 1 = n
  BY <1>1, <1>2
<1>4. d[n - 1] = c /\ \A i \in 0..n - 2 : d[i] = b[i]
  BY <1>1, <1>2 DEF MergedBounds
<1>5. p \in Pow /\ x \in Nat /\ b[n - 1] = x + p /\ c = x + 2 * p
  <2>1. p \in Pow /\ x \in Nat /\ b[n - 1] \in Nat /\ c \in Nat
    BY <1>1, <1>3 DEF Bounds
  <2> DEFINE y == b[n - 1]
  <2>2. p = c - y /\ p = y - x /\ x \in Nat /\ y \in Nat /\ c \in Nat
    BY <1>1, <1>2, <2>1
  <2> HIDE DEF y, p, x
  <2>3. y = x + p /\ c = x + 2 * p
    BY <2>2
  <2> QED BY <2>1, <2>3 DEF y
<1>6. Len(S) = n /\ \A i \in 1..n : S[i] = Node(input, key, flags, b[i] - b[i - 1], b[i - 1])
  BY <1>1 DEF Values
<1>7. ASSUME NEW i \in 1..n - 1
      PROVE  (IF i < n - 1 THEN S[i] ELSE parent_output(<<S[i], S[i + 1]>>, key, flags)) = N(i)
  <2>1. CASE i < n - 1
    <3>1. d[i] = b[i] /\ d[i - 1] = b[i - 1] /\ i \in 1..n
      BY <1>1, <1>4, <2>1
    <3> QED BY <1>6, <2>1, <3>1
  <2>2. CASE i = n - 1
    <3>1. S[n - 1] = Node(input, key, flags, b[n - 1] - x, x)
      BY <1>3, <1>6
    <3>2. S[n] = Node(input, key, flags, p, b[n - 1])
      BY <1>3, <1>6
    <3>3. parent_output(<<S[n - 1], S[n]>>, key, flags) = Node(input, key, flags, 2 * p, x)
      <4> HIDE DEF S, p, x
      <4>1. Chunks(x + 2 * p) <= AllLen
        BY <1>5
      <4>2. Node(input, key, flags, 2 * p, x)
              = parent_output(<<Node(input, key, flags, p, x), Node(input, key, flags, p, x + p)>>,
                              key, flags)
        BY <1>5, <4>1, NodeParent
      <4> QED BY <1>2, <1>5, <3>1, <3>2, <4>2
    <3>4. d[n - 1] - d[(n - 1) - 1] = 2 * p /\ d[(n - 1) - 1] = x
      <4>1. d[(n - 1) - 1] = x
        BY <1>1, <1>2, <1>3, <1>4
      <4> HIDE DEF p, x, d
      <4>2. p \in Nat
        BY <1>5, PowType
      <4> QED BY <1>4, <1>5, <4>1, <4>2
    <3>5. N(n - 1) = Node(input, key, flags, 2 * p, x)
      BY <3>4
    <3>6. ~ i < n - 1 /\ i + 1 = n
      BY <1>1, <2>2
    <3> HIDE DEF N, S, p, x
    <3> QED BY <2>2, <3>3, <3>5, <3>6
  <2> QED BY <1>1, <2>1, <2>2
<1>8. mergeTop(S, key, flags)
        = [i \in 1..n - 1 |-> IF i < n - 1 THEN S[i]
                              ELSE parent_output(<<S[i], S[i + 1]>>, key, flags)]
  <2> HIDE DEF S
  <2> QED BY <1>6 DEF mergeTop
<1> HIDE DEF N, S
<1>9. mergeTop(S, key, flags) = [i \in 1..n - 1 |-> N(i)]
  BY <1>7, <1>8
<1> QED BY <1>9 DEF Values, N, S

\* After merging there is one value for each 1-bit.
LEMMA MergeStack ==
  ASSUME NEW input, NEW key, NEW flags, NEW c \in Nat, NEW stack, NEW chunk,
         chunk.flags = flags, Chunks(c) <= AllLen, OnStack(input, key, flags, c, stack)
  PROVE  \E b : /\ hasher_merge_cv_stack(Hasher(key, chunk, stack), c)
                     = Hasher(key, chunk, Values(input, key, flags, b, popcnt[c]))
                /\ Bounds(b, popcnt[c], c) /\ Settled(b, popcnt[c])
<1>1. PICK b, n : Bounds(b, n, c) /\ stack = Values(input, key, flags, b, n)
  BY DEF OnStack
<1> DEFINE V(d, m) == Values(input, key, flags, d, m)
           pop == popcnt[c]
           self == Hasher(key, chunk, stack)
           Is(g, z) == g = [k \in 0..z |-> IF k = 0 THEN self.cv_stack
                                           ELSE mergeTop(g[k - 1], self.key, self.chunk.flags)]
           N == {z \in Nat : \E g : Is(g, z)}
<1>2. pop \in Nat /\ n \in Nat /\ pop <= n
  BY <1>1, WhenToMerge
<1>0. self = [key |-> key, chunk |-> chunk, cv_stack |-> stack]
  BY DEF Hasher
<1>a. self.key = key /\ self.chunk.flags = flags /\ self.cv_stack = stack
  BY <1>0
<1> HIDE DEF self
<1>3. 0 \in N
  <2>1. Is([k \in 0..0 |-> self.cv_stack], 0)
    OBVIOUS
  <2> QED BY <2>1
<1>4. ASSUME NEW z \in Nat, z \in N PROVE z + 1 \in N
  <2>1. PICK g : Is(g, z)
    BY <1>4
  <2> DEFINE h == [k \in 0..z + 1 |-> IF k = 0 THEN self.cv_stack
                                   ELSE mergeTop(g[k - 1], self.key, self.chunk.flags)]
  <2>2. \A k \in 0..z : h[k] = g[k]
    BY <2>1
  <2>3. \A k \in 0..z + 1 : h[k] = IF k = 0 THEN self.cv_stack
                                        ELSE mergeTop(h[k - 1], self.key, self.chunk.flags)
    <3> SUFFICES ASSUME NEW k \in 0..z + 1, k # 0 
                 PROVE  h[k] = mergeTop(h[k - 1], self.key, self.chunk.flags)
      OBVIOUS
    <3>1. k - 1 \in 0..z
      OBVIOUS
    <3> QED BY <2>2, <3>1
  <2>4. h = [k \in 0..z + 1 |-> h[k]]
    OBVIOUS
  <2>5. Is(h, z + 1)
    <3> HIDE DEF h
    <3> QED BY <2>3, <2>4
  <2> HIDE DEF h, Is
  <2> QED BY <2>5
<1>5. \E g : Is(g, n)
  <2>1. Nat \subseteq N
    <3> HIDE DEF N
    <3> QED BY <1>3, <1>4, NatIsLeast
  <2> QED BY <1>2, <2>1
<1>7. Len(self.cv_stack) = n
  BY <1>1, <1>2, <1>a DEF Values
<1> DEFINE after == CHOOSE g : Is(g, Len(self.cv_stack))
<1>6. Is(after, n)
  <2> HIDE DEF Is
  <2> QED BY <1>5, <1>7
<1>8. hasher_merge_cv_stack(self, c)
        = IF n > pop THEN Hasher(key, chunk, after[n - pop]) ELSE self
  <2> DEFINE merged == [self EXCEPT !.cv_stack = after[Len(self.cv_stack) - pop]]
  <2>1. hasher_merge_cv_stack(self, c) = IF Len(self.cv_stack) > pop THEN merged ELSE self
    BY DEF hasher_merge_cv_stack
  <2> HIDE DEF after, pop
  <2>2. merged = Hasher(key, chunk, after[n - pop])
    BY <1>0, <1>7 DEF Hasher
  <2> HIDE DEF merged
  <2> QED BY <1>7, <2>1, <2>2
<1> HIDE DEF after
<1> DEFINE T == {k \in Nat : k <= n - pop =>
                   \E d : Bounds(d, n - k, c) /\ after[k] = V(d, n - k)}
<1>9. 0 \in T
  <2>1. after[0] = stack /\ n - 0 = n
    BY <1>2, <1>6, <1>a
  <2> HIDE DEF V
  <2>2. stack = V(b, n)
    BY <1>1 DEF V
  <2> QED BY <1>1, <2>1, <2>2
<1>10. ASSUME NEW k \in Nat, k \in T PROVE k + 1 \in T
  <2> SUFFICES ASSUME k + 1 <= n - pop
               PROVE  \E d : Bounds(d, n - (k + 1), c) /\ after[k + 1] = V(d, n - (k + 1))
    OBVIOUS
  <2>1. PICK d : Bounds(d, n - k, c) /\ after[k] = V(d, n - k)
    BY <1>2, <1>10
  <2>2. ~ Settled(d, n - k)
    <3>1. pop < n - k
      BY <1>2
    <3> QED BY <2>1, <3>1, WhenToMerge
  <2>3. after[k + 1] = mergeTop(after[k], key, flags)
    BY <1>2, <1>6, <1>a
  <2> DEFINE e == MergedBounds(d, n - k)
             m == n - k
  <2>4. mergeTop(V(d, m), key, flags) = V(e, m - 1)
    BY <2>1, <2>2, MergeTop
  <2>5. Bounds(e, m - 1, c)
    BY <2>1, <2>2, BoundsMerge
  <2>6. m - 1 = n - (k + 1)
    BY <1>2
  <2> HIDE DEF V, e
  <2> QED BY <2>1, <2>3, <2>4, <2>5, <2>6
<1>11. PICK d : Bounds(d, pop, c) /\ after[n - pop] = V(d, pop)
  <2>1. Nat \subseteq T
    <3> HIDE DEF T
    <3> QED BY <1>9, <1>10, NatIsLeast
  <2>2. n - pop \in Nat /\ n - (n - pop) = pop
    BY <1>2
  <2>3. n - pop \in T
    <3> HIDE DEF T
    <3> QED BY <2>1, <2>2
  <2> HIDE DEF V, pop
  <2>4. n - pop <= n - pop
    BY <2>2
  <2>5. \E d : Bounds(d, n - (n - pop), c) /\ after[n - pop] = V(d, n - (n - pop))
    BY <2>3, <2>4
  <2> QED BY <2>2, <2>5
<1>12. Settled(d, pop)
  <2> HIDE DEF pop
  <2>1. ~ popcnt[c] < pop
    BY <1>2 DEF pop
  <2> QED BY <1>11, <2>1, WhenToMerge
<1>13. n > pop \/ (n = pop /\ after[n - pop] = stack)
  <2>1. after[0] = stack
    BY <1>2, <1>6, <1>a
  <2>2. n = pop => n - pop = 0
    BY <1>2
  <2> HIDE DEF pop
  <2> QED BY <1>2, <2>1, <2>2
<1>14. hasher_merge_cv_stack(Hasher(key, chunk, stack), c) = Hasher(key, chunk, V(d, pop))
  <2> HIDE DEF V, pop
  <2> QED BY <1>2, <1>8, <1>11, <1>13 DEF self
<1> QED BY <1>11, <1>12, <1>14

\* Pushing a subtree of p chunks.
LEMMA PushStack ==
  ASSUME NEW input, NEW key, NEW flags, NEW c \in Nat, NEW stack, NEW chunk,
         chunk.flags = flags, OnStack(input, key, flags, c, stack),
         NEW p \in Pow, Divides(p, c), Chunks(c) <= AllLen
  PROVE  \E s : /\ hasher_push_cv(Hasher(key, chunk, stack), Node(input, key, flags, p, c), c)
                     = Hasher(key, chunk, s)
                /\ OnStack(input, key, flags, c + p, s)
                /\ Len(s) = popcnt[c] + 1
<1> DEFINE cv == Node(input, key, flags, p, c)
           n == popcnt[c]
           V(d, m) == Values(input, key, flags, d, m)
<1>1. PICK b : /\ hasher_merge_cv_stack(Hasher(key, chunk, stack), c) = Hasher(key, chunk, V(b, n))
               /\ Bounds(b, n, c) /\ Settled(b, n)
  BY MergeStack
<1> DEFINE d == PushedBounds(b, n, p)
           s == Append(V(b, n), cv)
           N(i) == Node(input, key, flags, d[i] - d[i - 1], d[i - 1])
<1>2. n \in Nat /\ p \in Nat
  BY Popcnt, PowType
<1>3. Bounds(d, n + 1, c + p)
  <2> HIDE DEF n
  <2> QED BY <1>1, BoundsPush
<1>4. b \in [0..n -> Nat] /\ b[n] = c
  BY <1>1 DEF Bounds
<1>5. s = V(d, n + 1)
  <2> HIDE DEF n, cv
  <2>1. d[n + 1] = c + p /\ \A i \in 0..n : d[i] = b[i]
    BY <1>2, <1>4 DEF PushedBounds
  <2>2. s = [i \in 1..n + 1 |-> IF i = n + 1 THEN cv ELSE Node(input, key, flags, b[i] - b[i - 1], b[i - 1])]
    BY <1>2 DEF Values
  <2>3. ASSUME NEW i \in 1..n + 1
        PROVE  (IF i = n + 1 THEN cv ELSE Node(input, key, flags, b[i] - b[i - 1], b[i - 1])) = N(i)
    <3> HIDE DEF d
    <3>1. CASE i = n + 1
      <4>1. d[i] - d[i - 1] = p /\ d[i - 1] = c
        <5>1. i - 1 = n /\ n \in 0..n
          BY <1>2, <3>1
        <5>2. d[i - 1] = c /\ d[i] = c + p
          BY <1>4, <2>1, <3>1, <5>1
        <5> QED BY <1>2, <5>2
      <4> QED BY <3>1, <4>1 DEF cv
    <3>2. CASE i # n + 1
      <4>1. i \in 0..n /\ i - 1 \in 0..n
        BY <1>2, <3>2
      <4>2. d[i] = b[i] /\ d[i - 1] = b[i - 1]
        BY <2>1, <4>1
      <4> QED BY <3>2, <4>2
    <3> QED BY <3>1, <3>2
  <2> HIDE DEF N, s
  <2>4. s = [i \in 1..n + 1 |-> N(i)]
    BY <2>2, <2>3
  <2> QED BY <2>4 DEF Values, N
<1>6. Len(s) = n + 1
  BY <1>2, <1>5 DEF Values
<1>7. hasher_push_cv(Hasher(key, chunk, stack), cv, c) = Hasher(key, chunk, s)
  <2> HIDE DEF n, cv
  <2> DEFINE merged == hasher_merge_cv_stack(Hasher(key, chunk, stack), c)
             v == V(b, n)
  <2>1. merged = Hasher(key, chunk, v)
    BY <1>1
  <2>2. hasher_push_cv(Hasher(key, chunk, stack), cv, c) = [merged EXCEPT !.cv_stack = Append(@, cv)]
    BY DEF hasher_push_cv
  <2> HIDE DEF merged, v, V
  <2>3. merged = [key |-> key, chunk |-> chunk, cv_stack |-> v]
    BY <2>1 DEF Hasher
  <2>4. [merged EXCEPT !.cv_stack = Append(@, cv)]
          = [key |-> key, chunk |-> chunk, cv_stack |-> Append(v, cv)]
    <3> DEFINE w == Append(v, cv)
    <3>1. Append(merged.cv_stack, cv) = w
      BY <2>3
    <3> HIDE DEF w
    <3>2. [merged EXCEPT !.cv_stack = w] = [key |-> key, chunk |-> chunk, cv_stack |-> w]
      BY ONLY <2>3
    <3>3. [merged EXCEPT !.cv_stack = Append(@, cv)] = [merged EXCEPT !.cv_stack = w]
      BY <3>1
    <3> QED BY <3>2, <3>3 DEF w
  <2> QED BY <2>2, <2>4 DEF Hasher, v
<1>8. OnStack(input, key, flags, c + p, s)
  BY <1>3, <1>5 DEF OnStack
<1> HIDE DEF s
<1> QED BY <1>6, <1>7, <1>8
------------------------------------------------------------------------------
(* Rows of chaining values, and what they come to when pairs of them give  *)
(* way to their parents until one is left.                                 *)

Row(X) == \E n \in Nat : DOMAIN X = 1..n /\ X = [i \in 1..n |-> X[i]]

LEMMA RowLen ==
  ASSUME NEW X, Row(X)
  PROVE  Len(X) \in Nat /\ X = [i \in 1..Len(X) |-> X[i]]
<1>1. PICK n \in Nat : X = [i \in 1..n |-> X[i]]
  BY DEF Row
<1>2. Len([i \in 1..n |-> X[i]]) = n
  OBVIOUS
<1>3. Len(X) = n
  BY <1>1, <1>2
<1> QED BY <1>1, <1>3

LEMMA RowIs ==
  ASSUME NEW X, NEW n \in Nat, X = [i \in 1..n |-> X[i]]
  PROVE  Row(X) /\ Len(X) = n
<1>1. DOMAIN X = 1..n
  OBVIOUS
<1>2. Len([i \in 1..n |-> X[i]]) = n
  OBVIOUS
<1>3. Len(X) = n
  BY <1>2
<1> QED BY <1>1, <1>3 DEF Row

\* One row behind another.
LEMMA RowConcat ==
  ASSUME NEW X, NEW Y, Row(X), Row(Y)
  PROVE  /\ Row(X \o Y) /\ Len(X \o Y) = Len(X) + Len(Y)
         /\ X \o Y = [i \in 1..Len(X) + Len(Y) |-> IF i <= Len(X) THEN X[i] ELSE Y[i - Len(X)]]
<1> DEFINE m == Len(X)
           n == Len(Y)
           U == {X[i] : i \in 1..m} \cup {Y[i] : i \in 1..n}
           Z == X \o Y
<1>1. m \in Nat /\ n \in Nat /\ X = [i \in 1..m |-> X[i]] /\ Y = [i \in 1..n |-> Y[i]]
  BY RowLen
<1>2. X \in Seq(U) /\ Y \in Seq(U)
  <2> HIDE DEF m, n
  <2>1. \A i \in 1..m : X[i] \in U
    OBVIOUS
  <2>2. \A i \in 1..n : Y[i] \in U
    OBVIOUS
  <2> HIDE DEF U
  <2>3. X \in [1..m -> U] /\ Y \in [1..n -> U]
    BY <1>1, <2>1, <2>2
  <2> QED BY <1>1, <2>3
<1>3. Z \in Seq(U) /\ Len(Z) = m + n
  <2> HIDE DEF U
  <2> QED BY <1>2
<1>4. \A i \in 1..m + n : Z[i] = IF i <= m THEN X[i] ELSE Y[i - m]
  <2> HIDE DEF U
  <2> QED BY <1>2
<1>5. Z = [i \in 1..m + n |-> Z[i]]
  <2> HIDE DEF Z, m, n, U
  <2> QED BY <1>1, <1>3
<1>6. Z = [i \in 1..m + n |-> IF i <= m THEN X[i] ELSE Y[i - m]]
  <2> HIDE DEF Z, m, n, U
  <2> QED BY <1>4, <1>5
<1>7. Row(Z) /\ Len(Z) = m + n
  <2> HIDE DEF Z, m, n, U
  <2>1. m + n \in Nat
    BY <1>1
  <2> QED BY <1>5, <2>1, RowIs
<1> QED BY <1>6, <1>7

\* The parents of the pairs of a row, and what is left without one.
PairUp(X, key, flags) ==
  [i \in 1..(Len(X) + 1) \div 2 |->
     IF 2 * i <= Len(X) THEN parent_output(<<X[2 * i - 1], X[2 * i]>>, key, flags) ELSE X[Len(X)]]

LEMMA PairUpRow ==
  ASSUME NEW X, NEW key, NEW flags, Row(X)
  PROVE  /\ Row(PairUp(X, key, flags)) /\ Len(PairUp(X, key, flags)) = (Len(X) + 1) \div 2
         /\ 2 * ((Len(X) + 1) \div 2) = Len(X) \/ 2 * ((Len(X) + 1) \div 2) = Len(X) + 1
         /\ (Len(X) + 1) \div 2 \in Nat
<1> DEFINE m == (Len(X) + 1) \div 2
           P == PairUp(X, key, flags)
<1>1. Len(X) \in Nat
  BY RowLen
<1>2. m \in Nat /\ (2 * m = Len(X) \/ 2 * m = Len(X) + 1)
  BY <1>1
<1> HIDE DEF m
<1>3. P = [i \in 1..m |-> P[i]]
  BY DEF PairUp, m
<1> HIDE DEF P
<1>4. Row(P) /\ Len(P) = m
  BY <1>2, <1>3, RowIs
<1> QED BY <1>2, <1>4 DEF P, m

\* Behind an even number of values the pairs are the same.
LEMMA PairUpConcat ==
  ASSUME NEW X, NEW Y, NEW key, NEW flags, Row(X), Row(Y), NEW k \in Nat, Len(X) = 2 * k,
         Len(Y) >= 1
  PROVE  PairUp(X \o Y, key, flags) = PairUp(X, key, flags) \o PairUp(Y, key, flags)
<1> DEFINE n == Len(Y)
           Z == X \o Y
           P == PairUp(X, key, flags)
           Q == PairUp(Y, key, flags)
           R == PairUp(Z, key, flags)
           h == (n + 1) \div 2
<1>1. n \in Nat \ {0} /\ h \in Nat /\ (2 * h = n \/ 2 * h = n + 1)
  <2>1. n \in Nat
    BY RowLen
  <2> QED BY <2>1
<1>2. Row(Z) /\ Len(Z) = 2 * k + n
  BY RowConcat
<1>3. \A i \in 1..2 * k + n : Z[i] = IF i <= 2 * k THEN X[i] ELSE Y[i - 2 * k]
  BY RowConcat
<1>4. (2 * k + 1) \div 2 = k /\ (2 * k + n + 1) \div 2 = k + h
  BY <1>1
<1>5. Row(P) /\ Len(P) = k /\ Row(Q) /\ Len(Q) = h
  BY <1>4, PairUpRow
<1>6. P \o Q = [i \in 1..k + h |-> IF i <= k THEN P[i] ELSE Q[i - k]]
  BY <1>5, RowConcat
<1>7. R = [i \in 1..k + h |-> IF 2 * i <= 2 * k + n
                              THEN parent_output(<<Z[2 * i - 1], Z[2 * i]>>, key, flags)
                              ELSE Z[2 * k + n]]
  <2> HIDE DEF Z, h
  <2> QED BY <1>2, <1>4 DEF PairUp
<1>8. P = [i \in 1..k |-> IF 2 * i <= 2 * k
                          THEN parent_output(<<X[2 * i - 1], X[2 * i]>>, key, flags)
                          ELSE X[2 * k]]
  BY <1>4 DEF PairUp
<1>9. Q = [i \in 1..h |-> IF 2 * i <= n THEN parent_output(<<Y[2 * i - 1], Y[2 * i]>>, key, flags)
                          ELSE Y[n]]
  BY DEF PairUp
<1> HIDE DEF Z, P, Q, R, n, h
<1>10. ASSUME NEW i \in 1..k + h
       PROVE  (IF 2 * i <= 2 * k + n THEN parent_output(<<Z[2 * i - 1], Z[2 * i]>>, key, flags)
               ELSE Z[2 * k + n])
                = IF i <= k THEN P[i] ELSE Q[i - k]
  <2>1. CASE i <= k
    <3>1. Z[2 * i - 1] = X[2 * i - 1] /\ Z[2 * i] = X[2 * i]
      <4>1. /\ 2 * i - 1 \in 1..2 * k + n /\ 2 * i \in 1..2 * k + n
            /\ 2 * i - 1 <= 2 * k /\ 2 * i <= 2 * k
        BY <1>1, <2>1
      <4> QED BY <1>3, <4>1
    <3>2. P[i] = parent_output(<<X[2 * i - 1], X[2 * i]>>, key, flags)
      <4>1. i \in 1..k /\ 2 * i <= 2 * k
        BY <1>1, <2>1
      <4> QED BY <1>8, <4>1
    <3>3. 2 * i <= 2 * k + n
      BY <1>1, <2>1
    <3> QED BY <2>1, <3>1, <3>2, <3>3
  <2>2. CASE ~ i <= k
    <3> DEFINE j == i - k
    <3>1. j \in 1..h /\ i = k + j
      BY <1>1, <2>2
    <3>2. CASE 2 * j <= n
      <4>1. /\ 2 * i - 1 \in 1..2 * k + n /\ 2 * i \in 1..2 * k + n
            /\ ~ 2 * i - 1 <= 2 * k /\ ~ 2 * i <= 2 * k
            /\ 2 * i - 1 - 2 * k = 2 * j - 1 /\ 2 * i - 2 * k = 2 * j
        BY <1>1, <3>1, <3>2
      <4>2. Z[2 * i - 1] = Y[2 * j - 1] /\ Z[2 * i] = Y[2 * j]
        BY <1>3, <4>1
      <4>3. Q[j] = parent_output(<<Y[2 * j - 1], Y[2 * j]>>, key, flags)
        BY <1>9, <3>1, <3>2
      <4>4. 2 * i <= 2 * k + n
        BY <1>1, <3>1, <3>2
      <4> HIDE DEF j
      <4> QED BY <2>2, <4>2, <4>3, <4>4 DEF j
    <3>3. CASE ~ 2 * j <= n
      <4>1. Q[j] = Y[n]
        BY <1>9, <3>1, <3>3
      <4>2. Z[2 * k + n] = Y[n]
        <5> DEFINE e == 2 * k + n
        <5>1. e \in 1..2 * k + n /\ ~ e <= 2 * k /\ e - 2 * k = n
          BY <1>1
        <5> HIDE DEF e
        <5>2. Z[e] = Y[e - 2 * k]
          BY <1>3, <5>1
        <5> QED BY <5>1, <5>2 DEF e
      <4>4. ~ 2 * i <= 2 * k + n
        BY <1>1, <3>1, <3>3
      <4> HIDE DEF j
      <4> QED BY <2>2, <4>1, <4>2, <4>4 DEF j
    <3> QED BY <3>2, <3>3
  <2> QED BY <2>1, <2>2
<1>11. R = P \o Q
  BY <1>6, <1>7, <1>10
<1> QED BY <1>11 DEF R, P, Q, Z
\* In so many turns nothing but v is left of the row X.
Gives(h, X, v, key, flags) ==
  \E g : g[0] = X /\ g[h] = <<v>> /\ \A j \in 0..h - 1 : g[j + 1] = PairUp(g[j], key, flags)

LEMMA PairUpOne ==
  ASSUME NEW v, NEW key, NEW flags
  PROVE  PairUp(<<v>>, key, flags) = <<v>> /\ Row(<<v>>) /\ Len(<<v>>) = 1
<1> DEFINE X == <<v>>
<1>1. X = [i \in 1..1 |-> X[i]]
  OBVIOUS
<1>2. Row(X) /\ Len(X) = 1
  <2> HIDE DEF X
  <2> QED BY <1>1, RowIs
<1>3. PairUp(X, key, flags) = X
  <2> HIDE DEF X
  <2>1. (1 + 1) \div 2 = 1
    OBVIOUS
  <2>2. PairUp(X, key, flags) = [i \in 1..1 |-> IF 2 * i <= 1
           THEN parent_output(<<X[2 * i - 1], X[2 * i]>>, key, flags) ELSE X[1]]
    BY <1>2, <2>1 DEF PairUp
  <2>3. \A i \in 1..1 : ~ 2 * i <= 1 /\ X[i] = X[1]
    OBVIOUS
  <2> QED BY <1>1, <2>2, <2>3
<1> QED BY <1>2, <1>3

LEMMA GivesOne ==
  ASSUME NEW v, NEW key, NEW flags
  PROVE  Gives(0, <<v>>, v, key, flags)
<1> DEFINE g == [j \in {0} |-> <<v>>]
<1>1. g[0] = <<v>> /\ \A j \in 0..0 - 1 : FALSE
  OBVIOUS
<1> HIDE DEF g
<1> QED BY <1>1 DEF Gives

\* One turn more changes nothing,
LEMMA GivesMore ==
  ASSUME NEW h \in Nat, NEW X, NEW v, NEW key, NEW flags, Gives(h, X, v, key, flags)
  PROVE  Gives(h + 1, X, v, key, flags)
<1>1. PICK g : /\ g[0] = X /\ g[h] = <<v>>
               /\ \A j \in 0..h - 1 : g[j + 1] = PairUp(g[j], key, flags)
  BY DEF Gives
<1> DEFINE k == [j \in 0..h + 1 |-> IF j = h + 1 THEN <<v>> ELSE g[j]]
<1>2. k[h + 1] = <<v>> /\ \A j \in 0..h : k[j] = g[j]
  OBVIOUS
<1> HIDE DEF k
<1>3. k[0] = X /\ k[h] = <<v>>
  BY <1>1, <1>2
<1>4. ASSUME NEW j \in 0..(h + 1) - 1 PROVE k[j + 1] = PairUp(k[j], key, flags)
  <2>1. CASE j = h
    BY <1>2, <1>3, <2>1, PairUpOne
  <2>2. CASE j # h
    <3>1. j \in 0..h - 1 /\ j \in 0..h /\ j + 1 \in 0..h
      BY <2>2
    <3>2. k[j + 1] = g[j + 1] /\ k[j] = g[j] /\ g[j + 1] = PairUp(g[j], key, flags)
      BY <1>1, <1>2, <3>1
    <3> QED BY <3>2
  <2> QED BY <2>1, <2>2
<1> QED BY <1>2, <1>3, <1>4 DEF Gives

LEMMA GivesLater ==
  ASSUME NEW h \in Nat, NEW X, NEW v, NEW key, NEW flags, Gives(h, X, v, key, flags)
  PROVE  \A j \in Nat : h <= j => Gives(j, X, v, key, flags)
<1> DEFINE T == {d \in Nat : Gives(h + d, X, v, key, flags)}
<1>1. 0 \in T
  <2>1. h + 0 = h
    OBVIOUS
  <2> QED BY <2>1
<1>2. ASSUME NEW d \in Nat, d \in T PROVE d + 1 \in T
  <2>1. Gives((h + d) + 1, X, v, key, flags)
    BY <1>2, GivesMore
  <2>2. (h + d) + 1 = h + (d + 1)
    OBVIOUS
  <2> QED BY <2>1, <2>2
<1>3. Nat \subseteq T
  <2> HIDE DEF T
  <2> QED BY <1>1, <1>2, NatIsLeast
<1> SUFFICES ASSUME NEW j \in Nat, h <= j PROVE Gives(j, X, v, key, flags)
  OBVIOUS
<1>4. j - h \in Nat /\ h + (j - h) = j
  OBVIOUS
<1>5. j - h \in T
  <2> HIDE DEF T
  <2> QED BY <1>3, <1>4
<1>6. Gives(h + (j - h), X, v, key, flags)
  BY <1>5
<1> QED BY <1>4, <1>6

\* and the first turn done, there is one less to do.
LEMMA GivesLess ==
  ASSUME NEW h \in Nat, NEW X, NEW v, NEW key, NEW flags, Gives(h + 1, X, v, key, flags)
  PROVE  Gives(h, PairUp(X, key, flags), v, key, flags)
<1>1. PICK g : /\ g[0] = X /\ g[h + 1] = <<v>>
               /\ \A j \in 0..(h + 1) - 1 : g[j + 1] = PairUp(g[j], key, flags)
  BY DEF Gives
<1> DEFINE k == [j \in 0..h |-> g[j + 1]]
<1>2. \A j \in 0..h : k[j] = g[j + 1]
  OBVIOUS
<1> HIDE DEF k
<1>3. k[h] = <<v>>
  BY <1>1, <1>2
<1>4. k[0] = PairUp(X, key, flags)
  <2>1. 0 \in 0..h /\ 0 \in 0..(h + 1) - 1 /\ 0 + 1 = 1
    OBVIOUS
  <2>2. k[0] = g[0 + 1] /\ g[0 + 1] = PairUp(g[0], key, flags)
    BY <1>1, <1>2, <2>1
  <2> QED BY <1>1, <2>2
<1>5. ASSUME NEW j \in 0..h - 1 PROVE k[j + 1] = PairUp(k[j], key, flags)
  <2>1. j \in 0..h /\ j + 1 \in 0..h /\ j + 1 \in 0..(h + 1) - 1
    OBVIOUS
  <2>2. k[j] = g[j + 1] /\ k[j + 1] = g[(j + 1) + 1]
    BY <1>2, <2>1
  <2>3. g[(j + 1) + 1] = PairUp(g[j + 1], key, flags)
    BY <1>1, <2>1
  <2> QED BY <2>2, <2>3
<1> QED BY <1>3, <1>4, <1>5 DEF Gives

\* All the turns of a row of 2^h values take place in pairs.
LEMMA GivesConcat ==
  ASSUME NEW h \in Nat, NEW X, NEW v, NEW Y, NEW w, NEW key, NEW flags,
         Row(X), Row(Y), Len(X) = pow2[h], Len(Y) >= 1,
         Gives(h, X, v, key, flags), Gives(h, Y, w, key, flags)
  PROVE  Gives(h + 1, X \o Y, parent_output(<<v, w>>, key, flags), key, flags)
<1>1. PICK f : /\ f[0] = X /\ f[h] = <<v>>
               /\ \A j \in 0..h - 1 : f[j + 1] = PairUp(f[j], key, flags)
  BY DEF Gives
<1>2. PICK g : /\ g[0] = Y /\ g[h] = <<w>>
               /\ \A j \in 0..h - 1 : g[j + 1] = PairUp(g[j], key, flags)
  BY DEF Gives
<1> DEFINE T == {j \in Nat : j <= h => /\ Row(f[j]) /\ Len(f[j]) = pow2[h - j]
                                       /\ Row(g[j]) /\ Len(g[j]) >= 1}
<1>3. 0 \in T
  <2>1. h - 0 = h
    OBVIOUS
  <2> QED BY <1>1, <1>2, <2>1
<1>4. ASSUME NEW j \in Nat, j \in T PROVE j + 1 \in T
  <2> SUFFICES ASSUME j + 1 <= h
               PROVE  /\ Row(f[j + 1]) /\ Len(f[j + 1]) = pow2[h - (j + 1)]
                      /\ Row(g[j + 1]) /\ Len(g[j + 1]) >= 1
    OBVIOUS
  <2>1. j \in 0..h - 1 /\ j <= h
    OBVIOUS
  <2>2. Row(f[j]) /\ Len(f[j]) = pow2[h - j] /\ Row(g[j]) /\ Len(g[j]) >= 1
    BY <1>4, <2>1
  <2>3. f[j + 1] = PairUp(f[j], key, flags) /\ g[j + 1] = PairUp(g[j], key, flags)
    BY <1>1, <1>2, <2>1
  <2>4. Row(f[j + 1]) /\ Row(g[j + 1])
    BY <2>2, <2>3, PairUpRow
  <2>5. Len(f[j + 1]) = pow2[h - (j + 1)]
    <3> DEFINE e == h - (j + 1)
               n == pow2[e]
    <3>1. e \in Nat /\ h - j = e + 1
      OBVIOUS
    <3> HIDE DEF e
    <3>2. n \in Nat /\ pow2[h - j] = 2 * n
      BY <3>1, PowersOfTwo
    <3> HIDE DEF n
    <3>3. (2 * n + 1) \div 2 = n
      BY <3>2
    <3>4. Len(f[j + 1]) = n
      BY <2>2, <2>3, <3>2, <3>3, PairUpRow
    <3> QED BY <3>4 DEF n, e
  <2>6. Len(g[j + 1]) >= 1
    <3> DEFINE n == Len(g[j])
    <3>1. n \in Nat /\ n >= 1
      BY <2>2, RowLen
    <3>2. (n + 1) \div 2 >= 1
      <4> HIDE DEF n
      <4> QED BY <3>1
    <3> QED BY <2>2, <2>3, <3>2, PairUpRow
  <2> QED BY <2>4, <2>5, <2>6
<1>5. ASSUME NEW j \in 0..h
      PROVE  Row(f[j]) /\ Len(f[j]) = pow2[h - j] /\ Row(g[j]) /\ Len(g[j]) >= 1
  <2>1. Nat \subseteq T
    <3> HIDE DEF T
    <3> QED BY <1>3, <1>4, NatIsLeast
  <2>2. j \in T /\ j <= h
    <3> HIDE DEF T
    <3> QED BY <2>1
  <2> QED BY <2>2
<1> DEFINE p == parent_output(<<v, w>>, key, flags)
           Both(j) == f[j] \o g[j]
           k == [j \in 0..h + 1 |-> IF j = h + 1 THEN <<p>> ELSE Both(j)]
<1> HIDE DEF Both, p
<1>a. k[h + 1] = <<p>> /\ \A j \in 0..h : k[j] = Both(j)
  OBVIOUS
<1> HIDE DEF k
<1>6. k[h + 1] = <<p>> /\ \A j \in 0..h : k[j] = f[j] \o g[j]
  BY <1>a DEF Both
<1>7. k[0] = X \o Y
  <2>1. 0 \in 0..h
    OBVIOUS
  <2>2. k[0] = f[0] \o g[0]
    BY <1>6, <2>1
  <2> QED BY <1>1, <1>2, <2>2
<1>8. ASSUME NEW j \in 0..(h + 1) - 1 PROVE k[j + 1] = PairUp(k[j], key, flags)
  <2>1. CASE j = h
    <3> DEFINE V == <<v>>
               W == <<w>>
               X2 == V \o W
    <3>1. k[j] = X2
      <4>1. h \in 0..h
        OBVIOUS
      <4>2. k[h] = f[h] \o g[h]
        BY <1>6, <4>1
      <4> QED BY <1>1, <1>2, <2>1, <4>2
    <3>2. PairUp(X2, key, flags) = <<p>>
      <4>1. Len(X2) = 2 /\ (2 + 1) \div 2 = 1 /\ X2[1] = v /\ X2[2] = w
        <5>1. Row(V) /\ Row(W) /\ Len(V) = 1 /\ Len(W) = 1 /\ V[1] = v /\ W[1] = w
          BY PairUpOne
        <5> HIDE DEF V, W
        <5>2. Len(X2) = 1 + 1 /\ X2 = [i \in 1..1 + 1 |-> IF i <= 1 THEN V[i] ELSE W[i - 1]]
          <6>1. /\ Len(X2) = Len(V) + Len(W)
                /\ X2 = [i \in 1..Len(V) + Len(W) |-> IF i <= Len(V) THEN V[i] ELSE W[i - Len(V)]]
            BY <5>1, RowConcat
          <6> HIDE DEF X2
          <6> QED BY <5>1, <6>1
        <5> QED BY <5>1, <5>2
      <4> HIDE DEF X2
      <4>2. PairUp(X2, key, flags)
              = [i \in 1..1 |-> IF 2 * i <= 2
                                THEN parent_output(<<X2[2 * i - 1], X2[2 * i]>>, key, flags)
                                ELSE X2[2]]
        BY <4>1 DEF PairUp
      <4>3. ASSUME NEW i \in 1..1
            PROVE  (IF 2 * i <= 2 THEN parent_output(<<X2[2 * i - 1], X2[2 * i]>>, key, flags)
                    ELSE X2[2]) = p
        <5>1. 2 * i - 1 = 1 /\ 2 * i = 2
          OBVIOUS
        <5> QED BY <4>1, <5>1 DEF p
      <4>4. PairUp(X2, key, flags) = [i \in 1..1 |-> p]
        BY <4>2, <4>3
      <4> QED BY <4>4
    <3> QED BY <1>6, <2>1, <3>1, <3>2
  <2>2. CASE j # h
    <3>1. j \in 0..h - 1 /\ j \in 0..h /\ j + 1 \in 0..h
      BY <2>2
    <3> DEFINE e == h - (j + 1)
               n == pow2[e]
    <3>2. e \in Nat /\ h - j = e + 1
      BY <3>1
    <3> HIDE DEF e
    <3>3. n \in Nat /\ pow2[h - j] = 2 * n
      BY <3>2, PowersOfTwo
    <3> HIDE DEF n
    <3>4. PairUp(f[j] \o g[j], key, flags) = PairUp(f[j], key, flags) \o PairUp(g[j], key, flags)
      <4> DEFINE left == f[j]
                 right == g[j]
      <4>1. Row(left) /\ Row(right) /\ n \in Nat /\ Len(left) = 2 * n /\ Len(right) >= 1
        BY <1>5, <3>1, <3>3
      <4> HIDE DEF left, right
      <4>2. PairUp(left \o right, key, flags) = PairUp(left, key, flags) \o PairUp(right, key, flags)
        BY ONLY <4>1, PairUpConcat
      <4> QED BY <4>2 DEF left, right
    <3>5. f[j + 1] = PairUp(f[j], key, flags) /\ g[j + 1] = PairUp(g[j], key, flags)
      BY <1>1, <1>2, <3>1
    <3>6. k[j + 1] = f[j + 1] \o g[j + 1] /\ k[j] = f[j] \o g[j]
      BY <1>6, <3>1
    <3> QED BY <3>4, <3>5, <3>6
  <2> QED BY <2>1, <2>2
<1> QED BY <1>6, <1>7, <1>8 DEF Gives, p

\* The root above a row.
Roots(X, v, key, flags) ==
  /\ Row(X) /\ Len(X) >= 1
  /\ \A h \in Nat : Len(X) <= pow2[h] => Gives(h, X, v, key, flags)

LEMMA RootsOne ==
  ASSUME NEW v, NEW key, NEW flags
  PROVE  Roots(<<v>>, v, key, flags)
<1>1. \A h \in Nat : Gives(h, <<v>>, v, key, flags)
  BY GivesOne, GivesLater
<1>2. Row(<<v>>) /\ Len(<<v>>) = 1
  BY PairUpOne
<1> DEFINE X == <<v>>
<1> HIDE DEF X
<1> QED BY <1>1, <1>2 DEF Roots

LEMMA RootsPairUp ==
  ASSUME NEW X, NEW v, NEW key, NEW flags, Roots(X, v, key, flags)
  PROVE  Roots(PairUp(X, key, flags), v, key, flags)
<1> DEFINE n == Len(X)
           m == (n + 1) \div 2
           P == PairUp(X, key, flags)
<1>1. Row(X) /\ n \in Nat /\ n >= 1
  BY RowLen DEF Roots
<1>2. Row(P) /\ Len(P) = m /\ m \in Nat /\ (2 * m = n \/ 2 * m = n + 1)
  BY <1>1, PairUpRow
<1> HIDE DEF n, m
<1>3. Len(P) >= 1
  BY <1>1, <1>2
<1>4. ASSUME NEW h \in Nat, Len(P) <= pow2[h] PROVE Gives(h, P, v, key, flags)
  <2> DEFINE e == pow2[h]
  <2>1. e \in Nat /\ pow2[h + 1] = 2 * e
    BY PowersOfTwo
  <2>2. n <= 2 * e
    <3> HIDE DEF P
    <3>1. m <= e
      BY <1>2, <1>4
    <3> HIDE DEF e
    <3> QED BY <1>1, <1>2, <2>1, <3>1
  <2>3. Gives(h + 1, X, v, key, flags)
    <3>1. h + 1 \in Nat /\ Len(X) <= pow2[h + 1]
      BY <2>1, <2>2 DEF n
    <3> QED BY <3>1 DEF Roots
  <2> QED BY <2>3, GivesLess
<1> HIDE DEF P
<1> QED BY <1>2, <1>3, <1>4 DEF Roots, P

LEMMA PowExponent ==
  \A j, k \in Nat : pow2[j] < pow2[k] => j < k
<1> DEFINE T == {d \in Nat : \A k \in Nat : pow2[k] <= pow2[k + d]}
<1>1. 0 \in T
  <2>1. \A k \in Nat : k + 0 = k /\ pow2[k] \in Nat
    BY PowersOfTwo
  <2> QED BY <2>1
<1>2. ASSUME NEW d \in Nat, d \in T PROVE d + 1 \in T
  <2> SUFFICES ASSUME NEW k \in Nat PROVE pow2[k] <= pow2[k + (d + 1)]
    OBVIOUS
  <2>1. pow2[k] <= pow2[k + d] /\ pow2[(k + d) + 1] = 2 * pow2[k + d]
        /\ pow2[k + d] \in Nat /\ pow2[k] \in Nat
    BY <1>2, PowersOfTwo
  <2>2. (k + d) + 1 = k + (d + 1)
    OBVIOUS
  <2> QED BY <2>1, <2>2
<1>3. Nat \subseteq T
  <2> HIDE DEF T
  <2> QED BY <1>1, <1>2, NatIsLeast
<1> SUFFICES ASSUME NEW j \in Nat, NEW k \in Nat, pow2[j] < pow2[k], k <= j PROVE FALSE
  OBVIOUS
<1>4. j - k \in Nat /\ k + (j - k) = j
  OBVIOUS
<1>5. j - k \in T
  <2> HIDE DEF T
  <2> QED BY <1>3, <1>4
<1>6. pow2[k] <= pow2[k + (j - k)]
  BY <1>5
<1> QED BY <1>4, <1>6, PowersOfTwo

LEMMA RootsConcat ==
  ASSUME NEW X, NEW v, NEW Y, NEW w, NEW key, NEW flags,
         Roots(X, v, key, flags), Roots(Y, w, key, flags), Len(X) \in Pow, Len(Y) <= Len(X)
  PROVE  Roots(X \o Y, parent_output(<<v, w>>, key, flags), key, flags)
<1> DEFINE m == Len(X)
           n == Len(Y)
           Z == X \o Y
           p == parent_output(<<v, w>>, key, flags)
<1>1. Row(X) /\ Row(Y) /\ m \in Nat /\ n \in Nat /\ m >= 1 /\ n >= 1 /\ n <= m
  BY RowLen DEF Roots
<1>2. PICK h \in Nat : m = pow2[h]
  BY DEF Pow
<1>3. Row(Z) /\ Len(Z) = m + n
  BY <1>1, RowConcat
<1>4. Gives(h, X, v, key, flags) /\ Gives(h, Y, w, key, flags)
  <2>1. Len(X) <= pow2[h] /\ Len(Y) <= pow2[h]
    BY <1>1, <1>2
  <2> QED BY <2>1 DEF Roots
<1>5. Gives(h + 1, Z, p, key, flags)
  BY <1>1, <1>2, <1>4, GivesConcat
<1> HIDE DEF Z, p, m, n
<1>6. ASSUME NEW j \in Nat, Len(Z) <= pow2[j] PROVE Gives(j, Z, p, key, flags)
  <2>1. pow2[h] < pow2[j]
    <3>1. pow2[h] \in Nat /\ pow2[j] \in Nat
      BY PowersOfTwo
    <3>2. m + n <= pow2[j]
      BY <1>3, <1>6
    <3> QED BY <1>1, <1>2, <3>1, <3>2
  <2>2. h + 1 <= j
    BY <2>1, PowExponent
  <2> QED BY <1>5, <2>2, GivesLater
<1>7. Len(Z) >= 1
  BY <1>1, <1>3
<1> QED BY <1>3, <1>6, <1>7 DEF Roots, Z, p

\* The root above two values is their parent.
LEMMA RootsTwo ==
  ASSUME NEW X, NEW v, NEW key, NEW flags, Roots(X, v, key, flags), Len(X) = 2
  PROVE  v = parent_output(<<X[1], X[2]>>, key, flags)
<1> DEFINE p == parent_output(<<X[1], X[2]>>, key, flags)
<1>1. Row(X)
  BY DEF Roots
<1>2. PairUp(X, key, flags) = <<p>>
  <2>1. (2 + 1) \div 2 = 1
    OBVIOUS
  <2>2. PairUp(X, key, flags)
          = [i \in 1..1 |-> IF 2 * i <= 2
                            THEN parent_output(<<X[2 * i - 1], X[2 * i]>>, key, flags) ELSE X[2]]
    BY <2>1 DEF PairUp
  <2>3. ASSUME NEW i \in 1..1
        PROVE  (IF 2 * i <= 2 THEN parent_output(<<X[2 * i - 1], X[2 * i]>>, key, flags)
                ELSE X[2]) = p
    <3>1. 2 * i - 1 = 1 /\ 2 * i = 2
      OBVIOUS
    <3> QED BY <3>1
  <2>4. PairUp(X, key, flags) = [i \in 1..1 |-> p]
    <3> HIDE DEF p
    <3> QED BY <2>2, <2>3
  <2> QED BY <2>4
<1>3. Gives(1, X, v, key, flags)
  <2>1. pow2[0] = 1 /\ pow2[0 + 1] = 2 * pow2[0]
    BY PowersOfTwo
  <2>2. 1 \in Nat /\ Len(X) <= pow2[1]
    BY <2>1
  <2> QED BY <2>2 DEF Roots
<1>4. Gives(0, PairUp(X, key, flags), v, key, flags)
  <2>1. Gives(0 + 1, X, v, key, flags)
    BY <1>3
  <2> QED BY <2>1, GivesLess
<1>5. PairUp(X, key, flags) = <<v>>
  BY <1>4 DEF Gives
<1> HIDE DEF p
<1>6. <<v>>[1] = <<p>>[1]
  BY <1>2, <1>5
<1>7. v = p
  BY <1>6
<1> QED BY <1>7 DEF p
------------------------------------------------------------------------------
(* Hashing many inputs at once comes to hashing each.                      *)

LEMMA SimdDegree ==
  /\ blake3_simd_degree \in Nat \ {0} /\ blake3_simd_degree \in Pow
  /\ blake3_simd_degree # 1 => \E k \in Nat \ {0} : blake3_simd_degree = 2 * k
  /\ blake3_simd_degree <= MAX_SIMD_DEGREE_OR_2
  /\ MAX_SIMD_DEGREE_OR_2 \in Nat /\ 2 <= MAX_SIMD_DEGREE_OR_2
<1> DEFINE D == blake3_simd_degree
<1>1. D \in {1, 4, 8, 16} /\ D <= MAX_SIMD_DEGREE
  BY DEF blake3_simd_degree, MAX_SIMD_DEGREE
<1>2. MAX_SIMD_DEGREE \in {1, 4, 16}
  BY DEF MAX_SIMD_DEGREE
<1>3. 1 \in Pow /\ 2 \in Pow /\ 4 \in Pow /\ 8 \in Pow /\ 16 \in Pow
  <2>1. 1 \in Pow
    BY PowType
  <2>2. 2 * 1 \in Pow
    BY <2>1, PowType
  <2>3. 2 \in Pow
    BY <2>2
  <2>4. 2 * 2 \in Pow
    BY <2>3, PowType
  <2>5. 4 \in Pow
    BY <2>4
  <2>6. 2 * 4 \in Pow
    BY <2>5, PowType
  <2>7. 8 \in Pow
    BY <2>6
  <2>8. 2 * 8 \in Pow
    BY <2>7, PowType
  <2>9. 16 \in Pow
    BY <2>8
  <2> QED BY <2>1, <2>3, <2>5, <2>7, <2>9
<1> DEFINE M == MAX_SIMD_DEGREE_OR_2
<1>4. M \in Nat /\ 2 <= M /\ D <= M
  <2> HIDE DEF D
  <2> QED BY <1>1, <1>2 DEF MAX_SIMD_DEGREE_OR_2
<1> HIDE DEF D, M
<1>5. D \in Nat \ {0} /\ D \in Pow
  BY <1>1, <1>3
<1>6. D # 1 => \E k \in Nat \ {0} : D = 2 * k
  <2>1. CASE D = 4
    <3>1. D = 2 * 2
      BY <2>1
    <3> QED BY <3>1
  <2>2. CASE D = 8
    <3>1. D = 2 * 4
      BY <2>2
    <3> QED BY <3>1
  <2>3. CASE D = 16
    <3>1. D = 2 * 8
      BY <2>3
    <3> QED BY <3>1
  <2> QED BY <1>1, <2>1, <2>2, <2>3
<1> QED BY <1>4, <1>5, <1>6 DEF D, M

\* What goes on in a lane from one block to the next.
Lane(inputs, from, l, n, cv, blocks, counter, increment_counter, flags, start, end) ==
  compress(cv, inputs[from + l - 1][n], BLOCK_LEN,
           IF increment_counter THEN counter + l - 1 ELSE counter,
           flags \cup (IF n = 1 THEN start ELSE {}) \cup (IF n = blocks THEN end ELSE {}))

LEMMA HashLanes ==
  ASSUME NEW inputs, NEW from \in Nat, NEW lanes \in Nat, NEW blocks \in Nat, NEW key,
         NEW counter \in Nat, NEW increment, NEW flags, NEW start, NEW end
  PROVE  \E h : /\ hash_lanes(inputs, from, lanes, blocks, key, counter, increment, flags, start,
                              end) = h[blocks]
                /\ \A l \in 1..lanes : h[0][l] = key
                /\ \A n \in 1..blocks : \A l \in 1..lanes :
                     h[n][l] = Lane(inputs, from, l, n, h[n - 1][l], blocks, counter, increment,
                                    flags, start, end)
<1> DEFINE Body(x, n) ==
             [l \in 1..lanes |-> Lane(inputs, from, l, n, x[l], blocks, counter, increment, flags,
                                      start, end)]
           keys == [l \in 1..lanes |-> key]
           Is(g, z) == g = [n \in 0..z |-> IF n = 0 THEN keys ELSE Body(g[n - 1], n)]
           N == {z \in Nat : \E g : Is(g, z)}
           h == CHOOSE g : Is(g, blocks)
<1>0. hash_lanes(inputs, from, lanes, blocks, key, counter, increment, flags, start, end)
        = h[blocks]
  BY DEF hash_lanes, Lane
<1> HIDE DEF Body, keys
<1>1. 0 \in N
  <2>1. Is([n \in 0..0 |-> keys], 0)
    OBVIOUS
  <2> QED BY <2>1
<1>2. ASSUME NEW z \in Nat, z \in N PROVE z + 1 \in N
  <2>1. PICK g : Is(g, z)
    BY <1>2
  <2> DEFINE f == [n \in 0..z + 1 |-> IF n = 0 THEN keys ELSE Body(g[n - 1], n)]
  <2>2. \A n \in 0..z : f[n] = g[n]
    BY <2>1
  <2>3. \A n \in 0..z + 1 : f[n] = IF n = 0 THEN keys ELSE Body(f[n - 1], n)
    <3> SUFFICES ASSUME NEW n \in 0..z + 1, n # 0 PROVE f[n] = Body(f[n - 1], n)
      OBVIOUS
    <3>1. n - 1 \in 0..z
      OBVIOUS
    <3> QED BY <2>2, <3>1
  <2>4. f = [n \in 0..z + 1 |-> f[n]]
    OBVIOUS
  <2>5. Is(f, z + 1)
    <3> HIDE DEF f
    <3> QED BY <2>3, <2>4
  <2> HIDE DEF f, Is
  <2> QED BY <2>5
<1>3. Is(h, blocks)
  <2>1. Nat \subseteq N
    <3> HIDE DEF N
    <3> QED BY <1>1, <1>2, NatIsLeast
  <2>2. \E g : Is(g, blocks)
    BY <2>1
  <2> HIDE DEF Is
  <2> QED BY <2>2
<1> HIDE DEF h
<1>4. h[0] = keys /\ \A n \in 1..blocks : h[n] = Body(h[n - 1], n)
  BY <1>3
<1>5. \A l \in 1..lanes : h[0][l] = key
  BY <1>4 DEF keys
<1>6. \A n \in 1..blocks : \A l \in 1..lanes :
        h[n][l] = Lane(inputs, from, l, n, h[n - 1][l], blocks, counter, increment, flags, start,
                       end)
  BY <1>4 DEF Body
<1> QED BY <1>0, <1>5, <1>6

\* Each input is in a lane of some group.
LEMMA HashMany ==
  ASSUME NEW inputs, NEW blocks, NEW key, NEW counter \in Nat, NEW increment, NEW flags, NEW start,
         NEW end, Len(inputs) \in Nat
  PROVE  /\ Row(blake3_hash_many(inputs, blocks, key, counter, increment, flags, start, end))
         /\ Len(blake3_hash_many(inputs, blocks, key, counter, increment, flags, start, end))
              = Len(inputs)
         /\ \A i \in 1..Len(inputs) : \E first \in Nat, lanes \in Nat :
              /\ first >= 1 /\ i - first + 1 \in 1..lanes
              /\ blake3_hash_many(inputs, blocks, key, counter, increment, flags, start, end)[i]
                   = hash_lanes(inputs, first, lanes, blocks, key,
                                IF increment THEN counter + first - 1 ELSE counter,
                                increment, flags, start, end)[i - first + 1]
<1> DEFINE lanes(i) == IF i <= (Len(inputs) \div blake3_simd_degree) * blake3_simd_degree
                       THEN blake3_simd_degree ELSE 1
           first(i) == i - ((i - 1) % lanes(i))
           H(i, f, n) == hash_lanes(inputs, f, n, blocks, key,
                                    IF increment THEN counter + f - 1 ELSE counter,
                                    increment, flags, start, end)[i - f + 1]
           out == blake3_hash_many(inputs, blocks, key, counter, increment, flags, start, end)
<1>1. out = [i \in 1..Len(inputs) |-> H(i, first(i), lanes(i))]
  BY DEF blake3_hash_many
<1>2. ASSUME NEW i \in 1..Len(inputs)
      PROVE  /\ lanes(i) \in Nat /\ first(i) \in Nat /\ first(i) >= 1
             /\ i - first(i) + 1 \in 1..lanes(i)
  <2>1. lanes(i) \in Nat \ {0}
    BY SimdDegree
  <2> DEFINE n == lanes(i)
             r == (i - 1) % n
  <2> HIDE DEF n
  <2>2. i - 1 \in Nat /\ n \in Nat \ {0}
    BY <2>1 DEF n
  <2>3. r \in 0..n - 1 /\ r <= i - 1
    <3>1. r \in 0..n - 1 /\ (i - 1) \div n \in Nat /\ i - 1 = ((i - 1) \div n) * n + r
      BY <2>2, Division
    <3>2. ((i - 1) \div n) * n \in Nat
      BY <2>2, <3>1
    <3> HIDE DEF r
    <3> QED BY <2>2, <3>1, <3>2
  <2> HIDE DEF r
  <2>4. i - r \in Nat /\ i - r >= 1 /\ i - (i - r) + 1 \in 1..n
    BY <2>2, <2>3
  <2> QED BY <2>2, <2>4 DEF n, r
<1> HIDE DEF H, lanes, first, out
<1>3. out = [i \in 1..Len(inputs) |-> out[i]] /\ \A i \in 1..Len(inputs) : out[i] = H(i, first(i), lanes(i))
  BY <1>1
<1>4. Row(out) /\ Len(out) = Len(inputs)
  BY <1>3, RowIs
<1>5. ASSUME NEW i \in 1..Len(inputs)
      PROVE  \E f \in Nat, n \in Nat : f >= 1 /\ i - f + 1 \in 1..n /\ out[i] = H(i, f, n)
  BY <1>2, <1>3
<1> QED BY <1>4, <1>5 DEF out, H

\* Where chunk i behind x chunks is.
Nth(x, i) == Chunks(x + i - 1)

\* The number of chunks of n bytes, and their chaining values: the lowest level of
\* the tree over the n bytes behind x chunks.
CountOf(n) == (n - 1) \div CHUNK_LEN + 1
LevelLen(n, i) == IF i = CountOf(n) THEN n - Chunks(i - 1) ELSE CHUNK_LEN
Level(input, key, flags, n, x) ==
  [i \in 1..CountOf(n) |-> Tree(input, key, flags)[LevelLen(n, i)][Nth(x, i)]]

LEMMA Counts ==
  ASSUME NEW n \in Nat \ {0}
  PROVE  /\ CountOf(n) \in Nat \ {0} /\ Chunks(CountOf(n) - 1) < n /\ n <= Chunks(CountOf(n))
         /\ \A m \in Nat \ {0} : Chunks(m - 1) < n /\ n <= Chunks(m) => CountOf(n) = m
<1> DEFINE d == (n - 1) \div CHUNK_LEN
<1>1. d \in Nat /\ Chunks(d) < n /\ n <= Chunks(d) + CHUNK_LEN /\ CHUNK_LEN \in Nat
  BY ChunksBefore, Lengths
<1>2. CountOf(n) = d + 1
  BY DEF CountOf
<1> HIDE DEF d
<1>3. d + 1 \in Nat \ {0} /\ (d + 1) - 1 = d /\ Chunks(d + 1) = Chunks(d) + CHUNK_LEN
  BY <1>1, ChunksFacts
<1>4. ASSUME NEW m \in Nat \ {0}, Chunks(m - 1) < n, n <= Chunks(m) PROVE m = d + 1
  <2>1. m - 1 \in Nat /\ m \in Nat /\ Chunks(m) \in Nat /\ Chunks(m - 1) \in Nat
        /\ Chunks(d) \in Nat /\ Chunks(d + 1) \in Nat
    <3>1. m - 1 \in Nat /\ m \in Nat /\ d + 1 \in Nat
      BY <1>3
    <3> QED BY <1>1, <3>1, ChunksFacts
  <2>2. ~ m <= d
    <3> SUFFICES ASSUME m <= d PROVE FALSE
      OBVIOUS
    <3>1. Chunks(m) <= Chunks(d)
      BY <1>1, <2>1, ChunksFacts
    <3> QED BY <1>1, <1>4, <2>1, <3>1
  <2>3. ~ d + 1 <= m - 1
    <3> SUFFICES ASSUME d + 1 <= m - 1 PROVE FALSE
      OBVIOUS
    <3>1. Chunks(d + 1) <= Chunks(m - 1)
      BY <1>1, <1>3, <2>1, ChunksFacts
    <3> QED BY <1>1, <1>3, <1>4, <2>1, <3>1
  <2> QED BY <1>1, <2>2, <2>3
<1> QED BY <1>1, <1>2, <1>3, <1>4

LEMMA LevelRow ==
  ASSUME NEW input, NEW key, NEW flags, NEW n \in Nat \ {0}, NEW x \in Nat
  PROVE  Row(Level(input, key, flags, n, x)) /\ Len(Level(input, key, flags, n, x)) = CountOf(n)
<1> DEFINE L == Level(input, key, flags, n, x)
<1>1. L = [i \in 1..CountOf(n) |-> L[i]]
  BY DEF Level
<1>2. CountOf(n) \in Nat
  BY Counts
<1> HIDE DEF L
<1>3. Row(L) /\ Len(L) = CountOf(n)
  BY <1>1, <1>2, RowIs
<1> QED BY <1>3 DEF L

LEMMA LevelEntry ==
  ASSUME NEW input, NEW key, NEW flags, NEW n, NEW x, NEW i \in 1..CountOf(n)
  PROVE  Level(input, key, flags, n, x)[i] = Tree(input, key, flags)[LevelLen(n, i)][Nth(x, i)]
BY DEF Level

\* A whole chunk, block by block.
LEMMA WholeChunk ==
  ASSUME NEW input, NEW first, NEW key, NEW flags, NEW b, b = BLOCKS - 1
  PROVE  ChunkOutput(input, first, CHUNK_LEN, key, flags)
           = compress(BlockCvs(input, first, key, flags)[b], blockAt(input, Place(first, b)),
                      BLOCK_LEN, CounterAt(first), flags \cup start_flag(b) \cup {"CHUNK_END"})
<1> DEFINE r == CHUNK_LEN - b * BLOCK_LEN
<1>1. b \in Nat /\ BLOCK_LEN \in Nat \ {0} /\ CHUNK_LEN \in Nat \ {0} /\ r = BLOCK_LEN
  <2>1. (BLOCKS - 1) * BLOCK_LEN = BLOCKS * BLOCK_LEN - BLOCK_LEN
    BY Lengths
  <2> QED BY <2>1, Lengths
<1>2. b = blocksBefore(CHUNK_LEN)
  <2>1. b * BLOCK_LEN < CHUNK_LEN /\ CHUNK_LEN <= b * BLOCK_LEN + BLOCK_LEN
    <3> DEFINE e == b * BLOCK_LEN
    <3>1. e \in Int /\ CHUNK_LEN - e = BLOCK_LEN
      BY <1>1
    <3> HIDE DEF e
    <3>2. e < CHUNK_LEN /\ CHUNK_LEN <= e + BLOCK_LEN
      BY <1>1, <3>1
    <3> QED BY <3>2 DEF e
  <2> QED BY <1>1, <2>1, BlocksBefore
<1>3. ChunkOutput(input, first, CHUNK_LEN, key, flags)
        = compress(BlockCvs(input, first, key, flags)[b],
                   [k \in 1..BLOCK_LEN |-> IF k <= r THEN input[Place(first, b) + k] ELSE Zero],
                   r, CounterAt(first), flags \cup start_flag(b) \cup {"CHUNK_END"})
  BY <1>2 DEF ChunkOutput, Place, CounterAt
<1> HIDE DEF r
<1>4. [k \in 1..BLOCK_LEN |-> IF k <= r THEN input[Place(first, b) + k] ELSE Zero]
        = blockAt(input, Place(first, b))
  BY <1>1 DEF blockAt
<1> QED BY <1>1, <1>3, <1>4

IsTrue(increment) == \A u, v : (IF increment THEN u ELSE v) = u

BlocksOf(input, first) == [b \in 1..BLOCKS |-> blockAt(input, Place(first, b - 1))]

\* A lane that holds the blocks of a chunk, and its counter, gives the output of the chunk.
LEMMA ChunkInLane ==
  ASSUME NEW input, NEW first, NEW key, NEW flags, NEW inputs, NEW from \in Nat,
         NEW lanes \in Nat, NEW l \in 1..lanes, NEW counter \in Nat,
         CounterAt(first) = counter + l - 1,
         NEW i, i = from + l - 1, inputs[i] = BlocksOf(input, first),
         NEW increment, IsTrue(increment), NEW start, start = {"CHUNK_START"},
         NEW end, end = {"CHUNK_END"}
  PROVE  hash_lanes(inputs, from, lanes, BLOCKS, key, counter, increment, flags, start, end)[l]
           = ChunkOutput(input, first, CHUNK_LEN, key, flags)
<1> DEFINE v == hash_lanes(inputs, from, lanes, BLOCKS, key, counter, increment, flags, start, end)
<1> SUFFICES v[l] = ChunkOutput(input, first, CHUNK_LEN, key, flags)
  OBVIOUS
<1> DEFINE Cv(b) == BlockCvs(input, first, key, flags)[b]
           In(b) == blockAt(input, Place(first, b))
           F(n) == flags \cup (IF n = 1 THEN {"CHUNK_START"} ELSE {})
                     \cup (IF n = BLOCKS THEN {"CHUNK_END"} ELSE {})
<1>1. PICK h : /\ v = h[BLOCKS]
               /\ \A k \in 1..lanes : h[0][k] = key
               /\ \A n \in 1..BLOCKS : \A k \in 1..lanes :
                    h[n][k] = Lane(inputs, from, k, n, h[n - 1][k], BLOCKS, counter, increment,
                                   flags, start, end)
  BY HashLanes, Lengths
<1> HIDE DEF v
<1>2. ASSUME NEW n \in 1..BLOCKS
      PROVE  h[n][l] = compress(h[n - 1][l], In(n - 1), BLOCK_LEN, CounterAt(first), F(n))
  <2>1. h[n][l] = Lane(inputs, from, l, n, h[n - 1][l], BLOCKS, counter, increment, flags, start,
                       end)
    BY <1>1
  <2>2. inputs[from + l - 1][n] = In(n - 1)
    BY DEF BlocksOf
  <2> HIDE DEF In
  <2>3. Lane(inputs, from, l, n, h[n - 1][l], BLOCKS, counter, increment, flags, start, end)
          = compress(h[n - 1][l], In(n - 1), BLOCK_LEN, counter + l - 1, F(n))
    BY <2>2 DEF Lane, IsTrue
  <2> QED BY <2>1, <2>3
<1>3. h[0][l] = key
  BY <1>1
<1>4. BLOCKS \in Nat \ {0}
  BY Lengths
<1>5. ASSUME NEW b \in 0..BLOCKS - 1
      PROVE  Cv(b + 1) = compress(Cv(b), In(b), BLOCK_LEN, CounterAt(first), flags \cup start_flag(b))
  <2>1. b \in 0..BLOCKS - 1
    OBVIOUS
  <2> QED BY ONLY <2>1, BlockCvsNext DEF Cv, In
<1>6. Cv(0) = key
  BY BlockCvsDef
<1> HIDE DEF Cv, In
<1> DEFINE T == {n \in Nat : n <= BLOCKS - 1 => h[n][l] = Cv(n)}
<1>7. 0 \in T
  BY <1>3, <1>6
<1>8. ASSUME NEW n \in T PROVE n + 1 \in T
  <2> SUFFICES ASSUME n + 1 <= BLOCKS - 1 PROVE h[n + 1][l] = Cv(n + 1)
    OBVIOUS
  <2>1. n \in Nat /\ n \in 0..BLOCKS - 1 /\ n + 1 \in 1..BLOCKS /\ (n + 1) - 1 = n /\ h[n][l] = Cv(n)
    BY <1>4
  <2>2. h[n + 1][l] = compress(Cv(n), In(n), BLOCK_LEN, CounterAt(first), F(n + 1))
    <3> DEFINE m == n + 1
    <3>1. m \in 1..BLOCKS /\ m - 1 = n
      BY <2>1
    <3> HIDE DEF m
    <3>2. h[m][l] = compress(h[m - 1][l], In(m - 1), BLOCK_LEN, CounterAt(first), F(m))
      BY <1>2, <3>1
    <3>3. h[m][l] = compress(Cv(n), In(n), BLOCK_LEN, CounterAt(first), F(m))
      BY <2>1, <3>1, <3>2
    <3> QED BY <3>3 DEF m
  <2>3. F(n + 1) = flags \cup start_flag(n)
    BY <1>4, <2>1 DEF start_flag
  <2> QED BY <1>5, <2>1, <2>2, <2>3
<1>9. Nat \subseteq T
  <2> HIDE DEF T
  <2> QED BY <1>7, <1>8, NatIsLeast
<1>10. h[BLOCKS - 1][l] = Cv(BLOCKS - 1)
  <2>1. BLOCKS - 1 \in T
    <3> HIDE DEF T
    <3> QED BY <1>4, <1>9
  <2> QED BY <1>4, <2>1
<1>11. F(BLOCKS) = flags \cup start_flag(BLOCKS - 1) \cup {"CHUNK_END"}
  BY <1>4 DEF start_flag
<1>12. h[BLOCKS][l] = compress(Cv(BLOCKS - 1), In(BLOCKS - 1), BLOCK_LEN, CounterAt(first), F(BLOCKS))
  <2>1. BLOCKS \in 1..BLOCKS
    BY <1>4
  <2>2. h[BLOCKS][l]
          = compress(h[BLOCKS - 1][l], In(BLOCKS - 1), BLOCK_LEN, CounterAt(first), F(BLOCKS))
    <3> HIDE DEF F
    <3> QED BY <1>2, <2>1
  <2> QED BY <1>10, <2>2
<1> DEFINE z == BLOCKS - 1
<1>13. v[l] = compress(Cv(z), In(z), BLOCK_LEN, CounterAt(first),
                       flags \cup start_flag(z) \cup {"CHUNK_END"})
  <2> HIDE DEF F
  <2> QED BY <1>1, <1>11, <1>12
<1>14. z = BLOCKS - 1
  OBVIOUS
<1> HIDE DEF z
<1> QED BY <1>13, <1>14, WholeChunk DEF Cv, In

\* A chunk hashed by itself.
LEMMA SingleChunk ==
  ASSUME NEW input, NEW key, NEW flags, NEW c \in Nat, NEW len \in Nat, len <= CHUNK_LEN
  PROVE  chunk_state_output(chunk_state_update(chunk_state_init(key, c, flags), input, Chunks(c),
                                               len))
           = ChunkOutput(input, Chunks(c), len, key, flags)
<1> DEFINE first == Chunks(c)
<1>1. chunk_state_init(key, c, flags) = ChunkState(input, first, 0, key, flags)
  BY ChunkStateInit DEF Chunks
<1>2. first \in Nat
  BY ChunksFacts
<1> HIDE DEF first
<1>3. chunk_state_update(ChunkState(input, first, 0, key, flags), input, first, len)
        = ChunkState(input, first, len, key, flags)
  <2>1. chunk_state_update(ChunkState(input, first, 0, key, flags), input, first + 0, len)
          = ChunkState(input, first, 0 + len, key, flags)
    BY <1>2, ChunkStateUpdate
  <2>2. first + 0 = first /\ 0 + len = len
    BY <1>2
  <2> QED BY <2>1, <2>2
<1>4. chunk_state_output(chunk_state_update(chunk_state_init(key, c, flags), input, first, len))
        = ChunkOutput(input, first, len, key, flags)
  BY <1>1, <1>3, ChunkStateOutput
<1> QED BY <1>4 DEF first

\* The chunks in parallel.
LEMMA ChunksInLanes ==
  ASSUME NEW input, NEW key, NEW flags, NEW x \in Nat, NEW n \in Nat, NEW m, m = n \div CHUNK_LEN,
         NEW increment, IsTrue(increment), NEW start, start = {"CHUNK_START"},
         NEW end, end = {"CHUNK_END"},
         NEW cvs, cvs = blake3_hash_many(chunks_array(input, Chunks(x), n), BLOCKS, key, x,
                                         increment, flags, start, end)
  PROVE  /\ Row(cvs) /\ Len(cvs) = m
         /\ \A i \in 1..m : cvs[i] = ChunkOutput(input, Nth(x, i), CHUNK_LEN, key, flags)
<1> DEFINE inputs == chunks_array(input, Chunks(x), n)
           many == blake3_hash_many(inputs, BLOCKS, key, x, increment, flags, start, end)
<1>1. m \in Nat
  BY Division, Lengths
<1>2. inputs = [c \in 1..m |-> inputs[c]] /\ Len(inputs) = m
  <2>1. inputs = [c \in 1..m |-> inputs[c]]
    BY DEF chunks_array
  <2> HIDE DEF inputs
  <2> QED BY <1>1, <2>1, RowIs
<1>3. ASSUME NEW c \in 1..m PROVE inputs[c] = BlocksOf(input, Nth(x, c))
  <2>1. inputs[c] = [b \in 1..BLOCKS |->
                       blockAt(input, Chunks(x) + Chunks(c - 1) + (b - 1) * BLOCK_LEN)]
    BY DEF chunks_array, BLOCKS, Chunks
  <2>2. c - 1 \in Nat /\ x + c - 1 = x + (c - 1)
    BY <1>1
  <2>3. Nth(x, c) = Chunks(x) + Chunks(c - 1)
    BY <2>2, ChunksFacts DEF Nth
  <2> HIDE DEF inputs
  <2> QED BY <2>1, <2>3 DEF Place, BlocksOf
<1>4. cvs = many
  OBVIOUS
<1>5. /\ Row(many) /\ Len(many) = m
      /\ \A i \in 1..m : \E first \in Nat, lanes \in Nat :
           /\ first >= 1 /\ i - first + 1 \in 1..lanes
           /\ many[i] = hash_lanes(inputs, first, lanes, BLOCKS, key,
                                   IF increment THEN x + first - 1 ELSE x, increment, flags,
                                   start, end)[i - first + 1]
  <2> HIDE DEF inputs
  <2>1. Len(inputs) \in Nat
    BY <1>1, <1>2
  <2>2. /\ Row(many) /\ Len(many) = Len(inputs)
        /\ \A i \in 1..Len(inputs) : \E first \in Nat, lanes \in Nat :
             /\ first >= 1 /\ i - first + 1 \in 1..lanes
             /\ many[i] = hash_lanes(inputs, first, lanes, BLOCKS, key,
                                     IF increment THEN x + first - 1 ELSE x, increment, flags,
                                     start, end)[i - first + 1]
    <3>1. x \in Nat
      OBVIOUS
    <3> QED BY ONLY <2>1, <3>1, HashMany DEF many
  <2> HIDE DEF many
  <2> QED BY <1>2, <2>2
<1> HIDE DEF many, inputs
<1>6. ASSUME NEW i \in 1..m
      PROVE  many[i] = ChunkOutput(input, Nth(x, i), CHUNK_LEN, key, flags)
  <2>1. PICK first \in Nat, lanes \in Nat :
           /\ first >= 1 /\ i - first + 1 \in 1..lanes
           /\ many[i] = hash_lanes(inputs, first, lanes, BLOCKS, key,
                                   IF increment THEN x + first - 1 ELSE x, increment, flags,
                                   start, end)[i - first + 1]
    BY <1>5
  <2> DEFINE l == i - first + 1
             counter == x + first - 1
             number == x + i - 1
  <2>2. /\ l \in 1..lanes /\ counter \in Nat /\ number = counter + l - 1 /\ i = first + l - 1
        /\ number \in Nat
    BY <1>1, <2>1
  <2>3. Nth(x, i) = Chunks(number)
    BY DEF Nth
  <2>4. many[i] = hash_lanes(inputs, first, lanes, BLOCKS, key, counter, increment, flags, start,
                             end)[l]
    BY <2>1 DEF IsTrue
  <2>5. inputs[i] = BlocksOf(input, Nth(x, i))
    BY <1>3
  <2> HIDE DEF l, counter, number
  <2>6. number = CounterAt(Nth(x, i))
    BY <2>2, <2>3, ChunksFacts
  <2>7. hash_lanes(inputs, first, lanes, BLOCKS, key, counter, increment, flags, start, end)[l]
          = ChunkOutput(input, Nth(x, i), CHUNK_LEN, key, flags)
    <3>1. /\ first \in Nat /\ lanes \in Nat /\ l \in 1..lanes /\ counter \in Nat
          /\ CounterAt(Nth(x, i)) = counter + l - 1 /\ i = first + l - 1
          /\ inputs[i] = BlocksOf(input, Nth(x, i)) /\ IsTrue(increment)
          /\ start = {"CHUNK_START"} /\ end = {"CHUNK_END"}
      BY <2>2, <2>5, <2>6
    <3> DEFINE at == Nth(x, i)
    <3>2. /\ CounterAt(at) = counter + l - 1 /\ inputs[i] = BlocksOf(input, at)
      BY <3>1
    <3> HIDE DEF at
    <3>3. hash_lanes(inputs, first, lanes, BLOCKS, key, counter, increment, flags, start, end)[l]
            = ChunkOutput(input, at, CHUNK_LEN, key, flags)
      BY ONLY <3>1, <3>2, ChunkInLane
    <3> QED BY <3>3 DEF at
  <2> QED BY <2>4, <2>7
<1> QED BY <1>4, <1>5, <1>6

LEMMA ChunksParallel ==
  ASSUME NEW input, NEW key, NEW flags, NEW x \in Nat, NEW n \in Nat \ {0}, n <= AllLen
  PROVE  compress_chunks_parallel(input, Chunks(x), n, key, x, flags)
           = Level(input, key, flags, n, x)
<1> DEFINE m == n \div CHUNK_LEN
           increment == TRUE
           start == {"CHUNK_START"}
           end == {"CHUNK_END"}
           cvs == blake3_hash_many(chunks_array(input, Chunks(x), n), BLOCKS, key, x, increment,
                                   flags, start, end)
           rest == n - Chunks(m)
           last == chunk_state_output(chunk_state_update(chunk_state_init(key, x + m, flags), input,
                                                         Chunks(x) + Chunks(m), rest))
           all == compress_chunks_parallel(input, Chunks(x), n, key, x, flags)
           Out(i, len) == ChunkOutput(input, Nth(x, i), len, key, flags)
           L == Level(input, key, flags, n, x)
<1>1. all = cvs \o (IF rest = 0 THEN <<>> ELSE <<last>>)
  BY DEF compress_chunks_parallel, Chunks, BLOCKS
<1>2. /\ m \in Nat /\ Chunks(m) \in Nat /\ Chunks(m) <= n /\ n < Chunks(m) + CHUNK_LEN
      /\ CHUNK_LEN \in Nat
  <2>1. /\ m \in Nat /\ n % CHUNK_LEN \in 0..CHUNK_LEN - 1
        /\ n = m * CHUNK_LEN + (n % CHUNK_LEN)
    BY Division, Lengths
  <2>2. Chunks(m) \in Nat /\ Chunks(m) = m * CHUNK_LEN /\ CHUNK_LEN \in Nat
    BY <2>1, ChunksFacts, Lengths DEF Chunks
  <2> HIDE DEF m
  <2> QED BY <2>1, <2>2
<1>3. /\ Row(cvs) /\ Len(cvs) = m /\ \A i \in 1..m : cvs[i] = Out(i, CHUNK_LEN)
  <2>1. IsTrue(increment) /\ start = {"CHUNK_START"} /\ end = {"CHUNK_END"}
    BY DEF IsTrue
  <2>2. m = n \div CHUNK_LEN
    OBVIOUS
  <2> HIDE DEF increment, start, end, m
  <2>3. cvs = blake3_hash_many(chunks_array(input, Chunks(x), n), BLOCKS, key, x, increment, flags,
                               start, end)
    OBVIOUS
  <2> HIDE DEF cvs
  <2> QED BY <2>1, <2>2, <2>3, ChunksInLanes
<1> HIDE DEF cvs, all, m
<1>4. /\ Row(L) /\ Len(L) = CountOf(n)
      /\ \A i \in 1..CountOf(n) : LevelLen(n, i) \in 0..AllLen /\ LevelLen(n, i) <= CHUNK_LEN
           => L[i] = Out(i, LevelLen(n, i))
  <2>1. /\ Row(L) /\ Len(L) = CountOf(n)
        /\ \A i \in 1..CountOf(n) :
              L[i] = Tree(input, key, flags)[LevelLen(n, i)][Nth(x, i)]
    <3>1. Row(L) /\ Len(L) = CountOf(n)
      <4>1. n \in Nat \ {0} /\ x \in Nat
        OBVIOUS
      <4> QED BY ONLY <4>1, LevelRow DEF L
    <3>2. ASSUME NEW i \in 1..CountOf(n)
          PROVE  L[i] = Tree(input, key, flags)[LevelLen(n, i)][Nth(x, i)]
      BY LevelEntry
    <3> HIDE DEF L
    <3> QED BY <3>1, <3>2
  <2>2. ASSUME NEW i \in 1..CountOf(n), LevelLen(n, i) \in 0..AllLen, LevelLen(n, i) <= CHUNK_LEN
        PROVE  L[i] = Out(i, LevelLen(n, i))
    <3>1. x + i - 1 \in Nat
      BY Counts
    <3>2. Nth(x, i) \in Nat
      BY <3>1, ChunksFacts DEF Nth
    <3> DEFINE len == LevelLen(n, i)
               first == Nth(x, i)
    <3> HIDE DEF L
    <3>3. L[i] = Tree(input, key, flags)[len][first]
      BY <2>1
    <3>4. len \in 0..AllLen /\ first \in Nat /\ len <= CHUNK_LEN
      BY <2>2, <3>2
    <3> HIDE DEF len, first
    <3>5. L[i] = ChunkOutput(input, first, len, key, flags)
      BY <3>3, <3>4, TreeChunk
    <3> QED BY <3>5 DEF len, first
  <2> QED BY <2>1, <2>2
<1>5. CASE rest = 0
  <2>1. m # 0 /\ n = Chunks(m) /\ n = Chunks(m - 1) + CHUNK_LEN /\ Chunks(m - 1) \in Nat
    <3>1. n = Chunks(m) /\ m # 0
      BY <1>2, <1>5, ChunksFacts
    <3>2. m - 1 \in Nat /\ (m - 1) + 1 = m /\ 1 \in Nat
      BY <1>2, <3>1
    <3>3. Chunks(m) = Chunks(m - 1) + Chunks(1) /\ Chunks(m - 1) \in Nat
      <4>1. Chunks((m - 1) + 1) = Chunks(m - 1) + Chunks(1) /\ Chunks(m - 1) \in Nat
        BY <3>2, ChunksFacts
      <4> QED BY <3>2, <4>1
    <3> QED BY <3>1, <3>3, ChunksFacts
  <2>2. CountOf(n) = m
    <3>1. Chunks(m - 1) < n /\ n <= Chunks(m) /\ m \in Nat \ {0}
      BY <1>2, <2>1, Lengths
    <3> QED BY <3>1, Counts
  <2>3. \A i \in 1..m : LevelLen(n, i) = CHUNK_LEN
    BY <1>2, <2>1, <2>2 DEF LevelLen
  <2>4. CHUNK_LEN \in 0..AllLen
    BY <1>2, <2>1, Lengths DEF AllLen
  <2>5. Row(L) /\ Len(L) = m /\ \A i \in 1..m : L[i] = cvs[i]
    <3> HIDE DEF L, Out
    <3> QED BY <1>2, <1>3, <1>4, <2>2, <2>3, <2>4
  <2>6. all = cvs
    <3>1. all = cvs \o <<>> /\ Row(<<>>) /\ Len(<<>>) = 0
      <4>1. <<>> = [i \in 1..0 |-> <<>>[i]]
        OBVIOUS
      <4> QED BY <1>1, <1>5, <4>1, RowIs
    <3> DEFINE none == <<>>
    <3>2. cvs \o none = [i \in 1..Len(cvs) + 0 |-> IF i <= Len(cvs) THEN cvs[i]
                                                   ELSE none[i - Len(cvs)]]
      <4>1. Row(none) /\ Len(none) = 0
        BY <3>1
      <4> HIDE DEF none
      <4> QED BY <1>3, <4>1, RowConcat
    <3> QED BY <1>2, <1>3, <3>1, <3>2, RowLen
  <2> HIDE DEF L
  <2>7. L = [i \in 1..m |-> L[i]] /\ cvs = [i \in 1..m |-> cvs[i]]
    BY <1>3, <2>5, RowLen
  <2>8. L = cvs
    BY <2>5, <2>7
  <2> QED BY <2>6, <2>8 DEF L, all
<1>6. CASE rest # 0
  <2>1. CountOf(n) = m + 1
    <3>1. m + 1 \in Nat \ {0} /\ (m + 1) - 1 = m /\ Chunks(m + 1) = Chunks(m) + CHUNK_LEN
      BY <1>2, ChunksFacts
    <3>2. Chunks((m + 1) - 1) < n /\ n <= Chunks(m + 1)
      BY <1>2, <1>6, <3>1
    <3> QED BY <3>1, <3>2, Counts
  <2>2. rest \in Nat /\ rest <= CHUNK_LEN /\ rest \in 0..AllLen
    BY <1>2, Lengths DEF AllLen
  <2>3. last = Out(m + 1, rest)
    <3>1. x + m \in Nat /\ x + (m + 1) - 1 = x + m
      BY <1>2
    <3>2. Chunks(x) + Chunks(m) = Chunks(x + m)
      BY <1>2, ChunksFacts
    <3> DEFINE c == x + m
    <3>3. c \in Nat
      BY <3>1
    <3>4. last = chunk_state_output(chunk_state_update(chunk_state_init(key, c, flags), input,
                                                       Chunks(c), rest))
      BY <3>2
    <3>5. Out(m + 1, rest) = ChunkOutput(input, Chunks(c), rest, key, flags)
      BY <3>1 DEF Nth
    <3> HIDE DEF c, rest
    <3> QED BY <2>2, <3>3, <3>4, <3>5, SingleChunk
  <2>4. /\ \A i \in 1..m : LevelLen(n, i) = CHUNK_LEN
        /\ LevelLen(n, m + 1) = rest
    BY <1>2, <2>1 DEF LevelLen
  <2>5. m # 0 => CHUNK_LEN \in 0..AllLen
    <3> SUFFICES ASSUME m # 0 PROVE CHUNK_LEN \in 0..AllLen
      OBVIOUS
    <3>1. CHUNK_LEN <= Chunks(m)
      BY <1>2, ChunksFacts
    <3> QED BY <1>2, <3>1, Lengths DEF AllLen
  <2> HIDE DEF last, Out, L
  <2>6. Row(L) /\ Len(L) = m + 1 /\ \A i \in 1..m : L[i] = cvs[i]
    BY <1>2, <1>3, <1>4, <2>1, <2>4, <2>5
  <2>7. L[m + 1] = last
    <3> HIDE DEF rest
    <3> QED BY <1>2, <1>4, <2>1, <2>2, <2>3, <2>4
  <2>8. Row(<<last>>) /\ Len(<<last>>) = 1 /\ all = cvs \o <<last>>
    <3>1. <<last>> = [i \in 1..1 |-> <<last>>[i]]
      OBVIOUS
    <3> QED BY <1>1, <1>6, <3>1, RowIs
  <2>9. all = [i \in 1..m + 1 |-> IF i <= m THEN cvs[i] ELSE <<last>>[i - m]]
    BY <1>3, <2>8, RowConcat
  <2>10. all = [i \in 1..m + 1 |-> L[i]]
    BY <1>2, <2>6, <2>7, <2>9
  <2>11. L = [i \in 1..m + 1 |-> L[i]]
    BY <2>6, RowLen
  <2>12. all = L
    BY <2>10, <2>11
  <2> QED BY <2>12 DEF all, L
<1> QED BY <1>5, <1>6

PairsIn(inputs, pair, k) == \A i \in 1..k : inputs[i] = <<pair[i]>>

IsFalse(increment) == \A u, v : (IF increment THEN u ELSE v) = v

\* A lane that holds the values of two children gives the output of their parent.
LEMMA ParentInLane ==
  ASSUME NEW key, NEW flags, NEW inputs, NEW from \in Nat, NEW lanes \in Nat, NEW l \in 1..lanes,
         NEW i, i = from + l - 1, NEW pair, inputs[i] = <<pair>>,
         NEW increment, IsFalse(increment), NEW none, none = {}
  PROVE  hash_lanes(inputs, from, lanes, 1, key, 0, increment, flags, none, none)[l]
           = compress(key, pair, BLOCK_LEN, 0, flags)
<1> DEFINE v == hash_lanes(inputs, from, lanes, 1, key, 0, increment, flags, none, none)
<1>1. PICK h : /\ v = h[1]
               /\ \A k \in 1..lanes : h[0][k] = key
               /\ \A n \in 1..1 : \A k \in 1..lanes :
                    h[n][k] = Lane(inputs, from, k, n, h[n - 1][k], 1, 0, increment, flags,
                                   none, none)
  <2>1. 1 \in Nat /\ 0 \in Nat /\ from \in Nat /\ lanes \in Nat
    OBVIOUS
  <2> QED BY ONLY <2>1, HashLanes DEF v
<1> HIDE DEF v
<1>2. h[1][l] = Lane(inputs, from, l, 1, h[0][l], 1, 0, increment, flags, none, none)
  <2>1. h[1][l] = Lane(inputs, from, l, 1, h[1 - 1][l], 1, 0, increment, flags, none, none)
    BY <1>1
  <2>2. 1 - 1 = 0
    OBVIOUS
  <2> QED BY <2>1, <2>2
<1>3. h[0][l] = key
  BY <1>1
<1>4. inputs[from + l - 1][1] = pair
  OBVIOUS
<1>5. Lane(inputs, from, l, 1, key, 1, 0, increment, flags, none, none)
        = compress(key, pair, BLOCK_LEN, 0, flags)
  BY <1>4 DEF Lane, IsFalse
<1> QED BY <1>1, <1>2, <1>3, <1>5 DEF v

\* The parents in parallel.
LEMMA ParentsInLanes ==
  ASSUME NEW key, NEW flags, NEW k \in Nat, NEW inputs, Row(inputs), Len(inputs) = k,
         NEW pair, PairsIn(inputs, pair, k),
         NEW increment, IsFalse(increment), NEW none, none = {},
         NEW out, out = blake3_hash_many(inputs, 1, key, 0, increment, flags, none, none)
  PROVE  /\ Row(out) /\ Len(out) = k
         /\ \A i \in 1..k : out[i] = compress(key, pair[i], BLOCK_LEN, 0, flags)
<1> DEFINE zero == 0
           one == 1
           many == blake3_hash_many(inputs, one, key, zero, increment, flags, none, none)
<1>1. out = many
  OBVIOUS
<1>2. /\ Row(many) /\ Len(many) = Len(inputs)
      /\ \A i \in 1..Len(inputs) : \E first \in Nat, lanes \in Nat :
           /\ first >= 1 /\ i - first + 1 \in 1..lanes
           /\ many[i] = hash_lanes(inputs, first, lanes, 1, key,
                                   IF increment THEN zero + first - 1 ELSE zero, increment,
                                   flags, none, none)[i - first + 1]
  <2>1. zero \in Nat /\ Len(inputs) \in Nat
    OBVIOUS
  <2> HIDE DEF zero, one
  <2>3. /\ Row(many) /\ Len(many) = Len(inputs)
        /\ \A i \in 1..Len(inputs) : \E first \in Nat, lanes \in Nat :
             /\ first >= 1 /\ i - first + 1 \in 1..lanes
             /\ many[i] = hash_lanes(inputs, first, lanes, one, key,
                                     IF increment THEN zero + first - 1 ELSE zero, increment,
                                     flags, none, none)[i - first + 1]
    BY ONLY <2>1, HashMany DEF many
  <2> QED BY <2>3 DEF one
<1> HIDE DEF many
<1>3. ASSUME NEW i \in 1..k PROVE many[i] = compress(key, pair[i], BLOCK_LEN, 0, flags)
  <2> HIDE DEF zero
  <2>1. PICK first \in Nat, lanes \in Nat :
           /\ first >= 1 /\ i - first + 1 \in 1..lanes
           /\ many[i] = hash_lanes(inputs, first, lanes, 1, key,
                                   IF increment THEN zero + first - 1 ELSE zero, increment,
                                   flags, none, none)[i - first + 1]
    BY <1>2
  <2> DEFINE l == i - first + 1
             two == pair[i]
  <2>2. /\ many[i] = hash_lanes(inputs, first, lanes, 1, key, 0, increment, flags, none, none)[l]
        /\ l \in 1..lanes /\ i = first + l - 1 /\ inputs[i] = <<two>>
    <3>1. (IF increment THEN zero + first - 1 ELSE zero) = zero /\ zero = 0
      BY DEF IsFalse, zero
    <3>2. many[i] = hash_lanes(inputs, first, lanes, 1, key, 0, increment, flags, none, none)[l]
      BY <2>1, <3>1
    <3>3. l \in 1..lanes /\ i = first + l - 1
      BY <2>1
    <3>4. inputs[i] = <<two>>
      BY DEF PairsIn
    <3> QED BY <3>2, <3>3, <3>4
  <2> HIDE DEF l, two
  <2>3. first \in Nat /\ lanes \in Nat /\ IsFalse(increment) /\ none = {}
    OBVIOUS
  <2>4. hash_lanes(inputs, first, lanes, 1, key, 0, increment, flags, none, none)[l]
          = compress(key, two, BLOCK_LEN, 0, flags)
    BY ONLY <2>2, <2>3, ParentInLane
  <2> QED BY <2>2, <2>4 DEF two
<1> QED BY <1>1, <1>2, <1>3

\* Pairing up is what is done with the chaining values.
LEMMA ParentsParallel ==
  ASSUME NEW cvs, NEW key, NEW flags, Row(cvs)
  PROVE  compress_parents_parallel(cvs, key, flags) = PairUp(cvs, key, flags)
<1> DEFINE n == Len(cvs)
           k == n \div 2
           pair == [p \in 1..k |-> <<cvs[2 * p - 1], cvs[2 * p]>>]
           parents == [p \in 1..k |-> << <<cvs[2 * p - 1], cvs[2 * p]>> >>]
           increment == FALSE
           none == {}
           fl == flags \cup {"PARENT"}
           out == blake3_hash_many(parents, 1, key, 0, increment, fl, none, none)
           all == compress_parents_parallel(cvs, key, flags)
           P == PairUp(cvs, key, flags)
           Parent(i) == parent_output(<<cvs[2 * i - 1], cvs[2 * i]>>, key, flags)
<1>1. all = out \o (IF n % 2 = 0 THEN <<>> ELSE <<cvs[n]>>)
  BY DEF compress_parents_parallel
<1>2. n \in Nat /\ k \in Nat /\ (n = 2 * k \/ n = 2 * k + 1) /\ (n % 2 = 0 <=> n = 2 * k)
  BY RowLen
<1>3. Row(parents) /\ Len(parents) = k /\ PairsIn(parents, pair, k)
  <2>1. parents = [i \in 1..k |-> parents[i]]
    OBVIOUS
  <2>2. PairsIn(parents, pair, k)
    BY DEF PairsIn
  <2> HIDE DEF k, parents, pair
  <2> QED BY <1>2, <2>1, <2>2, RowIs
<1>4. IsFalse(increment) /\ none = {}
  BY DEF IsFalse
<1>5. /\ Row(out) /\ Len(out) = k
      /\ \A i \in 1..k : out[i] = compress(key, pair[i], BLOCK_LEN, 0, fl)
  <2>1. out = blake3_hash_many(parents, 1, key, 0, increment, fl, none, none)
    OBVIOUS
  <2>2. k \in Nat
    BY <1>2
  <2> HIDE DEF out, k, parents, pair, increment, none, fl
  <2> QED BY ONLY <1>3, <1>4, <2>1, <2>2, ParentsInLanes
<1>6. \A i \in 1..k : out[i] = Parent(i)
  <2> HIDE DEF out, k
  <2> QED BY <1>5 DEF parent_output
<1>7. Row(P) /\ Len(P) = (n + 1) \div 2
  BY PairUpRow
<1>8. \A i \in 1..(n + 1) \div 2 :
        P[i] = IF 2 * i <= n THEN Parent(i) ELSE cvs[n]
  BY DEF PairUp
<1> HIDE DEF out, all, P, n, k, Parent
<1>9. CASE n = 2 * k
  <2>1. (n + 1) \div 2 = k
    BY <1>2, <1>9
  <2>2. \A i \in 1..k : P[i] = out[i]
    BY <1>2, <1>6, <1>8, <1>9, <2>1
  <2>3. all = out
    <3> DEFINE e == <<>>
    <3>1. all = out \o e /\ Row(e) /\ Len(e) = 0
      <4>1. e = [i \in 1..0 |-> e[i]]
        OBVIOUS
      <4> QED BY <1>1, <1>2, <1>9, <4>1, RowIs
    <3> HIDE DEF e
    <3>2. out \o e = [i \in 1..Len(out) + 0 |-> IF i <= Len(out) THEN out[i] ELSE e[i - Len(out)]]
      BY <1>5, <3>1, RowConcat
    <3> QED BY <1>2, <1>5, <3>1, <3>2, RowLen
  <2>4. P = [i \in 1..k |-> P[i]] /\ out = [i \in 1..k |-> out[i]]
    BY <1>5, <1>7, <2>1, RowLen
  <2>5. P = out
    BY <2>2, <2>4
  <2> QED BY <2>3, <2>5 DEF all, P
<1>10. CASE n = 2 * k + 1
  <2>1. (n + 1) \div 2 = k + 1 /\ n % 2 # 0
    BY <1>2, <1>10
  <2> DEFINE last == <<cvs[n]>>
  <2>2. Row(last) /\ Len(last) = 1 /\ all = out \o last /\ last[1] = cvs[n]
    <3>1. last = [i \in 1..1 |-> last[i]]
      OBVIOUS
    <3> QED BY <1>1, <2>1, <3>1, RowIs
  <2> HIDE DEF last
  <2>3. all = [i \in 1..k + 1 |-> IF i <= k THEN out[i] ELSE last[i - k]]
    <3>1. out \o last = [i \in 1..Len(out) + Len(last) |->
                           IF i <= Len(out) THEN out[i] ELSE last[i - Len(out)]]
      BY <1>5, <2>2, RowConcat
    <3> QED BY <1>5, <2>2, <3>1
  <2>4. ASSUME NEW i \in 1..k + 1 PROVE P[i] = IF i <= k THEN out[i] ELSE last[i - k]
    <3>1. CASE i <= k
      <4>1. i \in 1..k /\ 2 * i <= n /\ i \in 1..(n + 1) \div 2
        BY <1>2, <1>10, <2>1, <3>1
      <4> QED BY <1>6, <1>8, <3>1, <4>1
    <3>2. CASE i = k + 1
      <4>1. ~ (2 * i <= n) /\ i \in 1..(n + 1) \div 2 /\ i - k = 1 /\ ~ (i <= k)
        BY <1>2, <1>10, <2>1, <3>2
      <4> QED BY <1>8, <2>2, <4>1
    <3> QED BY <1>2, <3>1, <3>2
  <2>5. P = [i \in 1..k + 1 |-> P[i]]
    BY <1>7, <2>1, RowLen
  <2>6. P = all
    BY <2>3, <2>4, <2>5
  <2> QED BY <2>6 DEF all, P
<1> QED BY <1>2, <1>9, <1>10

LEMMA CountLess ==
  ASSUME NEW n \in Nat \ {0}, NEW q \in Nat, n <= Chunks(q)
  PROVE  CountOf(n) <= q
<1> DEFINE d == CountOf(n) - 1
<1>1. d \in Nat /\ Chunks(d) < n /\ CountOf(n) = d + 1
  BY Counts
<1> HIDE DEF d
<1>2. Chunks(d) \in Nat /\ Chunks(q) \in Nat
  BY <1>1, ChunksFacts
<1>3. ~ q <= d
  <2> SUFFICES ASSUME q <= d PROVE FALSE
    OBVIOUS
  <2>1. Chunks(q) <= Chunks(d)
    BY <1>1, ChunksFacts
  <2> QED BY <1>1, <1>2, <2>1
<1> QED BY <1>1, <1>3

LEMMA CountChunks ==
  ASSUME NEW p \in Nat \ {0}
  PROVE  CountOf(Chunks(p)) = p /\ Chunks(p) \in Nat \ {0} /\ Chunks(p - 1) \in Nat
         /\ Chunks(p) = Chunks(p - 1) + CHUNK_LEN
<1>1. p \in Nat /\ p - 1 \in Nat /\ (p - 1) + 1 = p /\ 1 \in Nat
  OBVIOUS
<1>2. Chunks((p - 1) + 1) = Chunks(p - 1) + Chunks(1) /\ Chunks(1) = CHUNK_LEN
  BY <1>1, ChunksFacts
<1>3. Chunks(p) = Chunks(p - 1) + CHUNK_LEN /\ Chunks(p) \in Nat /\ Chunks(p - 1) \in Nat
  BY <1>1, <1>2, ChunksFacts
<1>4. Chunks(p) \in Nat \ {0} /\ Chunks(p - 1) < Chunks(p) /\ Chunks(p) <= Chunks(p)
  BY <1>3, Lengths
<1>5. CountOf(Chunks(p)) = p
  BY <1>4, Counts
<1> QED BY <1>3, <1>4, <1>5

Splits(X, Y, Z) == X = Y \o Z

\* The level of a tree is that of its left subtree and then that of its right one.
LEMMA LevelConcat ==
  ASSUME NEW input, NEW key, NEW flags, NEW n \in Nat, NEW x \in Nat, NEW p \in Nat, p \in Pow,
         NEW e \in Nat, e = Chunks(p), NEW m \in Nat \ {0}, n = e + m, NEW y \in Nat, y = x + p
  PROVE  Splits(Level(input, key, flags, n, x), Level(input, key, flags, e, x),
                Level(input, key, flags, m, y))
<1>1. p \in Nat \ {0}
  BY PowType
<1> DEFINE k == CountOf(m)
<1>2. e \in Nat \ {0} /\ CountOf(e) = p /\ Chunks(p - 1) \in Nat /\ e = Chunks(p - 1) + CHUNK_LEN
  BY <1>1, CountChunks
<1>3. m \in Nat \ {0} /\ n = e + m /\ n \in Nat \ {0}
  BY <1>2
<1>4. k \in Nat \ {0} /\ Chunks(k - 1) < m /\ m <= Chunks(k)
  BY <1>3, Counts
<1> HIDE DEF k
<1>5. k \in Nat /\ k - 1 \in Nat /\ p + k \in Nat \ {0} /\ (p + k) - 1 = p + (k - 1) /\ p \in Nat
  BY <1>1, <1>4
<1>6. Chunks(p + k) = e + Chunks(k) /\ Chunks((p + k) - 1) = e + Chunks(k - 1)
      /\ Chunks(k) \in Nat /\ Chunks(k - 1) \in Nat
  <2>1. Chunks(p + k) = Chunks(p) + Chunks(k) /\ Chunks(k) \in Nat
    BY ONLY <1>5, ChunksFacts
  <2>2. Chunks(p + (k - 1)) = Chunks(p) + Chunks(k - 1) /\ Chunks(k - 1) \in Nat
    BY ONLY <1>5, ChunksFacts
  <2> QED BY <1>5, <2>1, <2>2
<1>7. CountOf(n) = p + k
  <2>1. Chunks((p + k) - 1) < n /\ n <= Chunks(p + k)
    BY <1>2, <1>3, <1>4, <1>6
  <2> QED BY <1>3, <1>5, <2>1, Counts
<1> DEFINE L == Level(input, key, flags, n, x)
           A == Level(input, key, flags, e, x)
           B == Level(input, key, flags, m, y)
           At(len, place) == Tree(input, key, flags)[len][place]
<1>0. x \in Nat /\ y \in Nat
  BY <1>5
<1>8. Row(L) /\ Len(L) = p + k /\ \A i \in 1..p + k : L[i] = At(LevelLen(n, i), Nth(x, i))
  <2>1. Row(L) /\ Len(L) = CountOf(n)
    BY ONLY <1>0, <1>3, LevelRow DEF L
  <2>2. \A i \in 1..CountOf(n) : L[i] = At(LevelLen(n, i), Nth(x, i))
    BY ONLY LevelEntry DEF L, At
  <2> HIDE DEF L, At
  <2> QED BY <1>7, <2>1, <2>2
<1>9. Row(A) /\ Len(A) = p /\ \A i \in 1..p : A[i] = At(LevelLen(e, i), Nth(x, i))
  <2>1. Row(A) /\ Len(A) = CountOf(e)
    BY ONLY <1>0, <1>2, LevelRow DEF A
  <2>2. \A i \in 1..CountOf(e) : A[i] = At(LevelLen(e, i), Nth(x, i))
    BY ONLY LevelEntry DEF A, At
  <2> HIDE DEF A, At
  <2> QED BY <1>2, <2>1, <2>2
<1>10. Row(B) /\ Len(B) = k /\ \A i \in 1..k : B[i] = At(LevelLen(m, i), Nth(y, i))
  <2>0. B = Level(input, key, flags, m, y)
    OBVIOUS
  <2> HIDE DEF B
  <2>1. Row(B) /\ Len(B) = CountOf(m)
    BY ONLY <1>0, <1>3, <2>0, LevelRow
  <2>2. \A i \in 1..CountOf(m) : B[i] = At(LevelLen(m, i), Nth(y, i))
    BY ONLY <2>0, LevelEntry DEF At
  <2> QED BY <2>1, <2>2 DEF k
<1> HIDE DEF L, A, B, At
<1>11. ASSUME NEW i \in 1..p PROVE L[i] = A[i]
  <2>1. LevelLen(n, i) = CHUNK_LEN
    BY <1>1, <1>4, <1>7 DEF LevelLen
  <2>2. LevelLen(e, i) = CHUNK_LEN
    BY <1>1, <1>2, Lengths DEF LevelLen
  <2>3. i \in 1..p + k
    BY <1>1, <1>4
  <2> QED BY <1>8, <1>9, <2>1, <2>2, <2>3
<1>12. ASSUME NEW j \in 1..k PROVE L[p + j] = B[j]
  <2> DEFINE i == p + j
  <2>1. i \in 1..p + k /\ i - 1 = p + (j - 1) /\ j - 1 \in Nat /\ x + i - 1 = (x + p) + j - 1
        /\ (i = p + k <=> j = k)
    BY <1>1, <1>4
  <2>2. Chunks(p + (j - 1)) = e + Chunks(j - 1) /\ Chunks(j - 1) \in Nat
    BY <1>5, <2>1, ChunksFacts
  <2>3. Nth(x, i) = Nth(y, j)
    BY <2>1 DEF Nth
  <2>4. LevelLen(n, i) = LevelLen(m, j)
    <3>1. LevelLen(n, i) = IF i = p + k THEN n - Chunks(p + (j - 1)) ELSE CHUNK_LEN
      BY <1>7, <2>1 DEF LevelLen
    <3>2. LevelLen(m, j) = IF j = k THEN m - Chunks(j - 1) ELSE CHUNK_LEN
      BY DEF LevelLen, k
    <3>3. n - Chunks(p + (j - 1)) = m - Chunks(j - 1)
      BY <1>2, <1>3, <2>2
    <3> QED BY <2>1, <3>1, <3>2, <3>3
  <2> HIDE DEF i
  <2>5. L[i] = B[j]
    BY <1>8, <1>10, <2>1, <2>3, <2>4
  <2> QED BY <2>5 DEF i
<1>13. A \o B = [i \in 1..p + k |-> IF i <= p THEN A[i] ELSE B[i - p]]
  <2>1. A \o B = [i \in 1..Len(A) + Len(B) |-> IF i <= Len(A) THEN A[i] ELSE B[i - Len(A)]]
    BY <1>9, <1>10, RowConcat
  <2> QED BY <1>9, <1>10, <2>1
<1>14. ASSUME NEW i \in 1..p + k PROVE L[i] = IF i <= p THEN A[i] ELSE B[i - p]
  <2>1. CASE i <= p
    <3>1. i \in 1..p
      BY <2>1
    <3> QED BY <1>11, <2>1, <3>1
  <2>2. CASE ~ i <= p
    <3> DEFINE j == i - p
    <3>1. j \in 1..k /\ p + j = i
      BY <1>1, <1>4, <2>2
    <3> HIDE DEF j
    <3>2. L[i] = B[j]
      BY <1>12, <3>1
    <3> QED BY <2>2, <3>2 DEF j
  <2> QED BY <2>1, <2>2
<1>15. L = [i \in 1..p + k |-> L[i]]
  BY <1>8, RowLen
<1>16. L = A \o B
  BY <1>13, <1>14, <1>15
<1> QED BY <1>16 DEF L, A, B, Splits

\* Paired up again and again, a level leaves the root of its tree.
LEMMA LevelRoots ==
  ASSUME NEW input, NEW key, NEW flags
  PROVE  \A n \in 1..AllLen : \A x \in Nat :
           Roots(Level(input, key, flags, n, x), Tree(input, key, flags)[n][Chunks(x)], key, flags)
<1> DEFINE Claim(n, x) == Roots(Level(input, key, flags, n, x),
                                Tree(input, key, flags)[n][Chunks(x)], key, flags)
           T == {n \in Nat : n \in 1..AllLen => \A x \in Nat : Claim(n, x)}
<1>1. AllLen \in Nat
  BY Lengths DEF AllLen
<1>2. ASSUME NEW n \in Nat, \A m \in 0..n - 1 : m \in T PROVE n \in T
  <2> HIDE DEF Claim
  <2> SUFFICES ASSUME n \in 1..AllLen, NEW x \in Nat PROVE Claim(n, x)
    OBVIOUS
  <2>1. CASE n <= CHUNK_LEN
    <3>1. CountOf(n) = 1
      <4>1. Chunks(1 - 1) < n /\ n <= Chunks(1) /\ n \in Nat \ {0} /\ 1 \in Nat \ {0}
        <5>1. 1 - 1 = 0 /\ Chunks(0) = 0 /\ Chunks(1) = CHUNK_LEN /\ n # 0
          BY ChunksFacts
        <5> QED BY <2>1, <5>1
      <4> QED BY <4>1, Counts
    <3> DEFINE v == Tree(input, key, flags)[n][Chunks(x)]
               L == Level(input, key, flags, n, x)
    <3>2. LevelLen(n, 1) = n /\ Nth(x, 1) = Chunks(x)
      BY <3>1, ChunksFacts DEF LevelLen, Nth
    <3>3. Row(L) /\ Len(L) = 1 /\ L[1] = v
      <4>1. n \in Nat \ {0} /\ x \in Nat /\ 1 \in 1..CountOf(n)
        BY <3>1
      <4>2. Row(L) /\ Len(L) = CountOf(n)
        BY ONLY <4>1, LevelRow DEF L
      <4>3. L[1] = Tree(input, key, flags)[LevelLen(n, 1)][Nth(x, 1)]
        BY ONLY <4>1, LevelEntry DEF L
      <4> QED BY <3>1, <3>2, <4>2, <4>3
    <3> HIDE DEF L, v
    <3>4. L = [i \in 1..1 |-> L[i]]
      BY <3>3, RowLen
    <3>5. L = <<v>>
      BY <3>3, <3>4
    <3> QED BY <3>5, RootsOne DEF L, v, Claim
  <2>2. CASE n > CHUNK_LEN
    <3>1. PICK p \in Pow : left_len(n) = Chunks(p) /\ Chunks(p) < n /\ n <= Chunks(2 * p)
      BY <2>2, LeftLen
    <3>2. p \in Nat \ {0} /\ p \in Nat /\ 2 * p = p + p
      BY <3>1, PowType
    <3> DEFINE e == Chunks(p)
               m == n - e
               A == Level(input, key, flags, e, x)
               B == Level(input, key, flags, m, x + p)
               t == Tree(input, key, flags)
    <3>3. e \in Nat \ {0} /\ CountOf(e) = p /\ Chunks(2 * p) = e + e
          /\ Chunks(x + p) = Chunks(x) + e /\ Chunks(x) \in Nat
      <4>1. e \in Nat \ {0} /\ CountOf(e) = p
        BY <3>2, CountChunks
      <4>2. Chunks(p + p) = e + e
        BY <3>2, ChunksFacts
      <4>3. Chunks(x + p) = Chunks(x) + e /\ Chunks(x) \in Nat
        BY <3>2, ChunksFacts
      <4> HIDE DEF e
      <4> QED BY <3>2, <4>1, <4>2, <4>3
    <3>4. m \in Nat \ {0} /\ Level(input, key, flags, n, x) = A \o B
      <4> DEFINE y == x + p
      <4>1. /\ n \in Nat /\ x \in Nat /\ p \in Nat /\ p \in Pow /\ e \in Nat /\ e = Chunks(p)
            /\ m \in Nat \ {0} /\ n = e + m /\ y \in Nat /\ y = x + p
        BY <3>1, <3>2, <3>3
      <4>2. A = Level(input, key, flags, e, x) /\ B = Level(input, key, flags, m, y)
        OBVIOUS
      <4> HIDE DEF m, A, B, e, y
      <4>3. Splits(Level(input, key, flags, n, x), A, B)
        BY ONLY <4>1, <4>2, LevelConcat
      <4> QED BY <4>1, <4>3 DEF Splits
    <3> HIDE DEF e, m
    <3>5. m <= e /\ m \in 0..n - 1 /\ e \in 0..n - 1 /\ m \in 1..AllLen /\ e \in 1..AllLen
      BY <1>1, <3>1, <3>3, <3>4 DEF e, m
    <3>6. CountOf(m) <= p
      BY <3>2, <3>4, <3>5, CountLess DEF e
    <3>7. Claim(e, x) /\ Claim(m, x + p)
      <4>1. e \in T /\ m \in T
        <5> HIDE DEF T
        <5> QED BY <1>2, <3>5
      <4>2. x + p \in Nat
        BY <3>2
      <4> QED BY <3>5, <4>1, <4>2
    <3>8. Len(A) = p /\ Len(B) = CountOf(m)
      <4>1. x + p \in Nat
        BY <3>2
      <4> DEFINE y == x + p
      <4>2. y \in Nat /\ x \in Nat
        BY <4>1
      <4> HIDE DEF y
      <4>3. Len(Level(input, key, flags, m, y)) = CountOf(m)
        BY ONLY <3>4, <4>2, LevelRow
      <4>4. Len(A) = CountOf(e)
        BY ONLY <3>3, <4>2, LevelRow DEF A
      <4> QED BY <3>3, <4>3, <4>4 DEF y
    <3>9. Roots(A, t[e][Chunks(x)], key, flags) /\ Roots(B, t[m][Chunks(x + p)], key, flags)
      BY <3>7 DEF Claim
    <3>10. t[n][Chunks(x)] = parent_output(<<t[e][Chunks(x)], t[m][Chunks(x + p)]>>, key, flags)
      <4> DEFINE first == Chunks(x)
      <4>1. first \in Nat /\ n \in 0..AllLen /\ Chunks(p) < n /\ n <= Chunks(2 * p)
        BY <1>1, <3>1, <3>3
      <4> HIDE DEF first
      <4>2. t[n][first] = parent_output(<<t[Chunks(p)][first], t[n - Chunks(p)][first + Chunks(p)]>>,
                                        key, flags)
        BY <3>1, <4>1, TreeParent
      <4> QED BY <3>3, <4>2 DEF first, m, e
    <3> DEFINE v == t[e][Chunks(x)]
               w == t[m][Chunks(x + p)]
               u == t[n][Chunks(x)]
    <3>11. Roots(A, v, key, flags) /\ Roots(B, w, key, flags) /\ u = parent_output(<<v, w>>, key, flags)
      BY <3>9, <3>10
    <3>12. Claim(n, x) <=> Roots(A \o B, u, key, flags)
      BY <3>4 DEF Claim
    <3> HIDE DEF A, B, v, w, u, t
    <3>13. Roots(A \o B, parent_output(<<v, w>>, key, flags), key, flags)
      BY <3>1, <3>6, <3>8, <3>11, RootsConcat
    <3> QED BY <3>11, <3>12, <3>13
  <2> QED BY <2>1, <2>2, Lengths
<1>3. Nat \subseteq T
  <2> HIDE DEF T
  <2> QED BY <1>2, NatStrong
<1>4. \A n \in 1..AllLen : \A x \in Nat : Claim(n, x)
  <2> SUFFICES ASSUME NEW n \in 1..AllLen PROVE \A x \in Nat : Claim(n, x)
    OBVIOUS
  <2>1. n \in T
    <3> HIDE DEF T
    <3> QED BY <1>1, <1>3
  <2> HIDE DEF Claim
  <2> QED BY <2>1
<1> QED BY <1>4

\* The array the two halves have written into has neither gaps nor overlaps.
LEMMA CvArray ==
  ASSUME NEW X, NEW Y, Row(X), Row(Y), NEW d, d = Len(X), NEW n, n = Len(X) + Len(Y)
  PROVE  cv_array(X, Y, d, n) = X \o Y
<1> DEFINE k == Len(Y)
<1>1. d \in Nat /\ k \in Nat /\ DOMAIN X = 1..d /\ DOMAIN Y = 1..k /\ n = d + k
  <2>1. Len(X) \in Nat /\ X = [i \in 1..Len(X) |-> X[i]]
    BY RowLen
  <2>2. Len(Y) \in Nat /\ Y = [i \in 1..Len(Y) |-> Y[i]]
    BY RowLen
  <2> QED BY <2>1, <2>2
<1>2. X \o Y = [i \in 1..n |-> IF i <= d THEN X[i] ELSE Y[i - d]]
  BY RowConcat
<1> HIDE DEF k
<1>3. cv_array(X, Y, d, n) = [i \in 1..n |-> IF i - d \in 1..k THEN Y[i - d]
                                            ELSE IF i \in 1..d THEN X[i] ELSE Garbage]
  BY <1>1 DEF cv_array
<1>4. ASSUME NEW i \in 1..n
      PROVE  (IF i - d \in 1..k THEN Y[i - d] ELSE IF i \in 1..d THEN X[i] ELSE Garbage)
               = (IF i <= d THEN X[i] ELSE Y[i - d])
  BY <1>1
<1> QED BY <1>2, <1>3, <1>4

------------------------------------------------------------------------------
(* The chaining values of a subtree: how many there are, and their root.   *)

WIDE == IF blake3_simd_degree > 2 THEN blake3_simd_degree ELSE 2
DegreeOf(left) == IF left > CHUNK_LEN /\ blake3_simd_degree = 1 THEN 2 ELSE blake3_simd_degree

WideOk(input, key, flags, X, n, z) ==
  /\ Roots(X, Tree(input, key, flags)[n][Chunks(z)], key, flags)
  /\ Len(X) <= WIDE
  /\ n > CHUNK_LEN => Len(X) >= 2
  /\ \A p \in Pow : n <= Chunks(p) /\ p <= blake3_simd_degree => Len(X) <= p
  /\ \A p \in Pow : n = Chunks(p) => Len(X) = IF p <= blake3_simd_degree THEN p ELSE WIDE

LEMMA WideType ==
  /\ WIDE \in Nat /\ 2 <= WIDE /\ blake3_simd_degree <= WIDE /\ WIDE \in Pow
  /\ WIDE <= MAX_SIMD_DEGREE_OR_2 /\ blake3_simd_degree \in Nat \ {0}
  /\ blake3_simd_degree \in Pow
<1>1. 2 \in Pow
  <2>1. 2 * 1 \in Pow
    BY PowType
  <2> QED BY <2>1
<1> QED BY <1>1, SimdDegree DEF WIDE

LEMMA WideLeaf ==
  ASSUME NEW input, NEW key, NEW flags, NEW n \in 1..AllLen, NEW z \in Nat,
         n <= Chunks(blake3_simd_degree), NEW X, X = Level(input, key, flags, n, z)
  PROVE  WideOk(input, key, flags, X, n, z)
<1> DEFINE D == blake3_simd_degree
           t == Tree(input, key, flags)[n][Chunks(z)]
<1>1. D \in Nat \ {0} /\ D \in Nat /\ WIDE \in Nat /\ D <= WIDE /\ AllLen \in Nat
  BY WideType, Lengths DEF AllLen
<1>2. n \in Nat \ {0} /\ n \in Nat /\ z \in Nat
  BY <1>1
<1>3. Roots(X, t, key, flags)
  <2> DEFINE Is(m, y) == Roots(Level(input, key, flags, m, y),
                               Tree(input, key, flags)[m][Chunks(y)], key, flags)
  <2>1. \A m \in 1..AllLen : \A y \in Nat : Is(m, y)
    BY LevelRoots
  <2>2. Is(n, z)
    <3> HIDE DEF Is
    <3> QED BY <2>1
  <2> QED BY <2>2
<1>4. Len(X) = CountOf(n)
  BY ONLY <1>2, LevelRow, X = Level(input, key, flags, n, z)
<1>5. CountOf(n) \in Nat \ {0} /\ n <= Chunks(CountOf(n))
  BY <1>2, Counts
<1>6. CountOf(n) <= D
  BY <1>1, <1>2, CountLess
<1>7. n > CHUNK_LEN => CountOf(n) >= 2
  <2> SUFFICES ASSUME n > CHUNK_LEN, CountOf(n) = 1 PROVE FALSE
    BY <1>5
  <2>1. Chunks(CountOf(n)) = CHUNK_LEN
    BY ChunksFacts
  <2> QED BY <1>5, <2>1, Lengths
<1>8. ASSUME NEW p \in Pow, n <= Chunks(p) PROVE CountOf(n) <= p
  <2>1. p \in Nat
    BY PowType
  <2> QED BY <1>2, <1>8, <2>1, CountLess
<1>9. ASSUME NEW p \in Pow, n = Chunks(p)
      PROVE  CountOf(n) = IF p <= D THEN p ELSE WIDE
  <2>1. p \in Nat \ {0}
    BY PowType
  <2>2. CountOf(n) = p
    BY <1>9, <2>1, CountChunks
  <2> QED BY <1>6, <2>2
<1> HIDE DEF D, t
<1>10. Len(X) <= WIDE
  BY <1>1, <1>4, <1>5, <1>6
<1> QED BY <1>3, <1>4, <1>7, <1>8, <1>9, <1>10 DEF WideOk, D, t

LEMMA WideJoin ==
  ASSUME NEW input, NEW key, NEW flags, NEW n \in 1..AllLen, NEW z \in Nat,
         ~ n <= Chunks(blake3_simd_degree), NEW q \in Pow, NEW e, e = Chunks(q), e < n,
         n <= Chunks(2 * q), NEW m, m = n - e, NEW X, NEW Y,
         WideOk(input, key, flags, X, e, z), WideOk(input, key, flags, Y, m, z + q)
  PROVE  WideOk(input, key, flags, joined(X, Y, DegreeOf(e), key, flags), n, z)
<1> DEFINE D == blake3_simd_degree
           t == Tree(input, key, flags)
           v == t[e][Chunks(z)]
           w == t[m][Chunks(z + q)]
           u == t[n][Chunks(z)]
           Z == joined(X, Y, DegreeOf(e), key, flags)
           XY == X \o Y
           k == Len(Y)
<1>1. D \in Nat \ {0} /\ D \in Nat /\ D \in Pow /\ WIDE \in Nat /\ D <= WIDE /\ 2 <= WIDE
      /\ WIDE \in Pow /\ AllLen \in Nat
  BY WideType, Lengths DEF AllLen
<1>2. q \in Nat \ {0} /\ q \in Nat /\ 2 * q = q + q /\ 2 * q \in Nat /\ 2 * q \in Pow
  BY PowType
<1>3. e \in Nat /\ Chunks(2 * q) = e + e /\ Chunks(z + q) = Chunks(z) + e /\ Chunks(z) \in Nat
      /\ Chunks(D) \in Nat
  BY <1>1, <1>2, ChunksFacts
<1>4. n \in Nat /\ m \in Nat /\ m <= e /\ n = e + m
  BY <1>1, <1>3
<1>5. D <= q
  <2> SUFFICES ASSUME q < D PROVE FALSE
    BY <1>1, <1>2
  <2>1. 2 * q <= D
    BY <1>1, PowOrder
  <2>2. Chunks(2 * q) <= Chunks(D)
    BY <1>1, <1>2, <2>1, ChunksFacts
  <2> QED BY <1>3, <1>4, <2>2
<1>6. Roots(X, v, key, flags) /\ Roots(Y, w, key, flags) /\ k <= WIDE
  BY DEF WideOk
<1>7. Row(X) /\ Row(Y) /\ Len(X) \in Nat /\ k \in Nat /\ k >= 1
  BY <1>6, RowLen DEF Roots
<1>8. u = parent_output(<<v, w>>, key, flags)
  <2> DEFINE first == Chunks(z)
  <2>1. first \in Nat /\ n \in 0..AllLen /\ Chunks(q) < n /\ n <= Chunks(2 * q)
    BY <1>1, <1>3
  <2> HIDE DEF first
  <2>2. t[n][first] = parent_output(<<t[Chunks(q)][first], t[n - Chunks(q)][first + Chunks(q)]>>,
                                    key, flags)
    BY <2>1, TreeParent
  <2> QED BY <1>3, <2>2 DEF first
<1>9. Len(X) = IF q <= D THEN q ELSE WIDE
  BY DEF WideOk
<1> HIDE DEF v, w, u, t, k
<1>10. Roots(XY, u, key, flags) /\ Row(XY) /\ Len(XY) = Len(X) + k /\ Len(X) \in Pow
  <2>1. Len(X) \in Pow
    BY <1>1, <1>9
  <2>2. k <= Len(X)
    <3>1. CASE D = 1 /\ q = 1
      <4>1. m <= Chunks(1) /\ 1 <= D /\ 1 \in Pow
        BY <1>4, <3>1, PowType
      <4>2. k <= 1
        BY <4>1 DEF WideOk, k
      <4> QED BY <1>9, <3>1, <4>2
    <3>2. CASE ~ (D = 1 /\ q = 1)
      <4>1. Len(X) = WIDE
        BY <1>1, <1>2, <1>5, <1>9, <3>2 DEF WIDE
      <4> QED BY <1>6, <4>1
    <3> QED BY <3>1, <3>2
  <2>3. Roots(XY, parent_output(<<v, w>>, key, flags), key, flags)
    BY <1>6, <2>1, <2>2, RootsConcat DEF k
  <2>4. Row(XY) /\ Len(XY) = Len(X) + k
    BY <1>7, RowConcat DEF k
  <2> QED BY <1>8, <2>1, <2>3, <2>4
<1>11. DegreeOf(e) = Len(X)
  <2>1. CASE D = 1 /\ q = 1
    <3>1. e = CHUNK_LEN
      BY <2>1, ChunksFacts
    <3> QED BY <1>9, <2>1, <3>1, Lengths DEF DegreeOf
  <2>2. CASE D = 1 /\ q # 1
    <3>1. Chunks(1) + CHUNK_LEN <= Chunks(q) /\ Chunks(1) = CHUNK_LEN
      <4>1. 1 < q /\ 1 \in Nat
        BY <1>2, <2>2
      <4> QED BY <1>2, <4>1, ChunksFacts
    <3>2. e > CHUNK_LEN
      BY <1>3, <3>1, Lengths
    <3>3. Len(X) = 2
      BY <1>2, <1>9, <2>2 DEF WIDE
    <3> QED BY <2>2, <3>2, <3>3 DEF DegreeOf
  <2>3. CASE D # 1
    <3>1. Len(X) = D
      BY <1>1, <1>2, <1>5, <1>9, <2>3 DEF WIDE
    <3> QED BY <2>3, <3>1 DEF DegreeOf
  <2> QED BY <2>1, <2>2, <2>3
<1>12. Z = IF Len(X) = 1 THEN XY ELSE PairUp(XY, key, flags)
  <2>1. Len(X) # 1 => Z = compress_parents_parallel(XY, key, flags)
    <3> DEFINE l == Len(X) + Len(Y)
    <3>1. cv_array(X, Y, DegreeOf(e), l) = XY
      BY <1>7, <1>11, CvArray
    <3> QED BY <3>1 DEF joined
  <2>2. Len(X) = 1 => Z = XY
    <3> SUFFICES ASSUME Len(X) = 1 PROVE Z = XY
      OBVIOUS
    <3>1. D = 1 /\ q = 1
      BY <1>1, <1>2, <1>5, <1>9
    <3>2. m <= Chunks(1) /\ 1 <= D /\ 1 \in Pow
      BY <1>4, <3>1, PowType
    <3>3. k <= 1
      BY <3>2 DEF WideOk, k
    <3>4. 2 = Len(X) + Len(Y)
      BY <1>7, <3>3 DEF k
    <3>5. cv_array(X, Y, DegreeOf(e), 2) = XY
      BY <1>7, <1>11, <3>4, CvArray
    <3> QED BY <3>5 DEF joined
  <2> HIDE DEF Z, XY
  <2>3. compress_parents_parallel(XY, key, flags) = PairUp(XY, key, flags)
    BY <1>10, ParentsParallel
  <2> QED BY <2>1, <2>2, <2>3
<1> HIDE DEF Z, XY
<1>13. Roots(Z, u, key, flags)
  BY <1>10, <1>12, RootsPairUp
<1>14. CASE Len(X) = 1
  <2>1. D = 1 /\ q = 1
    BY <1>1, <1>2, <1>5, <1>9, <1>14
  <2>2. m <= Chunks(1) /\ 1 <= D /\ 1 \in Pow
    BY <1>4, <2>1, PowType
  <2>3. k <= 1
    BY <2>2 DEF WideOk, k
  <2>4. Len(Z) = 2
    BY <1>7, <1>10, <1>12, <1>14, <2>3
  <2>5. WIDE = 2
    BY <2>1 DEF WIDE
  <2>6. ASSUME NEW p \in Pow, n <= Chunks(p), p <= D PROVE Len(Z) <= p
    <3>1. p = D
      BY <2>1, <2>6, PowType
    <3> QED BY <2>6, <3>1
  <2>7. ASSUME NEW p \in Pow, n = Chunks(p) PROVE Len(Z) = IF p <= D THEN p ELSE WIDE
    <3>1. p <= D => p = D
      BY <2>1, PowType
    <3> QED BY <1>4, <2>4, <2>5, <2>7, <3>1
  <2> QED BY <1>13, <2>4, <2>5, <2>6, <2>7 DEF WideOk, u, t, Z, D
<1>15. CASE Len(X) # 1
  <2>1. Len(X) = WIDE
    BY <1>1, <1>2, <1>5, <1>9, <1>15 DEF WIDE
  <2>2. Len(Z) = (WIDE + k + 1) \div 2
    BY <1>10, <1>12, <1>15, <2>1, PairUpRow
  <2>3. Len(Z) <= WIDE /\ Len(Z) >= 2 /\ (k = WIDE => Len(Z) = WIDE)
    BY <1>1, <1>6, <1>7, <2>2
  <2>4. ASSUME NEW p \in Pow, n <= Chunks(p), p <= D PROVE FALSE
    <3>1. p \in Nat
      BY PowType
    <3>2. Chunks(p) <= Chunks(D)
      BY <1>1, <2>4, <3>1, ChunksFacts
    <3>3. Chunks(p) \in Nat
      BY <3>1, ChunksFacts
    <3> QED BY <1>3, <1>4, <2>4, <3>2, <3>3
  <2>5. ASSUME NEW p \in Pow, n = Chunks(p) PROVE ~ p <= D /\ Len(Z) = WIDE
    <3>1. p \in Nat /\ Chunks(p) \in Nat
      BY PowType, ChunksFacts
    <3>2. ~ p <= D
      BY <2>4, <2>5, <3>1
    <3>3. q < p
      <4> SUFFICES ASSUME p <= q PROVE FALSE
        BY <1>2, <3>1
      <4>1. Chunks(p) <= Chunks(q)
        BY <1>2, <3>1, ChunksFacts
      <4> QED BY <1>3, <1>4, <2>5, <4>1
    <3>4. 2 * q <= p
      BY <3>3, PowOrder
    <3>5. Chunks(2 * q) <= Chunks(p)
      BY <1>2, <3>1, <3>4, ChunksFacts
    <3>6. m = e
      BY <1>3, <1>4, <2>5, <3>5
    <3>7. Len(Y) = IF q <= D THEN q ELSE WIDE
      BY <3>6 DEF WideOk
    <3>8. k = WIDE
      BY <1>9, <2>1, <3>7 DEF k
    <3> QED BY <2>3, <3>2, <3>8
  <2> QED BY <1>13, <2>3, <2>4, <2>5 DEF WideOk, u, t, Z, D
<1> QED BY <1>14, <1>15

\* The recursive function of blake3_compress_subtree_wide is what its definition says.
IsWide(w, input, at, len, key, counter, flags) ==
  \A n \in 1..len : \A from \in Nat :
    w[n][from] =
      IF n <= Chunks(blake3_simd_degree)
      THEN compress_chunks_parallel(input, at + from, n, key, counter + CounterAt(from), flags)
      ELSE joined(w[left_len(n)][from], w[n - left_len(n)][from + left_len(n)],
                  DegreeOf(left_len(n)), key, flags)

LEMMA WideDef ==
  ASSUME NEW input, NEW at, NEW len \in Nat \ {0}, NEW key, NEW counter, NEW flags
  PROVE  \E w : /\ blake3_compress_subtree_wide(input, at, len, key, counter, flags) = w[len][0]
                /\ IsWide(w, input, at, len, key, counter, flags)
<1> DEFINE D == blake3_simd_degree
           Leaf(from, n) == compress_chunks_parallel(input, at + from, n, key,
                                                     counter + CounterAt(from), flags)
           Body(g, n) ==
             [from \in Nat |->
                IF n <= Chunks(D) THEN Leaf(from, n)
                ELSE joined(g[left_len(n)][from], g[n - left_len(n)][from + left_len(n)],
                            DegreeOf(left_len(n)), key, flags)]
           Is(g, z) == g = [n \in 1..z |-> Body(g, n)]
           N == {z \in Nat : \E g : Is(g, z)}
           w == CHOOSE g : Is(g, len)
<1>1. blake3_compress_subtree_wide(input, at, len, key, counter, flags) = w[len][0]
  BY DEF blake3_compress_subtree_wide, DegreeOf, Chunks, CounterAt
<1>2. D \in Nat \ {0} /\ CHUNK_LEN \in Nat \ {0} /\ CHUNK_LEN <= Chunks(D)
  <2>1. D \in Nat \ {0} /\ 1 \in Nat /\ 1 <= D
    BY WideType
  <2> HIDE DEF D
  <2> QED BY <2>1, ChunksFacts, Lengths
<1> HIDE DEF D, Leaf
<1>3. ASSUME NEW n \in Nat, ~ n <= Chunks(D)
      PROVE  left_len(n) \in 1..n - 1 /\ n - left_len(n) \in 1..n - 1
  <2>1. n > CHUNK_LEN
    <3>1. Chunks(D) \in Nat
      BY <1>2, ChunksFacts
    <3> QED BY <1>2, <1>3, <3>1
  <2>2. PICK p \in Pow : left_len(n) = Chunks(p) /\ Chunks(p) < n
    BY <2>1, LeftLen
  <2>3. p \in Nat /\ 1 <= p
    BY PowType
  <2>4. Chunks(p) \in Nat /\ 1 <= Chunks(p)
    BY <2>3, ChunksFacts
  <2> QED BY <2>2, <2>4
<1>4. ASSUME NEW g, NEW h, NEW n \in Nat, \A y \in 1..n - 1 : g[y] = h[y]
      PROVE  Body(g, n) = Body(h, n)
  <2>1. CASE n <= Chunks(D)
    BY <2>1
  <2>2. CASE ~ n <= Chunks(D)
    <3>1. g[left_len(n)] = h[left_len(n)] /\ g[n - left_len(n)] = h[n - left_len(n)]
      BY <1>3, <1>4, <2>2
    <3> QED BY <3>1
  <2> QED BY <2>1, <2>2
<1> HIDE DEF Body
<1>5. 0 \in N
  <2>1. Is(<<>>, 0)
    OBVIOUS
  <2> HIDE DEF Is
  <2> QED BY <2>1
<1>6. ASSUME NEW z \in Nat, z \in N PROVE z + 1 \in N
  <2>1. PICK g : Is(g, z)
    BY <1>6
  <2> DEFINE h == [n \in 1..z + 1 |-> Body(g, n)]
  <2>2. \A n \in 1..z : h[n] = g[n]
    BY <2>1
  <2>3. \A n \in 1..z + 1 : Body(h, n) = Body(g, n)
    <3> SUFFICES ASSUME NEW n \in 1..z + 1 PROVE Body(h, n) = Body(g, n)
      OBVIOUS
    <3> HIDE DEF h
    <3>1. n \in Nat /\ \A y \in 1..n - 1 : h[y] = g[y]
      BY <2>2
    <3> QED BY <1>4, <3>1
  <2>4. h = [n \in 1..z + 1 |-> Body(h, n)]
    <3>1. h = [n \in 1..z + 1 |-> Body(g, n)]
      OBVIOUS
    <3> HIDE DEF h
    <3> QED BY <2>3, <3>1
  <2> HIDE DEF h
  <2> QED BY <2>4
<1>7. Is(w, len)
  <2>1. Nat \subseteq N
    <3> HIDE DEF N
    <3> QED BY <1>5, <1>6, NatIsLeast
  <2>2. \E g : Is(g, len)
    BY <2>1
  <2> HIDE DEF Is
  <2> QED BY <2>2
<1> HIDE DEF w
<1>8. ASSUME NEW n \in 1..len, NEW from \in Nat
      PROVE  w[n][from] =
               IF n <= Chunks(D) THEN Leaf(from, n)
               ELSE joined(w[left_len(n)][from], w[n - left_len(n)][from + left_len(n)],
                           DegreeOf(left_len(n)), key, flags)
  <2>1. w[n] = Body(w, n)
    BY <1>7
  <2> QED BY <2>1 DEF Body
<1>9. IsWide(w, input, at, len, key, counter, flags)
  BY <1>8 DEF D, Leaf, IsWide
<1> QED BY <1>1, <1>9

\* The chaining values of any subtree of the tree.
LEMMA WideRoots ==
  ASSUME NEW input, NEW key, NEW flags, NEW x \in Nat, NEW len \in 1..AllLen
  PROVE  WideOk(input, key, flags,
                blake3_compress_subtree_wide(input, Chunks(x), len, key, x, flags), len, x)
<1> DEFINE W == blake3_compress_subtree_wide(input, Chunks(x), len, key, x, flags)
           D == blake3_simd_degree
           Leaf(from, n) == compress_chunks_parallel(input, Chunks(x) + from, n, key,
                                                     x + CounterAt(from), flags)
<1>1. AllLen \in Nat /\ len \in Nat \ {0} /\ len \in Nat /\ D \in Nat \ {0} /\ CHUNK_LEN \in Nat \ {0}
  BY Lengths, WideType DEF AllLen
<1>0. PICK w : W = w[len][0] /\ IsWide(w, input, Chunks(x), len, key, x, flags)
  BY ONLY <1>1, WideDef DEF W
<1>2. /\ W = w[len][0]
      /\ \A n \in 1..len : \A from \in Nat :
           w[n][from] =
             IF n <= Chunks(D) THEN Leaf(from, n)
             ELSE joined(w[left_len(n)][from], w[n - left_len(n)][from + left_len(n)],
                         DegreeOf(left_len(n)), key, flags)
  BY <1>0 DEF IsWide
<1> DEFINE Claim(n, y) == WideOk(input, key, flags, w[n][Chunks(y)], n, x + y)
           T == {n \in Nat : n \in 1..len => \A y \in Nat : Claim(n, y)}
<1>3. \A y \in Nat : \A n \in 1..AllLen :
        Leaf(Chunks(y), n) = Level(input, key, flags, n, x + y)
  <2> SUFFICES ASSUME NEW y \in Nat, NEW n \in 1..AllLen
               PROVE  Leaf(Chunks(y), n) = Level(input, key, flags, n, x + y)
    OBVIOUS
  <2> DEFINE z == x + y
  <2>1. Chunks(x) + Chunks(y) = Chunks(z) /\ x + CounterAt(Chunks(y)) = z /\ z \in Nat
        /\ n \in Nat \ {0} /\ n <= AllLen
    <3>1. Chunks(x + y) = Chunks(x) + Chunks(y) /\ CounterAt(Chunks(y)) = y
      BY ChunksFacts
    <3> QED BY <1>1, <3>1
  <2>2. Leaf(Chunks(y), n) = compress_chunks_parallel(input, Chunks(z), n, key, z, flags)
    BY <2>1
  <2> HIDE DEF z, Leaf
  <2>3. compress_chunks_parallel(input, Chunks(z), n, key, z, flags) = Level(input, key, flags, n, z)
    BY ONLY <2>1, ChunksParallel
  <2> QED BY <2>2, <2>3 DEF z
<1> HIDE DEF W, D, Leaf
<1>4. ASSUME NEW n \in Nat, \A k \in 0..n - 1 : k \in T PROVE n \in T
  <2> HIDE DEF Claim
  <2> SUFFICES ASSUME n \in 1..len, NEW y \in Nat PROVE Claim(n, y)
    OBVIOUS
  <2> DEFINE z == x + y
             X == w[n][Chunks(y)]
  <2>1. n \in 1..AllLen /\ z \in Nat /\ Chunks(y) \in Nat
    <3>1. Chunks(y) \in Nat
      BY ChunksFacts
    <3> QED BY <1>1, <3>1
  <2>2. X = IF n <= Chunks(D) THEN Leaf(Chunks(y), n)
            ELSE joined(w[left_len(n)][Chunks(y)], w[n - left_len(n)][Chunks(y) + left_len(n)],
                        DegreeOf(left_len(n)), key, flags)
    BY <1>2, <2>1
  <2>3. CASE n <= Chunks(D)
    <3>1. X = Level(input, key, flags, n, z)
      BY <1>3, <2>1, <2>2, <2>3
    <3>2. n <= Chunks(blake3_simd_degree)
      BY <2>3 DEF D
    <3> HIDE DEF X, z
    <3>3. WideOk(input, key, flags, X, n, z)
      BY ONLY <2>1, <3>1, <3>2, WideLeaf
    <3> QED BY <3>3 DEF Claim, X, z
  <2>4. CASE ~ n <= Chunks(D)
    <3>1. CHUNK_LEN <= Chunks(D) /\ Chunks(D) \in Nat
      <4>1. 1 \in Nat /\ 1 <= D /\ D \in Nat
        BY <1>1
      <4> QED BY <4>1, ChunksFacts
    <3>2. n > CHUNK_LEN
      BY <1>1, <2>4, <3>1
    <3>3. PICK q \in Pow : left_len(n) = Chunks(q) /\ Chunks(q) < n /\ n <= Chunks(2 * q)
      BY <3>2, LeftLen
    <3>4. q \in Nat \ {0} /\ q \in Nat
      BY <3>3, PowType
    <3> DEFINE e == Chunks(q)
               m == n - e
               A == w[e][Chunks(y)]
               B == w[m][Chunks(y + q)]
    <3>5. e \in Nat \ {0} /\ e < n /\ Chunks(y) + e = Chunks(y + q) /\ y + q \in Nat
      BY <3>3, <3>4, CountChunks, ChunksFacts
    <3>6. X = joined(A, B, DegreeOf(e), key, flags)
      BY <2>2, <2>4, <3>3, <3>5
    <3> HIDE DEF e
    <3>7. Claim(e, y) /\ Claim(m, y + q)
      <4>1. e \in 0..n - 1 /\ m \in 0..n - 1 /\ e \in 1..len /\ m \in 1..len
        BY <1>1, <3>5
      <4> HIDE DEF m
      <4>2. e \in T /\ m \in T
        <5> HIDE DEF T
        <5> QED BY <1>4, <4>1
      <4> QED BY <3>5, <4>1, <4>2
    <3>8. x + (y + q) = z + q
      BY <3>4
    <3>9. WideOk(input, key, flags, A, e, z) /\ WideOk(input, key, flags, B, m, z + q)
      <4>1. WideOk(input, key, flags, A, e, z)
        BY <3>7 DEF Claim
      <4>2. WideOk(input, key, flags, B, m, x + (y + q))
        BY <3>7 DEF Claim
      <4> QED BY <3>8, <4>1, <4>2
    <3> HIDE DEF A, B, X, z
    <3>10. /\ ~ n <= Chunks(blake3_simd_degree) /\ q \in Pow /\ e = Chunks(q) /\ e < n
           /\ n <= Chunks(2 * q) /\ m = n - e
      BY <2>4, <3>3, <3>5 DEF D, e
    <3> HIDE DEF m
    <3>11. WideOk(input, key, flags, joined(A, B, DegreeOf(e), key, flags), n, z)
      BY ONLY <2>1, <3>9, <3>10, WideJoin
    <3> QED BY <3>6, <3>11 DEF Claim, X, z
  <2> QED BY <2>3, <2>4
<1>5. Nat \subseteq T
  <2> HIDE DEF T
  <2> QED BY <1>4, NatStrong
<1>6. Claim(len, 0)
  <2>1. len \in T
    <3> HIDE DEF T
    <3> QED BY <1>1, <1>5
  <2> HIDE DEF Claim
  <2> QED BY <1>1, <2>1
<1>7. w[len][Chunks(0)] = W /\ x + 0 = x
  BY <1>2, ChunksFacts
<1> QED BY <1>6, <1>7 DEF W

\* The turns of the loop that condenses leave two values below the root.
LEMMA Condense ==
  ASSUME NEW X, NEW v, NEW key, NEW flags, Roots(X, v, key, flags), Len(X) >= 2,
         Len(X) <= MAX_SIMD_DEGREE_OR_2
  PROVE  v = parent_output(condense(X, key, flags), key, flags)
<1> DEFINE n == Len(X)
           Is(g, z) == g = [k \in 0..z |-> IF k = 0 THEN X ELSE condenseOnce(g[k - 1], key, flags)]
           N == {z \in Nat : \E g : Is(g, z)}
           turn == CHOOSE g : Is(g, n)
           last == turn[n]
<1>0. condense(X, key, flags) = <<last[1], last[2]>>
  BY DEF condense
<1>1. n \in Nat /\ MAX_SIMD_DEGREE_OR_2 \in Nat /\ Row(X)
  BY RowLen, SimdDegree DEF Roots
<1> HIDE DEF n
<1>2. 0 \in N
  <2>1. Is([k \in 0..0 |-> X], 0)
    OBVIOUS
  <2> HIDE DEF Is
  <2> QED BY <2>1
<1>3. ASSUME NEW z \in Nat, z \in N PROVE z + 1 \in N
  <2>1. PICK g : Is(g, z)
    BY <1>3
  <2> DEFINE f == [k \in 0..z + 1 |-> IF k = 0 THEN X ELSE condenseOnce(g[k - 1], key, flags)]
  <2>2. \A k \in 0..z : f[k] = g[k]
    BY <2>1
  <2>3. \A k \in 0..z + 1 : f[k] = IF k = 0 THEN X ELSE condenseOnce(f[k - 1], key, flags)
    <3> SUFFICES ASSUME NEW k \in 0..z + 1, k # 0
                 PROVE  f[k] = condenseOnce(f[k - 1], key, flags)
      OBVIOUS
    <3>1. k - 1 \in 0..z
      OBVIOUS
    <3> QED BY <2>2, <3>1
  <2>4. f = [k \in 0..z + 1 |-> f[k]]
    OBVIOUS
  <2>5. Is(f, z + 1)
    <3> HIDE DEF f
    <3> QED BY <2>3, <2>4
  <2> HIDE DEF f, Is
  <2> QED BY <2>5
<1>4. Is(turn, n)
  <2>1. Nat \subseteq N
    <3> HIDE DEF N
    <3> QED BY <1>2, <1>3, NatIsLeast
  <2>2. \E g : Is(g, n)
    BY <1>1, <2>1
  <2> HIDE DEF Is
  <2> QED BY <2>2
<1> HIDE DEF turn
<1>5. turn[0] = X /\ \A k \in 1..n : turn[k] = condenseOnce(turn[k - 1], key, flags)
  BY <1>1, <1>4
<1> DEFINE Good(k) == /\ Roots(turn[k], v, key, flags) /\ Len(turn[k]) >= 2
                      /\ Len(turn[k]) <= MAX_SIMD_DEGREE_OR_2
                      /\ Len(turn[k]) = 2 \/ Len(turn[k]) + k <= n
           T == {k \in Nat : k <= n => Good(k)}
<1>6. 0 \in T
  BY <1>1, <1>5 DEF n
<1>7. ASSUME NEW k \in T PROVE k + 1 \in T
  <2> HIDE DEF Good
  <2> SUFFICES ASSUME k + 1 <= n PROVE Good(k + 1)
    OBVIOUS
  <2>1. k \in Nat /\ k <= n /\ Good(k) /\ k + 1 \in 1..n /\ (k + 1) - 1 = k
    BY <1>1
  <2> DEFINE Y == turn[k]
             Z == turn[k + 1]
  <2>2. Z = condenseOnce(Y, key, flags)
    BY <1>5, <2>1
  <2>3. /\ Roots(Y, v, key, flags) /\ Len(Y) >= 2 /\ Len(Y) <= MAX_SIMD_DEGREE_OR_2
        /\ Len(Y) = 2 \/ Len(Y) + k <= n
    BY <2>1 DEF Good
  <2>4. Row(Y) /\ Len(Y) \in Nat
    BY <2>3, RowLen DEF Roots
  <2> HIDE DEF Y, Z
  <2>5. CASE Len(Y) = 2
    <3>1. Z = Y
      BY <2>2, <2>5 DEF condenseOnce
    <3> QED BY <2>3, <2>5, <3>1 DEF Good, Z
  <2>6. CASE Len(Y) # 2
    <3>1. Z = compress_parents_parallel(Y, key, flags)
      <4>1. Len(Y) > 2
        <5> DEFINE l == Len(Y)
        <5>1. l \in Nat /\ l >= 2 /\ l # 2
          BY <2>3, <2>4, <2>6
        <5> HIDE DEF l
        <5>2. l > 2
          BY <5>1
        <5> QED BY <5>2 DEF l
      <4> QED BY <2>2, <2>3, <4>1 DEF condenseOnce
    <3>2. Z = PairUp(Y, key, flags)
      BY <2>4, <3>1, ParentsParallel
    <3>3. Roots(Z, v, key, flags)
      BY <2>3, <3>2, RootsPairUp
    <3>4. Len(Z) = (Len(Y) + 1) \div 2
      BY <2>4, <3>2, PairUpRow
    <3>5. Len(Z) >= 2 /\ Len(Z) + (k + 1) <= n /\ Len(Z) <= MAX_SIMD_DEGREE_OR_2
      <4> DEFINE l == Len(Y)
                 h == (l + 1) \div 2
                 max == MAX_SIMD_DEGREE_OR_2
      <4>1. l \in Nat /\ l >= 2 /\ l # 2 /\ l <= max /\ max \in Nat /\ l + k <= n
        BY <1>1, <2>3, <2>4, <2>6
      <4> HIDE DEF l, max
      <4>2. h >= 2 /\ h <= l - 1 /\ h \in Nat
        BY <4>1
      <4> HIDE DEF h
      <4>3. h >= 2 /\ h + (k + 1) <= n /\ h <= max
        BY <1>1, <2>1, <4>1, <4>2
      <4> QED BY <3>4, <4>3 DEF l, h, max
    <3> QED BY <3>3, <3>5 DEF Good, Z
  <2> QED BY <2>5, <2>6
<1>8. Good(n)
  <2>1. Nat \subseteq T
    <3> HIDE DEF T
    <3> QED BY <1>6, <1>7, NatIsLeast
  <2>2. n \in T
    <3> HIDE DEF T
    <3> QED BY <1>1, <2>1
  <2> HIDE DEF Good
  <2> QED BY <1>1, <2>2
<1>9. Roots(last, v, key, flags) /\ Len(last) = 2
  <2>1. /\ Roots(last, v, key, flags) /\ Len(last) >= 2
        /\ Len(last) = 2 \/ Len(last) + n <= n
    BY <1>8
  <2> HIDE DEF last
  <2>2. Len(last) \in Nat
    BY <2>1, RowLen DEF Roots
  <2> QED BY <1>1, <2>1, <2>2
<1> HIDE DEF last
<1>10. v = parent_output(<<last[1], last[2]>>, key, flags)
  BY <1>9, RootsTwo
<1> QED BY <1>0, <1>10

LEMMA ParentInjective ==
  ASSUME NEW a, NEW b, NEW key, NEW flags
  PROVE  /\ parent_output(a, key, flags)[2] = a
         /\ parent_output(a, key, flags) = parent_output(b, key, flags) => a = b
BY DEF parent_output, compress

\* The pair that comes of a subtree is that of the children of its root.
Subtree(input, key, flags, len, x, W, pair) ==
  /\ W = blake3_compress_subtree_wide(input, Chunks(x), len, key, x, flags)
  /\ pair = compress_subtree_to_parent_node(input, Chunks(x), len, key, x, flags)

LEMMA SubtreePair ==
  ASSUME NEW input, NEW key, NEW flags, NEW x \in Nat, NEW len \in 1..AllLen, len > CHUNK_LEN,
         NEW W, NEW pair, Subtree(input, key, flags, len, x, W, pair),
         NEW v, v = Tree(input, key, flags)[len][Chunks(x)]
  PROVE  /\ Len(W) \in Nat /\ 2 <= Len(W) /\ Len(W) <= MAX_SIMD_DEGREE_OR_2
         /\ pair = v[2] /\ v = parent_output(pair, key, flags)
<1>0. /\ W = blake3_compress_subtree_wide(input, Chunks(x), len, key, x, flags)
      /\ pair = compress_subtree_to_parent_node(input, Chunks(x), len, key, x, flags)
  BY DEF Subtree
<1>1. WideOk(input, key, flags, W, len, x)
  <2>1. x \in Nat /\ len \in 1..AllLen
    OBVIOUS
  <2> QED BY ONLY <1>0, <2>1, WideRoots
<1>2. Roots(W, v, key, flags) /\ Len(W) <= WIDE /\ Len(W) >= 2
  BY <1>1 DEF WideOk
<1>3. Len(W) \in Nat /\ WIDE <= MAX_SIMD_DEGREE_OR_2 /\ WIDE \in Nat /\ MAX_SIMD_DEGREE_OR_2 \in Nat
  BY <1>2, RowLen, WideType, SimdDegree DEF Roots
<1>4. Len(W) <= MAX_SIMD_DEGREE_OR_2
  BY <1>2, <1>3
<1>5. pair = condense(W, key, flags)
  BY <1>0 DEF compress_subtree_to_parent_node
<1>6. v = parent_output(pair, key, flags)
  BY <1>2, <1>4, <1>5, Condense
<1>7. v[2] = pair
  BY <1>6, ParentInjective
<1> QED BY <1>2, <1>3, <1>4, <1>6, <1>7

\* "Hash a subtree with compress_subtree_wide(), and then condense the resulting
\* list of chaining values down to a single parent node." (blake3.c:324): whatever
\* the number of lanes, the chaining values of a subtree of any length fit into the
\* array, are at least two, and condense to the children of the root of its tree.
THEOREM SubtreesAlways == Spec => []SubtreesOfAnyLength
<1>1. SubtreesOfAnyLength
  <2> SUFFICES ASSUME NEW n \in CHUNK_LEN + 1..MaxLen, NEW key, NEW flags
               PROVE  /\ Len(blake3_compress_subtree_wide(Bytes, 0, n, key, 0, flags))
                           \in 2..MAX_SIMD_DEGREE_OR_2
                      /\ compress_subtree_to_parent_node(Bytes, 0, n, key, 0, flags)
                           = Tree(Bytes, key, flags)[n][0][2]
    BY DEF SubtreesOfAnyLength
  <2> DEFINE at == 0
             W == blake3_compress_subtree_wide(Bytes, at, n, key, 0, flags)
             pair == compress_subtree_to_parent_node(Bytes, at, n, key, 0, flags)
  <2>1. n \in 1..AllLen /\ n > CHUNK_LEN /\ 0 \in Nat
    BY Lengths DEF AllLen
  <2>2. at = Chunks(0)
    BY ChunksFacts
  <2> HIDE DEF at
  <2>3. W = blake3_compress_subtree_wide(Bytes, Chunks(0), n, key, 0, flags)
        /\ pair = compress_subtree_to_parent_node(Bytes, Chunks(0), n, key, 0, flags)
    BY <2>2
  <2> HIDE DEF W, pair
  <2>4. /\ Len(W) \in 2..MAX_SIMD_DEGREE_OR_2
        /\ pair = Tree(Bytes, key, flags)[n][Chunks(0)][2]
    <3> DEFINE x == 0
    <3>1. x \in Nat /\ W = blake3_compress_subtree_wide(Bytes, Chunks(x), n, key, x, flags)
          /\ pair = compress_subtree_to_parent_node(Bytes, Chunks(x), n, key, x, flags)
      BY <2>3
    <3> HIDE DEF x
    <3> DEFINE v == Tree(Bytes, key, flags)[n][Chunks(x)]
    <3>2. Subtree(Bytes, key, flags, n, x, W, pair) /\ v = Tree(Bytes, key, flags)[n][Chunks(x)]
      BY <3>1 DEF Subtree
    <3> HIDE DEF v
    <3>3. /\ Len(W) \in Nat /\ 2 <= Len(W) /\ Len(W) <= MAX_SIMD_DEGREE_OR_2
          /\ pair = v[2]
      BY ONLY <2>1, <3>1, <3>2, SubtreePair
    <3>4. MAX_SIMD_DEGREE_OR_2 \in Nat
      BY SimdDegree
    <3> QED BY <3>3, <3>4 DEF x, v
  <2>5. pair = Tree(Bytes, key, flags)[n][at][2]
    BY <2>2, <2>4
  <2> QED BY <2>4, <2>5 DEF W, pair, at
<1> QED BY <1>1, PTL

------------------------------------------------------------------------------
(* The subtrees that update cuts off.                                      *)

LEMMA ChunksPow ==
  ASSUME NEW k \in Nat, CHUNK_LEN = pow2[k]
  PROVE  \A i \in Nat : Chunks(pow2[i]) = pow2[i + k]
<1> DEFINE T == {i \in Nat : Chunks(pow2[i]) = pow2[i + k]}
<1>1. 0 \in T
  <2>1. pow2[0] = 1 /\ Chunks(1) = CHUNK_LEN /\ 0 + k = k
    BY PowersOfTwo, ChunksFacts
  <2>2. Chunks(pow2[0]) = pow2[0 + k]
    BY <2>1
  <2> QED BY <2>2
<1>2. ASSUME NEW i \in T PROVE i + 1 \in T
  <2>1. i \in Nat /\ i + k \in Nat /\ (i + 1) + k = (i + k) + 1 /\ Chunks(pow2[i]) = pow2[i + k]
    OBVIOUS
  <2> DEFINE j == i + k
             p == pow2[i]
  <2> HIDE DEF j
  <2>2. pow2[i + 1] = 2 * p /\ p \in Nat /\ pow2[j + 1] = 2 * pow2[j] /\ pow2[j] \in Nat
    BY <2>1, PowersOfTwo DEF j
  <2> HIDE DEF p
  <2>3. 2 * p = p + p
    BY <2>2
  <2>4. Chunks(p + p) = Chunks(p) + Chunks(p)
    BY <2>2, ChunksFacts
  <2>5. Chunks(p) = pow2[j]
    BY <2>1 DEF j, p
  <2>6. Chunks(pow2[i + 1]) = pow2[j + 1]
    BY <2>2, <2>3, <2>4, <2>5
  <2>7. Chunks(pow2[i + 1]) = pow2[(i + 1) + k]
    BY <2>1, <2>6 DEF j
  <2> QED BY <2>1, <2>7
<1>3. Nat \subseteq T
  <2> HIDE DEF T
  <2> QED BY <1>1, <1>2, NatIsLeast
<1> QED BY <1>3

\* A subtree is a number of chunks that divides the chunks before it.
LEMMA Shrunk ==
  ASSUME NEW len \in Nat, len > CHUNK_LEN, NEW c \in Nat
  PROVE  \E p \in Pow : /\ shrunk(len, Chunks(c)) = Chunks(p) /\ Chunks(p) <= len
                        /\ Divides(p, c)
<1> DEFINE count == Chunks(c)
           H == highest_one(len)
           SD(k) == SubtreeDivides(pow2[k], count)
           Best(k) == SD(k) /\ \A j \in k + 1..H : ~ SD(j)
           k == CHOOSE i \in 0..H : Best(i)
<1>1. CHUNK_LEN \in Nat \ {0} /\ len \in Nat \ {0} /\ count \in Nat
  <2>1. count \in Nat
    BY ChunksFacts
  <2> HIDE DEF count
  <2> QED BY <2>1, Lengths
<1>2. H \in Nat /\ pow2[H] <= len /\ len < 2 * pow2[H]
  BY <1>1, HighestOne
<1>3. PICK l \in Nat : CHUNK_LEN = pow2[l]
  BY Lengths DEF Pow
<1>4. shrunk(len, count) = pow2[k]
  BY DEF shrunk
<1>5. SD(l)
  <2> DEFINE m == count \div CHUNK_LEN
             r == count % CHUNK_LEN
  <2>1. m = c
    BY ChunkCounter DEF Chunks
  <2>2. count = m * CHUNK_LEN + r /\ r \in Nat
    <3> HIDE DEF count
    <3> QED BY <1>1, Division
  <2> HIDE DEF m, r
  <2>3. r = 0
    <3>1. c * CHUNK_LEN = c * CHUNK_LEN + r /\ c * CHUNK_LEN \in Nat
      BY <1>1, <2>1, <2>2 DEF Chunks
    <3> QED BY <2>2, <3>1
  <2>4. count % CHUNK_LEN = 0
    BY <2>3 DEF r
  <2> QED BY <1>3, <2>4 DEF SubtreeDivides
<1>6. l <= H
  <2>1. pow2[l] < pow2[H + 1]
    <3>1. pow2[H + 1] = 2 * pow2[H] /\ pow2[H] \in Nat
      BY <1>2, PowersOfTwo
    <3> QED BY <1>1, <1>2, <1>3, <3>1
  <2>2. l < H + 1
    <3>1. H + 1 \in Nat
      BY <1>2
    <3> QED BY <2>1, <3>1, PowExponent
  <2> QED BY <1>2, <2>2
<1> HIDE DEF H, SD
<1>7. \E i \in 0..H : Best(i)
  <2> SUFFICES ASSUME \A i \in 0..H : ~ Best(i) PROVE FALSE
    OBVIOUS
  <2> DEFINE T == {i \in Nat : i <= H => ~ SD(H - i)}
  <2>1. ASSUME NEW i \in Nat, \A j \in 0..i - 1 : j \in T PROVE i \in T
    <3> SUFFICES ASSUME i <= H, SD(H - i) PROVE FALSE
      OBVIOUS
    <3> DEFINE m == H - i
    <3>1. m \in 0..H
      BY <1>2
    <3>2. ASSUME NEW j \in m + 1..H PROVE ~ SD(j)
      <4> DEFINE d == H - j
      <4>1. d \in 0..i - 1 /\ d <= H /\ H - d = j
        BY <1>2
      <4>2. d \in T
        <5> HIDE DEF T, d
        <5> QED BY <2>1, <4>1
      <4>3. ~ SD(H - d)
        <5> HIDE DEF d
        <5> QED BY <4>1, <4>2
      <4> QED BY <4>1, <4>3
    <3>3. SD(m)
      OBVIOUS
    <3> HIDE DEF m
    <3> QED BY <3>1, <3>2, <3>3
  <2>2. Nat \subseteq T
    <3> HIDE DEF T
    <3> QED BY <2>1, NatStrong
  <2> DEFINE d == H - l
  <2>3. d \in Nat /\ d <= H /\ H - d = l
    BY <1>2, <1>6
  <2>4. d \in T
    <3> HIDE DEF T, d
    <3> QED BY <2>2, <2>3
  <2>5. ~ SD(H - d)
    <3> HIDE DEF d
    <3> QED BY <2>3, <2>4
  <2> QED BY <1>5, <2>3, <2>5
<1>8. k \in 0..H /\ Best(k)
  <2> HIDE DEF Best
  <2> QED BY <1>7
<1> HIDE DEF k
<1>9. k \in Nat /\ l <= k
  <2> SUFFICES ASSUME k < l PROVE FALSE
    BY <1>2, <1>8
  <2>1. l \in k + 1..H
    BY <1>2, <1>6, <1>8
  <2> QED BY <1>5, <1>8, <2>1
<1> DEFINE i == k - l
           p == pow2[i]
<1>10. i \in Nat /\ i + l = k
  BY <1>9
<1>11. Chunks(p) = pow2[k]
  <2> HIDE DEF i
  <2> QED BY <1>3, <1>10, ChunksPow
<1>12. p \in Pow /\ p \in Nat \ {0}
  <2> HIDE DEF i
  <2>1. p \in Pow
    BY <1>10 DEF Pow
  <2> QED BY <2>1, PowType
<1> HIDE DEF i, p
<1>13. Chunks(p) <= len
  <2>1. pow2[k] \in Nat /\ pow2[H] \in Nat
    BY <1>2, <1>9, PowersOfTwo
  <2>2. ~ pow2[H] < pow2[k]
    <3> SUFFICES ASSUME pow2[H] < pow2[k] PROVE FALSE
      OBVIOUS
    <3>1. H < k
      BY <1>2, <1>9, PowExponent
    <3> QED BY <1>2, <1>8, <3>1
  <2> QED BY <1>2, <1>11, <2>1, <2>2
<1>14. Divides(p, c)
  <2> DEFINE n == Chunks(p)
             m == count \div n
  <2>1. n \in Nat \ {0}
    BY <1>12, CountChunks
  <2>2. count % n = 0
    <3>1. SD(k)
      BY <1>8
    <3> QED BY <1>11, <3>1 DEF SD, SubtreeDivides
  <2>3. m \in Nat /\ count = m * n
    <3> HIDE DEF n, count
    <3>1. m \in Nat /\ count = m * n + (count % n)
      BY <1>1, <2>1, Division
    <3>2. m * n \in Nat
      BY <2>1, <3>1
    <3> QED BY <2>2, <3>1, <3>2
  <2> HIDE DEF m
  <2>4. m * n = Chunks(m * p) /\ m * p \in Nat
    BY <1>1, <1>12, <2>3 DEF Chunks
  <2>5. c = m * p
    <3> DEFINE e == m * p
    <3>1. e \in Nat /\ Chunks(c) = Chunks(e)
      BY <2>3, <2>4
    <3> HIDE DEF e
    <3>2. c = e
      <4>1. CounterAt(Chunks(c)) = c /\ CounterAt(Chunks(e)) = e
        BY <3>1, ChunksFacts
      <4> QED BY <3>1, <4>1
    <3> QED BY <3>2 DEF e
  <2> QED BY <2>3, <2>5 DEF Divides
<1> QED BY <1>4, <1>11, <1>12, <1>13, <1>14

\* A hasher between chunks, and its counter when some more are done.
LEMMA FreshChunk ==
  ASSUME NEW key, NEW c, NEW flags
  PROVE  /\ chunk_state_init(key, c, flags).flags = flags
         /\ chunk_state_init(key, c, flags).chunk_counter = c
BY DEF chunk_state_init

Counted(self, n) == [self EXCEPT !.chunk.chunk_counter = @ + n]

LEMMA CountOn ==
  ASSUME NEW key, NEW c \in Nat, NEW flags, NEW p \in Nat, NEW s, NEW self,
         self = Hasher(key, chunk_state_init(key, c, flags), s), NEW n, n = p,
         NEW e, e = c + p
  PROVE  Counted(self, n) = Hasher(key, chunk_state_init(key, e, flags), s)
<1> DEFINE chunk == chunk_state_init(key, c, flags)
           next == [chunk EXCEPT !.chunk_counter = @ + n]
           d == c + p
           Zeros == [k \in 1..BLOCK_LEN |-> Zero]
<1> HIDE DEF Zeros
<1>1. chunk = [cv |-> key, chunk_counter |-> c, buf |-> Zeros, buf_len |-> 0,
               blocks_compressed |-> 0, flags |-> flags]
  BY DEF chunk_state_init, Zeros
<1>2. next = [cv |-> key, chunk_counter |-> d, buf |-> Zeros, buf_len |-> 0,
              blocks_compressed |-> 0, flags |-> flags]
  <2>1. next = [chunk EXCEPT !.chunk_counter = @ + n]
    OBVIOUS
  <2> HIDE DEF chunk, next
  <2> QED BY <1>1, <2>1
<1>3. next = chunk_state_init(key, d, flags)
  <2> HIDE DEF next, d
  <2> QED BY <1>2 DEF chunk_state_init, Zeros
<1>4. self = [key |-> key, chunk |-> chunk, cv_stack |-> s]
  BY DEF Hasher
<1> HIDE DEF chunk, d
<1>5. [self EXCEPT !.chunk.chunk_counter = @ + n] = [key |-> key, chunk |-> next, cv_stack |-> s]
  BY <1>4
<1> HIDE DEF next
<1>6. [self EXCEPT !.chunk.chunk_counter = @ + n] = Hasher(key, chunk_state_init(key, d, flags), s)
  BY <1>3, <1>5 DEF Hasher
<1> QED BY <1>6 DEF d, Counted

LEMMA PushNode ==
  ASSUME NEW input, NEW key, NEW flags, NEW c \in Nat, NEW stack, NEW chunk,
         chunk.flags = flags, OnStack(input, key, flags, c, stack),
         NEW p \in Pow, Divides(p, c), Chunks(c) <= AllLen,
         NEW e, e = c + p, NEW h, h = Hasher(key, chunk, stack),
         NEW cv, cv = Node(input, key, flags, p, c), NEW n, n = popcnt[c] + 1
  PROVE  \E s : /\ hasher_push_cv(h, cv, c) = Hasher(key, chunk, s)
                /\ OnStack(input, key, flags, e, s)
                /\ Len(s) = n
BY PushStack

LEMMA PushSubtree ==
  ASSUME NEW input, NEW key, NEW flags, NEW c \in Nat, NEW stack,
         OnStack(input, key, flags, c, stack), NEW p \in Pow, Divides(p, c),
         NEW e, e = c + p, Chunks(e) <= AllLen,
         NEW self, self = Hasher(key, chunk_state_init(key, c, flags), stack)
  PROVE  \E s : /\ pushSubtree(self, input, Chunks(c), Chunks(p))
                     = Hasher(key, chunk_state_init(key, e, flags), s)
                /\ OnStack(input, key, flags, e, s)
                /\ p # 1 => Len(s) # 1
<1> DEFINE chunk == chunk_state_init(key, c, flags)
           len == Chunks(p)
           at == Chunks(c)
           chunks == len \div CHUNK_LEN
           single == chunk_state_update(chunk_state_init(key, c, flags), input, at, len)
           pair == compress_subtree_to_parent_node(input, at, len, key, c, flags)
           first == hasher_push_cv(self, pair[1], c)
           pushed == IF len <= CHUNK_LEN THEN hasher_push_cv(self, chunk_state_output(single), c)
                     ELSE hasher_push_cv(first, pair[2], c + chunks \div 2)
           out == pushSubtree(self, input, at, len)
           node(q, x) == Node(input, key, flags, q, x)
<1>0. p \in Nat \ {0} /\ p \in Nat /\ AllLen \in Nat /\ CHUNK_LEN \in Nat \ {0} /\ e \in Nat
  BY PowType, Lengths DEF AllLen
<1>1. chunk.flags = flags /\ chunk.chunk_counter = c
  BY FreshChunk
<1>2. self.key = key /\ self.chunk = chunk
  BY DEF Hasher
<1>3. out = Counted(pushed, chunks)
  <2> HIDE DEF chunk
  <2> QED BY <1>1, <1>2 DEF pushSubtree, Counted
<1>4. chunks = p
  <2>1. CounterAt(Chunks(p)) = p
    BY <1>0, ChunksFacts
  <2> QED BY <2>1 DEF CounterAt
<1>5. /\ len \in Nat \ {0} /\ at \in Nat /\ Chunks(e) = at + len /\ at <= AllLen /\ len \in 1..AllLen
  <2>1. len \in Nat \ {0}
    BY <1>0, CountChunks
  <2>2. at \in Nat /\ Chunks(c + p) = at + len
    BY <1>0, ChunksFacts
  <2> HIDE DEF len, at
  <2> QED BY <1>0, <2>1, <2>2
<1>6. p = 1 => len = CHUNK_LEN
  BY ChunksFacts
<1>7. p # 1 => len > CHUNK_LEN
  <2> SUFFICES ASSUME p # 1 PROVE len > CHUNK_LEN
    OBVIOUS
  <2>1. 1 < p /\ 1 \in Nat
    BY <1>0
  <2>2. Chunks(1) + CHUNK_LEN <= Chunks(p) /\ Chunks(1) = CHUNK_LEN
    BY <1>0, <2>1, ChunksFacts
  <2> QED BY <1>0, <1>5, <2>2
<1> HIDE DEF out
<1>8. ASSUME NEW s, pushed = Hasher(key, chunk, s)
      PROVE  out = Hasher(key, chunk_state_init(key, e, flags), s)
  <2> HIDE DEF pushed, chunks
  <2>1. pushed = Hasher(key, chunk_state_init(key, c, flags), s) /\ c \in Nat /\ p \in Nat
        /\ chunks = p /\ e = c + p
    BY <1>0, <1>4, <1>8
  <2>2. Counted(pushed, chunks) = Hasher(key, chunk_state_init(key, e, flags), s)
    BY ONLY <2>1, CountOn
  <2> QED BY <1>3, <2>2
<1>9. CASE p = 1
  <2>1. chunk_state_output(single) = node(p, c)
    <3>1. chunk_state_output(single) = ChunkOutput(input, at, len, key, flags)
      <4>1. len \in Nat /\ len <= CHUNK_LEN
        BY <1>0, <1>6, <1>9
      <4> HIDE DEF len
      <4> QED BY <4>1, SingleChunk
    <3>2. node(p, c) = Tree(input, key, flags)[len][at]
      BY DEF Node
    <3>3. len \in 0..AllLen /\ len <= CHUNK_LEN /\ at \in Nat
      BY <1>0, <1>5, <1>6, <1>9
    <3> HIDE DEF len, at, single
    <3>4. Tree(input, key, flags)[len][at] = ChunkOutput(input, at, len, key, flags)
      BY <3>3, TreeChunk
    <3> QED BY <3>1, <3>2, <3>4
  <2>2. pushed = hasher_push_cv(Hasher(key, chunk, stack), node(p, c), c)
    <3>1. len <= CHUNK_LEN
      BY <1>0, <1>6, <1>9
    <3> HIDE DEF len, at, single
    <3> QED BY <2>1, <3>1
  <2> HIDE DEF chunk, pushed
  <2>3. PICK s : /\ hasher_push_cv(Hasher(key, chunk, stack), node(p, c), c) = Hasher(key, chunk, s)
                 /\ OnStack(input, key, flags, e, s)
    <3> DEFINE h == Hasher(key, chunk, stack)
               cv == node(p, c)
               n == popcnt[c] + 1
    <3>1. /\ Chunks(c) <= AllLen /\ c \in Nat /\ p \in Pow /\ Divides(p, c) /\ e = c + p
          /\ chunk.flags = flags /\ OnStack(input, key, flags, c, stack)
          /\ h = Hasher(key, chunk, stack) /\ cv = Node(input, key, flags, p, c)
          /\ n = popcnt[c] + 1
      BY <1>1, <1>5
    <3> HIDE DEF h, cv, n
    <3>2. \E s : hasher_push_cv(h, cv, c) = Hasher(key, chunk, s) /\ OnStack(input, key, flags, e, s)
      BY ONLY <3>1, PushNode
    <3> QED BY <3>2 DEF h, cv
  <2>4. out = Hasher(key, chunk_state_init(key, e, flags), s)
    BY <1>8, <2>2, <2>3
  <2> QED BY <1>9, <2>3, <2>4 DEF out
<1>10. CASE p # 1
  <2>1. PICK q \in Pow : p = 2 * q
    BY <1>10, PowType
  <2>2. q \in Nat \ {0} /\ q \in Nat /\ p = q + q /\ chunks \div 2 = q /\ c + q \in Nat
        /\ (c + q) + q = e /\ q <= p
    <3>1. q \in Nat \ {0}
      BY PowType
    <3> HIDE DEF chunks
    <3> QED BY <1>0, <1>4, <2>1, <3>1
  <2>3. Divides(q, c) /\ Divides(2 * q, c) /\ Divides(q, c + q)
    <3>1. Divides(q, c)
      BY <1>0, <2>1, <2>2, DividesLower
    <3>2. Divides(q, q)
      BY <2>2, DividesSum
    <3>3. Divides(q, c + q)
      BY <2>2, <3>1, <3>2, DividesSum
    <3> QED BY <2>1, <3>1, <3>3
  <2>4. Chunks(c) <= AllLen /\ Chunks(c + q) <= AllLen
    <3>1. c + q <= e
      BY <1>0, <2>2
    <3>2. Chunks(c + q) <= Chunks(e) /\ Chunks(c + q) \in Nat /\ Chunks(e) \in Nat
      BY <1>0, <2>2, <3>1, ChunksFacts
    <3> QED BY <1>0, <1>5, <3>2
  <2>5. pair = <<node(q, c), node(q, c + q)>>
    <3>1. Tree(input, key, flags)[len][at] = parent_output(pair, key, flags)
      <4>1. c \in Nat /\ len \in 1..AllLen /\ len > CHUNK_LEN
        BY <1>5, <1>7, <1>10
      <4> HIDE DEF len
      <4> DEFINE W == blake3_compress_subtree_wide(input, at, len, key, c, flags)
      <4>2. /\ W = blake3_compress_subtree_wide(input, Chunks(c), len, key, c, flags)
            /\ pair = compress_subtree_to_parent_node(input, Chunks(c), len, key, c, flags)
        OBVIOUS
      <4> HIDE DEF W, pair
      <4> DEFINE v == Tree(input, key, flags)[len][Chunks(c)]
      <4>3. Subtree(input, key, flags, len, c, W, pair) /\ v = Tree(input, key, flags)[len][Chunks(c)]
        BY <4>2 DEF Subtree
      <4> HIDE DEF v
      <4>4. v = parent_output(pair, key, flags)
        BY ONLY <4>1, <4>3, SubtreePair
      <4> QED BY <4>4 DEF v
    <3>2. node(2 * q, c) = parent_output(<<node(q, c), node(q, c + q)>>, key, flags)
      <4>1. Chunks(c + 2 * q) <= AllLen
        BY <2>1
      <4> QED BY <4>1, NodeParent
    <3>3. node(2 * q, c) = Tree(input, key, flags)[len][at]
      BY <2>1 DEF Node
    <3> HIDE DEF pair, node, len, at
    <3>4. parent_output(pair, key, flags)
            = parent_output(<<node(q, c), node(q, c + q)>>, key, flags)
      BY <3>1, <3>2, <3>3
    <3> QED BY <3>4, ParentInjective
  <2>6. pair[1] = node(q, c) /\ pair[2] = node(q, c + q)
    <3> HIDE DEF pair
    <3> QED BY <2>5
  <2> HIDE DEF chunk, pair, chunks
  <2> DEFINE d == c + q
  <2>7. PICK r : /\ hasher_push_cv(Hasher(key, chunk, stack), node(q, c), c) = Hasher(key, chunk, r)
                 /\ OnStack(input, key, flags, d, r)
    <3> DEFINE h == Hasher(key, chunk, stack)
               cv == node(q, c)
               n == popcnt[c] + 1
    <3>1. /\ Chunks(c) <= AllLen /\ c \in Nat /\ q \in Pow /\ Divides(q, c) /\ d = c + q
          /\ chunk.flags = flags /\ OnStack(input, key, flags, c, stack)
          /\ h = Hasher(key, chunk, stack) /\ cv = Node(input, key, flags, q, c)
          /\ n = popcnt[c] + 1
      BY <1>1, <2>3, <2>4
    <3> HIDE DEF h, cv, n, d
    <3>2. \E s : hasher_push_cv(h, cv, c) = Hasher(key, chunk, s) /\ OnStack(input, key, flags, d, s)
      BY ONLY <3>1, PushNode
    <3> QED BY <3>2 DEF h, cv
  <2>8. d \in Nat /\ Divides(q, d) /\ Chunks(d) <= AllLen /\ OnStack(input, key, flags, d, r)
        /\ d + q = e
    BY <2>2, <2>3, <2>4, <2>7
  <2> HIDE DEF d
  <2>9. PICK s : /\ hasher_push_cv(Hasher(key, chunk, r), node(q, d), d) = Hasher(key, chunk, s)
                 /\ OnStack(input, key, flags, e, s)
                 /\ Len(s) = popcnt[d] + 1
    <3> DEFINE h == Hasher(key, chunk, r)
               cv == node(q, d)
               n == popcnt[d] + 1
    <3>1. /\ Chunks(d) <= AllLen /\ d \in Nat /\ q \in Pow /\ Divides(q, d) /\ e = d + q
          /\ chunk.flags = flags /\ OnStack(input, key, flags, d, r)
          /\ h = Hasher(key, chunk, r) /\ cv = Node(input, key, flags, q, d)
          /\ n = popcnt[d] + 1
      BY <1>1, <2>8
    <3> HIDE DEF h, cv, n
    <3>2. \E s : /\ hasher_push_cv(h, cv, d) = Hasher(key, chunk, s)
                 /\ OnStack(input, key, flags, e, s) /\ Len(s) = n
      BY ONLY <3>1, PushNode
    <3> QED BY <3>2 DEF h, cv, n
  <2>10. first = Hasher(key, chunk, r)
    <3>1. self = Hasher(key, chunk, stack)
      BY DEF chunk
    <3> QED BY <2>6, <2>7, <3>1
  <2>11. pushed = Hasher(key, chunk, s)
    <3>1. ~ len <= CHUNK_LEN
      BY <1>0, <1>5, <1>7, <1>10
    <3>2. pushed = hasher_push_cv(first, pair[2], c + chunks \div 2)
      <4> HIDE DEF len, first
      <4> QED BY <3>1
    <3>3. c + chunks \div 2 = d
      BY <2>2 DEF d
    <3>4. pair[2] = node(q, d)
      BY <2>6 DEF d
    <3> HIDE DEF first, pushed
    <3> QED BY <2>9, <2>10, <3>2, <3>3, <3>4
  <2>12. out = Hasher(key, chunk_state_init(key, e, flags), s)
    <3> HIDE DEF pushed
    <3> QED BY <1>8, <2>11
  <2>13. Len(s) # 1
    <3>1. popcnt[c + q] = popcnt[c] + 1 /\ popcnt[c] \in Nat
      BY <2>3, PopcntDivides, Popcnt
    <3> QED BY <2>9, <3>1 DEF d
  <2> QED BY <2>8, <2>9, <2>12, <2>13 DEF out
<1> QED BY <1>9, <1>10

\* Between two turns of the loop over the subtrees: the chunk is fresh, and what
\* was taken is on the stack.
TurnState(turn, input, key, flags, at, len) ==
  \E c, s :
    /\ c \in Nat
    /\ turn.self = Hasher(key, chunk_state_init(key, c, flags), s)
    /\ OnStack(input, key, flags, c, s)
    /\ turn.taken \in 0..len /\ Chunks(c) = at + turn.taken
    /\ turn.taken = len => Len(s) # 1

LEMMA NextTurn ==
  ASSUME NEW input, NEW key, NEW flags, NEW at \in Nat, NEW len \in Nat, at + len <= AllLen,
         NEW turn, TurnState(turn, input, key, flags, at, len),
         NEW r, r = nextSubtree(turn, input, at, len)
  PROVE  /\ TurnState(r, input, key, flags, at, len)
         /\ len - r.taken <= CHUNK_LEN \/ r.taken > turn.taken
<1>0. CHUNK_LEN \in Nat \ {0} /\ AllLen \in Nat
  BY Lengths DEF AllLen
<1>1. PICK c, stack :
        /\ c \in Nat
        /\ turn.self = Hasher(key, chunk_state_init(key, c, flags), stack)
        /\ OnStack(input, key, flags, c, stack)
        /\ turn.taken \in 0..len /\ Chunks(c) = at + turn.taken
        /\ turn.taken = len => Len(stack) # 1
  BY DEF TurnState
<1> c \in Nat
  BY <1>1
<1> DEFINE taken == turn.taken
           left == len - taken
           self == turn.self
           n == shrunk(left, Chunks(c))
<1>2. taken \in Nat /\ taken <= len /\ left \in Nat
  BY <1>1
<1>3. self.chunk.chunk_counter = c
  BY <1>1, FreshChunk DEF Hasher
<1>4. CASE ~ left > CHUNK_LEN
  <2>1. r = turn
    BY <1>4 DEF nextSubtree
  <2> QED BY <1>0, <1>2, <1>4, <2>1
<1>5. CASE left > CHUNK_LEN
  <2>1. PICK p \in Pow : n = Chunks(p) /\ Chunks(p) <= left /\ Divides(p, c)
    BY <1>2, <1>5, Shrunk
  <2> DEFINE e == c + p
             more == taken + n
             x == at + taken
             next == pushSubtree(self, input, x, n)
  <2>2. r = [self |-> next, taken |-> more]
    <3>1. n = shrunk(left, self.chunk.chunk_counter * CHUNK_LEN)
      BY <1>3 DEF Chunks
    <3> HIDE DEF n
    <3> QED BY <1>5, <3>1 DEF nextSubtree
  <2>3. /\ p \in Nat \ {0} /\ e \in Nat /\ Chunks(e) = Chunks(c) + Chunks(p)
        /\ Chunks(p) \in Nat \ {0} /\ Chunks(c) \in Nat
    <3>1. p \in Nat \ {0}
      BY PowType
    <3>2. Chunks(c + p) = Chunks(c) + Chunks(p) /\ Chunks(p) \in Nat /\ p <= Chunks(p)
          /\ Chunks(c) \in Nat
      BY <3>1, ChunksFacts
    <3> QED BY <3>1, <3>2
  <2>4. /\ more \in 0..len /\ more > taken /\ Chunks(e) = at + more /\ Chunks(e) <= AllLen
        /\ more = len => p # 1
    <3>1. p = 1 => n = CHUNK_LEN
      BY <2>1, ChunksFacts
    <3> HIDE DEF n, e
    <3> QED BY <1>0, <1>1, <1>2, <1>5, <2>1, <2>3, <3>1
  <2>5. PICK s : /\ next = Hasher(key, chunk_state_init(key, e, flags), s)
                 /\ OnStack(input, key, flags, e, s)
                 /\ p # 1 => Len(s) # 1
    <3>1. /\ c \in Nat /\ OnStack(input, key, flags, c, stack) /\ p \in Pow /\ Divides(p, c)
          /\ e = c + p /\ Chunks(e) <= AllLen
          /\ self = Hasher(key, chunk_state_init(key, c, flags), stack)
      BY <1>1, <2>1, <2>4
    <3>2. next = pushSubtree(self, input, Chunks(c), Chunks(p))
      BY <1>1, <2>1
    <3> HIDE DEF e, next, self
    <3>3. \E s : /\ pushSubtree(self, input, Chunks(c), Chunks(p))
                      = Hasher(key, chunk_state_init(key, e, flags), s)
                 /\ OnStack(input, key, flags, e, s)
                 /\ p # 1 => Len(s) # 1
      BY ONLY <3>1, PushSubtree
    <3> QED BY <3>2, <3>3
  <2> HIDE DEF next, more, e
  <2>6. r.self = next /\ r.taken = more /\ e \in Nat
    BY <2>2, <2>3
  <2>7. TurnState(r, input, key, flags, at, len)
    BY <2>4, <2>5, <2>6 DEF TurnState
  <2> QED BY <2>4, <2>6, <2>7
<1> QED BY <1>4, <1>5

\* A hasher that was given so many bytes of the input: those of whole chunks are on the
\* stack, but for the last bytes, which are in the chunk.
HasherState(self, input, key, flags, bytes) ==
  \E c, len, s :
    /\ c \in Nat /\ len \in 0..CHUNK_LEN
    /\ bytes = Chunks(c) + len
    /\ self = Hasher(key, ChunkState(input, Chunks(c), len, key, flags), s)
    /\ OnStack(input, key, flags, c, s)
    /\ len > 0 => Len(s) = popcnt[c]
    /\ len = 0 => Len(s) # 1

Updated(self, input, at, n) == [self EXCEPT !.chunk = chunk_state_update(@, input, at, n)]

LEMMA FillChunk ==
  ASSUME NEW input, NEW key, NEW flags, NEW c \in Nat, NEW s, NEW len \in Nat, NEW n \in Nat,
         NEW m, m = len + n, m <= CHUNK_LEN, NEW at, at = Chunks(c) + len,
         NEW self, self = Hasher(key, ChunkState(input, Chunks(c), len, key, flags), s)
  PROVE  Updated(self, input, at, n)
           = Hasher(key, ChunkState(input, Chunks(c), m, key, flags), s)
<1> DEFINE chunk == ChunkState(input, Chunks(c), len, key, flags)
           next == chunk_state_update(chunk, input, at, n)
<1>1. next = ChunkState(input, Chunks(c), m, key, flags)
  <2>1. Chunks(c) \in Nat /\ len + n <= CHUNK_LEN
    BY ChunksFacts
  <2> DEFINE first == Chunks(c)
  <2>2. first \in Nat /\ len \in Nat /\ n \in Nat /\ len + n <= CHUNK_LEN /\ at = first + len
        /\ m = len + n
    BY <2>1
  <2> HIDE DEF first
  <2>3. chunk_state_update(ChunkState(input, first, len, key, flags), input, at, n)
          = ChunkState(input, first, m, key, flags)
    BY <2>2, ChunkStateUpdate
  <2> QED BY <2>3 DEF first
<1>2. self = [key |-> key, chunk |-> chunk, cv_stack |-> s]
  BY DEF Hasher
<1> HIDE DEF chunk
<1>3. [self EXCEPT !.chunk = chunk_state_update(@, input, at, n)]
        = [key |-> key, chunk |-> next, cv_stack |-> s]
  BY <1>2
<1> HIDE DEF next
<1> QED BY <1>1, <1>3 DEF Hasher, Updated

LEMMA ChunkStateFields ==
  ASSUME NEW input, NEW c \in Nat, NEW len, NEW key, NEW flags
  PROVE  /\ ChunkState(input, Chunks(c), len, key, flags).flags = flags
         /\ ChunkState(input, Chunks(c), len, key, flags).chunk_counter = c
<1>1. CounterAt(Chunks(c)) = c
  BY ChunksFacts
<1> QED BY <1>1 DEF ChunkState, StateAt

LEMMA FreshState ==
  ASSUME NEW input, NEW c \in Nat, NEW key, NEW flags
  PROVE  chunk_state_init(key, c, flags) = ChunkState(input, Chunks(c), 0, key, flags)
BY ChunkStateInit DEF Chunks

\* "None of the subtrees in the stack need to be merged with each other first."
LEMMA FinalMergeState ==
  ASSUME NEW input, NEW key, NEW flags, NEW c \in Nat, NEW s, NEW chunk,
         chunk.flags = flags, chunk.chunk_counter = c, Chunks(c) <= AllLen,
         OnStack(input, key, flags, c, s), NEW self, self = Hasher(key, chunk, s)
  PROVE  \E t : /\ FinalMerge(self) = Hasher(key, chunk, t)
                /\ OnStack(input, key, flags, c, t) /\ Len(t) = popcnt[c]
<1>1. FinalMerge(self) = hasher_merge_cv_stack(Hasher(key, chunk, s), c)
  <2>1. self.chunk = chunk
    BY DEF Hasher
  <2> QED BY <2>1 DEF FinalMerge
<1>2. PICK b : /\ hasher_merge_cv_stack(Hasher(key, chunk, s), c)
                    = Hasher(key, chunk, Values(input, key, flags, b, popcnt[c]))
               /\ Bounds(b, popcnt[c], c)
  BY MergeStack
<1> DEFINE t == Values(input, key, flags, b, popcnt[c])
<1>3. OnStack(input, key, flags, c, t)
  BY <1>2 DEF OnStack
<1>4. Len(t) = popcnt[c]
  BY Popcnt DEF Values
<1> HIDE DEF t
<1>5. FinalMerge(self) = Hasher(key, chunk, t)
  BY <1>1, <1>2 DEF t
<1> QED BY <1>3, <1>4, <1>5

LEMMA SubtreesState ==
  ASSUME NEW input, NEW key, NEW flags, NEW c \in Nat, NEW stack,
         OnStack(input, key, flags, c, stack), NEW at, at = Chunks(c),
         NEW len \in Nat \ {0}, NEW m, m = at + len, m <= AllLen,
         NEW self, self = Hasher(key, chunk_state_init(key, c, flags), stack)
  PROVE  HasherState(subtrees(self, input, at, len), input, key, flags, m)
<1> DEFINE X == [self |-> self, taken |-> 0]
           Next1(t) == nextSubtree(t, input, at, len)
           Is(g, z) == g = [k \in 0..z |-> IF k = 0 THEN X ELSE Next1(g[k - 1])]
           N == {z \in Nat : \E g : Is(g, z)}
           turn == CHOOSE g : Is(g, len)
           last == turn[len]
           left == len - last.taken
           filled == [last.self EXCEPT !.chunk =
                        chunk_state_update(@, input, at + last.taken, left)]
           out == subtrees(self, input, at, len)
<1>0. out = IF last.taken = len THEN last.self ELSE FinalMerge(filled)
  BY DEF subtrees
<1> HIDE DEF out, Next1, X
<1>1. /\ at \in Nat /\ len \in Nat /\ len # 0 /\ at + len <= AllLen
      /\ CHUNK_LEN \in Nat \ {0} /\ AllLen \in Nat
  BY ChunksFacts, Lengths DEF AllLen
<1>2. 0 \in N
  <2>1. Is([k \in 0..0 |-> X], 0)
    OBVIOUS
  <2> HIDE DEF Is
  <2> QED BY <2>1
<1>3. ASSUME NEW z \in Nat, z \in N PROVE z + 1 \in N
  <2>1. PICK g : Is(g, z)
    BY <1>3
  <2> DEFINE f == [k \in 0..z + 1 |-> IF k = 0 THEN X ELSE Next1(g[k - 1])]
  <2>2. \A k \in 0..z : f[k] = g[k]
    BY <2>1
  <2>3. \A k \in 0..z + 1 : f[k] = IF k = 0 THEN X ELSE Next1(f[k - 1])
    <3> SUFFICES ASSUME NEW k \in 0..z + 1, k # 0
                 PROVE  f[k] = Next1(f[k - 1])
      OBVIOUS
    <3>1. k - 1 \in 0..z
      OBVIOUS
    <3> QED BY <2>2, <3>1
  <2>4. f = [k \in 0..z + 1 |-> f[k]]
    OBVIOUS
  <2>5. Is(f, z + 1)
    <3> HIDE DEF f
    <3> QED BY <2>3, <2>4
  <2> HIDE DEF f, Is
  <2> QED BY <2>5
<1>4. Is(turn, len)
  <2>1. Nat \subseteq N
    <3> HIDE DEF N
    <3> QED BY <1>2, <1>3, NatIsLeast
  <2>2. \E g : Is(g, len)
    BY <1>1, <2>1
  <2> HIDE DEF Is
  <2> QED BY <2>2
<1> HIDE DEF turn
<1>5. turn[0] = X /\ \A k \in 1..len : turn[k] = Next1(turn[k - 1])
  BY <1>1, <1>4
<1> DEFINE Good(k) == /\ TurnState(turn[k], input, key, flags, at, len)
                      /\ len - turn[k].taken <= CHUNK_LEN \/ turn[k].taken >= k
           T == {k \in Nat : k <= len => Good(k)}
<1>6. 0 \in T
  <2>1. X.self = self /\ X.taken = 0
    BY DEF X
  <2>2. TurnState(X, input, key, flags, at, len)
    BY <1>1, <2>1 DEF TurnState
  <2> QED BY <1>5, <2>1, <2>2
<1>7. ASSUME NEW k \in T PROVE k + 1 \in T
  <2> HIDE DEF Good
  <2> SUFFICES ASSUME k + 1 <= len PROVE Good(k + 1)
    OBVIOUS
  <2>1. k \in Nat /\ k <= len /\ Good(k) /\ k + 1 \in 1..len /\ (k + 1) - 1 = k
    BY <1>1
  <2> DEFINE Y == turn[k]
             Z == turn[k + 1]
  <2>2. Z = nextSubtree(Y, input, at, len)
    BY <1>5, <2>1 DEF Next1
  <2>3. TurnState(Y, input, key, flags, at, len)
        /\ (len - Y.taken <= CHUNK_LEN \/ Y.taken >= k)
    BY <2>1 DEF Good
  <2> HIDE DEF Y, Z
  <2>4. TurnState(Z, input, key, flags, at, len)
        /\ (len - Z.taken <= CHUNK_LEN \/ Z.taken > Y.taken)
    BY ONLY <1>1, <2>2, <2>3, NextTurn
  <2>5. Y.taken \in Nat /\ Z.taken \in Nat
    BY <1>1, <2>3, <2>4 DEF TurnState
  <2>6. len - Z.taken <= CHUNK_LEN \/ Z.taken >= k + 1
    BY <1>1, <2>1, <2>3, <2>4, <2>5
  <2> QED BY <2>4, <2>6 DEF Good, Z
<1>8. TurnState(last, input, key, flags, at, len) /\ left <= CHUNK_LEN /\ left \in Nat
      /\ last.taken \in Nat
  <2>1. Nat \subseteq T
    <3> HIDE DEF T
    <3> QED BY <1>6, <1>7, NatIsLeast
  <2>2. Good(len)
    <3> HIDE DEF Good
    <3> QED BY <1>1, <2>1
  <2>3. last.taken \in 0..len
    BY <2>2 DEF TurnState
  <2> HIDE DEF last
  <2> QED BY <1>1, <2>2, <2>3 DEF last
<1> HIDE DEF last
<1>9. PICK d, s :
        /\ d \in Nat
        /\ last.self = Hasher(key, chunk_state_init(key, d, flags), s)
        /\ OnStack(input, key, flags, d, s)
        /\ Chunks(d) = at + last.taken
        /\ last.taken = len => Len(s) # 1
  BY <1>8 DEF TurnState
<1> d \in Nat
  BY <1>9
<1> DEFINE State(n) == ChunkState(input, Chunks(d), n, key, flags)
<1>10. last.self = Hasher(key, State(0), s)
  BY <1>9, FreshState
<1> HIDE DEF State
<1>11. CASE last.taken = len
  <2> DEFINE zero == 0
  <2>1. zero \in 0..CHUNK_LEN /\ m = Chunks(d) + zero /\ ~ zero > 0
    BY <1>1, <1>9, <1>11
  <2>2. out = Hasher(key, State(zero), s)
    BY <1>0, <1>10, <1>11
  <2> HIDE DEF zero
  <2> QED BY <1>9, <1>11, <2>1, <2>2 DEF HasherState, State, out
<1>12. CASE last.taken # len
  <2>1. left \in 0..CHUNK_LEN /\ left > 0 /\ m = Chunks(d) + left /\ 0 + left = left
        /\ at + last.taken = Chunks(d) + 0 /\ 0 \in Nat /\ left \in Nat /\ Chunks(d) <= AllLen
    BY <1>1, <1>8, <1>9, <1>12
  <2>2. filled = Hasher(key, State(left), s)
    <3> DEFINE x == at + last.taken
               zero == 0
    <3>1. d \in Nat /\ zero \in Nat /\ left \in Nat /\ left = zero + left /\ left <= CHUNK_LEN
          /\ x = Chunks(d) + zero
          /\ last.self = Hasher(key, ChunkState(input, Chunks(d), zero, key, flags), s)
      BY <1>8, <1>10, <2>1 DEF State
    <3> HIDE DEF x, zero, left
    <3>2. Updated(last.self, input, x, left)
            = Hasher(key, ChunkState(input, Chunks(d), left, key, flags), s)
      BY ONLY <3>1, FillChunk
    <3> QED BY <3>2 DEF x, State, Updated
  <2>3. State(left).flags = flags /\ State(left).chunk_counter = d
    BY ChunkStateFields DEF State
  <2> HIDE DEF filled, left
  <2>4. PICK t : /\ FinalMerge(filled) = Hasher(key, State(left), t)
                 /\ OnStack(input, key, flags, d, t) /\ Len(t) = popcnt[d]
    BY <1>9, <2>1, <2>2, <2>3, FinalMergeState
  <2>5. out = Hasher(key, State(left), t)
    BY <1>0, <1>12, <2>4
  <2> QED BY <2>1, <2>4, <2>5 DEF HasherState, State, out
<1> QED BY <1>11, <1>12

LEMMA ResetChunk ==
  ASSUME NEW key, NEW flags, NEW c \in Nat, NEW chunk, chunk.flags = flags,
         chunk.chunk_counter = c, NEW s, NEW self, self = Hasher(key, chunk, s), NEW d, d = c + 1
  PROVE  [self EXCEPT !.chunk = chunk_state_reset(@, key, @.chunk_counter + 1)]
           = Hasher(key, chunk_state_init(key, d, flags), s)
<1> DEFINE next == chunk_state_init(key, d, flags)
<1>1. chunk_state_reset(chunk, key, chunk.chunk_counter + 1) = next
  BY DEF chunk_state_reset
<1>2. self = [key |-> key, chunk |-> chunk, cv_stack |-> s]
  BY DEF Hasher
<1> HIDE DEF next
<1>3. [self EXCEPT !.chunk = chunk_state_reset(@, key, @.chunk_counter + 1)]
        = [key |-> key, chunk |-> next, cv_stack |-> s]
  BY <1>1, <1>2
<1> QED BY <1>3 DEF Hasher, next

\* A full chunk is a subtree of one chunk.
LEMMA EndChunk ==
  ASSUME NEW input, NEW key, NEW flags, NEW c \in Nat, NEW s, OnStack(input, key, flags, c, s),
         NEW d, d = c + 1, Chunks(d) <= AllLen,
         NEW chunk, chunk = ChunkState(input, Chunks(c), CHUNK_LEN, key, flags),
         NEW begun, begun = Hasher(key, chunk, s),
         NEW ended,
         ended = hasher_push_cv(begun, chunk_state_output(begun.chunk), begun.chunk.chunk_counter)
  PROVE  \E t : /\ ended = Hasher(key, chunk, t) /\ OnStack(input, key, flags, d, t)
<1> DEFINE cv == chunk_state_output(chunk)
           p == 1
           n == popcnt[c] + 1
<1>1. chunk.flags = flags /\ chunk.chunk_counter = c
  BY ChunkStateFields
<1>2. begun.chunk = chunk
  BY DEF Hasher
<1>3. /\ CHUNK_LEN \in Nat \ {0} /\ AllLen \in Nat /\ Chunks(c) \in Nat /\ Chunks(d) \in Nat
      /\ Chunks(d) = Chunks(c) + CHUNK_LEN /\ Chunks(1) = CHUNK_LEN /\ p \in Pow /\ p \in Nat
  <2>1. Chunks(c + 1) = Chunks(c) + Chunks(1) /\ Chunks(1) = CHUNK_LEN /\ Chunks(c) \in Nat
        /\ Chunks(c + 1) \in Nat
    BY ChunksFacts
  <2> QED BY <2>1, Lengths, PowType DEF AllLen
<1>4. cv = Node(input, key, flags, p, c)
  <2>1. cv = ChunkOutput(input, Chunks(c), CHUNK_LEN, key, flags)
    BY ChunkStateOutput
  <2>2. CHUNK_LEN \in 0..AllLen /\ CHUNK_LEN <= CHUNK_LEN
    BY <1>3
  <2>3. Tree(input, key, flags)[CHUNK_LEN][Chunks(c)]
          = ChunkOutput(input, Chunks(c), CHUNK_LEN, key, flags)
    BY <1>3, <2>2, TreeChunk
  <2> QED BY <1>3, <2>1, <2>3 DEF Node
<1>5. Divides(p, c)
  <2>1. c = c * p
    OBVIOUS
  <2> HIDE DEF p
  <2> QED BY <2>1 DEF Divides
<1>6. /\ Chunks(c) <= AllLen /\ d = c + p /\ n = popcnt[c] + 1 /\ OnStack(input, key, flags, c, s)
      /\ begun = Hasher(key, chunk, s) /\ ended = hasher_push_cv(begun, cv, c) /\ c \in Nat
      /\ p \in Pow
  BY <1>1, <1>2, <1>3
<1> HIDE DEF cv, n, p
<1>7. \E t : /\ hasher_push_cv(begun, cv, c) = Hasher(key, chunk, t)
             /\ OnStack(input, key, flags, d, t) /\ Len(t) = n
  BY ONLY <1>1, <1>4, <1>5, <1>6, PushNode
<1> QED BY <1>6, <1>7

\* A call keeps it, whatever the calls before it were.
LEMMA UpdateState ==
  ASSUME NEW input, NEW key, NEW flags, NEW at, NEW len \in Nat, NEW m, m = at + len, m <= AllLen,
         NEW self, HasherState(self, input, key, flags, at),
         NEW out, out = blake3_hasher_update(self, input, at, len)
  PROVE  HasherState(out, input, key, flags, m)
<1>1. PICK c, l, s :
        /\ c \in Nat /\ l \in 0..CHUNK_LEN
        /\ at = Chunks(c) + l
        /\ self = Hasher(key, ChunkState(input, Chunks(c), l, key, flags), s)
        /\ OnStack(input, key, flags, c, s)
        /\ l > 0 => Len(s) = popcnt[c]
        /\ l = 0 => Len(s) # 1
  BY DEF HasherState
<1> c \in Nat /\ l \in 0..CHUNK_LEN
  BY <1>1
<1> DEFINE chunk == ChunkState(input, Chunks(c), l, key, flags)
           room == Min2(CHUNK_LEN - l, len)
           rest == len - room
           more == l + room
           begun == [self EXCEPT !.chunk = chunk_state_update(@, input, at, room)]
           filled == ChunkState(input, Chunks(c), more, key, flags)
           ended == hasher_push_cv(begun, chunk_state_output(begun.chunk),
                                   begun.chunk.chunk_counter)
           next == [ended EXCEPT !.chunk = chunk_state_reset(@, key, @.chunk_counter + 1)]
           x == at + room
<1>2. /\ CHUNK_LEN \in Nat \ {0} /\ AllLen \in Nat /\ Chunks(c) \in Nat /\ l \in Nat
      /\ l <= CHUNK_LEN /\ at \in Nat
  <2>1. Chunks(c) \in Nat
    BY ChunksFacts
  <2>2. CHUNK_LEN \in Nat \ {0} /\ AllLen \in Nat
    BY Lengths DEF AllLen
  <2> QED BY <1>1, <2>1, <2>2
<1>3. chunk_state_len(self.chunk) = l /\ self.key = key /\ self.chunk = chunk
  <2>1. chunk_state_len(chunk) = l
    BY <1>2, ChunkStateLen
  <2>2. self.chunk = chunk /\ self.key = key
    BY <1>1 DEF Hasher
  <2> QED BY <2>1, <2>2
<1>4. out = IF len = 0 THEN self
            ELSE IF l = 0 THEN subtrees(self, input, at, len)
            ELSE IF room = len THEN begun
            ELSE subtrees(next, input, x, rest)
  <2> HIDE DEF chunk
  <2> QED BY <1>3 DEF blake3_hasher_update
<1>5. /\ room \in Nat /\ more \in Nat /\ more <= CHUNK_LEN /\ room <= len /\ rest \in Nat
      /\ room = len \/ (more = CHUNK_LEN /\ rest > 0)
      /\ more = l + room /\ x \in Nat /\ x + rest = m /\ x = Chunks(c) + more
  <2>1. room = len \/ (room = CHUNK_LEN - l /\ room < len)
    BY <1>2 DEF Min2
  <2>2. room \in Nat /\ room <= len /\ room <= CHUNK_LEN - l
    BY <1>2 DEF Min2
  <2>3. /\ more \in Nat /\ more <= CHUNK_LEN /\ rest \in Nat
        /\ room = len \/ (more = CHUNK_LEN /\ rest > 0)
    <3> HIDE DEF room
    <3> QED BY <1>2, <2>1, <2>2
  <2>4. x \in Nat /\ x + rest = m /\ x = Chunks(c) + more
    <3>1. at = Chunks(c) + l
      BY <1>1
    <3> HIDE DEF room
    <3>2. x \in Nat /\ x + rest = m
      BY <1>2, <2>2
    <3>3. x = Chunks(c) + more
      BY <1>2, <2>2, <3>1
    <3> QED BY <3>2, <3>3
  <2> HIDE DEF x, rest, room
  <2> QED BY <2>2, <2>3, <2>4
<1>6. begun = Hasher(key, filled, s)
  <2>1. c \in Nat /\ l \in Nat /\ room \in Nat /\ more = l + room /\ more <= CHUNK_LEN
        /\ at = Chunks(c) + l
        /\ self = Hasher(key, ChunkState(input, Chunks(c), l, key, flags), s)
    BY <1>1, <1>2, <1>5
  <2> HIDE DEF room, more
  <2>2. Updated(self, input, at, room)
          = Hasher(key, ChunkState(input, Chunks(c), more, key, flags), s)
    BY ONLY <2>1, FillChunk
  <2> QED BY <2>2 DEF Updated
<1> HIDE DEF begun
<1>7. CASE len = 0
  <2>1. out = self /\ m = at
    BY <1>2, <1>4, <1>7
  <2> QED BY <2>1
<1>8. CASE len # 0 /\ l = 0
  <2>1. out = subtrees(self, input, at, len) /\ at = Chunks(c) /\ len \in Nat \ {0}
    BY <1>1, <1>2, <1>4, <1>8
  <2>2. self = Hasher(key, chunk_state_init(key, c, flags), s)
    <3>1. self = Hasher(key, ChunkState(input, Chunks(c), 0, key, flags), s)
      BY <1>1, <1>8
    <3> QED BY <3>1, FreshState
  <2>3. HasherState(subtrees(self, input, at, len), input, key, flags, m)
    BY <1>1, <2>1, <2>2, SubtreesState
  <2> QED BY <2>1, <2>3
<1>9. CASE len # 0 /\ l # 0 /\ room = len
  <2>1. out = begun /\ more \in 0..CHUNK_LEN /\ more > 0 /\ m = Chunks(c) + more /\ l > 0
    BY <1>2, <1>4, <1>5, <1>9
  <2> HIDE DEF more
  <2> QED BY <1>1, <1>6, <2>1 DEF HasherState, filled
<1>10. CASE len # 0 /\ l # 0 /\ room # len
  <2> DEFINE d == c + 1
  <2>1. out = subtrees(next, input, x, rest) /\ more = CHUNK_LEN /\ rest \in Nat \ {0}
        /\ d \in Nat
    BY <1>2, <1>4, <1>5, <1>10
  <2>2. x = Chunks(d) /\ Chunks(d) <= AllLen
    <3>1. Chunks(c + 1) = Chunks(c) + Chunks(1) /\ Chunks(1) = CHUNK_LEN
      BY ChunksFacts
    <3> QED BY <1>2, <1>5, <2>1, <3>1
  <2>3. filled.flags = flags /\ filled.chunk_counter = c
    BY ChunkStateFields
  <2>4. PICK t : ended = Hasher(key, filled, t) /\ OnStack(input, key, flags, d, t)
    <3>1. filled = ChunkState(input, Chunks(c), CHUNK_LEN, key, flags)
      BY <2>1
    <3> HIDE DEF filled, d
    <3>2. d = c + 1
      BY DEF d
    <3>3. /\ c \in Nat /\ OnStack(input, key, flags, c, s)
          /\ ended = hasher_push_cv(begun, chunk_state_output(begun.chunk),
                                    begun.chunk.chunk_counter)
      BY <1>1
    <3> HIDE DEF ended
    <3> QED BY ONLY <1>6, <2>2, <3>1, <3>2, <3>3, EndChunk
  <2> HIDE DEF ended, filled, d
  <2>5. next = Hasher(key, chunk_state_init(key, d, flags), t)
    BY <2>3, <2>4, ResetChunk DEF d
  <2>6. x + rest = m
    BY <1>5
  <2> HIDE DEF next, x, rest
  <2>7. HasherState(subtrees(next, input, x, rest), input, key, flags, m)
    BY <2>1, <2>2, <2>4, <2>5, <2>6, SubtreesState
  <2> QED BY <2>1, <2>7
<1> QED BY <1>7, <1>8, <1>9, <1>10

LEMMA EmptyStack ==
  ASSUME NEW input, NEW key, NEW flags
  PROVE  OnStack(input, key, flags, 0, <<>>)
<1> DEFINE b == [i \in 0..0 |-> 0]
<1>1. Bounds(b, 0, 0)
  BY DEF Bounds
<1>2. Values(input, key, flags, b, 0) = <<>>
  BY DEF Values
<1> QED BY <1>1, <1>2 DEF OnStack

\* A new hasher, and one that was reset.
LEMMA NewState ==
  ASSUME NEW input, NEW key, NEW flags,
         NEW self, self = Hasher(key, chunk_state_init(key, 0, flags), <<>>)
  PROVE  HasherState(self, input, key, flags, 0)
<1> DEFINE c == 0
           l == 0
           s == <<>>
<1>1. c \in Nat /\ l \in 0..CHUNK_LEN /\ 0 = Chunks(c) + l /\ ~ l > 0 /\ Len(s) # 1
  BY Lengths, ChunksFacts
<1>2. OnStack(input, key, flags, c, s)
  BY EmptyStack
<1>3. self = Hasher(key, ChunkState(input, Chunks(c), l, key, flags), s)
  BY FreshState
<1> HIDE DEF c, l, s
<1> QED BY <1>1, <1>2, <1>3 DEF HasherState

------------------------------------------------------------------------------
(* What finalize makes of them.                                            *)

\* The tree over what is behind x chunks of so many bytes.
Root(input, key, flags, len, x) == Tree(input, key, flags)[len - Chunks(x)][Chunks(x)]

LEMMA RootStep ==
  ASSUME NEW input, NEW key, NEW flags, NEW p \in Pow, NEW x \in Nat, NEW y \in Nat, y = x + p,
         NEW len \in 0..AllLen, Chunks(y) < len, len <= Chunks(y) + Chunks(p)
  PROVE  Root(input, key, flags, len, x)
           = parent_output(<<Node(input, key, flags, p, x), Root(input, key, flags, len, y)>>,
                           key, flags)
<1> DEFINE n == len - Chunks(x)
           first == Chunks(x)
           left == Chunks(p)
<1>1. p \in Nat /\ AllLen \in Nat /\ 2 * p = p + p
  BY PowType, Lengths DEF AllLen
<1>2. /\ first \in Nat /\ left \in Nat /\ Chunks(y) = first + left /\ Chunks(y) \in Nat
      /\ Chunks(2 * p) = left + left
  <2>1. Chunks(x + p) = first + left /\ Chunks(p + p) = left + left
    BY <1>1, ChunksFacts
  <2>2. first \in Nat /\ left \in Nat /\ Chunks(y) \in Nat
    BY <1>1, ChunksFacts
  <2> QED BY <1>1, <2>1, <2>2
<1>3. /\ n \in 0..AllLen /\ Chunks(p) < n /\ n <= Chunks(2 * p)
      /\ n - left = len - Chunks(y) /\ first + left = Chunks(y)
  <2> HIDE DEF first, left
  <2> QED BY <1>1, <1>2 DEF first, left
<1> HIDE DEF n
<1>4. Tree(input, key, flags)[n][first]
        = parent_output(<<Tree(input, key, flags)[Chunks(p)][first],
                          Tree(input, key, flags)[n - Chunks(p)][first + Chunks(p)]>>,
                        key, flags)
  <2> HIDE DEF first
  <2> QED BY <1>2, <1>3, TreeParent
<1> QED BY <1>3, <1>4 DEF Root, Node, n

\* What is behind a subtree of the stack is no longer than it.
Fits(b, len, i) == Chunks(b[i]) < len /\ len <= Chunks(b[i]) + Chunks(b[i] - b[i - 1])

LEMMA SubtreesShrink ==
  ASSUME NEW b, NEW n, NEW c, Bounds(b, n, c), NEW i \in 1..n - 1
  PROVE  /\ b[i + 1] - b[i] <= b[i] - b[i - 1]
         /\ i + 1 < n \/ Settled(b, n) => 2 * (b[i + 1] - b[i]) <= b[i] - b[i - 1]
<1> DEFINE p == b[i] - b[i - 1]
           q == b[i + 1] - b[i]
           x == b[i - 1]
<1>1. /\ n \in Nat /\ i - 1 \in 0..n /\ i \in 0..n /\ i + 1 \in 0..n /\ (i + 1) - 1 = i
      /\ i \in 1..n /\ i + 1 \in 1..n /\ n # 0 /\ i \in Nat
  BY DEF Bounds
<1>2. b[i - 1] \in Nat /\ b[i] \in Nat /\ b[i + 1] \in Nat
  BY <1>1 DEF Bounds
<1>3. p \in Pow /\ q \in Pow /\ Divides(2 * p, x)
  BY <1>1 DEF Bounds
<1>4. b[i] = x + p /\ x \in Nat
  BY <1>2, <1>3, PowType
<1>5. q \in Pow /\ 2 * q \in Pow
  BY <1>3, PowType
<1> HIDE DEF p, q, x
<1>6. \A r \in Pow : Divides(r, x + p) => r <= p
  BY <1>3, <1>4, DividesOdd
<1>7. i + 1 < n \/ Settled(b, n) => Divides(2 * q, b[i])
  <2>1. CASE i + 1 < n
    <3>1. i + 1 \in 1..n - 1
      BY <1>1, <2>1
    <3> QED BY <1>1, <3>1 DEF Bounds, q
  <2>2. CASE Settled(b, n) /\ ~ (i + 1 < n)
    <3>1. i + 1 = n /\ n - 1 = i
      BY <1>1, <2>2
    <3> QED BY <1>1, <2>2, <3>1 DEF Settled, q
  <2> QED BY <2>1, <2>2
<1>8. Divides(q, b[i])
  <2>1. CASE i + 1 < n
    <3>1. Divides(2 * q, b[i])
      BY <1>7, <2>1
    <3>2. q <= 2 * q
      BY <1>3, PowType
    <3> QED BY <1>2, <1>5, <3>1, <3>2, DividesLower
  <2>2. CASE ~ (i + 1 < n)
    <3>1. i + 1 = n /\ n - 1 = i
      BY <1>1, <2>2
    <3> QED BY <1>1, <3>1 DEF Bounds, q
  <2> QED BY <2>1, <2>2
<1> QED BY <1>4, <1>5, <1>6, <1>7, <1>8 DEF p, q

LEMMA AllFit ==
  ASSUME NEW b, NEW n, NEW c, Bounds(b, n, c), NEW len \in Nat, NEW j \in 1..n,
         j < n \/ Settled(b, n), Fits(b, len, j)
  PROVE  \A i \in 1..j : Fits(b, len, i)
<1> DEFINE T == {k \in Nat : k < j => Fits(b, len, j - k)}
<1>1. n \in Nat /\ j \in Nat
  BY DEF Bounds
<1>2. 0 \in T
  <2>1. j - 0 = j
    BY <1>1
  <2> QED BY <2>1
<1>3. ASSUME NEW k \in Nat, k \in T PROVE k + 1 \in T
  <2> SUFFICES ASSUME k + 1 < j PROVE Fits(b, len, j - (k + 1))
    OBVIOUS
  <2> DEFINE i == j - (k + 1)
             p == b[i] - b[i - 1]
             q == b[i + 1] - b[i]
  <2>1. /\ i \in 1..n - 1 /\ i + 1 = j - k
        /\ i - 1 \in 0..n /\ i \in 0..n /\ i + 1 \in 0..n /\ i \in 1..n /\ i + 1 \in 1..n
        /\ (i + 1) - 1 = i /\ i \in Nat
    BY <1>1
  <2>2. Fits(b, len, i + 1)
    BY <1>1, <1>3, <2>1
  <2>3. i + 1 < n \/ Settled(b, n)
    BY <1>1
  <2> HIDE DEF i
  <2>4. 2 * q <= p
    <3>1. Bounds(b, n, c) /\ i \in 1..n - 1
      BY <2>1
    <3>2. i + 1 < n \/ Settled(b, n) => 2 * (b[i + 1] - b[i]) <= b[i] - b[i - 1]
      BY ONLY <3>1, SubtreesShrink
    <3> QED BY <2>3, <3>2
  <2>5. b[i - 1] \in Nat /\ b[i] \in Nat /\ b[i + 1] \in Nat /\ p \in Pow /\ q \in Pow
    BY <2>1 DEF Bounds
  <2>6. p \in Nat /\ q \in Nat \ {0} /\ b[i + 1] = b[i] + q
    BY <2>5, PowType
  <2>7. Chunks(b[i + 1]) < len /\ len <= Chunks(b[i + 1]) + Chunks(q)
    BY <2>1, <2>2 DEF Fits
  <2> HIDE DEF p, q
  <2>8. /\ Chunks(b[i] + q) = Chunks(b[i]) + Chunks(q) /\ Chunks(q + q) = Chunks(q) + Chunks(q)
        /\ Chunks(q + q) <= Chunks(p) /\ Chunks(b[i]) \in Nat /\ Chunks(q) \in Nat
        /\ Chunks(p) \in Nat
    <3>1. b[i] \in Nat /\ q \in Nat /\ q + q \in Nat /\ q + q <= p /\ p \in Nat
      BY <2>4, <2>5, <2>6
    <3>2. Chunks(b[i] + q) = Chunks(b[i]) + Chunks(q) /\ Chunks(q + q) = Chunks(q) + Chunks(q)
      BY <3>1, ChunksFacts
    <3>3. Chunks(q + q) <= Chunks(p)
      BY <3>1, ChunksFacts
    <3>4. Chunks(b[i]) \in Nat /\ Chunks(q) \in Nat /\ Chunks(p) \in Nat
      BY <3>1, ChunksFacts
    <3> QED BY <3>2, <3>3, <3>4
  <2>9. Chunks(b[i]) < len /\ len <= Chunks(b[i]) + Chunks(p)
    BY <2>6, <2>7, <2>8
  <2>10. Fits(b, len, i)
    BY <2>9 DEF Fits, p
  <2> QED BY <2>10 DEF i
<1>4. Nat \subseteq T
  <2> HIDE DEF T
  <2> QED BY <1>2, <1>3, NatIsLeast
<1>5. ASSUME NEW i \in 1..j PROVE Fits(b, len, i)
  <2>1. j - i \in Nat /\ j - i < j /\ j - (j - i) = i
    BY <1>1
  <2>2. j - i \in T
    BY <1>4, <2>1
  <2> QED BY <2>1, <2>2
<1> QED BY <1>5

\* Rolling up the values below the j-th boundary, when they all fit.
LEMMA RollUp ==
  ASSUME NEW input, NEW key, NEW flags, NEW b, NEW n, NEW c, Bounds(b, n, c),
         NEW len \in 0..AllLen, NEW j \in 0..n, \A i \in 1..j : Fits(b, len, i),
         NEW stack, stack = Values(input, key, flags, b, n), NEW chunk, chunk.flags = flags,
         NEW self, self = Hasher(key, chunk, stack),
         NEW output, output = Root(input, key, flags, len, b[j])
  PROVE  rollUp(self, output, j) = Tree(input, key, flags)[len][0]
<1> DEFINE R(i) == Root(input, key, flags, len, b[i])
           V(i) == parent_output(<<stack[j - i + 1], R(j - i + 1)>>, key, flags)
           Is(g, z) == g = [k \in 0..z |-> IF k = 0 THEN output
                              ELSE parent_output(<<stack[j - k + 1], g[k - 1]>>, key, flags)]
           g == [k \in 0..j |-> R(j - k)]
           up == CHOOSE f : Is(f, j)
<1>1. n \in Nat /\ j \in Nat /\ j <= n
  BY DEF Bounds
<1>2. ASSUME NEW i \in 1..j
      PROVE  parent_output(<<stack[i], R(i)>>, key, flags) = R(i - 1)
  <2> DEFINE p == b[i] - b[i - 1]
             x == b[i - 1]
             y == b[i]
  <2>1. i \in 1..n /\ i - 1 \in 0..n /\ i \in 0..n
    BY <1>1
  <2>2. x \in Nat /\ y \in Nat /\ p \in Pow
    BY <2>1 DEF Bounds
  <2>3. y = x + p
    BY <2>2, PowType
  <2>4. Chunks(y) < len /\ len <= Chunks(y) + Chunks(p)
    BY DEF Fits
  <2>5. stack[i] = Node(input, key, flags, p, x)
    BY <2>1 DEF Values
  <2> HIDE DEF p, x, y
  <2>6. Root(input, key, flags, len, x)
          = parent_output(<<Node(input, key, flags, p, x), Root(input, key, flags, len, y)>>,
                          key, flags)
    BY <2>2, <2>3, <2>4, RootStep
  <2> QED BY <2>5, <2>6 DEF x, y
<1>3. rollUp(self, output, j) = up[j]
  <2>1. self.cv_stack = stack /\ self.key = key /\ self.chunk.flags = flags
    BY DEF Hasher
  <2> QED BY <2>1 DEF rollUp
<1> HIDE DEF R
<1>4. Is(g, j)
  <2>1. \A k \in 0..j : g[k] = IF k = 0 THEN output
                               ELSE parent_output(<<stack[j - k + 1], g[k - 1]>>, key, flags)
    <3> SUFFICES ASSUME NEW k \in 0..j
                 PROVE  g[k] = IF k = 0 THEN output
                               ELSE parent_output(<<stack[j - k + 1], g[k - 1]>>, key, flags)
      OBVIOUS
    <3>1. CASE k = 0
      <4>1. g[k] = R(j)
        BY <1>1, <3>1
      <4> QED BY <3>1, <4>1 DEF R
    <3>2. CASE k # 0
      <4> DEFINE i == j - k + 1
      <4>1. i \in 1..j /\ i - 1 = j - k /\ k - 1 \in 0..j /\ j - (k - 1) = i
        BY <1>1, <3>2
      <4>2. g[k] = R(i - 1) /\ g[k - 1] = R(i)
        BY <4>1
      <4> HIDE DEF i, g
      <4>3. parent_output(<<stack[i], R(i)>>, key, flags) = R(i - 1)
        BY <1>2, <4>1
      <4>4. g[k] = parent_output(<<stack[i], g[k - 1]>>, key, flags)
        BY <4>2, <4>3
      <4> QED BY <3>2, <4>4 DEF i
    <3> QED BY <3>1, <3>2
  <2>2. g = [k \in 0..j |-> g[k]]
    OBVIOUS
  <2> HIDE DEF g
  <2> QED BY <2>1, <2>2
<1>5. Is(up, j)
  <2> HIDE DEF Is, g
  <2> QED BY <1>4
<1> HIDE DEF up
<1> DEFINE T == {k \in Nat : k <= j => up[k] = g[k]}
<1> HIDE DEF g
<1>6. 0 \in T
  BY <1>1, <1>4, <1>5
<1>7. ASSUME NEW k \in Nat, k \in T PROVE k + 1 \in T
  <2> SUFFICES ASSUME k + 1 <= j PROVE up[k + 1] = g[k + 1]
    OBVIOUS
  <2>1. k + 1 \in 0..j /\ (k + 1) - 1 = k /\ k + 1 # 0
    BY <1>1
  <2>2. up[k] = g[k]
    BY <1>1, <1>7, <2>1
  <2>3. up[k + 1] = parent_output(<<stack[j - (k + 1) + 1], up[k]>>, key, flags)
    BY <1>5, <2>1
  <2>4. g[k + 1] = parent_output(<<stack[j - (k + 1) + 1], g[k]>>, key, flags)
    BY <1>4, <2>1
  <2> QED BY <2>2, <2>3, <2>4
<1>8. up[j] = g[j]
  <2>1. Nat \subseteq T
    <3> HIDE DEF T
    <3> QED BY <1>6, <1>7, NatIsLeast
  <2> QED BY <1>1, <2>1
<1>9. g[j] = R(0)
  <2>1. j - j = 0 /\ j \in 0..j
    BY <1>1
  <2> QED BY <2>1 DEF g
<1>10. R(0) = Tree(input, key, flags)[len][0]
  <2>1. b[0] = 0 /\ Chunks(0) = 0 /\ len - 0 = len
    BY ChunksFacts DEF Bounds
  <2> QED BY <2>1 DEF R, Root
<1> QED BY <1>3, <1>8, <1>9, <1>10

\* The root that finalize finds is that of the tree of all bytes given.
LEMMA RootOutput ==
  ASSUME NEW input, NEW key, NEW flags, NEW bytes \in 0..AllLen,
         NEW self, HasherState(self, input, key, flags, bytes)
  PROVE  rootOutput(self) = Tree(input, key, flags)[bytes][0]
<1>1. PICK c, len, s :
        /\ c \in Nat /\ len \in 0..CHUNK_LEN
        /\ bytes = Chunks(c) + len
        /\ self = Hasher(key, ChunkState(input, Chunks(c), len, key, flags), s)
        /\ OnStack(input, key, flags, c, s)
        /\ len > 0 => Len(s) = popcnt[c]
        /\ len = 0 => Len(s) # 1
  BY DEF HasherState
<1> c \in Nat /\ len \in 0..CHUNK_LEN
  BY <1>1
<1>2. PICK b, n : Bounds(b, n, c) /\ s = Values(input, key, flags, b, n)
  BY <1>1 DEF OnStack
<1> DEFINE chunk == ChunkState(input, Chunks(c), len, key, flags)
           output == chunk_state_output(chunk)
           root == Tree(input, key, flags)[bytes][0]
<1>3. /\ n \in Nat /\ b \in [0..n -> Nat] /\ b[0] = 0 /\ b[n] = c
      /\ Len(s) = n /\ CHUNK_LEN \in Nat \ {0} /\ AllLen \in Nat /\ Chunks(c) \in Nat
      /\ len \in Nat /\ len <= CHUNK_LEN
  <2>1. n \in Nat /\ b \in [0..n -> Nat] /\ b[0] = 0 /\ b[n] = c
    BY <1>2 DEF Bounds
  <2>2. Len(s) = n
    BY <1>2, <2>1 DEF Values
  <2>3. CHUNK_LEN \in Nat \ {0} /\ AllLen \in Nat
    BY Lengths DEF AllLen
  <2>4. Chunks(c) \in Nat
    BY ChunksFacts
  <2> QED BY <2>1, <2>2, <2>3, <2>4
<1>4. /\ self.cv_stack = s /\ self.key = key /\ self.chunk = chunk /\ chunk.flags = flags
      /\ chunk_state_len(chunk) = len
  <2>1. chunk_state_len(chunk) = len
    BY <1>3, ChunkStateLen
  <2>2. chunk.flags = flags
    BY ChunkStateFields
  <2> QED BY <1>1, <2>1, <2>2 DEF Hasher
<1>5. output = Root(input, key, flags, bytes, c)
  <2>1. output = ChunkOutput(input, Chunks(c), len, key, flags)
    BY ChunkStateOutput
  <2>2. bytes - Chunks(c) = len /\ len \in 0..AllLen
    BY <1>1, <1>3
  <2>3. Tree(input, key, flags)[len][Chunks(c)]
          = ChunkOutput(input, Chunks(c), len, key, flags)
    BY <1>3, <2>2, TreeChunk
  <2> QED BY <2>1, <2>2, <2>3 DEF Root
<1>6. self = Hasher(key, chunk, s)
  BY <1>1
<1> HIDE DEF chunk, output
<1>7. CASE n = 0
  <2>1. rootOutput(self) = output
    BY <1>3, <1>4, <1>7 DEF rootOutput, output
  <2>2. c = 0 /\ Chunks(c) = 0 /\ bytes - 0 = bytes
    BY <1>3, <1>7, ChunksFacts
  <2> QED BY <1>5, <2>1, <2>2 DEF Root
<1>8. CASE n # 0 /\ len > 0
  <2>1. rootOutput(self) = rollUp(self, output, n)
    BY <1>3, <1>4, <1>8 DEF rootOutput, output
  <2>2. Settled(b, n)
    <3>1. popcnt[c] = n
      BY <1>1, <1>3, <1>8
    <3> QED BY <1>2, <1>3, <3>1, WhenToMerge
  <2>3. n \in 1..n /\ n \in 0..n
    BY <1>3, <1>8
  <2>4. Fits(b, bytes, n)
    <3> DEFINE p == b[n] - b[n - 1]
    <3>1. p \in Pow
      BY <1>2, <2>3 DEF Bounds
    <3>2. p \in Nat /\ p >= 1
      BY <3>1, PowType
    <3> HIDE DEF p
    <3>3. Chunks(1) <= Chunks(p) /\ Chunks(1) = CHUNK_LEN /\ Chunks(p) \in Nat
      BY <3>2, ChunksFacts
    <3>4. Chunks(c) < bytes /\ bytes <= Chunks(c) + Chunks(p)
      BY <1>1, <1>3, <1>8, <3>3
    <3> QED BY <1>3, <3>4 DEF Fits, p
  <2>5. \A i \in 1..n : Fits(b, bytes, i)
    BY <1>2, <2>2, <2>3, <2>4, AllFit
  <2>6. rollUp(self, output, n) = root
    <3>1. /\ Bounds(b, n, c) /\ bytes \in 0..AllLen /\ n \in 0..n
          /\ s = Values(input, key, flags, b, n) /\ chunk.flags = flags
          /\ self = Hasher(key, chunk, s) /\ output = Root(input, key, flags, bytes, b[n])
      BY <1>2, <1>3, <1>4, <1>5, <1>6, <2>3
    <3> QED BY <2>5, <3>1, RollUp
  <2> QED BY <2>1, <2>6
<1>9. CASE n # 0 /\ ~ len > 0
  <2>1. len = 0 /\ n >= 2 /\ bytes = Chunks(c)
    BY <1>1, <1>3, <1>9
  <2> DEFINE j == n - 2
             i == n - 1
             p == b[n] - b[i]
             q == b[i] - b[j]
             top == parent_output(<<s[i], s[n]>>, key, flags)
             last == s[n]
  <2>2. /\ i \in 1..n - 1 /\ j \in Nat /\ i \in Nat /\ j \in 0..n /\ i \in 0..n /\ n \in 0..n
        /\ n \in 1..n /\ i \in 1..n /\ i - 1 = j /\ i + 1 = n /\ i < n /\ n > 1 /\ n - 1 = i
        /\ j <= i
    BY <1>3, <2>1
  <2>3. rootOutput(self) = rollUp(self, top, j)
    <3>1. chunk_state_len(self.chunk) = 0 /\ self.cv_stack = s /\ self.key = key
          /\ self.chunk.flags = flags /\ Len(s) = n
      BY <1>3, <1>4, <2>1
    <3> QED BY <2>2, <3>1 DEF rootOutput
  <2>4. b[n] = c /\ b[i] \in Nat /\ b[j] \in Nat /\ p \in Pow /\ q \in Pow
    <3>1. b[n] = c /\ b[i] \in Nat /\ b[j] \in Nat
      BY <1>3, <2>2
    <3>2. p \in Pow
      BY <1>2, <2>2 DEF Bounds
    <3>3. b[i] - b[i - 1] \in Pow
      BY <1>2, <2>2 DEF Bounds
    <3> QED BY <2>2, <3>1, <3>2, <3>3
  <2>5. /\ p \in Nat \ {0} /\ q \in Nat \ {0} /\ p <= q /\ c = b[i] + p /\ b[i] = b[j] + q
    <3>1. p \in Nat \ {0} /\ q \in Nat \ {0}
      BY <2>4, PowType
    <3>2. p <= q
      <4>1. b[i + 1] - b[i] <= b[i] - b[i - 1]
        <5>1. Bounds(b, n, c) /\ i \in 1..n - 1
          BY <1>2, <2>2
        <5> HIDE DEF i
        <5> QED BY ONLY <5>1, SubtreesShrink
      <4> QED BY <2>2, <4>1
    <3> QED BY <2>4, <3>1, <3>2
  <2>6. s[n] = Node(input, key, flags, p, b[i]) /\ s[i] = Node(input, key, flags, q, b[j])
    <3>1. s[n] = Node(input, key, flags, b[n] - b[n - 1], b[n - 1])
      BY <1>2, <2>2 DEF Values
    <3>2. s[i] = Node(input, key, flags, b[i] - b[i - 1], b[i - 1])
      BY <1>2, <2>2 DEF Values
    <3> QED BY <2>2, <3>1, <3>2
  <2> HIDE DEF p, q
  <2>7. /\ Chunks(c) = Chunks(b[i]) + Chunks(p) /\ Chunks(b[i]) \in Nat /\ Chunks(p) \in Nat \ {0}
        /\ Chunks(q) \in Nat /\ Chunks(p) <= Chunks(q)
    <3>1. p \in Nat /\ q \in Nat
      BY <2>5
    <3>2. Chunks(c) = Chunks(b[i]) + Chunks(p)
      BY <2>4, <2>5, <3>1, ChunksFacts
    <3>3. Chunks(b[i]) \in Nat /\ Chunks(q) \in Nat
      BY <2>4, <3>1, ChunksFacts
    <3>4. Chunks(p) \in Nat \ {0}
      BY <2>5, CountChunks
    <3>5. Chunks(p) <= Chunks(q)
      BY <2>5, <3>1, ChunksFacts
    <3> QED BY <3>2, <3>3, <3>4, <3>5
  <2>8. s[n] = Root(input, key, flags, bytes, b[i])
    <3>1. bytes - Chunks(b[i]) = Chunks(p)
      BY <2>1, <2>7
    <3> QED BY <2>6, <3>1 DEF Root, Node
  <2>9. Chunks(b[i]) < bytes /\ bytes <= Chunks(b[i]) + Chunks(q)
    BY <2>1, <2>7
  <2>10. Root(input, key, flags, bytes, b[j]) = top
    <3> DEFINE x == b[j]
               y == b[i]
    <3>1. q \in Pow /\ x \in Nat /\ y \in Nat /\ y = x + q /\ Chunks(y) < bytes
          /\ bytes <= Chunks(y) + Chunks(q) /\ bytes \in 0..AllLen
      BY <2>4, <2>5, <2>9
    <3>2. s[i] = Node(input, key, flags, q, x) /\ s[n] = Root(input, key, flags, bytes, y)
      BY <2>6, <2>8
    <3> HIDE DEF x, y
    <3>3. Root(input, key, flags, bytes, x)
            = parent_output(<<Node(input, key, flags, q, x), Root(input, key, flags, bytes, y)>>,
                            key, flags)
      BY ONLY <3>1, RootStep
    <3> QED BY <3>2, <3>3 DEF x
  <2>11. \A k \in 1..j : Fits(b, bytes, k)
    <3>1. Fits(b, bytes, i)
      BY <2>2, <2>9 DEF Fits, q
    <3> DEFINE m == i
    <3>2. m \in 1..n /\ m < n /\ Fits(b, bytes, m) /\ Bounds(b, n, c) /\ bytes \in Nat
      BY <1>2, <2>2, <3>1
    <3> HIDE DEF m
    <3>3. \A k \in 1..m : Fits(b, bytes, k)
      BY ONLY <3>2, AllFit
    <3> QED BY <2>2, <3>3 DEF m
  <2>12. rollUp(self, top, j) = root
    <3>1. /\ Bounds(b, n, c) /\ bytes \in 0..AllLen /\ j \in 0..n
          /\ s = Values(input, key, flags, b, n) /\ chunk.flags = flags
          /\ self = Hasher(key, chunk, s) /\ top = Root(input, key, flags, bytes, b[j])
      BY <1>2, <1>4, <1>6, <2>2, <2>10
    <3> HIDE DEF top, j
    <3> QED BY <2>11, <3>1, RollUp
  <2> QED BY <2>3, <2>12
<1> QED BY <1>7, <1>8, <1>9

\* Bytes from any place of the output on: the n-th byte behind a whole number of blocks.
LEMMA XofByte ==
  ASSUME NEW root, NEW q \in Nat, NEW r \in 0..BLOCK_LEN - 1, NEW n, n = q * BLOCK_LEN + r
  PROVE  compress_xof(root, q)[r + 1] = DigestByte(root, n)
<1>1. BLOCK_LEN \in Nat \ {0} /\ n \in Nat
  BY Lengths
<1>2. n \div BLOCK_LEN = q /\ n % BLOCK_LEN = r
  <2> DEFINE m == q * BLOCK_LEN
  <2>1. m \in Nat
    BY <1>1
  <2>2. m <= n /\ n < m + BLOCK_LEN /\ n - m = r
    <3> HIDE DEF m
    <3>1. n = m + r
      BY DEF m
    <3> QED BY <1>1, <2>1, <3>1
  <2>3. q * BLOCK_LEN <= n /\ n < q * BLOCK_LEN + BLOCK_LEN /\ n - q * BLOCK_LEN = r
    BY <2>2
  <2> QED BY <1>1, <2>3, Division
<1>3. r + 1 \in 1..BLOCK_LEN
  BY <1>1
<1> QED BY <1>2, <1>3 DEF compress_xof, DigestByte

Digest(root, seek, out_len) == [k \in 1..out_len |-> DigestByte(root, seek + k - 1)]

LEMMA RootBytes ==
  ASSUME NEW root, NEW seek \in Nat, NEW out_len
  PROVE  output_root_bytes(root, seek, out_len) = Digest(root, seek, out_len)
<1> DEFINE offset == seek % BLOCK_LEN
           q == seek \div BLOCK_LEN
           wide_buf(n) == compress_xof(root, q + n)
           behind(k) == k - (BLOCK_LEN - offset) - 1
           Byte(k) == IF behind(k) < 0 THEN wide_buf(0)[offset + k]
                      ELSE wide_buf(1 + behind(k) \div BLOCK_LEN)[(behind(k) % BLOCK_LEN) + 1]
<1>0. output_root_bytes(root, seek, out_len) = [k \in 1..out_len |-> Byte(k)]
  BY DEF output_root_bytes
<1>1. BLOCK_LEN \in Nat \ {0}
  BY Lengths
<1>2. q \in Nat /\ offset \in 0..BLOCK_LEN - 1 /\ seek = q * BLOCK_LEN + offset
  BY <1>1, Division
<1> HIDE DEF q, offset
<1>3. ASSUME NEW k \in 1..out_len
      PROVE  Byte(k) = DigestByte(root, seek + k - 1)
  <2> DEFINE n == seek + k - 1
             m == q * BLOCK_LEN
  <2>0. k \in Nat \ {0} /\ m \in Nat /\ seek = m + offset
    BY <1>1, <1>2
  <2>1. CASE behind(k) < 0
    <3> DEFINE r == offset + k - 1
    <3>1. r \in 0..BLOCK_LEN - 1 /\ n = m + r /\ r + 1 = offset + k /\ q + 0 = q
      <4> HIDE DEF m
      <4> QED BY <1>1, <1>2, <2>0, <2>1
    <3> HIDE DEF r, n
    <3>2. n = q * BLOCK_LEN + r
      BY <3>1
    <3>3. compress_xof(root, q)[r + 1] = DigestByte(root, n)
      BY <1>2, <3>1, <3>2, XofByte
    <3>4. Byte(k) = compress_xof(root, q)[r + 1]
      BY <2>1, <3>1
    <3> QED BY <3>3, <3>4 DEF n
  <2>2. CASE ~ behind(k) < 0
    <3> DEFINE a == behind(k)
               d == a \div BLOCK_LEN
               r == a % BLOCK_LEN
               e == q + (1 + d)
    <3>1. a \in Nat /\ n = m + BLOCK_LEN + a
      <4> HIDE DEF m
      <4> QED BY <1>1, <1>2, <2>0, <2>2
    <3> HIDE DEF a
    <3>2. d \in Nat /\ r \in 0..BLOCK_LEN - 1 /\ a = d * BLOCK_LEN + r
      BY <1>1, <3>1, Division
    <3> HIDE DEF d, r, n
    <3>3. e \in Nat
      BY <1>2, <3>2
    <3>4. n = e * BLOCK_LEN + r
      <4>1. e * BLOCK_LEN = q * BLOCK_LEN + BLOCK_LEN + d * BLOCK_LEN
        BY <1>1, <1>2, <3>2
      <4> DEFINE u == d * BLOCK_LEN
                 v == e * BLOCK_LEN
      <4>2. u \in Nat /\ v = m + BLOCK_LEN + u /\ a = u + r
        BY <1>1, <3>2, <4>1
      <4> HIDE DEF u, v, m
      <4>3. n = v + r
        BY <1>1, <2>0, <3>1, <3>2, <4>2
      <4> QED BY <4>3 DEF v
    <3> HIDE DEF e
    <3>5. compress_xof(root, e)[r + 1] = DigestByte(root, n)
      BY <3>2, <3>3, <3>4, XofByte
    <3>6. Byte(k) = compress_xof(root, e)[r + 1]
      BY <2>2 DEF e, d, r, a
    <3> QED BY <3>5, <3>6 DEF n
  <2> QED BY <2>1, <2>2
<1> HIDE DEF Byte
<1>4. [k \in 1..out_len |-> Byte(k)] = [k \in 1..out_len |-> DigestByte(root, seek + k - 1)]
  BY <1>3
<1> QED BY <1>0, <1>4 DEF Digest

\* Whatever part of the output is asked for.
LEMMA FinalizeState ==
  ASSUME NEW input, NEW key, NEW flags, NEW bytes \in 0..AllLen,
         NEW self, HasherState(self, input, key, flags, bytes), NEW seek \in Nat, NEW out_len,
         NEW root, root = Tree(input, key, flags)[bytes][0]
  PROVE  blake3_hasher_finalize_seek(self, seek, out_len) = Digest(root, seek, out_len)
<1>1. rootOutput(self) = root
  BY RootOutput
<1>2. blake3_hasher_finalize_seek(self, seek, out_len) = output_root_bytes(root, seek, out_len)
  BY <1>1 DEF blake3_hasher_finalize_seek
<1>3. output_root_bytes(root, seek, out_len) = Digest(root, seek, out_len)
  BY RootBytes
<1> QED BY <1>2, <1>3

------------------------------------------------------------------------------
(* The hasher of the specification.                                        *)

\* The key of a context is its digest.
LEMMA ContextKey ==
  context_key = [n \in 1..KEY_LEN |->
                   DigestByte(Tree(Context, IV, {"DERIVE_KEY_CONTEXT"})[ContextLen][0], n - 1)]
<1> DEFINE flags == {"DERIVE_KEY_CONTEXT"}
           zero == 0
           begun == hasher_init_base(IV, flags)
           self == blake3_hasher_update(begun, Context, zero, ContextLen)
           root == Tree(Context, IV, flags)[ContextLen][0]
<1>1. context_key = blake3_hasher_finalize_seek(self, zero, KEY_LEN)
  BY DEF context_key
<1>2. ContextLen \in Nat /\ ContextLen \in 0..AllLen /\ ContextLen = zero + ContextLen
      /\ ContextLen <= AllLen /\ zero \in Nat
  BY Lengths DEF AllLen
<1> HIDE DEF flags
<1>3. begun = Hasher(IV, chunk_state_init(IV, 0, flags), <<>>)
  BY DEF hasher_init_base, Hasher
<1> HIDE DEF begun
<1>4. HasherState(begun, Context, IV, flags, 0)
  BY <1>3, NewState
<1>5. HasherState(begun, Context, IV, flags, zero)
  BY <1>4
<1> HIDE DEF zero
<1>6. HasherState(self, Context, IV, flags, ContextLen)
  BY <1>2, <1>5, UpdateState
<1> HIDE DEF self
<1>7. blake3_hasher_finalize_seek(self, zero, KEY_LEN) = Digest(root, zero, KEY_LEN)
  BY <1>2, <1>6, FinalizeState
<1> HIDE DEF root
<1>8. \A n \in 1..KEY_LEN : zero + n - 1 = n - 1
  BY DEF zero
<1>9. Digest(root, zero, KEY_LEN) = [n \in 1..KEY_LEN |-> DigestByte(root, n - 1)]
  BY <1>8 DEF Digest
<1> QED BY <1>1, <1>7, <1>9 DEF root, flags

\* The hasher holds what it was given, under the key and the flags it was
\* initialised with.
IInv ==
  /\ used \in Hashers
  /\ given \in 0..MaxLen
  /\ HasherState(hasher, Bytes, expectedKey, expectedFlags, given)

LEMMA InitIInv == Init => IInv
<1> SUFFICES ASSUME Init PROVE IInv
  OBVIOUS
<1>1. used \in Hashers /\ given = 0 /\ 0 \in 0..MaxLen
  BY Lengths DEF Init
<1>2. used.mode \in {"hash", "keyed_hash", "derive_key"}
  BY <1>1, HasherAssumption
<1>3. hasher = hasher_init_base(expectedKey, expectedFlags)
  <2>1. CASE used.mode = "hash"
    BY <2>1 DEF Init, blake3_hasher_init, expectedKey, expectedFlags
  <2>2. CASE used.mode = "keyed_hash"
    BY <2>2 DEF Init, blake3_hasher_init, expectedKey, expectedFlags
  <2>3. CASE used.mode = "derive_key"
    <3> DEFINE key == [n \in 1..KEY_LEN |->
                  DigestByte(Tree(Context, IV, {"DERIVE_KEY_CONTEXT"})[ContextLen][0], n - 1)]
    <3>1. expectedKey = key /\ expectedFlags = {"DERIVE_KEY_MATERIAL"}
      BY <2>3 DEF expectedKey, expectedFlags
    <3>2. context_key = key
      BY ContextKey
    <3> HIDE DEF key
    <3>3. hasher = hasher_init_base(context_key, {"DERIVE_KEY_MATERIAL"})
      BY <2>3 DEF Init, blake3_hasher_init
    <3> QED BY <3>1, <3>2, <3>3
  <2> QED BY <1>2, <2>1, <2>2, <2>3
<1>4. hasher = Hasher(expectedKey, chunk_state_init(expectedKey, 0, expectedFlags), <<>>)
  BY <1>3 DEF hasher_init_base, Hasher
<1>5. HasherState(hasher, Bytes, expectedKey, expectedFlags, 0)
  BY <1>4, NewState
<1> QED BY <1>1, <1>5 DEF IInv

LEMMA NextIInv == IInv /\ [Next]_vars => IInv'
<1> SUFFICES ASSUME IInv, [Next]_vars PROVE IInv'
  OBVIOUS
<1> DEFINE key == expectedKey
           flags == expectedFlags
<1>1. /\ used \in Hashers /\ given \in 0..MaxLen /\ MaxLen \in Nat /\ AllLen \in Nat
      /\ MaxLen <= AllLen
  BY Lengths DEF IInv, AllLen
<1>2. HasherState(hasher, Bytes, key, flags, given)
  BY DEF IInv
<1>3. ASSUME used' = used, given' \in 0..MaxLen, HasherState(hasher', Bytes, key, flags, given')
      PROVE  IInv'
  <2>1. key' = key /\ flags' = flags
    BY <1>3 DEF expectedKey, expectedFlags
  <2> HIDE DEF key, flags
  <2>2. HasherState(hasher', Bytes, key', flags', given')
    BY <1>3, <2>1
  <2> QED BY <1>1, <1>3, <2>2 DEF IInv, key, flags
<1> HIDE DEF key, flags
<1>4. ASSUME NEW n \in 0..MaxLen - given, Update(n) PROVE IInv'
  <2>1. /\ n \in Nat /\ given' = given + n /\ given' \in 0..MaxLen /\ given' <= AllLen
        /\ used' = used
    BY <1>1, <1>4 DEF Update
  <2>2. hasher' = blake3_hasher_update(hasher, Bytes, given, n)
    BY <1>4 DEF Update
  <2>3. HasherState(hasher', Bytes, key, flags, given')
    BY <1>2, <2>1, <2>2, UpdateState
  <2> QED BY <1>3, <2>1, <2>3
<1>5. CASE Reset
  <2>1. given' = 0 /\ used' = used /\ 0 \in 0..MaxLen
    BY <1>1, <1>5 DEF Reset
  <2>2. PICK c, len, s :
          /\ c \in Nat /\ hasher = Hasher(key, ChunkState(Bytes, Chunks(c), len, key, flags), s)
    BY <1>2 DEF HasherState
  <2> DEFINE chunk == ChunkState(Bytes, Chunks(c), len, key, flags)
             fresh == chunk_state_init(key, 0, flags)
  <2>3. chunk.flags = flags
    BY <2>2, ChunkStateFields
  <2>4. hasher = [key |-> key, chunk |-> chunk, cv_stack |-> s]
    BY <2>2 DEF Hasher
  <2> HIDE DEF chunk
  <2>5. chunk_state_reset(chunk, key, 0) = fresh
    BY <2>3 DEF chunk_state_reset
  <2>6. hasher.key = key
    BY <2>4
  <2>7. hasher' = [hasher EXCEPT !.chunk = chunk_state_reset(@, key, 0), !.cv_stack = <<>>]
    BY <1>5, <2>6 DEF Reset
  <2> HIDE DEF fresh
  <2>8. hasher' = [key |-> key, chunk |-> fresh, cv_stack |-> <<>>]
    BY <2>4, <2>5, <2>7
  <2>9. hasher' = Hasher(key, chunk_state_init(key, 0, flags), <<>>)
    BY <2>8 DEF Hasher, fresh
  <2>10. HasherState(hasher', Bytes, key, flags, 0)
    BY <2>9, NewState
  <2> QED BY <1>3, <2>1, <2>10
<1>6. CASE UNCHANGED vars
  <2>1. used' = used /\ given' = given /\ hasher' = hasher
    BY <1>6 DEF vars
  <2> QED BY <1>1, <1>2, <1>3, <2>1
<1> QED BY <1>4, <1>5, <1>6 DEF Next

LEMMA InvariantIInv == Spec => []IInv
<1>1. Init => IInv
  BY InitIInv
<1>2. IInv /\ [Next]_vars => IInv'
  BY NextIInv
<1> QED BY <1>1, <1>2, PTL DEF Spec

------------------------------------------------------------------------------
(* The theorems.                                                           *)

\* The chunk state never holds more than a chunk, nor its buffer more than a
\* block, and every byte given to the hasher is accounted for: those of the
\* chunks counted are on the stack, the others in the chunk state.
THEOREM HasherTypes == Spec => []TypeOK
<1>1. IInv => TypeOK
  <2> SUFFICES ASSUME IInv PROVE TypeOK
    OBVIOUS
  <2>1. PICK c, len, s :
          /\ c \in Nat /\ len \in 0..CHUNK_LEN
          /\ given = Chunks(c) + len
          /\ hasher = Hasher(expectedKey,
                             ChunkState(Bytes, Chunks(c), len, expectedKey, expectedFlags), s)
    BY DEF IInv, HasherState
  <2> DEFINE chunk == ChunkState(Bytes, Chunks(c), len, expectedKey, expectedFlags)
  <2>2. len \in Nat /\ len <= CHUNK_LEN
    BY <2>1, Lengths
  <2>3. hasher.chunk = chunk
    BY <2>1 DEF Hasher
  <2>4. chunk_state_len(chunk) = len /\ chunk.buf_len \in 0..BLOCK_LEN
    BY <2>2, ChunkStateLen
  <2>5. chunk.chunk_counter = c
    BY <2>1, ChunkStateFields
  <2> HIDE DEF chunk
  <2>6. hasher.chunk.chunk_counter * CHUNK_LEN = Chunks(c)
    BY <2>3, <2>5 DEF Chunks
  <2> QED BY <2>1, <2>3, <2>4, <2>6 DEF IInv, TypeOK
<1> QED BY <1>1, InvariantIInv, PTL

\* Any part of the digest, from any place on.
AnyPartOfTheDigest ==
  \A seek, out_len \in Nat :
    blake3_hasher_finalize_seek(hasher, seek, out_len)
      = Digest(Tree(Bytes, expectedKey, expectedFlags)[given][0], seek, out_len)

\* However the input is cut into calls of blake3_hasher_update, whatever the machine
\* can hash at once and whether the hasher was new or reset, finalize returns the
\* bytes of the digest of the one tree over the whole input: the lazy merging of the
\* stack, the subtrees hashed wide and the last chunk held back never change the hash.
THEOREM DigestAlways == Spec => []DigestIsTheTree /\ []AnyPartOfTheDigest
<1>1. IInv => AnyPartOfTheDigest
  <2> SUFFICES ASSUME IInv, NEW seek \in Nat, NEW out_len \in Nat
               PROVE  blake3_hasher_finalize_seek(hasher, seek, out_len)
                        = Digest(Tree(Bytes, expectedKey, expectedFlags)[given][0], seek, out_len)
    BY DEF AnyPartOfTheDigest
  <2>1. given \in 0..AllLen /\ HasherState(hasher, Bytes, expectedKey, expectedFlags, given)
    BY Lengths DEF IInv, AllLen
  <2> QED BY <2>1, FinalizeState
<1>2. AnyPartOfTheDigest => DigestIsTheTree
  <2> DEFINE root == Tree(Bytes, expectedKey, expectedFlags)[given][0]
  <2> SUFFICES ASSUME AnyPartOfTheDigest,
                      NEW seek \in {0, BLOCK_LEN - 1, 2 * BLOCK_LEN},
                      NEW out_len \in {KEY_LEN, 2 * BLOCK_LEN + 1}
               PROVE  blake3_hasher_finalize_seek(hasher, seek, out_len)
                        = [n \in 1..out_len |-> DigestByte(root, seek + n - 1)]
    BY DEF DigestIsTheTree
  <2>1. seek \in Nat /\ out_len \in Nat
    BY Lengths
  <2>2. blake3_hasher_finalize_seek(hasher, seek, out_len) = Digest(root, seek, out_len)
    BY <2>1 DEF AnyPartOfTheDigest
  <2> QED BY <2>2 DEF Digest
<1> QED BY <1>1, <1>2, InvariantIInv, PTL

\* "None of the subtrees in the stack need to be merged with each other first"
\* (blake3.c:586) when finalize finds bytes in the chunk, and "there are always at
\* least 2 CVs in the stack" (blake3.c:598), or none, when it finds none: it never
\* reads in front of the stack.
THEOREM StackAlwaysReady == Spec => []StackIsReady
<1>1. IInv => StackIsReady
  <2> SUFFICES ASSUME IInv PROVE StackIsReady
    OBVIOUS
  <2>1. PICK c, len, s :
          /\ c \in Nat /\ len \in 0..CHUNK_LEN
          /\ hasher = Hasher(expectedKey,
                             ChunkState(Bytes, Chunks(c), len, expectedKey, expectedFlags), s)
          /\ len > 0 => Len(s) = popcnt[c]
          /\ len = 0 => Len(s) # 1
    BY DEF IInv, HasherState
  <2> DEFINE chunk == ChunkState(Bytes, Chunks(c), len, expectedKey, expectedFlags)
  <2>2. len \in Nat
    BY <2>1, Lengths
  <2>3. hasher.chunk = chunk /\ hasher.cv_stack = s
    BY <2>1 DEF Hasher
  <2>4. chunk_state_len(chunk) = len
    BY <2>2, ChunkStateLen
  <2>5. chunk.chunk_counter = c
    BY <2>1, ChunkStateFields
  <2> HIDE DEF chunk
  <2> QED BY <2>1, <2>2, <2>3, <2>4, <2>5 DEF StackIsReady
<1> QED BY <1>1, InvariantIInv, PTL

\* "The stack size is MAX_DEPTH + 1 because we do lazy merging." (blake3.h:55):
\* n values take 2^(n - 1) chunks at least, so that no input of less than 2^64 bytes
\* overruns cv_stack.
THEOREM StackAlwaysFits == Spec => []StackFits
<1>1. IInv => StackFits
  <2> SUFFICES ASSUME IInv, hasher.cv_stack # <<>>
               PROVE  pow2[Len(hasher.cv_stack) - 1] <= hasher.chunk.chunk_counter
    BY DEF StackFits
  <2>1. PICK c, len, s :
          /\ c \in Nat
          /\ hasher = Hasher(expectedKey,
                             ChunkState(Bytes, Chunks(c), len, expectedKey, expectedFlags), s)
          /\ OnStack(Bytes, expectedKey, expectedFlags, c, s)
    BY DEF IInv, HasherState
  <2>2. PICK b, n : Bounds(b, n, c) /\ s = Values(Bytes, expectedKey, expectedFlags, b, n)
    BY <2>1 DEF OnStack
  <2>3. hasher.cv_stack = s
    BY <2>1 DEF Hasher
  <2>4. hasher.chunk.chunk_counter = c
    <3> DEFINE chunk == ChunkState(Bytes, Chunks(c), len, expectedKey, expectedFlags)
    <3>1. hasher.chunk = chunk
      BY <2>1 DEF Hasher
    <3>2. chunk.chunk_counter = c
      BY <2>1, ChunkStateFields
    <3> HIDE DEF chunk
    <3> QED BY <3>1, <3>2
  <2>5. n \in Nat /\ b[n] = c /\ b \in [0..n -> Nat]
    BY <2>2 DEF Bounds
  <2>6. Len(s) = n
    BY <2>2, <2>5 DEF Values
  <2>7. n # 0
    <3> SUFFICES ASSUME n = 0 PROVE FALSE
      OBVIOUS
    <3>1. s = <<>>
      BY <2>2 DEF Values
    <3> QED BY <2>3, <3>1
  <2> DEFINE m == n - 1
             x == b[m]
             p == b[n] - b[n - 1]
  <2>8. m \in Nat /\ m \in 0..n /\ n \in 1..n /\ n - 1 = m /\ m \in 0..n - 1
    BY <2>5, <2>7
  <2>9. p \in Nat \ {0} /\ x \in Nat
    <3>1. p \in Pow
      BY <2>2, <2>8 DEF Bounds
    <3> HIDE DEF p
    <3> QED BY <2>5, <2>8, <3>1, PowType
  <2>10. x + 1 <= c
    BY <2>5, <2>8, <2>9
  <2>11. popcnt[x] = m
    <3>1. \A i \in 0..n - 1 : popcnt[b[i]] = i
      BY <2>2, BoundsPopcnt
    <3> QED BY <2>8, <3>1
  <2> HIDE DEF m, x, p
  <2>12. pow2[popcnt[x]] <= x + 1
    BY <2>9, PopcntBound
  <2>13. pow2[m] <= c
    <3>1. pow2[m] \in Nat
      BY <2>8, PowersOfTwo
    <3> QED BY <2>1, <2>9, <2>10, <2>11, <2>12, <3>1
  <2> QED BY <2>3, <2>4, <2>6, <2>13 DEF m
<1> QED BY <1>1, InvariantIInv, PTL
=============================================================================
