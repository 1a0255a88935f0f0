----------------------------- MODULE SumTheorems -----------------------------
(***************************************************************************)
(* What the proofs about files and counters share: induction, products     *)
(* that are places in a file, and what the sums of the models are          *)
(* (SumFunctionOnSet of the community modules is defined by recursion over *)
(* the subsets of its set).                                                *)
(***************************************************************************)
EXTENDS FiniteSetTheorems, TLAPS

\* A set of numbers that holds 0, and with each number the next, holds them all.
LEMMA NatIsLeast ==
  ASSUME NEW T, 0 \in T, \A n \in Nat : n \in T => n + 1 \in T
  PROVE  Nat \subseteq T
<1> DEFINE U == Nat \ T
<1> SUFFICES ASSUME U # {} PROVE FALSE
  OBVIOUS
<1>1. PICK m \in U : \A y \in U : <<y, m>> \notin OpToRel(<, Nat)
  BY NatLessThanWellFounded, WFMin, U \subseteq Nat
<1>2. m # 0 /\ m - 1 \in Nat /\ m - 1 < m
  OBVIOUS
<1>3. m - 1 \in U
  BY <1>2
<1> QED BY <1>1, <1>2, <1>3 DEF OpToRel

\* A set of sets that holds each subset of a finite set S, if it holds what is left of
\* it without any one element, holds them all.
LEMMA SubsetsByRemoval ==
  ASSUME NEW S, IsFiniteSet(S), NEW T,
         \A s \in SUBSET S : (\A x \in s : s \ {x} \in T) => s \in T
  PROVE  SUBSET S \subseteq T
<1> DEFINE N == {n \in Nat : \A s \in SUBSET S : Cardinality(s) = n => s \in T}
<1>1. \A s \in SUBSET S : IsFiniteSet(s) /\ Cardinality(s) \in Nat
  BY FS_Subset, FS_CardinalityType
<1>2. 0 \in N
  <2> SUFFICES ASSUME NEW s \in SUBSET S, Cardinality(s) = 0 PROVE s \in T
    OBVIOUS
  <2> s = {}
    BY <1>1, FS_EmptySet
  <2> QED OBVIOUS
<1>3. \A n \in Nat : n \in N => n + 1 \in N
  <2> SUFFICES ASSUME NEW n \in Nat, n \in N, NEW s \in SUBSET S, Cardinality(s) = n + 1
               PROVE  s \in T
    OBVIOUS
  <2> SUFFICES ASSUME NEW x \in s PROVE s \ {x} \in T
    OBVIOUS
  <2>1. Cardinality(s \ {x}) = n
    BY <1>1, FS_RemoveElement
  <2> QED BY <2>1
<1>4. Nat \subseteq N
  <2> HIDE DEF N
  <2> QED BY <1>2, <1>3, NatIsLeast
<1> QED BY <1>1, <1>4

\* Multiples of a size, and numbers below it.
LEMMA Below ==
  ASSUME NEW a \in Int, NEW b \in Int, NEW h \in Nat \ {0}, NEW k \in 0..h - 1
  PROVE  /\ a < b <=> a * h + k < b * h
         /\ b <= a <=> b * h <= a * h + k
<1>1. a < b => a * h + k < b * h
  <2>1. a < b => (a + 1) * h <= b * h
    OBVIOUS
  <2>2. (a + 1) * h = a * h + h
    OBVIOUS
  <2> QED  BY <2>1, <2>2
<1>2. b <= a => b * h <= a * h + k
  <2>1. b <= a => b * h <= a * h
    OBVIOUS
  <2> QED  BY <2>1
<1> QED  BY <1>1, <1>2

------------------------------------------------------------------------------
\* The element that a sum takes first, and the function that the sum is read off.
First(s) == CHOOSE x \in s : TRUE
Sums(f, S, g) ==
  \A s \in S : g[s] = IF s = {} THEN 0 ELSE f[First(s)] + g[s \ {First(s)}]
SumsOnly(f, S, g) == g = [s \in S |-> IF s = {} THEN 0 ELSE f[First(s)] + g[s \ {First(s)}]]

LEMMA FirstIsIn == ASSUME NEW s, s # {} PROVE First(s) \in s
BY DEF First

\* There is such a function,
LEMMA SumsExists ==
  ASSUME NEW S, IsFiniteSet(S), NEW f
  PROVE  \E g : SumsOnly(f, SUBSET S, g)
<1> DEFINE Upto(n) == {s \in SUBSET S : Cardinality(s) <= n}
           Body(g, s) == IF s = {} THEN 0 ELSE f[First(s)] + g[s \ {First(s)}]
           N == {n \in Nat : \E g : SumsOnly(f, Upto(n), g)}
<1>1. \A s \in SUBSET S : IsFiniteSet(s) /\ Cardinality(s) \in Nat
  BY FS_Subset, FS_CardinalityType
<1>2. 0 \in N
  <2> DEFINE g == [s \in Upto(0) |-> 0]
  <2>1. \A s \in Upto(0) : s = {}
    BY <1>1, FS_EmptySet
  <2>2. g = [s \in Upto(0) |-> Body(g, s)]
    BY <2>1
  <2>3. SumsOnly(f, Upto(0), g)
    BY <2>2 DEF SumsOnly
  <2> HIDE DEF g, Upto
  <2> QED BY <2>3
<1>3. \A n \in Nat : n \in N => n + 1 \in N
  <2> SUFFICES ASSUME NEW n \in Nat, NEW g, SumsOnly(f, Upto(n), g)
               PROVE  n + 1 \in N
    OBVIOUS
  <2> DEFINE h == [s \in Upto(n + 1) |-> Body(g, s)]
  <2>1. \A s \in Upto(n + 1) : s # {} => s \ {First(s)} \in Upto(n)
    <3> SUFFICES ASSUME NEW s \in Upto(n + 1), s # {}
                 PROVE  Cardinality(s \ {First(s)}) <= n
      OBVIOUS
    <3>1. Cardinality(s \ {First(s)}) = Cardinality(s) - 1
      BY <1>1, FirstIsIn, FS_RemoveElement
    <3> QED BY <1>1, <3>1
  <2>2. Upto(n) \subseteq Upto(n + 1)
    BY <1>1
  <2>3. \A s \in Upto(n) : h[s] = g[s]
    <3> SUFFICES ASSUME NEW s \in Upto(n) PROVE h[s] = g[s]
      OBVIOUS
    <3>1. h[s] = Body(g, s)
      BY <2>2
    <3>2. g[s] = Body(g, s)
      <4> HIDE DEF Upto, h
      <4> QED BY DEF SumsOnly
    <3> QED BY <3>1, <3>2
  <2>4. \A s \in Upto(n + 1) : Body(g, s) = Body(h, s)
    <3> HIDE DEF h, Upto
    <3> QED BY <2>1, <2>3
  <2>5. h = [s \in Upto(n + 1) |-> Body(h, s)]
    <3> HIDE DEF Body, Upto
    <3> QED BY <2>4
  <2>6. SumsOnly(f, Upto(n + 1), h)
    <3> HIDE DEF h, Upto
    <3> QED BY <2>5 DEF SumsOnly
  <2> HIDE DEF h, Upto
  <2> QED BY <2>6
<1>4. Cardinality(S) \in N
  <2>1. Nat \subseteq N
    <3> HIDE DEF N
    <3> QED BY <1>2, <1>3, NatIsLeast
  <2> QED BY <2>1, FS_CardinalityType
<1>5. Upto(Cardinality(S)) = SUBSET S
  BY FS_Subset
<1> HIDE DEF Upto
<1> QED BY <1>4, <1>5

\* so that the sum is one,
LEMMA SumIsRead ==
  ASSUME NEW S, IsFiniteSet(S), NEW f
  PROVE  \E g : Sums(f, SUBSET S, g) /\ SumFunctionOnSet(f, S) = g[S]
<1> DEFINE h == CHOOSE g : SumsOnly(f, SUBSET S, g)
<1>1. SumFunctionOnSet(f, S) = h[S]
  BY DEF SumFunctionOnSet, FoldFunctionOnSet, MapThenFoldSet, First, SumsOnly
<1>2. SumsOnly(f, SUBSET S, h)
  BY SumsExists
<1>3. Sums(f, SUBSET S, h)
  <2> HIDE DEF h
  <2> QED BY <1>2 DEF Sums, SumsOnly
<1> HIDE DEF h
<1> QED BY <1>1, <1>3

\* and only one, over a set or over a larger one.
LEMMA SumsAgree ==
  ASSUME NEW S, IsFiniteSet(S), NEW f, NEW g, NEW h,
         Sums(f, SUBSET S, g), Sums(f, SUBSET S, h)
  PROVE  g[S] = h[S]
<1> DEFINE T == {s \in SUBSET S : g[s] = h[s]}
<1>1. ASSUME NEW s \in SUBSET S, \A x \in s : s \ {x} \in T
      PROVE  s \in T
  BY <1>1, FirstIsIn DEF Sums
<1>2. SUBSET S \subseteq T
  <2> HIDE DEF T
  <2> QED BY <1>1, SubsetsByRemoval
<1> QED BY <1>2

\* Nothing adds up to 0,
LEMMA SumEmpty ==
  ASSUME NEW f
  PROVE  SumFunctionOnSet(f, {}) = 0
<1>1. PICK g : Sums(f, SUBSET {}, g) /\ SumFunctionOnSet(f, {}) = g[{}]
  BY SumIsRead, FS_EmptySet
<1> QED BY <1>1 DEF Sums

\* and the first is added to the rest.
LEMMA SumFirst ==
  ASSUME NEW S, IsFiniteSet(S), S # {}, NEW f
  PROVE  SumFunctionOnSet(f, S) = f[First(S)] + SumFunctionOnSet(f, S \ {First(S)})
<1> DEFINE R == S \ {First(S)}
<1>1. PICK g : Sums(f, SUBSET S, g) /\ SumFunctionOnSet(f, S) = g[S]
  BY SumIsRead
<1>2. IsFiniteSet(R)
  BY FS_Subset
<1>3. PICK h : Sums(f, SUBSET R, h) /\ SumFunctionOnSet(f, R) = h[R]
  <2> HIDE DEF R
  <2> QED BY <1>2, SumIsRead
<1>4. Sums(f, SUBSET R, g)
  BY <1>1 DEF Sums
<1>5. g[R] = h[R]
  <2> HIDE DEF R
  <2> QED BY <1>2, <1>3, <1>4, SumsAgree
<1> QED BY <1>1, <1>3, <1>5 DEF Sums

------------------------------------------------------------------------------
(* What the proofs use of it.                                              *)

\* A sum of integers is one, and one of natural numbers too.
LEMMA SumType ==
  ASSUME NEW S, IsFiniteSet(S), NEW f, \A x \in S : f[x] \in Int
  PROVE  /\ SumFunctionOnSet(f, S) \in Int
         /\ (\A x \in S : f[x] >= 0) => SumFunctionOnSet(f, S) >= 0
<1> DEFINE T == {s \in SUBSET S :
                   /\ SumFunctionOnSet(f, s) \in Int
                   /\ (\A x \in S : f[x] >= 0) => SumFunctionOnSet(f, s) >= 0}
<1>1. ASSUME NEW s \in SUBSET S, \A x \in s : s \ {x} \in T
      PROVE  s \in T
  <2>1. CASE s = {}
    BY <2>1, SumEmpty
  <2>2. CASE s # {}
    <3>1. First(s) \in s
      BY <2>2, FirstIsIn
    <3>2. s \ {First(s)} \in T /\ f[First(s)] \in Int
      BY <1>1, <3>1
    <3>3. IsFiniteSet(s)
      BY FS_Subset
    <3>4. SumFunctionOnSet(f, s) = f[First(s)] + SumFunctionOnSet(f, s \ {First(s)})
      BY <2>2, <3>3, SumFirst
    <3> QED BY <3>1, <3>2, <3>4
  <2> QED BY <2>1, <2>2
<1>2. SUBSET S \subseteq T
  <2> HIDE DEF T
  <2> QED BY <1>1, SubsetsByRemoval
<1> QED BY <1>2

\* Functions that agree have the same sum.
LEMMA SumSame ==
  ASSUME NEW S, IsFiniteSet(S), NEW f, NEW g, \A x \in S : f[x] = g[x]
  PROVE  SumFunctionOnSet(f, S) = SumFunctionOnSet(g, S)
<1> DEFINE T == {s \in SUBSET S : SumFunctionOnSet(f, s) = SumFunctionOnSet(g, s)}
<1>1. ASSUME NEW s \in SUBSET S, \A x \in s : s \ {x} \in T
      PROVE  s \in T
  <2>1. CASE s = {}
    BY <2>1, SumEmpty
  <2>2. CASE s # {}
    <3>1. First(s) \in s /\ IsFiniteSet(s)
      BY <2>2, FirstIsIn, FS_Subset
    <3> QED BY <1>1, <2>2, <3>1, SumFirst
  <2> QED BY <2>1, <2>2
<1>2. SUBSET S \subseteq T
  <2> HIDE DEF T
  <2> QED BY <1>1, SubsetsByRemoval
<1> QED BY <1>2

\* Any element can be taken out first.
LEMMA SumRemove ==
  ASSUME NEW S, IsFiniteSet(S), NEW f, \A x \in S : f[x] \in Int, NEW x \in S
  PROVE  SumFunctionOnSet(f, S) = f[x] + SumFunctionOnSet(f, S \ {x})
<1> DEFINE Sum(s) == SumFunctionOnSet(f, s)
           T == {s \in SUBSET S : \A z \in s : Sum(s) = f[z] + Sum(s \ {z})}
<1>1. ASSUME NEW s \in SUBSET S, \A z \in s : s \ {z} \in T
      PROVE  s \in T
  <2> SUFFICES ASSUME NEW z \in s PROVE Sum(s) = f[z] + Sum(s \ {z})
    OBVIOUS
  <2> DEFINE y == First(s)
  <2>1. y \in s /\ IsFiniteSet(s)
    BY FirstIsIn, FS_Subset
  <2>2. Sum(s) = f[y] + Sum(s \ {y})
    BY <2>1, SumFirst
  <2>3. CASE y = z
    BY <2>2, <2>3
  <2>4. CASE y # z
    <3> DEFINE r == (s \ {y}) \ {z}
    <3>1. Sum(s \ {y}) = f[z] + Sum(r)
      BY <1>1, <2>1, <2>4
    <3>2. Sum(s \ {z}) = f[y] + Sum((s \ {z}) \ {y})
      BY <1>1, <2>1, <2>4
    <3>3. (s \ {z}) \ {y} = r
      OBVIOUS
    <3>4. IsFiniteSet(r) /\ r \subseteq S
      BY <2>1, FS_Subset
    <3>5. Sum(r) \in Int
      <4> HIDE DEF r
      <4> QED BY <3>4, SumType
    <3>6. f[y] \in Int /\ f[z] \in Int
      BY <2>1
    <3>7. \A a, b, c \in Int : a + (b + c) = b + (a + c)
      OBVIOUS
    <3>8. f[y] + (f[z] + Sum(r)) = f[z] + (f[y] + Sum(r))
      <4> HIDE DEF r, y, Sum
      <4> QED BY <3>5, <3>6, <3>7
    <3> HIDE DEF r, y, Sum, T
    <3> QED BY <2>2, <3>1, <3>2, <3>3, <3>8
  <2> QED BY <2>3, <2>4
<1>2. SUBSET S \subseteq T
  <2> HIDE DEF T
  <2> QED BY <1>1, SubsetsByRemoval
<1> QED BY <1>2

\* A value that changes changes the sum by as much.
LEMMA SumChange ==
  ASSUME NEW S, IsFiniteSet(S), NEW f, NEW g, NEW x \in S,
         \A y \in S : f[y] \in Int /\ g[y] \in Int,
         \A y \in S \ {x} : f[y] = g[y]
  PROVE  SumFunctionOnSet(g, S) = SumFunctionOnSet(f, S) + (g[x] - f[x])
<1> DEFINE R == S \ {x}
<1>1. IsFiniteSet(R)
  BY FS_Subset
<1>2. SumFunctionOnSet(f, R) = SumFunctionOnSet(g, R)
  BY <1>1, SumSame
<1>3. SumFunctionOnSet(f, R) \in Int
  BY <1>1, SumType
<1>4. /\ SumFunctionOnSet(f, S) = f[x] + SumFunctionOnSet(f, R)
      /\ SumFunctionOnSet(g, S) = g[x] + SumFunctionOnSet(g, R)
  BY SumRemove
<1> HIDE DEF R
<1> QED BY <1>2, <1>3, <1>4

\* The sum of larger values is larger.
LEMMA SumMonotone ==
  ASSUME NEW S, IsFiniteSet(S), NEW f, NEW g,
         \A y \in S : f[y] \in Int /\ g[y] \in Int /\ f[y] <= g[y]
  PROVE  SumFunctionOnSet(f, S) <= SumFunctionOnSet(g, S)
<1> DEFINE T == {s \in SUBSET S : SumFunctionOnSet(f, s) <= SumFunctionOnSet(g, s)}
<1>1. ASSUME NEW s \in SUBSET S, \A x \in s : s \ {x} \in T
      PROVE  s \in T
  <2>1. CASE s = {}
    BY <2>1, SumEmpty
  <2>2. CASE s # {}
    <3> DEFINE x == First(s)
               r == s \ {x}
    <3>1. x \in s /\ IsFiniteSet(s) /\ IsFiniteSet(r)
      BY <2>2, FirstIsIn, FS_Subset
    <3>2. /\ SumFunctionOnSet(f, s) = f[x] + SumFunctionOnSet(f, r)
          /\ SumFunctionOnSet(g, s) = g[x] + SumFunctionOnSet(g, r)
      BY <2>2, <3>1, SumFirst
    <3>3. SumFunctionOnSet(f, r) \in Int /\ SumFunctionOnSet(g, r) \in Int
      BY <3>1, SumType
    <3>4. SumFunctionOnSet(f, r) <= SumFunctionOnSet(g, r)
      BY <1>1, <3>1
    <3>5. f[x] \in Int /\ g[x] \in Int /\ f[x] <= g[x]
      BY <3>1
    <3> HIDE DEF x, r
    <3> QED BY <3>2, <3>3, <3>4, <3>5
  <2> QED BY <2>1, <2>2
<1>2. SUBSET S \subseteq T
  <2> HIDE DEF T
  <2> QED BY <1>1, SubsetsByRemoval
<1> QED BY <1>2

\* The sum of one value is as many times that value.
LEMMA SumConstant ==
  ASSUME NEW S, IsFiniteSet(S), NEW f, NEW c \in Int, \A x \in S : f[x] = c
  PROVE  SumFunctionOnSet(f, S) = Cardinality(S) * c
<1> DEFINE T == {s \in SUBSET S : SumFunctionOnSet(f, s) = Cardinality(s) * c}
<1>1. ASSUME NEW s \in SUBSET S, \A x \in s : s \ {x} \in T
      PROVE  s \in T
  <2>1. CASE s = {}
    BY <2>1, SumEmpty, FS_EmptySet
  <2>2. CASE s # {}
    <3> DEFINE x == First(s)
               r == s \ {x}
    <3>1. x \in s /\ IsFiniteSet(s) /\ IsFiniteSet(r)
      BY <2>2, FirstIsIn, FS_Subset
    <3>2. SumFunctionOnSet(f, s) = f[x] + SumFunctionOnSet(f, r)
      BY <2>2, <3>1, SumFirst
    <3>3. /\ Cardinality(s) \in Nat /\ Cardinality(r) = Cardinality(s) - 1
      BY <3>1, FS_CardinalityType, FS_RemoveElement
    <3>4. SumFunctionOnSet(f, r) = Cardinality(r) * c
      BY <1>1, <3>1
    <3>5. f[x] = c
      BY <3>1
    <3>6. \A n \in Nat : c + (n - 1) * c = n * c
      OBVIOUS
    <3> HIDE DEF x, r
    <3> QED BY <3>2, <3>3, <3>4, <3>5, <3>6
  <2> QED BY <2>1, <2>2
<1>2. SUBSET S \subseteq T
  <2> HIDE DEF T
  <2> QED BY <1>1, SubsetsByRemoval
<1> QED BY <1>2

\* No value of a sum of natural numbers is larger than the sum.
LEMMA SumBounds ==
  ASSUME NEW S, IsFiniteSet(S), NEW f, \A y \in S : f[y] \in Nat, NEW x \in S
  PROVE  f[x] <= SumFunctionOnSet(f, S)
<1> DEFINE R == S \ {x}
<1>1. IsFiniteSet(R)
  BY FS_Subset
<1>2. SumFunctionOnSet(f, R) \in Int /\ SumFunctionOnSet(f, R) >= 0
  BY <1>1, SumType
<1>3. SumFunctionOnSet(f, S) = f[x] + SumFunctionOnSet(f, R)
  BY SumRemove
<1> HIDE DEF R
<1> QED BY <1>2, <1>3

\* The sum of multiples of numbers, and of a constant for each.
LEMMA SumLinear ==
  ASSUME NEW S, IsFiniteSet(S), NEW f, NEW g, NEW c \in Int, NEW d \in Int,
         \A x \in S : f[x] \in Int /\ g[x] = f[x] * c + d
  PROVE  SumFunctionOnSet(g, S) = SumFunctionOnSet(f, S) * c + Cardinality(S) * d
<1> DEFINE T == {s \in SUBSET S : SumFunctionOnSet(g, s) = SumFunctionOnSet(f, s) * c + Cardinality(s) * d}
<1>1. ASSUME NEW s \in SUBSET S, \A x \in s : s \ {x} \in T
      PROVE  s \in T
  <2>1. CASE s = {}
    <3>1. SumFunctionOnSet(g, s) = 0 /\ SumFunctionOnSet(f, s) = 0 /\ Cardinality(s) = 0
      BY <2>1, SumEmpty, FS_EmptySet
    <3> QED  BY <3>1
  <2>2. CASE s # {}
    <3> DEFINE x == First(s)
               F == SumFunctionOnSet(f, s \ {x})
               G == SumFunctionOnSet(g, s \ {x})
               n == Cardinality(s \ {x})
    <3>1. x \in s
      BY <2>2, FirstIsIn
    <3>2. IsFiniteSet(s) /\ IsFiniteSet(s \ {x})
      BY FS_Subset
    <3>3. /\ SumFunctionOnSet(f, s) = f[x] + F
          /\ SumFunctionOnSet(g, s) = g[x] + G
      BY <2>2, <3>2, SumFirst
    <3>4. G = F * c + n * d
      BY <1>1, <3>1
    <3>5. Cardinality(s) = n + 1 /\ n \in Nat
      BY <3>1, <3>2, FS_RemoveElement, FS_CardinalityType
    <3>6. F \in Int /\ f[x] \in Int /\ g[x] = f[x] * c + d
      BY <3>1, <3>2, SumType
    <3> HIDE DEF x, F, G, n
    <3>7. g[x] + G = (f[x] + F) * c + (n + 1) * d
      BY <3>4, <3>5, <3>6
    <3> QED  BY <3>3, <3>5, <3>7
  <2> QED  BY <2>1, <2>2
<1> HIDE DEF T
<1>2. SUBSET S \subseteq T
  BY <1>1, SubsetsByRemoval
<1> QED  BY <1>2 DEF T
=============================================================================
