---------------------------- MODULE SetInduction ----------------------------
(***************************************************************************)
(* Induction over natural numbers and over finite sets, stated for a SET   *)
(* of numbers or of sets, so that no operator has to be instantiated: the  *)
(* property to be proved of every element is the set of those that have    *)
(* it.  What starts it all is that no function maps a finite set one to    *)
(* one into a part of it.                                                  *)
(***************************************************************************)
EXTENDS Integers, FiniteSets, FiniteSetTheorems, TLAPS

LEMMA NatSetInduction ==
  ASSUME NEW P, 0 \in P, \A n \in Nat : n \in P => n + 1 \in P
  PROVE  Nat \subseteq P
<1> SUFFICES ASSUME NEW x \in Nat, x \notin P PROVE FALSE
  OBVIOUS
<1> DEFINE Q == {n \in 0..x : n \notin P}
           f == [n \in Q |-> n - 1]
<1>1. x \in Q /\ \A n \in Q : n \in Nat /\ n # 0 /\ n - 1 \in Q
  <2>1. x \in Q
    OBVIOUS
  <2>2. ASSUME NEW n \in Q PROVE n \in Nat /\ n # 0 /\ n - 1 \in Q
    <3>1. n \in Nat /\ n <= x /\ n \notin P /\ n # 0
      OBVIOUS
    <3>2. n - 1 \in Nat /\ (n - 1) + 1 = n
      BY <3>1
    <3>3. n - 1 \notin P
      BY <3>1, <3>2
    <3> QED BY <3>1, <3>2, <3>3
  <2> QED BY <2>1, <2>2
<1>2. IsFiniteSet(Q)
  <2>1. IsFiniteSet(0..x)
    BY FS_Interval
  <2> QED BY <2>1, FS_Subset, Zenon
<1>3. f \in [Q -> Q \ {x}]
  BY <1>1
<1>4. IsFiniteSet(Q \ {x}) /\ Cardinality(Q \ {x}) < Cardinality(Q)
  <2>1. Cardinality(Q) \in Nat
    BY <1>2, FS_CardinalityType
  <2>2. IsFiniteSet(Q \ {x}) /\ Cardinality(Q \ {x}) = Cardinality(Q) - 1
    BY <1>1, <1>2, FS_RemoveElement
  <2> QED BY <2>1, <2>2
<1>5. PICK i, j \in Q : i # j /\ f[i] = f[j]
  <2> HIDE DEF Q, f
  <2> QED BY <1>2, <1>3, <1>4, FS_PigeonHole
<1> QED BY <1>1, <1>5

LEMMA LeastNatural ==
  ASSUME NEW T \in SUBSET Nat, T # {}
  PROVE  \E x \in T : \A y \in T : x <= y
<1> SUFFICES ASSUME \A x \in T : \E y \in T : ~(x <= y) PROVE FALSE
  OBVIOUS
<1> DEFINE P == {n \in Nat : \A k \in 0..n : k \notin T}
<1>1. 0 \in P
  OBVIOUS
<1>2. ASSUME NEW n \in Nat, n \in P PROVE n + 1 \in P
  <2>1. n + 1 \notin T
    <3>1. \A y \in T : y > n
      BY <1>2
    <3> QED BY <3>1
  <2>2. \A k \in 0..(n + 1) : k \in 0..n \/ k = n + 1
    OBVIOUS
  <2> QED BY <1>2, <2>1, <2>2
<1>3. Nat \subseteq P
  <2> HIDE DEF P
  <2> QED BY <1>1, <1>2, NatSetInduction
<1>4. PICK t \in T : t \in Nat
  OBVIOUS
<1>5. t \in P
  <2> HIDE DEF P
  <2> QED BY <1>3, <1>4
<1> QED BY <1>4, <1>5

LEMMA GreatestNatural ==
  ASSUME NEW T \in SUBSET Nat, T # {}, NEW m \in Nat, \A y \in T : y <= m
  PROVE  \E x \in T : \A y \in T : y <= x
<1> DEFINE U == {n \in Nat : \A y \in T : y <= n}
<1>1. U \in SUBSET Nat /\ m \in U
  OBVIOUS
<1>2. PICK u \in U : \A n \in U : u <= n
  <2> HIDE DEF U
  <2> QED BY <1>1, LeastNatural
<1>3. u \in T
  <2> SUFFICES ASSUME u \notin T PROVE FALSE
    OBVIOUS
  <2>1. \A y \in T : y \in Nat /\ y <= u /\ y # u
    OBVIOUS
  <2>2. u # 0
    <3>1. PICK y \in T : y \in Nat
      OBVIOUS
    <3> QED BY <2>1, <3>1
  <2>3. u - 1 \in U
    BY <2>1, <2>2
  <2> QED BY <1>2, <2>3
<1> QED BY <1>3

\* A set of sets that holds T whenever it holds all that lack one element of T.
LEMMA SubsetInduction ==
  ASSUME NEW S, IsFiniteSet(S), NEW P,
         \A T \in SUBSET S : (\A x \in T : T \ {x} \in P) => T \in P
  PROVE  SUBSET S \subseteq P
<1> DEFINE N == {n \in Nat : \A T \in SUBSET S : Cardinality(T) = n => T \in P}
<1>0. \A T \in SUBSET S : IsFiniteSet(T) /\ Cardinality(T) \in Nat
  BY FS_Subset, FS_CardinalityType
<1>1. 0 \in N
  <2> SUFFICES ASSUME NEW T \in SUBSET S, Cardinality(T) = 0 PROVE T \in P
    OBVIOUS
  <2>1. T = {}
    BY <1>0, FS_EmptySet
  <2> QED BY <2>1
<1>2. ASSUME NEW n \in Nat, n \in N PROVE n + 1 \in N
  <2> SUFFICES ASSUME NEW T \in SUBSET S, Cardinality(T) = n + 1 PROVE T \in P
    OBVIOUS
  <2>1. ASSUME NEW x \in T PROVE T \ {x} \in P
    <3>1. Cardinality(T \ {x}) = n
      BY <1>0, FS_RemoveElement
    <3> QED BY <1>2, <3>1
  <2> QED BY <2>1
<1>3. Nat \subseteq N
  <2> HIDE DEF N
  <2> QED BY <1>1, <1>2, NatSetInduction
<1> QED BY <1>0, <1>3

LEMMA OneLess ==
  ASSUME NEW T, IsFiniteSet(T), NEW x \in T
  PROVE  /\ IsFiniteSet(T \ {x}) /\ Cardinality(T) \in Nat /\ Cardinality(T \ {x}) \in Nat
         /\ Cardinality(T) = Cardinality(T \ {x}) + 1
<1>1. Cardinality(T) \in Nat
  BY FS_CardinalityType
<1>2. IsFiniteSet(T \ {x}) /\ Cardinality(T \ {x}) = Cardinality(T) - 1
  BY FS_RemoveElement
<1>3. Cardinality(T \ {x}) \in Nat
  BY <1>2, FS_CardinalityType
<1> QED BY <1>1, <1>2, <1>3

LEMMA FiniteNaturalsBounded ==
  ASSUME NEW S \in SUBSET Nat, IsFiniteSet(S)
  PROVE  \E m \in Nat : \A y \in S : y <= m
<1> DEFINE P == {T \in SUBSET S : \E m \in Nat : \A y \in T : y <= m}
<1>1. ASSUME NEW T \in SUBSET S, \A x \in T : T \ {x} \in P
      PROVE  T \in P
  <2>1. CASE T = {}
    BY <2>1
  <2>2. CASE T # {}
    <3>1. PICK x \in T : TRUE
      BY <2>2
    <3>2. PICK m \in Nat : \A y \in T \ {x} : y <= m
      BY <1>1, <3>1
    <3>3. x \in Nat
      OBVIOUS
    <3>4. \E k \in Nat : k >= m /\ k >= x
      BY <3>2, <3>3
    <3>5. PICK k \in Nat : k >= m /\ k >= x
      BY <3>4
    <3>6. \A y \in T : y <= k
      BY <3>2, <3>3, <3>5
    <3> QED BY <3>6
  <2> QED BY <2>1, <2>2
<1>2. S \in P
  <2> HIDE DEF P
  <2>1. SUBSET S \subseteq P
    BY <1>1, SubsetInduction
  <2> QED BY <2>1
<1> QED BY <1>2

\* A finite set of numbers in ascending order.
LEMMA AscendingExists ==
  ASSUME NEW S \in SUBSET Nat, IsFiniteSet(S)
  PROVE  \E f \in [1..Cardinality(S) -> S] :
            \A i, j \in 1..Cardinality(S) : i < j => f[i] < f[j]
<1> DEFINE Listed(T) == \E f \in [1..Cardinality(T) -> T] :
                           \A i, j \in 1..Cardinality(T) : i < j => f[i] < f[j]
           P == {T \in SUBSET S : Listed(T)}
<1>1. ASSUME NEW T \in SUBSET S, \A x \in T : T \ {x} \in P
      PROVE  T \in P
  <2> SUFFICES Listed(T)
    OBVIOUS
  <2>1. IsFiniteSet(T) /\ Cardinality(T) \in Nat
    BY FS_Subset, FS_CardinalityType
  <2>2. CASE T = {}
    <3>1. Cardinality(T) = 0
      BY <2>2, FS_EmptySet
    <3>2. 1..Cardinality(T) = {}
      BY <3>1
    <3>3. [x \in {} |-> x] \in [1..Cardinality(T) -> T]
      BY <3>2
    <3> QED BY <3>2, <3>3
  <2>3. CASE T # {}
    <3>1. PICK m \in T : \A y \in T : y <= m
      BY <2>1, <2>3, FiniteNaturalsBounded, GreatestNatural
    <3> DEFINE n == Cardinality(T) - 1
    <3>2. n \in Nat /\ Cardinality(T \ {m}) = n /\ Cardinality(T) = n + 1
      <4>1. IsFiniteSet(T \ {m}) /\ Cardinality(T \ {m}) = Cardinality(T) - 1
        BY <2>1, FS_RemoveElement
      <4>2. Cardinality(T \ {m}) \in Nat
        BY <4>1, FS_CardinalityType
      <4> QED BY <2>1, <4>1, <4>2
    <3>3. PICK g \in [1..n -> T \ {m}] : \A i, j \in 1..n : i < j => g[i] < g[j]
      BY <1>1, <3>1, <3>2
    <3> DEFINE f == [i \in 1..(n + 1) |-> IF i = n + 1 THEN m ELSE g[i]]
    <3> HIDE DEF n
    <3>4. \A i \in 1..n : i \in 1..(n + 1) /\ i # n + 1 /\ g[i] \in T /\ g[i] < m
      <4> TAKE i \in 1..n
      <4>1. g[i] \in T \ {m}
        BY <3>3
      <4>2. g[i] \in Nat /\ m \in Nat /\ g[i] <= m /\ g[i] # m
        BY <3>1, <4>1
      <4> QED BY <3>2, <4>1, <4>2
    <3>5. \A i \in 1..(n + 1) : i = n + 1 \/ i \in 1..n
      BY <3>2
    <3>6. f \in [1..(n + 1) -> T]
      BY <3>1, <3>4, <3>5
    <3>7. ASSUME NEW i \in 1..(n + 1), NEW j \in 1..(n + 1), i < j
          PROVE  f[i] < f[j]
      <4>1. i \in 1..n
        BY <3>2, <3>7
      <4>2. CASE j = n + 1
        BY <3>4, <4>1, <4>2
      <4>3. CASE j \in 1..n
        BY <3>3, <3>4, <3>7, <4>1, <4>3
      <4> QED BY <3>5, <4>2, <4>3
    <3> HIDE DEF f
    <3> QED BY <3>2, <3>6, <3>7
  <2> QED BY <2>2, <2>3
<1>2. S \in P
  <2> HIDE DEF P
  <2>1. SUBSET S \subseteq P
    BY <1>1, SubsetInduction
  <2> QED BY <2>1
<1> QED BY <1>2

\* Such an order lists every element.
LEMMA AscendingIsOnto ==
  ASSUME NEW S \in SUBSET Nat, IsFiniteSet(S), NEW f \in [1..Cardinality(S) -> S],
         \A i, j \in 1..Cardinality(S) : i < j => f[i] < f[j]
  PROVE  \A x \in S : \E i \in 1..Cardinality(S) : f[i] = x
<1> SUFFICES ASSUME NEW x \in S, \A i \in 1..Cardinality(S) : f[i] # x
             PROVE FALSE
  OBVIOUS
<1> DEFINE I == 1..Cardinality(S)
           R == S \ {x}
<1>1. Cardinality(S) \in Nat
  BY FS_CardinalityType
<1>2. IsFiniteSet(I) /\ Cardinality(I) = Cardinality(S)
  BY <1>1, FS_Interval
<1>3. IsFiniteSet(R) /\ Cardinality(R) < Cardinality(I)
  <2> HIDE DEF I
  <2> QED BY <1>2, OneLess
<1>4. f \in [I -> R]
  OBVIOUS
<1>5. PICK i, j \in I : i # j /\ f[i] = f[j]
  <2> HIDE DEF I, R
  <2>1. \E y, z \in I : y # z /\ f[y] = f[z]
    BY <1>2, <1>3, <1>4, FS_PigeonHole
  <2> QED BY <2>1
<1>6. i < j \/ j < i
  BY <1>1, <1>5
<1>7. f[i] \in Nat
  OBVIOUS
<1> QED BY <1>5, <1>6, <1>7

-----------------------------------------------------------------------------
(* Functions defined by recursion: there is one, so that the CHOOSE that a *)
(* recursive definition stands for satisfies its equation.                 *)

\* Over the subsets of a finite set, taking one element c[T] off T at a time.
FoldGiven(S, V, a, G, c) ==
    /\ IsFiniteSet(S) /\ a \in V /\ G \in [S -> [V -> V]]
    /\ \A T \in SUBSET S : T # {} => c[T] \in T
IsFoldOf(g, S, V, a, G, c) ==
    /\ g \in [SUBSET S -> V]
    /\ \A T \in SUBSET S : g[T] = IF T = {} THEN a ELSE G[c[T]][g[T \ {c[T]}]]

LEMMA FoldExists ==
  ASSUME NEW S, NEW V, NEW a, NEW G, NEW c, FoldGiven(S, V, a, G, c)
  PROVE  \E g : IsFoldOf(g, S, V, a, G, c)
<1> USE DEF FoldGiven
<1> DEFINE L(n) == {T \in SUBSET S : Cardinality(T) <= n}
           Solves(g, D) == \A T \in D : g[T] = IF T = {} THEN a ELSE G[c[T]][g[T \ {c[T]}]]
           N == {n \in Nat : \E g \in [L(n) -> V] : Solves(g, L(n))}
<1>0. \A T \in SUBSET S : IsFiniteSet(T) /\ Cardinality(T) \in Nat
  BY FS_Subset, FS_CardinalityType
<1>1. 0 \in N
  <2>1. \A T \in L(0) : T = {}
    BY <1>0, FS_EmptySet
  <2>2. [T \in L(0) |-> a] \in [L(0) -> V] /\ Solves([T \in L(0) |-> a], L(0))
    BY <2>1
  <2> QED BY <2>2
<1>2. ASSUME NEW n \in Nat, n \in N PROVE n + 1 \in N
  <2>1. PICK g \in [L(n) -> V] : Solves(g, L(n))
    BY <1>2
  <2>2. ASSUME NEW T \in L(n + 1), T # {}
        PROVE  c[T] \in T /\ T \ {c[T]} \in L(n) /\ T \in SUBSET S
    <3>1. T \in SUBSET S /\ c[T] \in T /\ Cardinality(T) <= n + 1
      BY <2>2
    <3>2. Cardinality(T \ {c[T]}) \in Nat /\ Cardinality(T) = Cardinality(T \ {c[T]}) + 1
      BY <1>0, <3>1, OneLess
    <3> QED BY <3>1, <3>2
  <2>3. L(n) \subseteq L(n + 1)
    BY <1>0
  <2> DEFINE h == [T \in L(n + 1) |-> IF T \in L(n) THEN g[T] ELSE G[c[T]][g[T \ {c[T]}]]]
  <2>e. {} \in L(n)
    BY FS_EmptySet
  <2>4. h \in [L(n + 1) -> V]
    <3> SUFFICES ASSUME NEW T \in L(n + 1), T \notin L(n)
                 PROVE  G[c[T]][g[T \ {c[T]}]] \in V
      BY <2>1
    <3>1. T # {}
      BY <2>e
    <3>2. c[T] \in S /\ g[T \ {c[T]}] \in V
      BY <2>1, <2>2, <3>1
    <3> DEFINE x == c[T]
               v == g[T \ {x}]
    <3>3. x \in S /\ v \in V
      BY <3>2
    <3> HIDE DEF x, v
    <3>4. G[x] \in [V -> V]
      BY <3>3
    <3>5. G[x][v] \in V
      BY <3>3, <3>4
    <3> QED BY <3>5 DEF x, v
  <2>5. ASSUME NEW T \in L(n + 1)
        PROVE  h[T] = IF T = {} THEN a ELSE G[c[T]][h[T \ {c[T]}]]
    <3>1. CASE T = {}
      BY <2>1, <2>3, <2>e, <3>1
    <3>2. CASE T # {}
      <4>1. T \ {c[T]} \in L(n) /\ h[T \ {c[T]}] = g[T \ {c[T]}]
        BY <2>2, <2>3, <3>2
      <4>2. h[T] = IF T \in L(n) THEN g[T] ELSE G[c[T]][g[T \ {c[T]}]]
        OBVIOUS
      <4>3. T \in L(n) => g[T] = G[c[T]][g[T \ {c[T]}]]
        BY <2>1, <3>2
      <4> QED BY <3>2, <4>1, <4>2, <4>3
    <3> QED BY <3>1, <3>2
  <2>6. Solves(h, L(n + 1))
    <3> HIDE DEF h, L
    <3> QED BY <2>5
  <2>7. \E k \in [L(n + 1) -> V] : Solves(k, L(n + 1))
    <3> HIDE DEF h, L, Solves
    <3> QED BY <2>4, <2>6
  <2>8. n + 1 \in Nat
    OBVIOUS
  <2> HIDE DEF h, L, Solves
  <2> QED BY <2>7, <2>8
<1>3. Nat \subseteq N
  <2> HIDE DEF N
  <2> QED BY <1>1, <1>2, NatSetInduction
<1>4. Cardinality(S) \in N
  <2> HIDE DEF N
  <2> QED BY <1>3, FS_CardinalityType
<1>5. L(Cardinality(S)) = SUBSET S
  BY <1>0, FS_Subset
<1> QED BY <1>4, <1>5 DEF IsFoldOf

\* Over 0..n.
RecursionGiven(n, V, a, G) == n \in Nat /\ a \in V /\ G \in [1..n -> [V -> V]]
IsRecursionOf(g, n, V, a, G) ==
    g \in [0..n -> V] /\ g[0] = a /\ \A i \in 1..n : g[i] = G[i][g[i - 1]]

LEMMA RecursionExists ==
  ASSUME NEW n, NEW V, NEW a, NEW G, RecursionGiven(n, V, a, G)
  PROVE  \E g : IsRecursionOf(g, n, V, a, G)
<1> USE DEF RecursionGiven
<1> DEFINE Solves(g, k) == g[0] = a /\ \A i \in 1..k : g[i] = G[i][g[i - 1]]
           N == {k \in Nat : k <= n => \E g \in [0..k -> V] : Solves(g, k)}
<1>1. 0 \in N
  <2>1. [i \in 0..0 |-> a] \in [0..0 -> V] /\ Solves([i \in 0..0 |-> a], 0)
    OBVIOUS
  <2> QED BY <2>1
<1>2. ASSUME NEW k \in Nat, k \in N PROVE k + 1 \in N
  <2> SUFFICES ASSUME k + 1 <= n PROVE \E g \in [0..(k + 1) -> V] : Solves(g, k + 1)
    OBVIOUS
  <2>1. PICK g \in [0..k -> V] : Solves(g, k)
    BY <1>2
  <2> DEFINE h == [i \in 0..(k + 1) |-> IF i = k + 1 THEN G[k + 1][g[k]] ELSE g[i]]
  <2>2. k + 1 \in 1..n /\ k \in 0..k /\ g[k] \in V
    BY <2>1
  <2>3. \A i \in 0..(k + 1) : i = k + 1 \/ i \in 0..k
    OBVIOUS
  <2>4. h \in [0..(k + 1) -> V]
    BY <2>1, <2>2, <2>3
  <2>5. h[0] = a
    BY <2>1
  <2>6. ASSUME NEW i \in 1..(k + 1) PROVE h[i] = G[i][h[i - 1]]
    <3>1. i - 1 \in 0..k /\ i - 1 # k + 1 /\ h[i - 1] = g[i - 1]
      OBVIOUS
    <3>2. CASE i = k + 1
      BY <3>1, <3>2
    <3>3. CASE i \in 1..k
      BY <2>1, <3>1, <3>3
    <3> QED BY <3>2, <3>3
  <2> QED BY <2>4, <2>5, <2>6
<1>3. Nat \subseteq N
  <2> HIDE DEF N
  <2> QED BY <1>1, <1>2, NatSetInduction
<1>4. n \in N
  <2> HIDE DEF N
  <2> QED BY <1>3
<1> QED BY <1>4 DEF IsRecursionOf
\* Along chains: c leads from every element outside B to one of smaller rank.
ChainGiven(S, B, m, rank, c, V, a, G) ==
    /\ m \in Nat /\ rank \in [S -> 0..m] /\ a \in [S -> V] /\ G \in [S -> [V -> V]]
    /\ \A x \in S \ B : c[x] \in S /\ rank[c[x]] < rank[x]
IsChainOf(g, S, B, c, V, a, G) ==
    g \in [S -> V] /\ \A x \in S : g[x] = IF x \in B THEN a[x] ELSE G[x][g[c[x]]]

LEMMA ChainExists ==
  ASSUME NEW S, NEW B, NEW m, NEW rank, NEW c, NEW V, NEW a, NEW G,
         ChainGiven(S, B, m, rank, c, V, a, G)
  PROVE  \E g : IsChainOf(g, S, B, c, V, a, G)
<1> USE DEF ChainGiven
<1> DEFINE L(n) == {x \in S : rank[x] <= n}
           Solves(g, D) == \A x \in D : g[x] = IF x \in B THEN a[x] ELSE G[x][g[c[x]]]
           N == {n \in Nat : \E g \in [L(n) -> V] : Solves(g, L(n))}
<1>1. 0 \in N
  <2> DEFINE h == [x \in L(0) |-> a[x]]
  <2>1. ASSUME NEW x \in L(0) PROVE x \in B /\ a[x] \in V
    <3>1. x \in S /\ rank[x] \in 0..m /\ rank[x] <= 0
      OBVIOUS
    <3>2. x \notin B => c[x] \in S /\ rank[c[x]] \in 0..m /\ rank[c[x]] < rank[x]
      OBVIOUS
    <3> QED BY <3>1, <3>2
  <2>2. h \in [L(0) -> V] /\ Solves(h, L(0))
    BY <2>1
  <2> HIDE DEF h
  <2> QED BY <2>2
<1>2. ASSUME NEW n \in Nat, n \in N PROVE n + 1 \in N
  <2>1. PICK g \in [L(n) -> V] : Solves(g, L(n))
    BY <1>2
  <2> DEFINE h == [x \in L(n + 1) |->
                     IF x \in L(n) THEN g[x] ELSE IF x \in B THEN a[x] ELSE G[x][g[c[x]]]]
  <2>2. ASSUME NEW x \in L(n + 1), x \notin B PROVE c[x] \in L(n)
    <3>1. x \in S /\ rank[x] \in 0..m /\ rank[x] <= n + 1
      OBVIOUS
    <3>2. c[x] \in S /\ rank[c[x]] \in 0..m /\ rank[c[x]] < rank[x]
      BY <2>2
    <3> QED BY <3>1, <3>2
  <2>3. L(n) \subseteq L(n + 1) /\ L(n + 1) \subseteq S
    <3>1. \A x \in S : rank[x] \in Int
      OBVIOUS
    <3> QED BY <3>1
  <2>4. ASSUME NEW x \in L(n + 1)
        PROVE  h[x] \in V /\ h[x] = IF x \in B THEN a[x] ELSE G[x][h[c[x]]]
    <3>1. x \in S /\ h[x] = IF x \in L(n) THEN g[x] ELSE IF x \in B THEN a[x] ELSE G[x][g[c[x]]]
      BY <2>3
    <3>2. x \in L(n) => g[x] = IF x \in B THEN a[x] ELSE G[x][g[c[x]]]
      BY <2>1
    <3>3. x \notin B => c[x] \in L(n) /\ c[x] \in L(n + 1)
      BY <2>2, <2>3
    <3>4. x \notin B => h[c[x]] = g[c[x]] /\ g[c[x]] \in V
      <4> HIDE DEF L
      <4> QED BY <2>1, <3>3
    <3>5. h[x] = IF x \in B THEN a[x] ELSE G[x][g[c[x]]]
      <4> HIDE DEF L, h
      <4> QED BY <3>1, <3>2
    <3>6. a[x] \in V /\ G[x] \in [V -> V]
      BY <3>1
    <3> HIDE DEF L, h
    <3> QED BY <3>4, <3>5, <3>6
  <2>5. h \in [L(n + 1) -> V]
    <3>1. h = [x \in L(n + 1) |-> h[x]]
      OBVIOUS
    <3> HIDE DEF h, L
    <3> QED BY <2>4, <3>1
  <2>6. Solves(h, L(n + 1))
    <3> HIDE DEF h, L
    <3> QED BY <2>4
  <2>7. \E k \in [L(n + 1) -> V] : Solves(k, L(n + 1))
    <3> HIDE DEF h, L, Solves
    <3> QED BY <2>5, <2>6
  <2>8. n + 1 \in Nat
    OBVIOUS
  <2> HIDE DEF h, L, Solves
  <2> QED BY <2>7, <2>8
<1>3. Nat \subseteq N
  <2> HIDE DEF N
  <2> QED BY <1>1, <1>2, NatSetInduction
<1>4. m \in N
  <2> HIDE DEF N
  <2> QED BY <1>3
<1>5. L(m) = S
  <2>1. \A x \in S : rank[x] <= m
    OBVIOUS
  <2> QED BY <2>1
<1> QED BY <1>4, <1>5 DEF IsChainOf

\* A set that holds x whenever it holds all of smaller rank.
LEMMA RankInduction ==
  ASSUME NEW S, NEW rank \in [S -> Nat], NEW P,
         \A x \in S : (\A y \in S : rank[y] < rank[x] => y \in P) => x \in P
  PROVE  S \subseteq P
<1> DEFINE N == {n \in Nat : \A x \in S : rank[x] < n => x \in P}
<1>1. 0 \in N
  <2>1. \A x \in S : rank[x] \in Nat
    OBVIOUS
  <2> QED BY <2>1
<1>2. ASSUME NEW n \in Nat, n \in N PROVE n + 1 \in N
  <2> SUFFICES ASSUME NEW x \in S, rank[x] < n + 1 PROVE x \in P
    OBVIOUS
  <2>1. \A y \in S : rank[y] \in Nat
    OBVIOUS
  <2>2. ASSUME NEW y \in S, rank[y] < rank[x] PROVE y \in P
    <3>1. rank[y] < n
      BY <2>1, <2>2
    <3> QED BY <1>2, <3>1
  <2> QED BY <2>2
<1>3. Nat \subseteq N
  <2> HIDE DEF N
  <2> QED BY <1>1, <1>2, NatSetInduction
<1>4. ASSUME NEW x \in S PROVE x \in P
  <2>1. rank[x] \in Nat
    OBVIOUS
  <2>2. rank[x] + 1 \in N /\ rank[x] < rank[x] + 1
    <3> HIDE DEF N
    <3> QED BY <1>3, <2>1
  <2> QED BY <2>2
<1> QED BY <1>4
-----------------------------------------------------------------------------
(* Sums over finite sets, as MapThenSumSet takes them: one element at a    *)
(* time, in whatever order CHOOSE gives.                                   *)

Pick(T) == CHOOSE x \in T : TRUE
IsSum(g, v, S) ==
    g = [T \in SUBSET S |-> IF T = {} THEN 0 ELSE v[Pick(T)] + g[T \ {Pick(T)}]]
SumOf(v, S) == (CHOOSE g : IsSum(g, v, S))[S]

LEMMA PickFrom == \A T : T # {} => Pick(T) \in T
BY DEF Pick

LEMMA SumExists ==
  ASSUME NEW S, IsFiniteSet(S), NEW v, \A x \in S : v[x] \in Nat
  PROVE  \E g : IsSum(g, v, S) /\ g \in [SUBSET S -> Nat]
<1> DEFINE G == [x \in S |-> [n \in Nat |-> v[x] + n]]
           c == [T \in SUBSET S |-> Pick(T)]
<1>1. FoldGiven(S, Nat, 0, G, c)
  <2>1. G \in [S -> [Nat -> Nat]]
    OBVIOUS
  <2>2. \A T \in SUBSET S : T # {} => c[T] \in T
    BY PickFrom
  <2> HIDE DEF G, c
  <2> QED BY <2>1, <2>2 DEF FoldGiven
<1>2. PICK g : IsFoldOf(g, S, Nat, 0, G, c)
  <2> HIDE DEF G, c
  <2> QED BY <1>1, FoldExists
<1>3. g \in [SUBSET S -> Nat]
  BY <1>2 DEF IsFoldOf
<1>4. ASSUME NEW T \in SUBSET S
      PROVE  g[T] = IF T = {} THEN 0 ELSE v[Pick(T)] + g[T \ {Pick(T)}]
  <2>1. g[T] = IF T = {} THEN 0 ELSE G[c[T]][g[T \ {c[T]}]]
    BY <1>2 DEF IsFoldOf
  <2>2. CASE T = {}
    BY <2>1, <2>2
  <2>3. CASE T # {}
    <3> DEFINE x == Pick(T)
    <3>1. c[T] = x /\ x \in S /\ T \ {x} \in SUBSET S
      BY <2>3, PickFrom
    <3> HIDE DEF c, x
    <3>2. g[T \ {x}] \in Nat
      BY <1>3, <3>1
    <3>3. g[T] = G[x][g[T \ {x}]]
      <4> HIDE DEF G
      <4> QED BY <2>1, <2>3, <3>1
    <3>4. g[T] = v[x] + g[T \ {x}]
      BY <3>1, <3>2, <3>3
    <3> QED BY <2>3, <3>4 DEF x
  <2> QED BY <2>2, <2>3
<1> HIDE DEF G, c
<1>5. IsSum(g, v, S)
  <2>1. g = [T \in SUBSET S |-> g[T]]
    BY <1>3
  <2>2. [T \in SUBSET S |-> g[T]]
        = [T \in SUBSET S |-> IF T = {} THEN 0 ELSE v[Pick(T)] + g[T \ {Pick(T)}]]
    BY <1>4
  <2> QED BY <2>1, <2>2 DEF IsSum
<1> QED BY <1>3, <1>5

\* Two such functions, each on its own set, agree.
LEMMA SumAgrees ==
  ASSUME NEW S, IsFiniteSet(S), NEW R \in SUBSET S, NEW v, NEW u, \A x \in R : u[x] = v[x],
         NEW g, IsSum(g, v, S), NEW h, IsSum(h, u, R)
  PROVE  g[R] = h[R]
<1> DEFINE P == {T \in SUBSET R : g[T] = h[T]}
<1>1. ASSUME NEW T \in SUBSET R, \A x \in T : T \ {x} \in P PROVE T \in P
  <2> DEFINE x == Pick(T)
  <2>1. /\ g[T] = IF T = {} THEN 0 ELSE v[x] + g[T \ {x}]
        /\ h[T] = IF T = {} THEN 0 ELSE u[x] + h[T \ {x}]
    BY DEF IsSum
  <2>2. T # {} => x \in T /\ T \ {x} \in P
    BY <1>1, PickFrom
  <2> HIDE DEF x
  <2> QED BY <2>1, <2>2
<1>2. R \in P
  <2> HIDE DEF P
  <2>1. IsFiniteSet(R)
    BY FS_Subset
  <2>2. SUBSET R \subseteq P
    BY <1>1, <2>1, SubsetInduction
  <2> QED BY <2>2
<1> QED BY <1>2

LEMMA SumIsUnique ==
  ASSUME NEW S, IsFiniteSet(S), NEW v, \A x \in S : v[x] \in Nat
  PROVE  /\ IsSum(CHOOSE g : IsSum(g, v, S), v, S)
         /\ \A g : IsSum(g, v, S) => g[S] = SumOf(v, S)
<1>1. IsSum(CHOOSE g : IsSum(g, v, S), v, S)
  BY SumExists
<1> DEFINE h == CHOOSE g : IsSum(g, v, S)
<1>2. SumOf(v, S) = h[S]
  BY DEF SumOf
<1>3. ASSUME NEW g, IsSum(g, v, S) PROVE g[S] = h[S]
  <2>1. IsSum(h, v, S)
    BY <1>1
  <2> HIDE DEF h
  <2> QED BY <1>3, <2>1, SumAgrees
<1> QED BY <1>1, <1>2, <1>3

LEMMA SumTyped ==
  ASSUME NEW S, IsFiniteSet(S), NEW v, \A x \in S : v[x] \in Nat
  PROVE  SumOf(v, S) \in Nat
<1>1. PICK g : IsSum(g, v, S) /\ g \in [SUBSET S -> Nat]
  BY SumExists
<1>2. g[S] = SumOf(v, S)
  BY <1>1, SumIsUnique
<1> QED BY <1>1, <1>2

LEMMA SumEmpty == \A v : SumOf(v, {}) = 0
<1> SUFFICES ASSUME NEW v PROVE SumOf(v, {}) = 0
  OBVIOUS
<1>1. IsFiniteSet({})
  BY FS_EmptySet
<1>2. PICK g : IsSum(g, v, {})
  BY <1>1, SumExists
<1>3. g[{}] = 0
  BY <1>2 DEF IsSum
<1> QED BY <1>1, <1>2, <1>3, SumIsUnique

LEMMA SumUnfold ==
  ASSUME NEW S, IsFiniteSet(S), S # {}, NEW v, \A x \in S : v[x] \in Nat
  PROVE  SumOf(v, S) = v[Pick(S)] + SumOf(v, S \ {Pick(S)})
<1> DEFINE R == S \ {Pick(S)}
<1>1. R \in SUBSET S /\ IsFiniteSet(R) /\ \A x \in R : v[x] \in Nat
  BY FS_Subset
<1>2. PICK g : IsSum(g, v, S)
  BY SumExists
<1>3. PICK h : IsSum(h, v, R)
  <2> HIDE DEF R
  <2> QED BY <1>1, SumExists
<1>4. g[S] = SumOf(v, S)
  BY <1>2, SumIsUnique
<1>5. h[R] = SumOf(v, R)
  <2> HIDE DEF R
  <2> QED BY <1>1, <1>3, SumIsUnique
<1>6. g[R] = h[R]
  <2> HIDE DEF R
  <2> QED BY <1>1, <1>2, <1>3, SumAgrees
<1>7. g[S] = v[Pick(S)] + g[R]
  BY <1>2 DEF IsSum
<1> QED BY <1>4, <1>5, <1>6, <1>7

\* Whichever element is taken first.
LEMMA SumTake ==
  ASSUME NEW S, IsFiniteSet(S), NEW v, \A x \in S : v[x] \in Nat, NEW z \in S
  PROVE  SumOf(v, S) = v[z] + SumOf(v, S \ {z})
<1> DEFINE Takes(T) == \A x \in T : SumOf(v, T) = v[x] + SumOf(v, T \ {x})
           P == {T \in SUBSET S : Takes(T)}
<1>1. ASSUME NEW T \in SUBSET S, \A x \in T : T \ {x} \in P PROVE T \in P
  <2> SUFFICES ASSUME NEW x \in T PROVE SumOf(v, T) = v[x] + SumOf(v, T \ {x})
    OBVIOUS
  <2> DEFINE y == Pick(T)
  <2>1. y \in T /\ IsFiniteSet(T) /\ \A e \in T : v[e] \in Nat
    BY PickFrom, FS_Subset
  <2>2. SumOf(v, T) = v[y] + SumOf(v, T \ {y})
    BY <2>1, SumUnfold
  <2> HIDE DEF y
  <2>3. CASE x = y
    BY <2>2, <2>3
  <2>4. CASE x # y
    <3> DEFINE U == T \ {x, y}
    <3>1. SumOf(v, T \ {y}) = v[x] + SumOf(v, U)
      <4>1. Takes(T \ {y}) /\ x \in T \ {y}
        BY <1>1, <2>1, <2>4
      <4>2. (T \ {y}) \ {x} = U
        OBVIOUS
      <4> QED BY <4>1, <4>2
    <3>2. SumOf(v, T \ {x}) = v[y] + SumOf(v, U)
      <4>1. Takes(T \ {x}) /\ y \in T \ {x}
        BY <1>1, <2>1, <2>4
      <4>2. (T \ {x}) \ {y} = U
        OBVIOUS
      <4> QED BY <4>1, <4>2
    <3>3. SumOf(v, U) \in Nat
      <4>1. IsFiniteSet(U) /\ \A e \in U : v[e] \in Nat
        BY <2>1, FS_Subset
      <4> HIDE DEF U
      <4> QED BY <4>1, SumTyped
    <3>4. v[x] \in Nat /\ v[y] \in Nat
      BY <2>1
    <3> HIDE DEF U
    <3> QED BY <2>2, <3>1, <3>2, <3>3, <3>4
  <2> QED BY <2>3, <2>4
<1>2. S \in P
  <2> HIDE DEF P
  <2>1. SUBSET S \subseteq P
    BY <1>1, SubsetInduction
  <2> QED BY <2>1
<1> QED BY <1>2

LEMMA SumAdd ==
  ASSUME NEW S, IsFiniteSet(S), NEW z, z \notin S, NEW v, \A x \in S \cup {z} : v[x] \in Nat
  PROVE  SumOf(v, S \cup {z}) = v[z] + SumOf(v, S)
<1> DEFINE R == S \cup {z}
<1>1. IsFiniteSet(R) /\ z \in R /\ R \ {z} = S /\ \A x \in R : v[x] \in Nat
  BY FS_AddElement
<1> HIDE DEF R
<1>2. SumOf(v, R) = v[z] + SumOf(v, R \ {z})
  BY <1>1, SumTake
<1> QED BY <1>1, <1>2 DEF R

LEMMA SumSame ==
  ASSUME NEW S, IsFiniteSet(S), NEW v, NEW u, \A x \in S : v[x] \in Nat /\ u[x] = v[x]
  PROVE  SumOf(u, S) = SumOf(v, S)
<1>1. PICK g : IsSum(g, v, S)
  BY SumExists
<1>2. \A x \in S : u[x] \in Nat
  OBVIOUS
<1>3. PICK h : IsSum(h, u, S)
  BY <1>2, SumExists
<1>4. g[S] = h[S]
  <2>1. S \in SUBSET S /\ \A x \in S : u[x] = v[x]
    OBVIOUS
  <2> QED BY <1>1, <1>3, <2>1, SumAgrees
<1>5. g[S] = SumOf(v, S)
  BY <1>1, SumIsUnique
<1>6. h[S] = SumOf(u, S)
  BY <1>2, <1>3, SumIsUnique
<1> QED BY <1>4, <1>5, <1>6

\* One element more, one less, and one whose value changes; the others keep theirs.
LEMMA SumGrows ==
  ASSUME NEW S, IsFiniteSet(S), NEW z, z \notin S, NEW v, NEW u,
         \A x \in S : v[x] \in Nat /\ u[x] = v[x], u[z] \in Nat
  PROVE  SumOf(u, S \cup {z}) = u[z] + SumOf(v, S)
<1>1. SumOf(u, S) = SumOf(v, S)
  BY SumSame
<1>2. \A x \in S \cup {z} : u[x] \in Nat
  OBVIOUS
<1>3. SumOf(u, S \cup {z}) = u[z] + SumOf(u, S)
  BY <1>2, SumAdd
<1> QED BY <1>1, <1>3

LEMMA SumShrinks ==
  ASSUME NEW S, IsFiniteSet(S), NEW z \in S, NEW v, NEW u,
         \A x \in S : v[x] \in Nat, \A x \in S \ {z} : u[x] = v[x]
  PROVE  SumOf(v, S) = v[z] + SumOf(u, S \ {z})
<1> DEFINE R == S \ {z}
<1>1. IsFiniteSet(R) /\ \A x \in R : v[x] \in Nat /\ u[x] = v[x]
  BY FS_Subset
<1>2. SumOf(u, R) = SumOf(v, R)
  <2> HIDE DEF R
  <2> QED BY <1>1, SumSame
<1>3. SumOf(v, S) = v[z] + SumOf(v, R)
  BY SumTake
<1> QED BY <1>2, <1>3

LEMMA SumMoves ==
  ASSUME NEW S, IsFiniteSet(S), NEW z \in S, NEW v, NEW u,
         \A x \in S : v[x] \in Nat, \A x \in S \ {z} : u[x] = v[x], u[z] \in Nat
  PROVE  /\ SumOf(v, S) \in Nat /\ SumOf(u, S) \in Nat
         /\ SumOf(u, S) = SumOf(v, S) + u[z] - v[z]
         /\ v[z] <= SumOf(v, S)
<1> DEFINE R == S \ {z}
<1>1. IsFiniteSet(R) /\ \A x \in R : u[x] \in Nat
  BY FS_Subset
<1>2. SumOf(v, S) = v[z] + SumOf(u, R)
  BY SumShrinks
<1>3. \A x \in S : u[x] \in Nat
  OBVIOUS
<1>4. SumOf(u, S) = u[z] + SumOf(u, R)
  BY <1>3, SumTake
<1>5. SumOf(u, R) \in Nat
  <2> HIDE DEF R
  <2> QED BY <1>1, SumTyped
<1>6. SumOf(v, S) \in Nat /\ SumOf(u, S) \in Nat
  BY <1>3, SumTyped
<1>7. v[z] \in Nat
  OBVIOUS
<1> HIDE DEF R
<1> QED BY <1>2, <1>4, <1>5, <1>6, <1>7

LEMMA SumOfZeros ==
  ASSUME NEW S, IsFiniteSet(S), NEW v, \A x \in S : v[x] = 0
  PROVE  SumOf(v, S) = 0
<1> DEFINE P == {T \in SUBSET S : SumOf(v, T) = 0}
<1>1. ASSUME NEW T \in SUBSET S, \A x \in T : T \ {x} \in P PROVE T \in P
  <2>1. CASE T = {}
    BY <2>1, SumEmpty
  <2>2. CASE T # {}
    <3> DEFINE x == Pick(T)
    <3>1. x \in T /\ IsFiniteSet(T) /\ \A y \in T : v[y] \in Nat
      BY <2>2, PickFrom, FS_Subset
    <3>2. SumOf(v, T) = v[x] + SumOf(v, T \ {x})
      BY <2>2, <3>1, SumUnfold
    <3> HIDE DEF x
    <3> QED BY <1>1, <3>1, <3>2
  <2> QED BY <2>1, <2>2
<1>2. S \in P
  <2> HIDE DEF P
  <2>1. SUBSET S \subseteq P
    BY <1>1, SubsetInduction
  <2> QED BY <2>1
<1> QED BY <1>2

\* Where the function is zero outside a part, the sum is the one over the part.
LEMMA SumOfPart ==
  ASSUME NEW S, IsFiniteSet(S), NEW R \in SUBSET S, NEW v, NEW u,
         \A x \in R : v[x] \in Nat /\ u[x] = v[x], \A x \in S \ R : u[x] = 0
  PROVE  SumOf(u, S) = SumOf(v, R)
<1> DEFINE P == {T \in SUBSET S : SumOf(u, T) = SumOf(v, T \cap R)}
<1>1. ASSUME NEW T \in SUBSET S, \A x \in T : T \ {x} \in P PROVE T \in P
  <2>1. CASE T = {}
    BY <2>1, SumEmpty
  <2>2. CASE T # {}
    <3>1. PICK x \in T : TRUE
      BY <2>2
    <3> DEFINE Q == T \ {x}
    <3>2. SumOf(u, Q) = SumOf(v, Q \cap R)
      BY <1>1
    <3>3. IsFiniteSet(T) /\ IsFiniteSet(T \cap R) /\ IsFiniteSet(Q \cap R)
      BY FS_Subset
    <3>4. \A y \in T : u[y] \in Nat
      OBVIOUS
    <3>5. SumOf(u, T) = u[x] + SumOf(u, Q)
      BY <3>3, <3>4, SumTake
    <3>6. CASE x \in R
      <4>1. (T \cap R) \ {x} = Q \cap R /\ x \in T \cap R
        BY <3>6
      <4>2. SumOf(v, T \cap R) = v[x] + SumOf(v, (T \cap R) \ {x})
        BY <3>3, <4>1, SumTake
      <4> QED BY <3>2, <3>5, <3>6, <4>1, <4>2
    <3>7. CASE x \notin R
      <4>1. T \cap R = Q \cap R /\ u[x] = 0
        BY <3>7
      <4>2. SumOf(v, Q \cap R) \in Nat
        BY <3>3, SumTyped
      <4> HIDE DEF Q
      <4> QED BY <3>2, <3>5, <4>1, <4>2
    <3> QED BY <3>6, <3>7
  <2> QED BY <2>1, <2>2
<1>2. S \in P
  <2> HIDE DEF P
  <2> QED BY <1>1, SubsetInduction
<1>3. S \cap R = R
  OBVIOUS
<1> QED BY <1>2, <1>3

=============================================================================
