------------------------- MODULE LiquidityVault_proofs -------------------------
(***************************************************************************)
(* Theorems about LiquidityVault, for a tree of any depth up to the one of *)
(* the code, any scale of shares, any amounts, stakes and locks, and any   *)
(* finite set of positions.                                                *)
(*                                                                         *)
(* The argument: PushView, what a push would leave in a node, is the worth *)
(* of the leaves below the node, because the children of a node share its  *)
(* view out between them as long as a positive node has a positive child.  *)
(* A push changes no view and makes the nodes on its way hold theirs.  On  *)
(* a tree pushed to r, what a change hands a node is for leaves of the     *)
(* range that are worth something, and if the range can bear the change,   *)
(* so can every node it reaches: nothing is skipped, nothing fails, and    *)
(* each view below moves in the direction of the change.                   *)
(*                                                                         *)
(* The walks of the code are recursive functions of the node here.  A      *)
(* recursive function is a CHOOSE: to unfold it, one has to show that some *)
(* function satisfies its equation, which the recursion lemmas do.         *)
(***************************************************************************)
EXTENDS LiquidityVault, SetInduction, TLAPS

-----------------------------------------------------------------------------
(* The shape of the tree.                                                  *)

Inner == Nodes \ Leaves
Powers == {PowerOfTwo[k] : k \in 0..40}

\* PowerOfTwo satisfies its equation.
LEMMA PowerRecursion == \A k \in 0..40 :
  PowerOfTwo[k] \in Nat /\ PowerOfTwo[k] = IF k = 0 THEN 1 ELSE 2 * PowerOfTwo[k - 1]
<1> DEFINE G == [k \in 1..40 |-> [v \in Nat |-> 2 * v]]
           Solves(g) == g = [k \in 0..40 |-> IF k = 0 THEN 1 ELSE 2 * g[k - 1]]
<1>1. PICK g : IsRecursionOf(g, 40, Nat, 1, G)
  <2>1. RecursionGiven(40, Nat, 1, G)
    BY DEF RecursionGiven
  <2> HIDE DEF G
  <2> QED BY <2>1, RecursionExists
<1>2. Solves(g)
  <2>1. g \in [0..40 -> Nat] /\ g[0] = 1 /\ \A k \in 1..40 : g[k] = G[k][g[k - 1]]
    BY <1>1 DEF IsRecursionOf
  <2>2. ASSUME NEW k \in 1..40 PROVE g[k] = 2 * g[k - 1]
    <3>1. g[k - 1] \in Nat
      BY <2>1
    <3> QED BY <2>1, <3>1
  <2>3. \A k \in 0..40 : g[k] = IF k = 0 THEN 1 ELSE 2 * g[k - 1]
    BY <2>1, <2>2
  <2> HIDE DEF G
  <2>4. g = [k \in 0..40 |-> g[k]]
    BY <2>1
  <2> QED BY <2>3, <2>4
<1>3. Solves(PowerOfTwo)
  <2>1. PowerOfTwo = CHOOSE f : Solves(f)
    BY DEF PowerOfTwo
  <2> HIDE DEF Solves
  <2> QED BY <1>2, <2>1
<1>4. \A k \in 0..40 : PowerOfTwo[k] = IF k = 0 THEN 1 ELSE 2 * PowerOfTwo[k - 1]
  BY <1>3
<1> DEFINE P == {k \in Nat : k \in 0..40 => PowerOfTwo[k] \in Nat}
<1>5. Nat \subseteq P
  <2>1. 0 \in P
    BY <1>4
  <2>2. ASSUME NEW k \in Nat, k \in P PROVE k + 1 \in P
    <3>1. k + 1 \in 0..40 => k \in 0..40 /\ PowerOfTwo[k + 1] = 2 * PowerOfTwo[k]
      BY <1>4
    <3> QED BY <2>2, <3>1
  <2> HIDE DEF P
  <2> QED BY <2>1, <2>2, NatSetInduction
<1> QED BY <1>4, <1>5

\* A power of two is one, or twice a smaller power.
LEMMA PowersHalve ==
  ASSUME NEW p \in Powers
  PROVE  p \in Nat /\ p >= 1 /\ (p # 1 => p \div 2 \in Powers /\ p = 2 * (p \div 2))
<1> DEFINE P == {k \in Nat : k \in 0..40 => PowerOfTwo[k] >= 1}
<1>1. Nat \subseteq P
  <2>1. 0 \in P
    BY PowerRecursion
  <2>2. ASSUME NEW k \in Nat, k \in P PROVE k + 1 \in P
    <3>1. k + 1 \in 0..40 =>
            k \in 0..40 /\ PowerOfTwo[k] \in Nat /\ PowerOfTwo[k + 1] = 2 * PowerOfTwo[k]
      BY PowerRecursion
    <3> QED BY <2>2, <3>1
  <2> HIDE DEF P
  <2> QED BY <2>1, <2>2, NatSetInduction
<1>2. PICK k \in 0..40 : p = PowerOfTwo[k]
  BY DEF Powers
<1>3. p \in Nat /\ p >= 1
  BY <1>1, <1>2, PowerRecursion
<1>4. ASSUME p # 1 PROVE p \div 2 \in Powers /\ p = 2 * (p \div 2)
  <2>1. k - 1 \in 0..40 /\ p = 2 * PowerOfTwo[k - 1] /\ PowerOfTwo[k - 1] \in Nat
    BY <1>2, <1>4, PowerRecursion
  <2>2. p \div 2 = PowerOfTwo[k - 1]
    BY <2>1
  <2> QED BY <2>1, <2>2 DEF Powers
<1> QED BY <1>3, <1>4

\* The tree has a power of two of leaves, two at least.
LEMMA Width == LIQUIDITYNODES \in Powers /\ LIQUIDITYNODES \in Nat /\ LIQUIDITYNODES >= 2
<1>1. PICK depth \in 1..40 : LIQUIDITYNODES = PowerOfTwo[depth]
  BY TreeAssumption
<1>2. LIQUIDITYNODES \in Powers
  BY <1>1 DEF Powers
<1>3. depth - 1 \in 0..40 /\ PowerOfTwo[depth] = 2 * PowerOfTwo[depth - 1]
  BY PowerRecursion
<1>4. PowerOfTwo[depth - 1] \in Powers
  BY <1>3 DEF Powers
<1>5. LIQUIDITYNODES \in Nat /\ PowerOfTwo[depth - 1] \in Nat /\ PowerOfTwo[depth - 1] >= 1
  BY <1>2, <1>4, PowersHalve
<1>6. LIQUIDITYNODES = 2 * PowerOfTwo[depth - 1]
  BY <1>1, <1>3
<1> QED BY <1>2, <1>5, <1>6

\* The children of an inner node.
LEMMA Children ==
  ASSUME NEW n \in Inner
  PROVE  /\ n \in Nat /\ n >= 1 /\ n < LIQUIDITYNODES /\ n \in Nodes /\ n \notin Leaves
         /\ 2 * n \in Nodes /\ 2 * n + 1 \in Nodes /\ 2 * n # 1 /\ 2 * n + 1 # 1
         /\ (2 * n) \div 2 = n /\ (2 * n + 1) \div 2 = n
BY Width DEF Inner, Nodes, Leaves

\* The parent of a node below the root.
LEMMA Parent ==
  ASSUME NEW n \in Nodes, n # 1
  PROVE  /\ n \div 2 \in Inner /\ n \div 2 \in Nodes /\ n \div 2 < n
         /\ n = 2 * (n \div 2) \/ n = 2 * (n \div 2) + 1
BY Width DEF Inner, Nodes, Leaves

\* Nodes are numbers from one on, the leaves the last of them.
LEMMA Numbers ==
  /\ 1 \in Inner /\ 1 \in Nodes /\ Leaves \subseteq Nodes /\ Inner \subseteq Nodes
  /\ Nodes \subseteq Nat /\ \A n \in Nodes : n \in Nat /\ n >= 1
  /\ \A n \in Leaves : n \in Nat /\ n >= LIQUIDITYNODES
  /\ \A n \in Nodes : n \in Leaves \/ n \in Inner
  /\ IsFiniteSet(Nodes) /\ IsFiniteSet(Leaves)
<1>1. IsFiniteSet(Nodes)
  BY Width, FS_Interval DEF Nodes
<1>2. IsFiniteSet(Leaves)
  BY Width, FS_Interval DEF Leaves
<1> QED BY <1>1, <1>2, Width DEF Inner, Nodes, Leaves

\* What holds of the root, and of a node when it holds of its parent.
LEMMA DownTheTree ==
  ASSUME NEW P, 1 \in P, \A n \in Nodes : n # 1 /\ n \div 2 \in P => n \in P
  PROVE  Nodes \subseteq P
<1> DEFINE rank == [n \in Nodes |-> n]
<1>1. rank \in [Nodes -> Nat]
  BY Numbers
<1>2. ASSUME NEW n \in Nodes, \A k \in Nodes : rank[k] < rank[n] => k \in P PROVE n \in P
  <2>1. CASE n = 1
    BY <2>1
  <2>2. CASE n # 1
    BY <1>2, <2>2, Parent
  <2> QED BY <2>1, <2>2
<1> HIDE DEF rank
<1> QED BY <1>1, <1>2, RankInduction

\* What holds of the leaves, and of a node when it holds of its children.
LEMMA UpTheTree ==
  ASSUME NEW P, \A n \in Leaves : n \in P,
         \A n \in Inner : 2 * n \in P /\ 2 * n + 1 \in P => n \in P
  PROVE  Nodes \subseteq P
<1> DEFINE rank == [n \in Nodes |-> 2 * LIQUIDITYNODES - n]
<1>1. rank \in [Nodes -> Nat]
  BY Width DEF Nodes
<1>2. ASSUME NEW n \in Nodes, \A k \in Nodes : rank[k] < rank[n] => k \in P PROVE n \in P
  <2>1. CASE n \in Leaves
    BY <2>1
  <2>2. CASE n \in Inner
    <3>1. 2 * n \in Nodes /\ 2 * n + 1 \in Nodes /\ n >= 1 /\ n \in Nat
      BY <2>2, Children
    <3>2. rank[2 * n] < rank[n] /\ rank[2 * n + 1] < rank[n]
      BY <3>1, Width
    <3> HIDE DEF rank
    <3> QED BY <1>2, <2>2, <3>1, <3>2
  <2> QED BY <2>1, <2>2, Numbers
<1> HIDE DEF rank
<1> QED BY <1>1, <1>2, RankInduction

\* There is a function of the nodes by recursion on the parent, and one on a child.
IsHandedDown(g, V, a, G) ==
    g \in [Nodes -> V] /\ \A n \in Nodes : g[n] = IF n = 1 THEN a ELSE G[n][g[n \div 2]]

\* A function of the nodes by recursion on the parent exists: what a walk down computes.
LEMMA ParentRecursion ==
  ASSUME NEW V, NEW a \in V, NEW G \in [Nodes -> [V -> V]]
  PROVE  \E g : IsHandedDown(g, V, a, G)
<1> DEFINE rank == [n \in Nodes |-> n]
           c == [n \in Nodes |-> n \div 2]
           A == [n \in Nodes |-> a]
           m == 2 * LIQUIDITYNODES
<1>1. ChainGiven(Nodes, {1}, m, rank, c, V, A, G)
  <2>1. m \in Nat /\ rank \in [Nodes -> 0..m] /\ A \in [Nodes -> V]
    BY Width DEF Nodes
  <2>2. \A n \in Nodes \ {1} : c[n] \in Nodes /\ rank[c[n]] < rank[n]
    BY Parent
  <2> HIDE DEF m, rank, c, A
  <2> QED BY <2>1, <2>2 DEF ChainGiven
<1>2. PICK g : IsChainOf(g, Nodes, {1}, c, V, A, G)
  <2> HIDE DEF m, rank, c, A
  <2> QED BY <1>1, ChainExists
<1>3. g \in [Nodes -> V]
  BY <1>2 DEF IsChainOf
<1>4. ASSUME NEW n \in Nodes PROVE g[n] = IF n = 1 THEN a ELSE G[n][g[n \div 2]]
  <2>1. g[n] = IF n \in {1} THEN A[n] ELSE G[n][g[c[n]]]
    <3> HIDE DEF c, A
    <3> QED BY <1>2 DEF IsChainOf
  <2>2. A[n] = a /\ c[n] = n \div 2
    OBVIOUS
  <2> HIDE DEF A, c
  <2> QED BY <2>1, <2>2
<1> QED BY <1>3, <1>4 DEF IsHandedDown

\* A function of the nodes by recursion on the children exists: what is known from the leaves up.
LEMMA ChildRecursion ==
  ASSUME NEW V, NEW a \in [Nodes -> V], NEW G \in [Nodes -> [V -> V]],
         NEW c, NEW B, \A n \in Nodes \ B : n \in Inner /\ c[n] \in {2 * n, 2 * n + 1}
  PROVE  \E g : IsChainOf(g, Nodes, B, c, V, a, G)
<1> DEFINE rank == [n \in Nodes |-> 2 * LIQUIDITYNODES - n]
           m == 2 * LIQUIDITYNODES
<1>1. ChainGiven(Nodes, B, m, rank, c, V, a, G)
  <2>1. m \in Nat /\ rank \in [Nodes -> 0..m]
    BY Width DEF Nodes
  <2>2. ASSUME NEW n \in Nodes \ B PROVE c[n] \in Nodes /\ rank[c[n]] < rank[n]
    <3>1. n \in Inner /\ c[n] \in {2 * n, 2 * n + 1}
      OBVIOUS
    <3>2. c[n] \in Nodes /\ c[n] \in Nat /\ c[n] > n
      BY <3>1, Children
    <3> QED BY <3>2, Width, Numbers
  <2> HIDE DEF m, rank
  <2> QED BY <2>1, <2>2 DEF ChainGiven
<1> HIDE DEF m, rank
<1> QED BY <1>1, ChainExists

\* First satisfies its equation.
LEMMA FirstIs ==
  \A n \in Nodes : First[n] \in Leaves /\ First[n] = IF n \in Leaves THEN n ELSE First[2 * n]
<1> DEFINE G == [n \in Nodes |-> [v \in Nat |-> v]]
           a == [n \in Nodes |-> n]
           c == [n \in Nodes |-> 2 * n]
           Solves(g) == g = [n \in Nodes |-> IF n \in Leaves THEN n ELSE g[2 * n]]
<1>1. \E g : Solves(g)
  <2>1. a \in [Nodes -> Nat] /\ G \in [Nodes -> [Nat -> Nat]]
    BY Numbers
  <2>2. \A n \in Nodes \ Leaves : n \in Inner /\ c[n] \in {2 * n, 2 * n + 1}
    BY DEF Inner
  <2>3. PICK g : IsChainOf(g, Nodes, Leaves, c, Nat, a, G)
    <3> HIDE DEF G, a, c
    <3> QED BY <2>1, <2>2, ChildRecursion
  <2>r. g \in [Nodes -> Nat] /\ \A n \in Nodes : g[n] = IF n \in Leaves THEN a[n] ELSE G[n][g[c[n]]]
    <3> HIDE DEF G, a, c
    <3> QED BY <2>3 DEF IsChainOf
  <2>4. ASSUME NEW n \in Nodes PROVE g[n] = IF n \in Leaves THEN n ELSE g[2 * n]
    <3>1. n \notin Leaves => 2 * n \in Nodes
      BY Children DEF Inner
    <3>2. n \notin Leaves => g[2 * n] \in Nat /\ c[n] = 2 * n
      BY <2>r, <3>1
    <3> QED BY <2>r, <3>2
  <2>5. g = [n \in Nodes |-> g[n]]
    BY <2>r
  <2> HIDE DEF G, a, c
  <2> QED BY <2>4, <2>5
<1>2. Solves(First)
  <2>1. First = CHOOSE g : Solves(g)
    BY DEF First
  <2> HIDE DEF Solves
  <2> QED BY <1>1, <2>1
<1>3. \A n \in Nodes : First[n] = IF n \in Leaves THEN n ELSE First[2 * n]
  BY <1>2
<1> DEFINE P == {n \in Nodes : First[n] \in Leaves}
<1>4. \A n \in Leaves : n \in P
  BY <1>3, Numbers
<1>5. \A n \in Inner : 2 * n \in P /\ 2 * n + 1 \in P => n \in P
  BY <1>3, Numbers DEF Inner
<1>6. Nodes \subseteq P
  <2> HIDE DEF P
  <2> QED BY <1>4, <1>5, UpTheTree
<1> QED BY <1>3, <1>6

\* Last satisfies its equation.
LEMMA LastIs ==
  \A n \in Nodes : Last[n] \in Leaves /\ Last[n] = IF n \in Leaves THEN n ELSE Last[2 * n + 1]
<1> DEFINE G == [n \in Nodes |-> [v \in Nat |-> v]]
           a == [n \in Nodes |-> n]
           c == [n \in Nodes |-> 2 * n + 1]
           Solves(g) == g = [n \in Nodes |-> IF n \in Leaves THEN n ELSE g[2 * n + 1]]
<1>1. \E g : Solves(g)
  <2>1. a \in [Nodes -> Nat] /\ G \in [Nodes -> [Nat -> Nat]]
    BY Numbers
  <2>2. \A n \in Nodes \ Leaves : n \in Inner /\ c[n] \in {2 * n, 2 * n + 1}
    BY DEF Inner
  <2>3. PICK g : IsChainOf(g, Nodes, Leaves, c, Nat, a, G)
    <3> HIDE DEF G, a, c
    <3> QED BY <2>1, <2>2, ChildRecursion
  <2>r. g \in [Nodes -> Nat] /\ \A n \in Nodes : g[n] = IF n \in Leaves THEN a[n] ELSE G[n][g[c[n]]]
    <3> HIDE DEF G, a, c
    <3> QED BY <2>3 DEF IsChainOf
  <2>4. ASSUME NEW n \in Nodes PROVE g[n] = IF n \in Leaves THEN n ELSE g[2 * n + 1]
    <3>1. n \notin Leaves => 2 * n + 1 \in Nodes
      BY Children DEF Inner
    <3>2. n \notin Leaves => g[2 * n + 1] \in Nat /\ c[n] = 2 * n + 1
      BY <2>r, <3>1
    <3> QED BY <2>r, <3>2
  <2>5. g = [n \in Nodes |-> g[n]]
    BY <2>r
  <2> HIDE DEF G, a, c
  <2> QED BY <2>4, <2>5
<1>2. Solves(Last)
  <2>1. Last = CHOOSE g : Solves(g)
    BY DEF Last
  <2> HIDE DEF Solves
  <2> QED BY <1>1, <2>1
<1>3. \A n \in Nodes : Last[n] = IF n \in Leaves THEN n ELSE Last[2 * n + 1]
  BY <1>2
<1> DEFINE P == {n \in Nodes : Last[n] \in Leaves}
<1>4. \A n \in Leaves : n \in P
  BY <1>3, Numbers
<1>5. \A n \in Inner : 2 * n \in P /\ 2 * n + 1 \in P => n \in P
  BY <1>3, Numbers DEF Inner
<1>6. Nodes \subseteq P
  <2> HIDE DEF P
  <2> QED BY <1>4, <1>5, UpTheTree
<1> QED BY <1>3, <1>6

\* A node begins where its left neighbour on its level ends.
LEMMA Adjacent ==
  ASSUME NEW n \in Nodes, n + 1 \in Nodes, n + 1 \notin Powers
  PROVE  Last[n] + 1 = First[n + 1]
<1> DEFINE P == {m \in Nodes : m + 1 \in Nodes /\ m + 1 \notin Powers => Last[m] + 1 = First[m + 1]}
<1>1. ASSUME NEW m \in Leaves PROVE m \in P
  <2>1. m + 1 \in Nodes => m + 1 \in Leaves
    BY Numbers, Width DEF Nodes, Leaves
  <2> QED BY <2>1, FirstIs, LastIs, Numbers
<1>2. ASSUME NEW m \in Inner, 2 * m + 1 \in P PROVE m \in P
  <2> SUFFICES ASSUME m + 1 \in Nodes, m + 1 \notin Powers PROVE Last[m] + 1 = First[m + 1]
    BY Children
  <2>1. m + 1 \in Inner
    BY Children, Width DEF Inner, Nodes, Leaves
  <2>2. (2 * m + 1) + 1 \notin Powers
    <3>1. ((2 * m + 1) + 1) \div 2 = m + 1 /\ (2 * m + 1) + 1 # 1
      BY Children
    <3> QED BY <3>1, PowersHalve
  <2>3. (2 * m + 1) + 1 = 2 * (m + 1) /\ 2 * (m + 1) \in Nodes
    BY <2>1, Children
  <2>4. Last[2 * m + 1] + 1 = First[2 * (m + 1)]
    BY <1>2, <2>2, <2>3
  <2>5. Last[m] = Last[2 * m + 1] /\ First[m + 1] = First[2 * (m + 1)]
    BY <2>1, FirstIs, LastIs DEF Inner
  <2> QED BY <2>4, <2>5
<1>3. Nodes \subseteq P
  <2> HIDE DEF P
  <2> QED BY <1>1, <1>2, UpTheTree
<1> QED BY <1>3

\* The leaves below the children of a node are those below it, cut in two.
LEMMA Spans ==
  ASSUME NEW n \in Inner
  PROVE  /\ First[2 * n] = First[n] /\ Last[2 * n + 1] = Last[n]
         /\ Last[2 * n] + 1 = First[2 * n + 1]
<1>1. First[2 * n] = First[n] /\ Last[2 * n + 1] = Last[n]
  BY Numbers, FirstIs, LastIs DEF Inner
<1>2. 2 * n + 1 \notin Powers
  <2>1. n \in Nat /\ n >= 1
    BY Children
  <2>2. 2 * n + 1 # 1 /\ 2 * n + 1 # 2 * ((2 * n + 1) \div 2)
    BY <2>1
  <2> QED BY <2>2, PowersHalve
<1> QED BY <1>1, <1>2, Children, Adjacent

\* The leaves below a node are a nonempty interval; below the root, all of them.
LEMMA SpansAreIntervals ==
  /\ \A n \in Nodes : /\ First[n] \in Nat /\ Last[n] \in Nat /\ First[n] <= Last[n]
                      /\ First[n] >= LIQUIDITYNODES /\ Last[n] <= 2 * LIQUIDITYNODES - 1
  /\ First[1] = LIQUIDITYNODES /\ Last[1] = 2 * LIQUIDITYNODES - 1
<1>1. \A n \in Nodes : /\ First[n] \in Nat /\ Last[n] \in Nat
                       /\ First[n] >= LIQUIDITYNODES /\ Last[n] <= 2 * LIQUIDITYNODES - 1
  BY FirstIs, LastIs, Width DEF Leaves
<1> DEFINE P == {n \in Nodes : First[n] <= Last[n]}
<1>2. Nodes \subseteq P
  <2>1. \A n \in Leaves : n \in P
    BY FirstIs, LastIs, Numbers
  <2>2. ASSUME NEW n \in Inner, 2 * n \in P, 2 * n + 1 \in P PROVE n \in P
    <3>1. n \in Nodes /\ 2 * n \in Nodes /\ 2 * n + 1 \in Nodes
      BY Children
    <3> QED BY <1>1, <2>2, <3>1, Spans
  <2> HIDE DEF P
  <2> QED BY <2>1, <2>2, UpTheTree
<1>3. \A n \in Nodes : First[n] <= Last[n]
  BY <1>2
<1> DEFINE Q == {n \in Nodes : First[1] <= First[n] /\ Last[n] <= Last[1]}
<1>4. Nodes \subseteq Q
  <2>1. 1 \in Q
    BY Numbers, <1>1
  <2>2. ASSUME NEW n \in Nodes, n # 1, n \div 2 \in Q PROVE n \in Q
    <3> DEFINE p == n \div 2
    <3>1. p \in Inner /\ p \in Nodes /\ (n = 2 * p \/ n = 2 * p + 1)
      BY <2>2, Parent
    <3>2. First[1] <= First[p] /\ Last[p] <= Last[1]
      BY <2>2
    <3> HIDE DEF p
    <3>3. 2 * p \in Nodes /\ 2 * p + 1 \in Nodes /\ 1 \in Nodes
      BY <3>1, Children, Numbers
    <3>4. /\ First[2 * p] = First[p] /\ Last[2 * p + 1] = Last[p]
          /\ Last[2 * p] + 1 = First[2 * p + 1]
      BY <3>1, Spans
    <3>5. First[1] <= First[n] /\ Last[n] <= Last[1]
      BY <1>1, <1>3, <3>1, <3>2, <3>3, <3>4
    <3> QED BY <3>5
  <2> HIDE DEF Q
  <2> QED BY <2>1, <2>2, DownTheTree
<1>5. First[1] <= LIQUIDITYNODES /\ 2 * LIQUIDITYNODES - 1 <= Last[1]
  <2>1. LIQUIDITYNODES \in Leaves /\ 2 * LIQUIDITYNODES - 1 \in Leaves
    BY Width DEF Leaves
  <2>2. LIQUIDITYNODES \in Nodes /\ First[LIQUIDITYNODES] = LIQUIDITYNODES
    BY <2>1, Numbers, FirstIs
  <2>3. 2 * LIQUIDITYNODES - 1 \in Nodes /\ Last[2 * LIQUIDITYNODES - 1] = 2 * LIQUIDITYNODES - 1
    BY <2>1, Numbers, LastIs
  <2> HIDE DEF Q
  <2>4. LIQUIDITYNODES \in Q /\ 2 * LIQUIDITYNODES - 1 \in Q
    BY <1>4, <2>2, <2>3
  <2> QED BY <2>2, <2>3, <2>4 DEF Q
<1>6. First[1] = LIQUIDITYNODES /\ Last[1] = 2 * LIQUIDITYNODES - 1
  BY <1>1, <1>5, Numbers, Width
<1> QED BY <1>1, <1>3, <1>6

\* The way from the root to a leaf: it has one child of each of its inner nodes.
LEMMA PathEnds ==
  ASSUME NEW leaf \in Leaves
  PROVE  /\ 1 \in Above(leaf) /\ leaf \in Above(leaf) /\ leaf \in Nodes
         /\ Above(leaf) \subseteq Nodes
         /\ \A n \in Above(leaf) : First[n] <= leaf /\ leaf <= Last[n]
         /\ \A n \in Above(leaf) \cap Leaves : n = leaf
<1>1. 1 \in Above(leaf)
  BY SpansAreIntervals, Numbers DEF Above, Leaves
<1>2. leaf \in Nodes /\ First[leaf] = leaf /\ Last[leaf] = leaf /\ leaf \in Nat
  BY Numbers, FirstIs, LastIs
<1>3. \A n \in Above(leaf) \cap Leaves : n = leaf
  <2> SUFFICES ASSUME NEW n \in Above(leaf), n \in Leaves PROVE n = leaf
    OBVIOUS
  <2>1. First[n] = n /\ Last[n] = n /\ n \in Nat
    BY Numbers, FirstIs, LastIs
  <2> QED BY <1>2, <2>1 DEF Above
<1> QED BY <1>1, <1>2, <1>3 DEF Above

\* Which child of a node is on the way.
LEMMA PathDown ==
  ASSUME NEW leaf \in Leaves, NEW n \in Inner
  PROVE  /\ leaf <= Last[2 * n] => /\ 2 * n + 1 \notin Above(leaf)
                                   /\ n \in Above(leaf) <=> 2 * n \in Above(leaf)
         /\ leaf > Last[2 * n] => /\ 2 * n \notin Above(leaf)
                                  /\ n \in Above(leaf) <=> 2 * n + 1 \in Above(leaf)
<1>1. n \in Nodes /\ 2 * n \in Nodes /\ 2 * n + 1 \in Nodes /\ leaf \in Nat
  BY Children, Numbers
<1>2. /\ First[2 * n] = First[n] /\ Last[2 * n + 1] = Last[n] /\ Last[2 * n] + 1 = First[2 * n + 1]
  BY Spans
<1>3. /\ First[n] \in Nat /\ Last[n] \in Nat /\ Last[2 * n] \in Nat /\ First[2 * n + 1] \in Nat
      /\ First[2 * n] <= Last[2 * n] /\ First[2 * n + 1] <= Last[2 * n + 1]
  BY <1>1, SpansAreIntervals
<1> QED BY <1>1, <1>2, <1>3 DEF Above

\* The parent of a node on the way is on the way.
LEMMA PathUp ==
  ASSUME NEW leaf \in Leaves, NEW n \in Above(leaf), n # 1
  PROVE  n \div 2 \in Above(leaf)
<1> DEFINE p == n \div 2
<1>1. n \in Nodes /\ p \in Inner /\ (n = 2 * p \/ n = 2 * p + 1)
  BY Parent DEF Above
<1> HIDE DEF p
<1>2. Last[2 * p] \in Nat /\ leaf \in Nat
  BY <1>1, Children, SpansAreIntervals, Numbers
<1> QED BY <1>1, <1>2, PathDown DEF p

\* Further down the way, spans are smaller.
LEMMA PathOrder ==
  ASSUME NEW leaf \in Leaves, NEW m \in Above(leaf), NEW n \in Above(leaf), m < n
  PROVE  m <= n \div 2
<1> DEFINE P == {k \in Nodes : k \in Above(leaf) => \A q \in Above(leaf) : q < k => q <= k \div 2}
           rank == [k \in Nodes |-> k]
<1>1. ASSUME NEW k \in Nodes, \A j \in Nodes : rank[j] < rank[k] => j \in P PROVE k \in P
  <2> SUFFICES ASSUME k \in Above(leaf), NEW q \in Above(leaf), q < k PROVE q <= k \div 2
    OBVIOUS
  <2>1. q \in Nodes /\ q \in Nat /\ k \in Nat /\ q >= 1 /\ k # 1
    BY Numbers DEF Above
  <2> DEFINE p == k \div 2
             s == q \div 2
  <2>2. p \in Inner /\ p \in Nat /\ p < k /\ (k = 2 * p \/ k = 2 * p + 1) /\ p \in Above(leaf)
    BY <2>1, Parent, PathUp, Children
  <2>3. p \in P
    BY <1>1, <2>2, Children
  <2> SUFFICES ASSUME p < q PROVE FALSE
    BY <2>1, <2>2
  <2>4. q # 1
    BY <2>2, Children
  <2>5. s \in Inner /\ s \in Nat /\ s < q /\ (q = 2 * s \/ q = 2 * s + 1) /\ s \in Above(leaf)
    BY <2>1, <2>4, Parent, PathUp, Children
  <2>6. s <= p
    BY <2>1, <2>2, <2>5
  <2>n. Last[2 * p] \in Nat /\ Last[2 * s] \in Nat /\ leaf \in Nat
    BY <2>2, <2>5, Children, SpansAreIntervals, Numbers
  <2> HIDE DEF p, s, P, rank
  <2>7. CASE s = p
    <3>1. 2 * p \in Above(leaf) /\ 2 * p + 1 \in Above(leaf)
      BY <2>1, <2>2, <2>5, <2>7
    <3> QED BY <2>2, <2>n, <3>1, PathDown
  <2>8. CASE s < p
    <3>1. s <= p \div 2
      BY <2>2, <2>3, <2>5, <2>8 DEF P
    <3>2. p = 2 * s /\ q = 2 * s + 1
      BY <2>1, <2>2, <2>5, <2>8, <3>1
    <3> QED BY <2>2, <2>5, <2>n, <3>2, PathDown
  <2> QED BY <2>2, <2>5, <2>6, <2>7, <2>8
<1>2. rank \in [Nodes -> Nat]
  BY Numbers
<1>3. Nodes \subseteq P
  <2> HIDE DEF P, rank
  <2> QED BY <1>1, <1>2, RankInduction
<1> QED BY <1>3 DEF Above

\* What holds of every node on the way to a leaf.
LEMMA DownThePath ==
  ASSUME NEW leaf \in Leaves, NEW P, 1 \in P,
         \A n \in Inner : n \in Above(leaf) /\ n \in P =>
           \A c \in {2 * n, 2 * n + 1} : c \in Above(leaf) => c \in P
  PROVE  Above(leaf) \subseteq P
<1> DEFINE Q == {n \in Nodes : n \in Above(leaf) => n \in P}
<1>1. 1 \in Q
  BY Numbers
<1>2. ASSUME NEW n \in Nodes, n # 1, n \div 2 \in Q PROVE n \in Q
  <2> SUFFICES ASSUME n \in Above(leaf) PROVE n \in P
    OBVIOUS
  <2> DEFINE p == n \div 2
  <2>1. p \in Above(leaf) /\ p \in Inner /\ (n = 2 * p \/ n = 2 * p + 1) /\ p \in P
    BY <1>2, PathUp, Parent
  <2> HIDE DEF p, Q
  <2>2. n \in {2 * p, 2 * p + 1}
    BY <2>1
  <2> QED BY <2>1, <2>2
<1>3. Nodes \subseteq Q
  <2> HIDE DEF Q
  <2> QED BY <1>1, <1>2, DownTheTree
<1> QED BY <1>3 DEF Above

-----------------------------------------------------------------------------
(* Shares, rounded down.                                                   *)

\* Products of naturals.
LEMMA Times ==
  ASSUME NEW s \in Nat, NEW x \in Int, NEW y \in Int
  PROVE  /\ s * x \in Int /\ s * x = x * s /\ s * (x + 1) = s * x + s
         /\ s * (x + y) = s * x + s * y /\ s * (x - y) = s * x - s * y
         /\ x >= 0 => s * x \in Nat /\ s * x >= 0
         /\ x <= y => s * x <= s * y
         /\ s > 0 /\ s * x < s * y => x < y
         /\ s > 0 /\ s * x <= s * y => x <= y
<1>1. s * x \in Int /\ s * x = x * s /\ s * (x + 1) = s * x + s
  OBVIOUS
<1>2. s * (x + y) = s * x + s * y /\ s * (x - y) = s * x - s * y
  OBVIOUS
<1>3. x >= 0 => s * x \in Nat /\ s * x >= 0
  OBVIOUS
<1>4. x <= y => s * x <= s * y
  <2> SUFFICES ASSUME x <= y PROVE s * x <= s * y
    OBVIOUS
  <2>1. s * (y - x) >= 0 /\ s * (y - x) = s * y - s * x /\ s * y \in Int /\ s * x \in Int
    OBVIOUS
  <2> QED BY <2>1
<1>5. y <= x => s * y <= s * x
  <2> SUFFICES ASSUME y <= x PROVE s * y <= s * x
    OBVIOUS
  <2>1. s * (x - y) >= 0 /\ s * (x - y) = s * x - s * y /\ s * y \in Int /\ s * x \in Int
    OBVIOUS
  <2> QED BY <2>1
<1>6. s * x \in Int /\ s * y \in Int
  OBVIOUS
<1>7. s > 0 /\ s * x < s * y => x < y
  BY <1>5, <1>6
<1>8. s > 0 /\ s * x <= s * y => x <= y
  <2> SUFFICES ASSUME s > 0, s * x <= s * y, x > y PROVE FALSE
    OBVIOUS
  <2>1. s * (x - y) > 0 /\ s * (x - y) = s * x - s * y
    OBVIOUS
  <2> QED BY <1>6, <2>1
<1> QED BY <1>1, <1>2, <1>3, <1>4, <1>7, <1>8

\* What a rounded division returns.
LEMMA Quotient ==
  ASSUME NEW x \in Nat, NEW s \in Nat, s > 0
  PROVE  x \div s \in Nat /\ s * (x \div s) <= x /\ x < s * (x \div s) + s
OBVIOUS

\* A number between two multiples has the lower one as its quotient.
LEMMA QuotientIs ==
  ASSUME NEW x \in Nat, NEW s \in Nat, s > 0, NEW q \in Nat, s * q <= x, x < s * q + s
  PROVE  x \div s = q
<1> DEFINE r == x \div s
<1>1. r \in Nat /\ s * r <= x /\ x < s * r + s
  BY Quotient
<1> HIDE DEF r
<1>2. s * r \in Int /\ s * q \in Int /\ s * (r + 1) = s * r + s /\ s * (q + 1) = s * q + s
  BY <1>1, Times
<1>3. s * q < s * (r + 1) /\ s * r < s * (q + 1)
  BY <1>1, <1>2
<1>4. r + 1 \in Int /\ q + 1 \in Int
  BY <1>1
<1>5. q < r + 1 /\ r < q + 1
  BY <1>1, <1>3, <1>4, Times
<1>6. r = q
  BY <1>1, <1>5
<1> QED BY <1>6 DEF r

\* A share of an amount, rounded down, is no more than the amount.
LEMMA Share ==
  ASSUME NEW a \in Nat, NEW l \in Nat, NEW s \in Nat, s > 0, l <= s
  PROVE  LET f == (a * l) \div s
         IN  /\ f \in Nat /\ f <= a /\ a - f \in Nat
             /\ a <= s => f <= l /\ a - f <= s - l
             /\ l = s => f = a
             /\ l = 0 => f = 0
             /\ a = s => f = l
<1> DEFINE f == (a * l) \div s
<1>0. a * l \in Nat /\ a * l = l * a /\ a * s = s * a /\ a * l <= a * s
  BY Times
<1>1. f \in Nat /\ s * f <= a * l /\ a * l < s * f + s
  BY <1>0, Quotient
<1>2. l = 0 => f = 0
  OBVIOUS
<1>3. a = s => f = l
  <2> SUFFICES ASSUME a = s PROVE (s * l) \div s = l
    OBVIOUS
  <2>1. s * l \in Nat /\ s * l <= s * l /\ s * l < s * l + s
    OBVIOUS
  <2> QED BY <2>1, QuotientIs
<1>4. l = s => f = a
  <2> SUFFICES ASSUME l = s PROVE (a * s) \div s = a
    OBVIOUS
  <2>1. a * s \in Nat /\ s * a = a * s /\ s * a <= a * s /\ a * s < s * a + s
    OBVIOUS
  <2> QED BY <2>1, QuotientIs
<1> HIDE DEF f
<1>5. f <= a
  <2>1. s * f <= s * a
    BY <1>0, <1>1, Times
  <2> QED BY <1>1, <2>1, Times
<1>6. ASSUME a <= s PROVE f <= l /\ a - f <= s - l
  <2>1. l * a <= l * s /\ l * s = s * l
    BY <1>6, Times
  <2>2. s * f <= s * l
    BY <1>0, <1>1, <2>1, Times
  <2>3. f <= l
    BY <1>1, <2>2, Times
  <2> DEFINE d == a - s + l
  <2>4. d \in Int /\ s * d < s * (f + 1)
    <3>1. s * d = s * a - s * s + s * l
      BY Times
    <3>2. (s - a) * (s - l) >= 0 /\ s - a \in Nat /\ s - l \in Nat
      BY <1>6, Times
    <3>3. (s - a) * (s - l) = s * s - s * l - a * s + a * l
      OBVIOUS
    <3>4. s * a \in Int /\ s * s \in Int /\ s * l \in Int /\ s * f \in Int
      BY <1>1
    <3>5. s * d <= a * l
      BY <1>0, <3>1, <3>2, <3>3, <3>4
    <3>6. s * (f + 1) = s * f + s
      BY <1>1, Times
    <3> HIDE DEF d
    <3>7. s * d \in Int
      BY <1>0, <3>1, <3>4
    <3>8. d \in Int
      BY DEF d
    <3> QED BY <1>0, <1>1, <3>4, <3>5, <3>6, <3>7, <3>8
  <2>5. d < f + 1
    <3> HIDE DEF d
    <3>1. f + 1 \in Int
      BY <1>1
    <3> QED BY <2>4, <3>1, Times
  <2> QED BY <1>1, <2>3, <2>5
<1> QED BY <1>1, <1>2, <1>3, <1>4, <1>5, <1>6 DEF f

\* The share and what is left of a greater amount are no smaller.
LEMMA ShareGrows ==
  ASSUME NEW a \in Nat, NEW b \in Nat, a <= b, NEW l \in Nat, NEW s \in Nat, s > 0, l <= s
  PROVE  /\ (a * l) \div s <= (b * l) \div s
         /\ a - (a * l) \div s <= b - (b * l) \div s
<1> DEFINE f == (a * l) \div s
           g == (b * l) \div s
<1>0. a * l \in Nat /\ b * l \in Nat /\ a * l = l * a /\ b * l = l * b
  BY Times
<1>1. f \in Nat /\ s * f <= a * l /\ a * l < s * f + s
  BY <1>0, Quotient
<1>2. g \in Nat /\ s * g <= b * l /\ b * l < s * g + s
  BY <1>0, Quotient
<1> HIDE DEF f, g
<1>3. l * a <= l * b /\ s * f \in Int /\ s * g \in Int
  BY <1>1, <1>2, Times
<1>4. s * f < s * (g + 1)
  <2>1. s * (g + 1) = s * g + s
    BY <1>2, Times
  <2> QED BY <1>0, <1>1, <1>2, <1>3, <2>1
<1>5. f < g + 1
  <2>1. g + 1 \in Int
    BY <1>2
  <2> QED BY <1>1, <1>4, <2>1, Times
<1> DEFINE d == f + 1 + (b - a)
<1>6. s * g < s * d
  <2>1. (b - a) \in Nat /\ (b - a) * l <= (b - a) * s
    BY Times
  <2>2. (b - a) * l = b * l - a * l /\ (b - a) * s = s * (b - a) /\ s * (b - a) \in Int
    OBVIOUS
  <2>3. s * d = s * f + s + s * (b - a)
    <3>1. s * d = s * (f + 1) + s * (b - a)
      BY <1>1, <2>1, Times
    <3>2. s * (f + 1) = s * f + s
      BY <1>1, Times
    <3> QED BY <3>1, <3>2
  <2> HIDE DEF d
  <2> QED BY <1>0, <1>1, <1>2, <1>3, <2>1, <2>2, <2>3
<1>7. g < d
  <2>1. d \in Int
    BY <1>1
  <2> HIDE DEF d
  <2> QED BY <1>2, <1>6, <2>1, Times
<1>8. f <= g /\ a - f <= b - g
  BY <1>1, <1>2, <1>5, <1>7
<1> QED BY <1>8 DEF f, g

\* Two rounded divisions in a row round like one.
LEMMA TwoDivisions ==
  ASSUME NEW x \in Nat, NEW o \in Nat, o > 0, NEW s \in Nat, s > 0
  PROVE  ((x * o) \div s) \div o = x \div s
<1> DEFINE q == x \div s
           y == (x * o) \div s
<1>0. x * o \in Nat /\ x * o = o * x
  BY Times
<1>1. q \in Nat /\ s * q <= x /\ x < s * q + s
  BY Quotient
<1>2. y \in Nat /\ s * y <= x * o /\ x * o < s * y + s
  BY <1>0, Quotient
<1> HIDE DEF q, y
<1>3. o * q \in Nat /\ s * (o * q) = o * (s * q) /\ s * q \in Nat /\ s * y \in Nat
  BY <1>1, <1>2, Times
<1>4. o * q <= y
  <2>1. o * (s * q) <= o * x
    BY <1>1, <1>3, Times
  <2>2. s * (y + 1) = s * y + s
    BY <1>2, Times
  <2>3. s * (o * q) < s * (y + 1)
    BY <1>0, <1>2, <1>3, <2>1, <2>2
  <2>4. o * q \in Int /\ y + 1 \in Int
    BY <1>2, <1>3
  <2> DEFINE oq == o * q
  <2>5. oq \in Int /\ oq < y + 1
    <3>1. oq \in Int /\ s * oq < s * (y + 1)
      BY <2>3, <2>4
    <3> HIDE DEF oq
    <3> QED BY <2>4, <3>1, Times
  <2> QED BY <1>2, <2>4, <2>5
<1>5. y < o * q + o
  <2> DEFINE z == o * q + o
  <2>1. o * (x + 1) <= o * (s * q + s)
    <3>1. x + 1 \in Int /\ s * q + s \in Int /\ x + 1 <= s * q + s
      BY <1>1, <1>3
    <3> DEFINE w == s * q + s
    <3>2. w \in Int /\ x + 1 <= w
      BY <3>1
    <3> HIDE DEF w
    <3>3. o * (x + 1) <= o * w
      BY <3>1, <3>2, Times
    <3> QED BY <3>3 DEF w
  <2>2. o * (x + 1) = o * x + o
    BY Times
  <2>3. o * (s * q + s) = s * z
    <3>1. o * (s * q + s) = o * (s * q) + o * s
      BY <1>3, Times
    <3>2. s * z = s * (o * q) + s * o
      BY <1>3, Times
    <3>3. o * s = s * o
      BY Times
    <3> QED BY <1>3, <3>1, <3>2, <3>3
  <2>4. z \in Int /\ s * z \in Int
    BY <1>3, Times
  <2> HIDE DEF z
  <2>5. s * y < s * z
    BY <1>0, <1>2, <1>3, <2>1, <2>2, <2>3, <2>4
  <2>6. y < z
    BY <1>2, <2>4, <2>5, Times
  <2> QED BY <2>6 DEF z
<1>6. y \div o = q
  BY <1>1, <1>2, <1>4, <1>5, QuotientIs
<1> QED BY <1>6 DEF q, y

-----------------------------------------------------------------------------
(* The worth of the nodes of a tree: what a push would leave in them.      *)

Trees == [Nodes -> Nat]
Exact(t, n) == t[n] = t[2 * n] + t[2 * n + 1]
\* Invariant I of the comment on _allocate.
Rooted(t) == \A n \in Inner : t[n] > 0 => t[2 * n] > 0 \/ t[2 * n + 1] > 0

\* Amounts are natural numbers.
LEMMA TreeValues ==
  ASSUME NEW t \in Trees, NEW n \in Inner
  PROVE  t[n] \in Nat /\ t[2 * n] \in Nat /\ t[2 * n + 1] \in Nat
BY Children DEF Trees

\* What the left child gets is no more than there is, and all of it if the right child is empty.
LEMMA LeftShareIs ==
  ASSUME NEW t \in Trees, NEW n \in Inner, NEW a \in Nat
  PROVE  /\ LeftShare(t, n, a) \in Nat /\ LeftShare(t, n, a) <= a /\ a - LeftShare(t, n, a) \in Nat
         /\ t[2 * n] = 0 => LeftShare(t, n, a) = 0
         /\ t[2 * n] > 0 /\ t[2 * n + 1] = 0 => LeftShare(t, n, a) = a
         /\ t[2 * n] + t[2 * n + 1] = a => LeftShare(t, n, a) = t[2 * n]
<1> DEFINE l == t[2 * n]
           r == t[2 * n + 1]
           s == l + r
<1>1. l \in Nat /\ r \in Nat
  BY TreeValues
<1>2. LeftShare(t, n, a) = IF s = 0 THEN 0 ELSE (a * l) \div s
  BY DEF LeftShare
<1> HIDE DEF l, r
<1>3. CASE s = 0
  BY <1>1, <1>2, <1>3 DEF l, r
<1>4. CASE s # 0
  <2>1. s \in Nat /\ s > 0 /\ l <= s
    BY <1>1, <1>4
  <2> DEFINE f == (a * l) \div s
  <2>2. /\ f \in Nat /\ f <= a /\ a - f \in Nat
        /\ l = s => f = a
        /\ l = 0 => f = 0
        /\ a = s => f = l
    <3> HIDE DEF s
    <3> QED BY <1>1, <2>1, Share
  <2>3. LeftShare(t, n, a) = f
    BY <1>2, <1>4
  <2> HIDE DEF f
  <2>4. r = 0 => l = s
    BY <1>1
  <2> QED BY <1>1, <2>2, <2>3, <2>4 DEF l, r
<1> QED BY <1>3, <1>4

\* Both children get no less of a greater amount.
LEMMA LeftShareGrows ==
  ASSUME NEW t \in Trees, NEW n \in Inner, NEW a \in Nat, NEW b \in Nat, a <= b
  PROVE  /\ LeftShare(t, n, a) <= LeftShare(t, n, b)
         /\ a - LeftShare(t, n, a) <= b - LeftShare(t, n, b)
<1> DEFINE l == t[2 * n]
           r == t[2 * n + 1]
           s == l + r
<1>1. l \in Nat /\ r \in Nat
  BY TreeValues
<1>2. /\ LeftShare(t, n, a) = IF s = 0 THEN 0 ELSE (a * l) \div s
      /\ LeftShare(t, n, b) = IF s = 0 THEN 0 ELSE (b * l) \div s
  BY DEF LeftShare
<1> HIDE DEF l, r
<1>3. CASE s = 0
  BY <1>2, <1>3
<1>4. CASE s # 0
  <2>1. s \in Nat /\ s > 0 /\ l <= s
    BY <1>1, <1>4
  <2>2. (a * l) \div s <= (b * l) \div s /\ a - (a * l) \div s <= b - (b * l) \div s
    <3> HIDE DEF s
    <3> QED BY <1>1, <2>1, ShareGrows
  <2> QED BY <1>2, <1>4, <2>2
<1> QED BY <1>3, <1>4

\* PushView satisfies its equation.
LEMMA ViewIs ==
  ASSUME NEW t \in Trees
  PROVE  /\ PushView(t) \in Trees /\ PushView(t)[1] = t[1]
         /\ \A n \in Inner :
              /\ PushView(t)[2 * n] = LeftShare(t, n, PushView(t)[n])
              /\ PushView(t)[2 * n + 1] = IF t[2 * n + 1] = 0 THEN 0
                                         ELSE PushView(t)[n] - LeftShare(t, n, PushView(t)[n])
         /\ \A n \in Nodes : t[n] = 0 => PushView(t)[n] = 0
         /\ \A n \in Nodes : PushView(t)[n] > 0 => t[n] > 0
<1> DEFINE E(g, n) == LET up == n \div 2
                          amount == g[up]
                          left == LeftShare(t, up, amount)
                      IN  IF n = 1 THEN t[1]
                          ELSE IF t[n] = 0 THEN 0
                          ELSE IF n = 2 * up THEN left ELSE amount - left
           Solves(g) == g = [n \in Nodes |-> E(g, n)]
           H(n, v) == IF n = 1 \/ t[n] = 0 THEN 0
                      ELSE IF n = 2 * (n \div 2) THEN LeftShare(t, n \div 2, v)
                      ELSE v - LeftShare(t, n \div 2, v)
           G == [n \in Nodes |-> [v \in Nat |-> H(n, v)]]
<1>0. t[1] \in Nat /\ \A n \in Nodes : t[n] \in Nat
  BY Numbers DEF Trees
<1>1. G \in [Nodes -> [Nat -> Nat]]
  <2>1. ASSUME NEW n \in Nodes, NEW v \in Nat PROVE H(n, v) \in Nat
    <3>1. n # 1 => n \div 2 \in Inner
      BY Parent
    <3>2. n # 1 => /\ LeftShare(t, n \div 2, v) \in Nat
                   /\ v - LeftShare(t, n \div 2, v) \in Nat
      BY <3>1, LeftShareIs
    <3> QED BY <3>2
  <2> HIDE DEF H
  <2> QED BY <2>1
<1>d. PICK g : IsHandedDown(g, Nat, t[1], G)
  <2> HIDE DEF G
  <2> QED BY <1>0, <1>1, ParentRecursion
<1>2. g \in [Nodes -> Nat] /\ \A n \in Nodes : g[n] = IF n = 1 THEN t[1] ELSE G[n][g[n \div 2]]
  <2> HIDE DEF G
  <2> QED BY <1>d DEF IsHandedDown
<1>3. Solves(g)
  <2>1. ASSUME NEW n \in Nodes PROVE g[n] = E(g, n)
    <3>1. CASE n = 1
      BY <1>2, <3>1
    <3>2. CASE n # 1
      <4>1. g[n \div 2] \in Nat
        BY <1>2, <3>2, Parent
      <4>2. g[n] = H(n, g[n \div 2])
        <5>1. g[n] = G[n][g[n \div 2]]
          <6> HIDE DEF G
          <6> QED BY <1>2, <3>2
        <5> HIDE DEF H
        <5> QED BY <4>1, <5>1
      <4>3. H(n, g[n \div 2]) = E(g, n)
        BY <3>2
      <4> HIDE DEF E, H, G
      <4> QED BY <4>2, <4>3
    <3> QED BY <3>1, <3>2
  <2>2. g = [n \in Nodes |-> g[n]]
    BY <1>2
  <2> HIDE DEF E, G
  <2> QED BY <2>1, <2>2
<1> DEFINE W == PushView(t)
<1>4. Solves(W)
  <2>1. W = CHOOSE f : Solves(f)
    BY DEF PushView
  <2> HIDE DEF Solves, W
  <2> QED BY <1>3, <2>1
<1> HIDE DEF W
<1>5. \A n \in Nodes : W[n] = E(W, n)
  <2> HIDE DEF E
  <2> QED BY <1>4
<1>6. W[1] = t[1]
  BY <1>5, Numbers
<1> DEFINE P == {n \in Nodes : W[n] \in Nat}
<1>7. Nodes \subseteq P
  <2>1. 1 \in P
    BY <1>0, <1>6, Numbers
  <2>2. ASSUME NEW n \in Nodes, n # 1, n \div 2 \in P PROVE n \in P
    <3>1. n \div 2 \in Inner /\ W[n \div 2] \in Nat
      BY <2>2, Parent
    <3>2. /\ LeftShare(t, n \div 2, W[n \div 2]) \in Nat
          /\ W[n \div 2] - LeftShare(t, n \div 2, W[n \div 2]) \in Nat
      BY <3>1, LeftShareIs
    <3>3. W[n] \in Nat
      BY <1>5, <2>2, <3>2
    <3> QED BY <3>3
  <2> HIDE DEF P
  <2> QED BY <2>1, <2>2, DownTheTree
<1>8. W \in Trees
  <2>1. W = [n \in Nodes |-> W[n]]
    <3> HIDE DEF E
    <3> QED BY <1>4
  <2>2. \A n \in Nodes : W[n] \in Nat
    BY <1>7
  <2> QED BY <2>1, <2>2 DEF Trees
<1>9. ASSUME NEW n \in Nodes PROVE t[n] = 0 => W[n] = 0
  <2>1. CASE n = 1
    BY <1>6, <2>1
  <2>2. CASE n # 1
    BY <1>5, <2>2
  <2> QED BY <2>1, <2>2
<1>10. ASSUME NEW n \in Inner
       PROVE  /\ W[2 * n] = LeftShare(t, n, W[n])
              /\ W[2 * n + 1] = IF t[2 * n + 1] = 0 THEN 0 ELSE W[n] - LeftShare(t, n, W[n])
  <2>1. /\ 2 * n \in Nodes /\ 2 * n + 1 \in Nodes /\ 2 * n # 1 /\ 2 * n + 1 # 1
        /\ (2 * n) \div 2 = n /\ (2 * n + 1) \div 2 = n /\ n \in Nat /\ n \in Nodes
    BY Children
  <2>2. W[2 * n] = IF t[2 * n] = 0 THEN 0 ELSE LeftShare(t, n, W[n])
    BY <1>5, <2>1
  <2>3. W[2 * n + 1] = IF t[2 * n + 1] = 0 THEN 0 ELSE W[n] - LeftShare(t, n, W[n])
    <3>1. 2 * n + 1 # 2 * n
      BY <2>1
    <3> QED BY <1>5, <2>1, <3>1
  <2>4. t[2 * n] = 0 => LeftShare(t, n, W[n]) = 0
    BY <1>7, <2>1, LeftShareIs
  <2> QED BY <2>2, <2>3, <2>4
<1>11. \A n \in Nodes : W[n] > 0 => t[n] > 0
  BY <1>0, <1>9
<1> HIDE DEF Solves, G, P
<1> QED BY <1>6, <1>8, <1>9, <1>10, <1>11 DEF W

\* The children of a node share its worth out between them.
LEMMA ViewSplits ==
  ASSUME NEW t \in Trees, Rooted(t), NEW n \in Inner
  PROVE  LET W == PushView(t)
         IN  /\ W[n] \in Nat /\ W[2 * n] \in Nat /\ W[2 * n + 1] \in Nat
             /\ W[n] = W[2 * n] + W[2 * n + 1]
             /\ W[2 * n] = LeftShare(t, n, W[n])
<1> DEFINE W == PushView(t)
<1>1. W \in Trees
  BY ViewIs
<1>2. /\ W[2 * n] = LeftShare(t, n, W[n])
      /\ W[2 * n + 1] = IF t[2 * n + 1] = 0 THEN 0 ELSE W[n] - LeftShare(t, n, W[n])
      /\ W[n] > 0 => t[n] > 0
  BY ViewIs, Children
<1> HIDE DEF W
<1>3. W[n] \in Nat /\ W[2 * n] \in Nat /\ W[2 * n + 1] \in Nat
  BY <1>1, TreeValues
<1>4. t[n] \in Nat /\ t[2 * n] \in Nat /\ t[2 * n + 1] \in Nat
  BY TreeValues
<1> DEFINE s == LeftShare(t, n, W[n])
<1>5. /\ s \in Nat /\ s <= W[n]
      /\ t[2 * n] > 0 /\ t[2 * n + 1] = 0 => s = W[n]
  BY <1>3, LeftShareIs
<1>6. W[2 * n] = s /\ W[2 * n + 1] = IF t[2 * n + 1] = 0 THEN 0 ELSE W[n] - s
  BY <1>2
<1> HIDE DEF s
<1>7. W[n] = W[2 * n] + W[2 * n + 1]
  <2>1. CASE t[2 * n + 1] # 0
    BY <1>3, <1>5, <1>6, <2>1
  <2>2. CASE t[2 * n + 1] = 0 /\ t[2 * n] > 0
    BY <1>3, <1>5, <1>6, <2>2
  <2>3. CASE t[2 * n + 1] = 0 /\ t[2 * n] = 0
    <3>1. W[n] = 0
      BY <1>2, <1>3, <1>4, <2>3 DEF Rooted
    <3> QED BY <1>3, <1>5, <1>6, <2>3, <3>1
  <2> QED BY <1>4, <2>1, <2>2, <2>3
<1> QED BY <1>2, <1>3, <1>7 DEF W

\* Below a chain of nodes that are the sums of their children, nothing is stale.
LEMMA ViewOfExact ==
  ASSUME NEW t \in Trees, NEW D \in SUBSET Nodes,
         \A n \in D : n # 1 => n \div 2 \in D /\ Exact(t, n \div 2)
  PROVE  \A n \in D : PushView(t)[n] = t[n]
<1> DEFINE W == PushView(t)
           P == {n \in Nodes : n \in D => W[n] = t[n]}
<1>1. 1 \in P
  BY Numbers, ViewIs
<1>2. ASSUME NEW n \in Nodes, n # 1, n \div 2 \in P PROVE n \in P
  <2> SUFFICES ASSUME n \in D PROVE W[n] = t[n]
    OBVIOUS
  <2> DEFINE p == n \div 2
  <2>1. p \in Inner /\ (n = 2 * p \/ n = 2 * p + 1) /\ Exact(t, p) /\ W[p] = t[p]
    BY <1>2, Parent
  <2> HIDE DEF p
  <2>2. t[p] \in Nat /\ t[2 * p] \in Nat /\ t[2 * p + 1] \in Nat
    BY <2>1, TreeValues
  <2>3. LeftShare(t, p, t[p]) = t[2 * p]
    BY <2>1, <2>2, LeftShareIs DEF Exact
  <2>4. /\ W[2 * p] = LeftShare(t, p, W[p])
        /\ W[2 * p + 1] = IF t[2 * p + 1] = 0 THEN 0 ELSE W[p] - LeftShare(t, p, W[p])
    BY <2>1, ViewIs
  <2> HIDE DEF W
  <2> QED BY <2>1, <2>2, <2>3, <2>4 DEF Exact
<1>3. Nodes \subseteq P
  <2> HIDE DEF P
  <2> QED BY <1>1, <1>2, DownTheTree
<1> QED BY <1>3

-----------------------------------------------------------------------------
(* The worth of a prefix of the leaves.                                    *)

\* PrefixWorth is the sum of the views of its leaves.
LEMMA PrefixIsSum ==
  ASSUME NEW t, NEW k
  PROVE  PrefixWorth(t, k) = SumOf(PushView(t), LIQUIDITYNODES..k)
BY DEF PrefixWorth, WithdrawView, MapThenSumSet, MapThenFoldSet, SumOf, IsSum, Pick

\* A prefix is worth what the one before it is, and its last leaf.
LEMMA PrefixGrows ==
  ASSUME NEW t \in Trees
  PROVE  /\ PrefixWorth(t, LIQUIDITYNODES - 1) = 0
         /\ \A k \in Leaves : PrefixWorth(t, k) = PrefixWorth(t, k - 1) + PushView(t)[k]
         /\ \A k \in (LIQUIDITYNODES - 1)..(2 * LIQUIDITYNODES - 1) : PrefixWorth(t, k) \in Nat
<1> DEFINE W == PushView(t)
           S(k) == LIQUIDITYNODES..k
<1>1. \A n \in Nodes : W[n] \in Nat
  BY ViewIs DEF Trees
<1> HIDE DEF W
<1>2. ASSUME NEW k \in (LIQUIDITYNODES - 1)..(2 * LIQUIDITYNODES - 1)
      PROVE  k \in Int /\ IsFiniteSet(S(k)) /\ \A x \in S(k) : W[x] \in Nat
  <2>1. k \in Int /\ S(k) \subseteq Nodes
    BY Width, Numbers DEF Nodes
  <2>2. IsFiniteSet(S(k))
    BY <2>1, Width, FS_Interval
  <2> QED BY <1>1, <2>1, <2>2
<1>3. S(LIQUIDITYNODES - 1) = {}
  BY Width
<1>4. PrefixWorth(t, LIQUIDITYNODES - 1) = 0
  BY <1>3, PrefixIsSum, SumEmpty
<1>5. ASSUME NEW k \in Leaves
      PROVE  PrefixWorth(t, k) = PrefixWorth(t, k - 1) + W[k]
  <2>1. /\ k \in (LIQUIDITYNODES - 1)..(2 * LIQUIDITYNODES - 1)
        /\ k - 1 \in (LIQUIDITYNODES - 1)..(2 * LIQUIDITYNODES - 1) /\ k \in Int
    BY Width DEF Leaves
  <2>2. S(k) = S(k - 1) \cup {k} /\ k \notin S(k - 1)
    BY <2>1, Width DEF Leaves
  <2> DEFINE T == S(k - 1)
  <2>3. IsFiniteSet(T) /\ k \notin T /\ \A x \in T \cup {k} : W[x] \in Nat
    <3>1. \A x \in S(k) : W[x] \in Nat
      BY <1>2, <2>1
    <3>2. IsFiniteSet(S(k - 1))
      BY <1>2, <2>1
    <3> HIDE DEF S
    <3> QED BY <3>1, <3>2, <2>2
  <2>4. SumOf(W, T \cup {k}) = W[k] + SumOf(W, T)
    <3> HIDE DEF T
    <3> QED BY <2>3, SumAdd
  <2>5. SumOf(W, T) \in Nat
    <3> HIDE DEF T
    <3> QED BY <2>3, SumTyped
  <2>6. W[k] \in Nat
    BY <2>3
  <2>7. PrefixWorth(t, k) = SumOf(W, T \cup {k}) /\ PrefixWorth(t, k - 1) = SumOf(W, T)
    BY <2>2, PrefixIsSum DEF W
  <2> HIDE DEF T
  <2> QED BY <2>4, <2>5, <2>6, <2>7
<1>6. ASSUME NEW k \in (LIQUIDITYNODES - 1)..(2 * LIQUIDITYNODES - 1)
      PROVE  PrefixWorth(t, k) \in Nat
  <2>1. SumOf(W, S(k)) \in Nat
    <3>1. IsFiniteSet(S(k)) /\ \A x \in S(k) : W[x] \in Nat
      BY <1>2
    <3> HIDE DEF S
    <3> QED BY <3>1, SumTyped
  <2> QED BY <2>1, PrefixIsSum DEF W
<1> QED BY <1>4, <1>5, <1>6 DEF W

\* Longer prefixes are worth no less, and as much where the leaves between are worth nothing.
LEMMA PrefixOrder ==
  ASSUME NEW t \in Trees,
         NEW j \in (LIQUIDITYNODES - 1)..(2 * LIQUIDITYNODES - 1),
         NEW k \in (LIQUIDITYNODES - 1)..(2 * LIQUIDITYNODES - 1), j <= k
  PROVE  /\ PrefixWorth(t, j) <= PrefixWorth(t, k)
         /\ (\A n \in (j + 1)..k : PushView(t)[n] = 0) => PrefixWorth(t, j) = PrefixWorth(t, k)
<1> DEFINE W == PushView(t)
           P == {i \in Nat : j + i <= 2 * LIQUIDITYNODES - 1 =>
                    /\ PrefixWorth(t, j) <= PrefixWorth(t, j + i)
                    /\ (\A n \in (j + 1)..(j + i) : W[n] = 0) =>
                         PrefixWorth(t, j) = PrefixWorth(t, j + i)}
<1>0. j \in Int /\ k \in Int /\ LIQUIDITYNODES \in Nat
  BY Width
<1>1. 0 \in P
  <2>1. PrefixWorth(t, j) \in Nat
    BY PrefixGrows
  <2> QED BY <1>0, <2>1
<1>2. ASSUME NEW i \in Nat, i \in P PROVE i + 1 \in P
  <2> SUFFICES ASSUME j + (i + 1) <= 2 * LIQUIDITYNODES - 1
               PROVE  /\ PrefixWorth(t, j) <= PrefixWorth(t, j + (i + 1))
                      /\ (\A n \in (j + 1)..(j + (i + 1)) : W[n] = 0) =>
                           PrefixWorth(t, j) = PrefixWorth(t, j + (i + 1))
    OBVIOUS
  <2> DEFINE m == j + (i + 1)
  <2>1. m \in Leaves /\ m - 1 = j + i /\ m \in Nodes
    BY <1>0, Width DEF Leaves, Nodes
  <2>2. PrefixWorth(t, m) = PrefixWorth(t, m - 1) + W[m] /\ W[m] \in Nat
    BY <2>1, PrefixGrows, ViewIs DEF Trees
  <2>3. /\ PrefixWorth(t, j) <= PrefixWorth(t, m - 1)
        /\ (\A n \in (j + 1)..(j + i) : W[n] = 0) => PrefixWorth(t, j) = PrefixWorth(t, m - 1)
    BY <1>0, <1>2, <2>1
  <2>4. PrefixWorth(t, m - 1) \in Nat /\ PrefixWorth(t, j) \in Nat
    <3>1. m - 1 \in (LIQUIDITYNODES - 1)..(2 * LIQUIDITYNODES - 1)
      BY <2>1, Width DEF Leaves
    <3> QED BY <3>1, PrefixGrows
  <2>5. m \in (j + 1)..m /\ (j + 1)..(j + i) \subseteq (j + 1)..m
    BY <1>0
  <2> HIDE DEF m, W
  <2>6. PrefixWorth(t, j) <= PrefixWorth(t, m)
    BY <2>2, <2>3, <2>4
  <2>7. ASSUME \A n \in (j + 1)..m : W[n] = 0 PROVE PrefixWorth(t, j) = PrefixWorth(t, m)
    BY <2>2, <2>3, <2>4, <2>5, <2>7
  <2> QED BY <2>6, <2>7 DEF m
<1>3. Nat \subseteq P
  <2> HIDE DEF P
  <2> QED BY <1>1, <1>2, NatSetInduction
<1>4. k - j \in Nat /\ j + (k - j) = k
  BY <1>0
<1>5. k - j \in P
  <2> HIDE DEF P
  <2> QED BY <1>3, <1>4
<1> QED BY <1>0, <1>4, <1>5

\* The leaves below a node are worth what the node is.
LEMMA SpanWorth ==
  ASSUME NEW t \in Trees, Rooted(t), NEW n \in Nodes
  PROVE  /\ PrefixWorth(t, Last[n]) = PrefixWorth(t, First[n] - 1) + PushView(t)[n]
         /\ PrefixWorth(t, Last[n]) \in Nat /\ PrefixWorth(t, First[n] - 1) \in Nat
<1> DEFINE W == PushView(t)
           Pre(k) == PrefixWorth(t, k)
           P == {m \in Nodes : Pre(Last[m]) = Pre(First[m] - 1) + W[m]}
<1>1. \A m \in Leaves : m \in P
  BY Numbers, FirstIs, LastIs, PrefixGrows
<1>0. ASSUME NEW m \in Nodes PROVE Pre(Last[m]) \in Nat /\ Pre(First[m] - 1) \in Nat
  <2>1. /\ Last[m] \in (LIQUIDITYNODES - 1)..(2 * LIQUIDITYNODES - 1)
        /\ First[m] - 1 \in (LIQUIDITYNODES - 1)..(2 * LIQUIDITYNODES - 1)
    BY SpansAreIntervals, Width
  <2> QED BY <2>1, PrefixGrows
<1>2. ASSUME NEW m \in Inner, 2 * m \in P, 2 * m + 1 \in P PROVE m \in P
  <2>1. /\ First[2 * m] = First[m] /\ Last[2 * m + 1] = Last[m]
        /\ Last[2 * m] + 1 = First[2 * m + 1]
    BY Spans
  <2>2. W[m] = W[2 * m] + W[2 * m + 1] /\ W[2 * m] \in Nat /\ W[2 * m + 1] \in Nat
    BY ViewSplits
  <2>3. m \in Nodes /\ 2 * m \in Nodes /\ 2 * m + 1 \in Nodes
    BY Children
  <2>4. First[2 * m + 1] - 1 = Last[2 * m]
    BY <2>1, <2>3, SpansAreIntervals
  <2>5. Pre(Last[2 * m]) = Pre(First[2 * m] - 1) + W[2 * m]
    BY <1>2
  <2>6. Pre(Last[2 * m + 1]) = Pre(First[2 * m + 1] - 1) + W[2 * m + 1]
    BY <1>2
  <2>7. Pre(Last[m]) \in Nat /\ Pre(First[m] - 1) \in Nat /\ Pre(Last[2 * m]) \in Nat
    BY <1>0, <2>3
  <2> HIDE DEF Pre, W
  <2>8. Pre(Last[m]) = Pre(First[m] - 1) + W[m]
    BY <2>1, <2>2, <2>4, <2>5, <2>6, <2>7
  <2> QED BY <2>3, <2>8 DEF Pre, W
<1>3. Nodes \subseteq P
  <2> HIDE DEF P
  <2> QED BY <1>1, <1>2, UpTheTree
<1> QED BY <1>0, <1>3

Unused(t, next) == \A n \in Leaves : n >= next => t[n] = 0

\* The used leaves are worth what the root holds.
LEMMA RootWorth ==
  ASSUME NEW t \in Trees, Rooted(t)
  PROVE  /\ PrefixWorth(t, 2 * LIQUIDITYNODES - 1) = t[1] /\ t[1] \in Nat
         /\ \A k \in (LIQUIDITYNODES - 1)..(2 * LIQUIDITYNODES - 1) :
              PrefixWorth(t, k) \in Nat /\ PrefixWorth(t, k) <= t[1]
         /\ \A next \in LIQUIDITYNODES..(2 * LIQUIDITYNODES) : Unused(t, next) =>
              \A k \in (next - 1)..(2 * LIQUIDITYNODES - 1) : PrefixWorth(t, k) = t[1]
<1>1. t[1] \in Nat
  BY Numbers DEF Trees
<1>2. PrefixWorth(t, 2 * LIQUIDITYNODES - 1) = t[1]
  BY <1>1, Numbers, SpansAreIntervals, SpanWorth, PrefixGrows, ViewIs
<1>3. ASSUME NEW k \in (LIQUIDITYNODES - 1)..(2 * LIQUIDITYNODES - 1)
      PROVE  PrefixWorth(t, k) \in Nat /\ PrefixWorth(t, k) <= t[1]
  <2>1. /\ 2 * LIQUIDITYNODES - 1 \in (LIQUIDITYNODES - 1)..(2 * LIQUIDITYNODES - 1)
        /\ k <= 2 * LIQUIDITYNODES - 1
    BY Width
  <2> QED BY <1>2, <2>1, PrefixGrows, PrefixOrder
<1>4. ASSUME NEW next \in LIQUIDITYNODES..(2 * LIQUIDITYNODES), Unused(t, next),
             NEW k \in (next - 1)..(2 * LIQUIDITYNODES - 1)
      PROVE  PrefixWorth(t, k) = t[1]
  <2>1. /\ k \in (LIQUIDITYNODES - 1)..(2 * LIQUIDITYNODES - 1)
        /\ 2 * LIQUIDITYNODES - 1 \in (LIQUIDITYNODES - 1)..(2 * LIQUIDITYNODES - 1)
        /\ k <= 2 * LIQUIDITYNODES - 1
    BY Width
  <2>2. \A n \in (k + 1)..(2 * LIQUIDITYNODES - 1) : n \in Leaves /\ n >= next
    BY <2>1, Width DEF Leaves
  <2>3. \A n \in (k + 1)..(2 * LIQUIDITYNODES - 1) : PushView(t)[n] = 0
    BY <1>4, <2>2, Numbers, ViewIs DEF Unused
  <2> QED BY <1>2, <2>1, <2>3, PrefixOrder
<1> QED BY <1>1, <1>2, <1>3, <1>4

\* What a node on the way to r holds for the leaves up to r.
Held(t, n, r) == PrefixWorth(t, r) - PrefixWorth(t, First[n] - 1)

\* What a node holds of a range goes to its children as the range does.
LEMMA HeldIs ==
  ASSUME NEW t \in Trees, Rooted(t), NEW r \in Leaves, NEW n \in Above(r)
  PROVE  LET W == PushView(t)
         IN  /\ Held(t, n, r) \in Nat /\ Held(t, n, r) <= W[n] /\ W[n] \in Nat
             /\ PrefixWorth(t, Last[n]) - PrefixWorth(t, r) = W[n] - Held(t, n, r)
             /\ r = Last[n] => Held(t, n, r) = W[n]
             /\ n \in Inner /\ r <= Last[2 * n] => Held(t, 2 * n, r) = Held(t, n, r)
             /\ n \in Inner /\ r > Last[2 * n] => Held(t, n, r) = W[2 * n] + Held(t, 2 * n + 1, r)
<1> DEFINE W == PushView(t)
           Pre(k) == PrefixWorth(t, k)
           I == (LIQUIDITYNODES - 1)..(2 * LIQUIDITYNODES - 1)
<1>1. n \in Nodes /\ First[n] <= r /\ r <= Last[n] /\ r \in Nat
  BY Numbers DEF Above
<1>2. First[n] - 1 \in I /\ Last[n] \in I /\ r \in I /\ First[n] \in Nat /\ Last[n] \in Nat
  BY <1>1, SpansAreIntervals, Width
<1>3. Pre(First[n] - 1) \in Nat /\ Pre(Last[n]) \in Nat /\ Pre(r) \in Nat
  BY <1>2, PrefixGrows
<1>4. Pre(First[n] - 1) <= Pre(r) /\ Pre(r) <= Pre(Last[n])
  <2>1. First[n] - 1 <= r
    BY <1>1, <1>2
  <2> QED BY <1>1, <1>2, <2>1, PrefixOrder
<1>5. Pre(Last[n]) = Pre(First[n] - 1) + W[n]
  BY <1>1, SpanWorth
<1>6. W[n] \in Nat
  BY <1>1, ViewIs DEF Trees
<1>7. n \in Inner /\ r <= Last[2 * n] => Held(t, 2 * n, r) = Held(t, n, r)
  BY Spans DEF Held
<1>8. ASSUME n \in Inner, r > Last[2 * n] PROVE Held(t, n, r) = W[2 * n] + Held(t, 2 * n + 1, r)
  <2>1. First[2 * n] = First[n] /\ Last[2 * n] + 1 = First[2 * n + 1]
    BY <1>8, Spans
  <2>2. 2 * n \in Nodes /\ 2 * n + 1 \in Nodes
    BY <1>8, Children
  <2>3. First[2 * n + 1] - 1 = Last[2 * n]
    BY <2>1, <2>2, SpansAreIntervals
  <2>4. /\ Pre(Last[2 * n]) = Pre(First[n] - 1) + W[2 * n]
        /\ Pre(Last[2 * n]) \in Nat
    BY <2>1, <2>2, SpanWorth
  <2>5. W[2 * n] \in Nat
    BY <2>2, ViewIs DEF Trees
  <2>6. Held(t, n, r) = Pre(r) - Pre(First[n] - 1) /\ Held(t, 2 * n + 1, r) = Pre(r) - Pre(Last[2 * n])
    BY <2>3 DEF Held
  <2> HIDE DEF W, Pre
  <2> QED BY <1>3, <2>4, <2>5, <2>6
<1>9. Held(t, n, r) = Pre(r) - Pre(First[n] - 1)
  BY DEF Held
<1>10. r = Last[n] => Held(t, n, r) = Pre(Last[n]) - Pre(First[n] - 1)
  BY <1>9
<1> HIDE DEF Pre, W
<1>11. /\ Held(t, n, r) \in Nat /\ Held(t, n, r) <= W[n]
       /\ Pre(Last[n]) - Pre(r) = W[n] - Held(t, n, r)
       /\ r = Last[n] => Held(t, n, r) = W[n]
  BY <1>3, <1>4, <1>5, <1>6, <1>9, <1>10
<1> QED BY <1>6, <1>7, <1>8, <1>11 DEF W, Pre

\* The root holds the whole range.
LEMMA HeldByRoot ==
  ASSUME NEW t \in Trees, NEW r \in Leaves
  PROVE  Held(t, 1, r) = PrefixWorth(t, r)
<1>1. PrefixWorth(t, First[1] - 1) = 0
  BY SpansAreIntervals, PrefixGrows
<1>2. PrefixWorth(t, r) \in Nat
  BY PrefixGrows, Width DEF Leaves
<1> QED BY <1>1, <1>2 DEF Held

-----------------------------------------------------------------------------
(* What the tree keeps between the operations.                             *)

\* A node whose leaves are not all in use is not stale.
Fresh(t, next) == \A n \in Inner : Last[n] >= next => Exact(t, n)

TreeInv(t, next) == t \in Trees /\ Rooted(t) /\ Unused(t, next) /\ Fresh(t, next)

\* Above the leaves that are not all in use nothing is stale.
LEMMA FreshView ==
  ASSUME NEW t, NEW next \in Nat, TreeInv(t, next), NEW n \in Nodes, n = 1 \/ Last[n \div 2] >= next
  PROVE  PushView(t)[n] = t[n]
<1> DEFINE D == {m \in Nodes : m = 1 \/ Last[m \div 2] >= next}
<1>1. ASSUME NEW m \in D, m # 1 PROVE m \div 2 \in D /\ Exact(t, m \div 2)
  <2> DEFINE p == m \div 2
             q == p \div 2
  <2>1. m \in Nodes /\ p \in Inner /\ p \in Nodes /\ Last[p] >= next
    BY <1>1, Parent
  <2>2. Exact(t, p)
    BY <2>1 DEF TreeInv, Fresh
  <2>3. p = 1 \/ Last[q] >= next
    <3> SUFFICES ASSUME p # 1 PROVE Last[q] >= next
      OBVIOUS
    <3>1. q \in Inner /\ (p = 2 * q \/ p = 2 * q + 1)
      BY <2>1, Parent
    <3>2. q \in Nodes /\ 2 * q \in Nodes /\ 2 * q + 1 \in Nodes
      BY <3>1, Children
    <3> HIDE DEF q, p
    <3>3. Last[2 * q] + 1 = First[2 * q + 1] /\ Last[2 * q + 1] = Last[q]
      BY <3>1, Spans
    <3>4. /\ Last[2 * q] \in Nat /\ Last[q] \in Nat /\ First[2 * q + 1] <= Last[2 * q + 1]
      BY <3>2, SpansAreIntervals
    <3> QED BY <2>1, <3>1, <3>3, <3>4
  <2> QED BY <2>1, <2>2, <2>3
<1>2. n \in D
  OBVIOUS
<1>3. t \in Trees /\ D \in SUBSET Nodes
  BY DEF TreeInv
<1> HIDE DEF D
<1> QED BY <1>1, <1>2, <1>3, ViewOfExact

\* Views agree on a node when they agree on its parent and the trees agree on its children.
LEMMA ViewsAgree ==
  ASSUME NEW t \in Trees, NEW u \in Trees, NEW n \in Inner, PushView(u)[n] = PushView(t)[n],
         u[2 * n] = t[2 * n], u[2 * n + 1] = t[2 * n + 1]
  PROVE  /\ PushView(u)[2 * n] = PushView(t)[2 * n]
         /\ PushView(u)[2 * n + 1] = PushView(t)[2 * n + 1]
<1> DEFINE U == PushView(u)
           W == PushView(t)
<1>1. /\ W[2 * n] = LeftShare(t, n, W[n])
      /\ W[2 * n + 1] = IF t[2 * n + 1] = 0 THEN 0 ELSE W[n] - LeftShare(t, n, W[n])
  BY ViewIs
<1>2. /\ U[2 * n] = LeftShare(u, n, U[n])
      /\ U[2 * n + 1] = IF u[2 * n + 1] = 0 THEN 0 ELSE U[n] - LeftShare(u, n, U[n])
  BY ViewIs
<1>3. \A a : LeftShare(u, n, a) = LeftShare(t, n, a)
  BY DEF LeftShare
<1> HIDE DEF U, W
<1>4. U[n] = W[n]
  BY DEF U, W
<1> QED BY <1>1, <1>2, <1>3, <1>4 DEF U, W

-----------------------------------------------------------------------------
(* A push, and a change of one leaf.                                       *)

\* The children after a split.
LEMMA SplitIs ==
  ASSUME NEW v \in Trees, NEW p \in Inner
  PROVE  /\ SplitNode(v, p) \in Trees
         /\ SplitNode(v, p)[2 * p] = IF v[2 * p] > 0 THEN LeftShare(v, p, v[p]) ELSE v[2 * p]
         /\ SplitNode(v, p)[2 * p + 1] =
              IF v[2 * p + 1] > 0 THEN v[p] - LeftShare(v, p, v[p]) ELSE v[2 * p + 1]
         /\ \A n \in Nodes \ {2 * p, 2 * p + 1} : SplitNode(v, p)[n] = v[n]
<1> DEFINE s == LeftShare(v, p, v[p])
<1>1. v[p] \in Nat /\ v[2 * p] \in Nat /\ v[2 * p + 1] \in Nat
  BY TreeValues
<1>2. s \in Nat /\ v[p] - s \in Nat
  BY <1>1, LeftShareIs
<1>3. 2 * p \in Nodes /\ 2 * p + 1 \in Nodes /\ 2 * p # 2 * p + 1
  BY Children
<1>4. SplitNode(v, p) = [v EXCEPT ![2 * p] = IF v[2 * p] > 0 THEN s ELSE v[2 * p],
                                  ![2 * p + 1] = IF v[2 * p + 1] > 0 THEN v[p] - s
                                                 ELSE v[2 * p + 1]]
  BY <1>3 DEF SplitNode, Trees
<1> HIDE DEF s
<1>5. SplitNode(v, p) \in Trees
  BY <1>1, <1>2, <1>3, <1>4 DEF Trees
<1>6. /\ SplitNode(v, p)[2 * p] = IF v[2 * p] > 0 THEN s ELSE v[2 * p]
      /\ SplitNode(v, p)[2 * p + 1] = IF v[2 * p + 1] > 0 THEN v[p] - s ELSE v[2 * p + 1]
      /\ \A n \in Nodes \ {2 * p, 2 * p + 1} : SplitNode(v, p)[n] = v[n]
  BY <1>3, <1>4 DEF Trees
<1> QED BY <1>5, <1>6 DEF s

\* A push leaves its worth in every node whose parent is on the way to the leaf.
Split(n, leaf) == n # 1 /\ n \div 2 \in Above(leaf)

\* What a push leaves in each node.
LEMMA PushIs ==
  ASSUME NEW t \in Trees, NEW leaf \in Leaves
  PROVE  /\ Push(t, leaf) \in Trees
         /\ \A n \in Nodes : Push(t, leaf)[n] = IF Split(n, leaf) THEN PushView(t)[n] ELSE t[n]
<1> DEFINE W == PushView(t)
           Solves(g) == g = [n \in Nodes |-> IF n = 1 THEN t ELSE SplitNode(g[n \div 2], n \div 2)]
           f == CHOOSE g : Solves(g)
           G == [n \in Nodes |-> [v \in Trees |-> IF n = 1 THEN v ELSE SplitNode(v, n \div 2)]]
<1>1. G \in [Nodes -> [Trees -> Trees]]
  <2>1. \A n \in Nodes, v \in Trees : n # 1 => SplitNode(v, n \div 2) \in Trees
    BY Parent, SplitIs
  <2> QED BY <2>1
<1>2. PICK g : IsHandedDown(g, Trees, t, G)
  <2> HIDE DEF G
  <2> QED BY <1>1, ParentRecursion
<1>3. g \in [Nodes -> Trees] /\ \A n \in Nodes : g[n] = IF n = 1 THEN t ELSE G[n][g[n \div 2]]
  <2> HIDE DEF G
  <2> QED BY <1>2 DEF IsHandedDown
<1>4. Solves(g)
  <2>1. ASSUME NEW n \in Nodes PROVE g[n] = IF n = 1 THEN t ELSE SplitNode(g[n \div 2], n \div 2)
    <3>1. n # 1 => g[n \div 2] \in Trees
      BY <1>3, Parent
    <3> QED BY <1>3, <3>1
  <2>2. g = [n \in Nodes |-> g[n]]
    BY <1>3
  <2> HIDE DEF G
  <2> QED BY <2>1, <2>2
<1>5. Solves(f)
  <2> HIDE DEF Solves
  <2> QED BY <1>4
<1>6. Push(t, leaf) = f[leaf]
  BY DEF Push
<1> HIDE DEF f, G
<1>7. \A n \in Nodes : f[n] = IF n = 1 THEN t ELSE SplitNode(f[n \div 2], n \div 2)
  BY <1>5
<1> HIDE DEF Solves
<1> DEFINE Done(n, m) == Split(n, leaf) /\ n \div 2 < m
           P == {m \in Nodes : /\ f[m] \in Trees
                               /\ \A n \in Nodes : f[m][n] = IF Done(n, m) THEN W[n] ELSE t[n]}
<1>8. 1 \in P
  <2>1. f[1] = t
    BY <1>7, Numbers
  <2>2. \A n \in Nodes : ~Done(n, 1)
    BY Parent, Children DEF Split
  <2> HIDE DEF Done
  <2> QED BY <2>1, <2>2, Numbers
<1>9. ASSUME NEW m \in Inner, m \in Above(leaf), m \in P,
             NEW c \in {2 * m, 2 * m + 1}, c \in Above(leaf)
      PROVE  c \in P
  <2> DEFINE v == f[m]
  <2>1. /\ m \in Nodes /\ c \in Nodes /\ c # 1 /\ c \div 2 = m /\ m < c /\ m \in Nat /\ c \in Nat
        /\ 2 * m \in Nodes /\ 2 * m + 1 \in Nodes
        /\ (2 * m) \div 2 = m /\ (2 * m + 1) \div 2 = m /\ 2 * m # 1 /\ 2 * m + 1 # 1
    BY Children
  <2>2. v \in Trees /\ \A n \in Nodes : v[n] = IF Done(n, m) THEN W[n] ELSE t[n]
    BY <1>9
  <2>3. f[c] = SplitNode(v, m)
    BY <1>7, <2>1
  <2>4. v[m] = W[m]
    <3>1. CASE m = 1
      BY <2>2, <3>1, Numbers, ViewIs DEF Split
    <3>2. CASE m # 1
      <4>1. Done(m, m)
        BY <1>9, <2>1, <3>2, PathUp, Parent DEF Split
      <4> HIDE DEF Done
      <4> QED BY <2>1, <2>2, <4>1
    <3> QED BY <3>1, <3>2
  <2>5. v[2 * m] = t[2 * m] /\ v[2 * m + 1] = t[2 * m + 1]
    <3>1. ~Done(2 * m, m) /\ ~Done(2 * m + 1, m)
      BY <2>1
    <3> HIDE DEF Done
    <3> QED BY <2>1, <2>2, <3>1
  <2>6. \A a : LeftShare(v, m, a) = LeftShare(t, m, a)
    BY <2>5 DEF LeftShare
  <2> HIDE DEF v
  <2>7. /\ f[c] \in Trees
        /\ f[c][2 * m] = IF t[2 * m] > 0 THEN LeftShare(t, m, W[m]) ELSE t[2 * m]
        /\ f[c][2 * m + 1] = IF t[2 * m + 1] > 0 THEN W[m] - LeftShare(t, m, W[m]) ELSE t[2 * m + 1]
        /\ \A n \in Nodes \ {2 * m, 2 * m + 1} : f[c][n] = v[n]
    BY <2>2, <2>3, <2>4, <2>5, <2>6, SplitIs
  <2>8. f[c][2 * m] = W[2 * m] /\ f[c][2 * m + 1] = W[2 * m + 1]
    <3>1. t[2 * m] \in Nat /\ t[2 * m + 1] \in Nat
      BY TreeValues
    <3>2. /\ W[2 * m] = LeftShare(t, m, W[m])
          /\ W[2 * m + 1] = IF t[2 * m + 1] = 0 THEN 0 ELSE W[m] - LeftShare(t, m, W[m])
          /\ t[2 * m] = 0 => W[2 * m] = 0
      BY <2>1, ViewIs
    <3> HIDE DEF W
    <3> QED BY <2>7, <3>1, <3>2
  <2>9. ASSUME NEW n \in Nodes PROVE f[c][n] = IF Done(n, c) THEN W[n] ELSE t[n]
    <3>1. CASE n \in {2 * m, 2 * m + 1}
      <4>1. Done(n, c)
        BY <1>9, <2>1, <3>1 DEF Split
      <4> HIDE DEF Done
      <4> QED BY <2>8, <3>1, <4>1
    <3>2. CASE n \notin {2 * m, 2 * m + 1}
      <4>1. Done(n, c) <=> Done(n, m)
        <5> SUFFICES ASSUME Split(n, leaf) PROVE (n \div 2 < c) <=> (n \div 2 < m)
          OBVIOUS
        <5> DEFINE p == n \div 2
        <5>1. p \in Above(leaf) /\ p \in Nat /\ (n = 2 * p \/ n = 2 * p + 1)
          BY Parent, Children DEF Split
        <5> HIDE DEF p
        <5>2. p # m
          BY <3>2, <5>1
        <5>3. p < c => p <= m
          BY <1>9, <2>1, <5>1, PathOrder
        <5>4. p < c <=> p < m
          BY <2>1, <5>1, <5>2, <5>3
        <5> QED BY <5>4 DEF p
      <4> HIDE DEF Done
      <4> QED BY <2>2, <2>7, <3>2, <4>1
    <3> QED BY <3>1, <3>2
  <2> HIDE DEF Done
  <2> QED BY <2>1, <2>7, <2>9
<1>10. leaf \in P
  <2>1. Above(leaf) \subseteq P
    <3> HIDE DEF P
    <3> QED BY <1>8, <1>9, DownThePath
  <2> HIDE DEF P
  <2> QED BY <2>1, PathEnds
<1>11. \A n \in Nodes : Done(n, leaf) <=> Split(n, leaf)
  <2>1. \A n \in Nodes : Split(n, leaf) => n \div 2 < leaf
    <3> SUFFICES ASSUME NEW n \in Nodes, Split(n, leaf) PROVE n \div 2 < leaf
      OBVIOUS
    <3>1. n \div 2 \in Inner
      BY Parent DEF Split
    <3>2. n \div 2 \in Nat /\ n \div 2 < LIQUIDITYNODES
      BY <3>1, Children
    <3> QED BY <3>2, Numbers, Width
  <2> QED BY <2>1
<1> HIDE DEF Done
<1> QED BY <1>6, <1>10, <1>11

\* A push changes no worth, and leaves the way to the leaf exact (_push).
LEMMA PushKeeps ==
  ASSUME NEW t \in Trees, Rooted(t), NEW leaf \in Leaves
  PROVE  LET u == Push(t, leaf)
         IN  /\ u \in Trees /\ Rooted(u) /\ PushView(u) = PushView(t)
             /\ \A n \in Above(leaf) : u[n] = PushView(t)[n]
             /\ \A n \in Above(leaf) \cap Inner : Exact(u, n)
             /\ u[1] = t[1]
             /\ \A next \in Nat : TreeInv(t, next) => TreeInv(u, next)
<1> DEFINE u == Push(t, leaf)
           W == PushView(t)
<1>1. u \in Trees /\ \A n \in Nodes : u[n] = IF Split(n, leaf) THEN W[n] ELSE t[n]
  BY PushIs
<1>2. W \in Trees /\ W[1] = t[1] /\ \A n \in Nodes : t[n] = 0 => W[n] = 0
  BY ViewIs
<1>3. ASSUME NEW n \in Above(leaf) PROVE u[n] = W[n]
  <2>1. n \in Nodes /\ (n # 1 => Split(n, leaf))
    BY PathUp DEF Above, Split
  <2> HIDE DEF u, W
  <2> QED BY <1>1, <1>2, <2>1
<1>4. ASSUME NEW n \in Inner, n \in Above(leaf)
      PROVE  u[2 * n] = W[2 * n] /\ u[2 * n + 1] = W[2 * n + 1] /\ Exact(u, n)
  <2>1. Split(2 * n, leaf) /\ Split(2 * n + 1, leaf) /\ 2 * n \in Nodes /\ 2 * n + 1 \in Nodes
    BY <1>4, Children DEF Split
  <2>2. W[n] = W[2 * n] + W[2 * n + 1]
    BY ViewSplits
  <2> HIDE DEF u, W
  <2> QED BY <1>1, <1>3, <1>4, <2>1, <2>2 DEF Exact
<1>5. ASSUME NEW n \in Inner, n \notin Above(leaf)
      PROVE  u[2 * n] = t[2 * n] /\ u[2 * n + 1] = t[2 * n + 1]
  <2>1. ~Split(2 * n, leaf) /\ ~Split(2 * n + 1, leaf) /\ 2 * n \in Nodes /\ 2 * n + 1 \in Nodes
    BY <1>5, Children DEF Split
  <2> HIDE DEF u, W
  <2> QED BY <1>1, <2>1
<1>6. ASSUME NEW n \in Nodes, u[n] > 0 PROVE t[n] > 0
  <2>1. u[n] = W[n] \/ u[n] = t[n]
    BY <1>1
  <2>2. W[n] > 0 => t[n] > 0
    BY ViewIs
  <2> HIDE DEF u, W
  <2> QED BY <1>6, <2>1, <2>2
<1>7. Rooted(u)
  <2> SUFFICES ASSUME NEW n \in Inner, u[n] > 0 PROVE u[2 * n] > 0 \/ u[2 * n + 1] > 0
    BY DEF Rooted
  <2>1. u[n] \in Nat /\ u[2 * n] \in Nat /\ u[2 * n + 1] \in Nat
    BY <1>1, TreeValues
  <2>2. CASE n \in Above(leaf)
    <3> HIDE DEF u, W
    <3> QED BY <1>4, <2>1, <2>2 DEF Exact
  <2>3. CASE n \notin Above(leaf)
    <3>1. t[n] > 0
      <4> HIDE DEF u, W
      <4> QED BY <1>6, Children
    <3> HIDE DEF u, W
    <3> QED BY <1>5, <2>3, <3>1 DEF Rooted
  <2> QED BY <2>2, <2>3
<1>8. PushView(u) = W
  <2> DEFINE P == {n \in Nodes : PushView(u)[n] = W[n]}
  <2>1. 1 \in P
    <3>1. ~Split(1, leaf)
      BY DEF Split
    <3>2. PushView(u)[1] = u[1]
      BY <1>1, ViewIs
    <3> HIDE DEF u, W
    <3> QED BY <1>1, <1>2, <3>1, <3>2, Numbers
  <2>2. ASSUME NEW n \in Nodes, n # 1, n \div 2 \in P PROVE n \in P
    <3> DEFINE p == n \div 2
    <3>1. p \in Inner /\ (n = 2 * p \/ n = 2 * p + 1) /\ PushView(u)[p] = W[p]
      BY <2>2, Parent
    <3> HIDE DEF p
    <3>2. CASE p \notin Above(leaf)
      <4>1. PushView(u)[2 * p] = W[2 * p] /\ PushView(u)[2 * p + 1] = W[2 * p + 1]
        BY <1>1, <1>5, <3>1, <3>2, ViewsAgree
      <4> QED BY <3>1, <4>1
    <3>3. CASE p \in Above(leaf)
      <4>1. u[2 * p] = W[2 * p] /\ u[2 * p + 1] = W[2 * p + 1]
        BY <1>4, <3>1, <3>3
      <4>2. W[p] = W[2 * p] + W[2 * p + 1] /\ W[p] \in Nat /\ W[2 * p] \in Nat /\ W[2 * p + 1] \in Nat
        BY <3>1, ViewSplits
      <4>3. /\ PushView(u)[2 * p] = LeftShare(u, p, PushView(u)[p])
            /\ PushView(u)[2 * p + 1] = IF u[2 * p + 1] = 0 THEN 0
                                       ELSE PushView(u)[p] - LeftShare(u, p, PushView(u)[p])
        BY <1>1, <3>1, ViewIs
      <4> HIDE DEF u, W
      <4>4. LeftShare(u, p, W[p]) = W[2 * p]
        BY <1>1, <3>1, <4>1, <4>2, LeftShareIs
      <4> QED BY <3>1, <4>1, <4>2, <4>3, <4>4
    <3> QED BY <3>2, <3>3
  <2>3. Nodes \subseteq P
    <3> HIDE DEF P
    <3> QED BY <2>1, <2>2, DownTheTree
  <2>4. PushView(u) \in Trees
    BY <1>1, ViewIs
  <2>5. \A n \in Nodes : PushView(u)[n] = W[n]
    BY <2>3
  <2> HIDE DEF u, W
  <2> QED BY <1>2, <2>4, <2>5 DEF Trees
<1>9. ASSUME NEW next \in Nat, TreeInv(t, next) PROVE TreeInv(u, next)
  <2>1. Unused(u, next)
    <3> SUFFICES ASSUME NEW n \in Leaves, n >= next PROVE u[n] = 0
      BY DEF Unused
    <3>1. n \in Nodes /\ t[n] = 0
      BY <1>9, Numbers DEF TreeInv, Unused
    <3> HIDE DEF u, W
    <3> QED BY <1>1, <1>2, <3>1
  <2>2. Fresh(u, next)
    <3> SUFFICES ASSUME NEW n \in Inner, Last[n] >= next PROVE Exact(u, n)
      BY DEF Fresh
    <3>1. CASE n \in Above(leaf)
      BY <1>4, <3>1
    <3>2. CASE n \notin Above(leaf)
      <4>1. n \in Nodes
        BY Children
      <4>2. Exact(t, n)
        BY <1>9 DEF TreeInv, Fresh
      <4>3. u[n] = t[n]
        <5>1. CASE ~Split(n, leaf)
          BY <1>1, <4>1, <5>1
        <5>2. CASE Split(n, leaf)
          <6>1. n # 1 /\ n \div 2 \in Inner /\ (n = 2 * (n \div 2) \/ n = 2 * (n \div 2) + 1)
            BY <4>1, <5>2, Parent DEF Split
          <6> DEFINE p == n \div 2
          <6>2. p \in Inner /\ (n = 2 * p \/ n = 2 * p + 1)
            BY <6>1
          <6> HIDE DEF p
          <6>3. p \in Nodes /\ 2 * p \in Nodes /\ 2 * p + 1 \in Nodes
            BY <6>2, Children
          <6>4. Last[2 * p + 1] = Last[p] /\ Last[2 * p] + 1 = First[2 * p + 1]
            BY <6>2, Spans
          <6>5. Last[p] >= next
            BY <6>2, <6>3, <6>4, SpansAreIntervals
          <6>6. W[n] = t[n]
            BY <1>9, <4>1, <6>5, FreshView DEF p
          <6> HIDE DEF u, W
          <6> QED BY <1>1, <4>1, <5>2, <6>6
        <5> QED BY <5>1, <5>2
      <4> HIDE DEF u, W
      <4> QED BY <1>5, <3>2, <4>2, <4>3 DEF Exact
    <3> QED BY <3>1, <3>2
  <2> QED BY <1>1, <1>7, <2>1, <2>2 DEF TreeInv
<1>10. u[1] = t[1]
  <2>1. ~Split(1, leaf)
    BY DEF Split
  <2> HIDE DEF u, W
  <2> QED BY <1>1, <2>1, Numbers
<1> QED BY <1>1, <1>3, <1>4, <1>7, <1>8, <1>9, <1>10

\* A change of all nodes on a way that is not stale changes the worth of these, and of no other.
LEMMA PathChange ==
  ASSUME NEW t \in Trees, Rooted(t), NEW leaf \in Leaves, \A n \in Above(leaf) \cap Inner : Exact(t, n),
         NEW d \in Int, NEW v \in Trees,
         \A n \in Nodes : v[n] = IF n \in Above(leaf) THEN t[n] + d ELSE t[n]
  PROVE  /\ Rooted(v)
         /\ \A n \in Nodes : PushView(v)[n] = IF n \in Above(leaf) THEN PushView(t)[n] + d
                                              ELSE PushView(t)[n]
         /\ \A n \in Above(leaf) : PushView(t)[n] = t[n]
         /\ \A next : Fresh(t, next) => Fresh(v, next)
<1> DEFINE V == PushView(v)
           W == PushView(t)
<1>0. \A n \in Nodes : t[n] \in Nat /\ v[n] \in Nat
  BY DEF Trees
<1>1. ASSUME NEW n \in Inner, n \in Above(leaf) PROVE Exact(v, n)
  <2>1. 2 * n \in Nodes /\ 2 * n + 1 \in Nodes /\ n \in Nodes
    BY Children
  <2>2. Exact(t, n)
    BY <1>1
  <2>3. Last[2 * n] \in Nat /\ leaf \in Nat
    BY <2>1, SpansAreIntervals, Numbers
  <2>4. \/ 2 * n \in Above(leaf) /\ 2 * n + 1 \notin Above(leaf)
        \/ 2 * n \notin Above(leaf) /\ 2 * n + 1 \in Above(leaf)
    BY <1>1, <2>3, PathDown
  <2> QED BY <1>0, <1>1, <2>1, <2>2, <2>4 DEF Exact
<1>2. ASSUME NEW n \in Inner, n \notin Above(leaf)
      PROVE  v[n] = t[n] /\ v[2 * n] = t[2 * n] /\ v[2 * n + 1] = t[2 * n + 1]
  <2>1. 2 * n \in Nodes /\ 2 * n + 1 \in Nodes /\ n \in Nodes
        /\ 2 * n # 1 /\ 2 * n + 1 # 1 /\ (2 * n) \div 2 = n /\ (2 * n + 1) \div 2 = n
    BY Children
  <2>2. 2 * n \notin Above(leaf) /\ 2 * n + 1 \notin Above(leaf)
    BY <1>2, <2>1, PathUp
  <2> QED BY <1>2, <2>1, <2>2
<1>3. Rooted(v)
  <2> SUFFICES ASSUME NEW n \in Inner, v[n] > 0 PROVE v[2 * n] > 0 \/ v[2 * n + 1] > 0
    BY DEF Rooted
  <2>1. v[n] \in Nat /\ v[2 * n] \in Nat /\ v[2 * n + 1] \in Nat
    BY TreeValues
  <2>2. CASE n \in Above(leaf)
    BY <1>1, <2>1, <2>2 DEF Exact
  <2>3. CASE n \notin Above(leaf)
    BY <1>2, <2>3 DEF Rooted
  <2> QED BY <2>2, <2>3
<1> DEFINE D == {n \in Nodes : n = 1 \/ n \div 2 \in Above(leaf)}
<1>4. /\ \A n \in D : n # 1 => n \div 2 \in D /\ Exact(t, n \div 2)
      /\ \A n \in D : n # 1 => n \div 2 \in D /\ Exact(v, n \div 2)
  <2> SUFFICES ASSUME NEW n \in D, n # 1
               PROVE  n \div 2 \in D /\ Exact(t, n \div 2) /\ Exact(v, n \div 2)
    OBVIOUS
  <2>1. n \div 2 \in Inner /\ n \div 2 \in Nodes /\ n \div 2 \in Above(leaf)
    BY Parent
  <2>2. n \div 2 \in D
    BY <2>1, PathUp
  <2> HIDE DEF D
  <2> QED BY <1>1, <2>1, <2>2
<1>5. \A n \in D : W[n] = t[n] /\ V[n] = v[n]
  <2>1. D \in SUBSET Nodes
    OBVIOUS
  <2> HIDE DEF D
  <2> QED BY <1>4, <2>1, ViewOfExact
<1>6. Above(leaf) \subseteq D
  BY PathUp DEF Above
<1> DEFINE P == {n \in Nodes : V[n] = IF n \in Above(leaf) THEN W[n] + d ELSE W[n]}
<1>7. \A n \in D : n \in P
  <2> SUFFICES ASSUME NEW n \in D PROVE n \in P
    OBVIOUS
  <2>1. n \in Nodes
    OBVIOUS
  <2> HIDE DEF D, V, W
  <2> QED BY <1>5, <2>1
<1>8. Nodes \subseteq P
  <2>1. 1 \in P
    BY <1>7, Numbers
  <2>2. ASSUME NEW n \in Nodes, n # 1, n \div 2 \in P PROVE n \in P
    <3>1. CASE n \in D
      BY <1>7, <3>1
    <3>2. CASE n \notin D
      <4> DEFINE p == n \div 2
      <4>1. p \in Inner /\ (n = 2 * p \/ n = 2 * p + 1) /\ p \notin Above(leaf) /\ p \in P
        BY <2>2, <3>2, Parent
      <4>2. n \notin Above(leaf)
        BY <1>6, <3>2
      <4> HIDE DEF p
      <4>3. V[p] = W[p]
        BY <4>1
      <4>4. V[2 * p] = W[2 * p] /\ V[2 * p + 1] = W[2 * p + 1]
        BY <1>2, <4>1, <4>3, ViewsAgree
      <4> HIDE DEF V, W
      <4> QED BY <4>1, <4>2, <4>4
    <3> QED BY <3>1, <3>2
  <2> HIDE DEF P
  <2> QED BY <2>1, <2>2, DownTheTree
<1>9. \A n \in Nodes : V[n] = IF n \in Above(leaf) THEN W[n] + d ELSE W[n]
  BY <1>8
<1>10. ASSUME NEW next, Fresh(t, next) PROVE Fresh(v, next)
  <2> SUFFICES ASSUME NEW n \in Inner, Last[n] >= next PROVE Exact(v, n)
    BY DEF Fresh
  <2>1. CASE n \in Above(leaf)
    BY <1>1, <2>1
  <2>2. CASE n \notin Above(leaf)
    BY <1>2, <1>10, <2>2 DEF Fresh, Exact
  <2> QED BY <2>1, <2>2
<1> HIDE DEF D, P, V, W
<1> QED BY <1>3, <1>5, <1>6, <1>9, <1>10 DEF V, W

\* A deposit: the new leaf is worth it, and no other leaf is touched.
LEMMA AddedLeaf ==
  ASSUME NEW t, NEW next \in Leaves, TreeInv(t, next), NEW a \in Nat, a > 0
  PROVE  LET v == NodeAddLiquidity(t, next, a)
         IN  /\ TreeInv(v, next + 1)
             /\ v[1] = t[1] + a
             /\ PushView(v)[next] = a /\ PushView(t)[next] = 0
             /\ \A k \in Leaves \ {next} : PushView(v)[k] = PushView(t)[k]
<1> DEFINE v == NodeAddLiquidity(t, next, a)
<1>0. t \in Trees /\ Rooted(t) /\ Unused(t, next) /\ Fresh(t, next) /\ next \in Nat /\ next \in Nodes
  BY Numbers DEF TreeInv
<1>1. v \in Trees /\ \A n \in Nodes : v[n] = IF n \in Above(next) THEN t[n] + a ELSE t[n]
  BY <1>0 DEF NodeAddLiquidity, UpdateUp, ChangeAmount, Trees
<1> HIDE DEF v
<1>2. \A n \in Above(next) \cap Inner : Exact(t, n)
  <2> SUFFICES ASSUME NEW n \in Above(next), n \in Inner PROVE Exact(t, n)
    OBVIOUS
  <2>1. Last[n] >= next
    BY <1>0, Children, SpansAreIntervals DEF Above
  <2> QED BY <1>0, <2>1 DEF Fresh
<1>3. /\ Rooted(v)
      /\ \A n \in Nodes : PushView(v)[n] = IF n \in Above(next) THEN PushView(t)[n] + a
                                           ELSE PushView(t)[n]
      /\ Fresh(v, next)
  BY <1>0, <1>1, <1>2, PathChange
<1>4. Fresh(v, next + 1)
  <2> SUFFICES ASSUME NEW n \in Inner, Last[n] >= next + 1 PROVE Exact(v, n)
    BY DEF Fresh
  <2>1. Last[n] >= next
    BY <1>0, Children, SpansAreIntervals
  <2> QED BY <1>3, <2>1 DEF Fresh
<1>5. Unused(v, next + 1)
  <2> SUFFICES ASSUME NEW n \in Leaves, n >= next + 1 PROVE v[n] = 0
    BY DEF Unused
  <2>1. n \in Nodes /\ n \in Nat /\ n # next /\ n >= next
    BY <1>0, Numbers
  <2>2. n \notin Above(next)
    BY <2>1, PathEnds
  <2> QED BY <1>0, <1>1, <2>1, <2>2 DEF Unused
<1>6. v[1] = t[1] + a
  BY <1>1, Numbers, PathEnds
<1>7. PushView(t)[next] = 0
  BY <1>0, ViewIs DEF Unused
<1>8. PushView(v)[next] = a
  BY <1>0, <1>3, <1>7, PathEnds
<1>9. \A k \in Leaves \ {next} : PushView(v)[k] = PushView(t)[k]
  BY <1>3, Numbers, PathEnds
<1> QED BY <1>1, <1>3, <1>4, <1>5, <1>6, <1>7, <1>8, <1>9 DEF TreeInv, v

\* A withdrawal: the leaf loses what is paid, no more than its worth, and no other leaf is touched.
LEMMA WithdrawnLeaf ==
  ASSUME NEW t, NEW next \in Nat, TreeInv(t, next), NEW leaf \in Leaves, NEW percent \in 0..ONE
  PROVE  LET W == PushView(t)
             w == NodeWithdrawPercent(t, leaf, percent)
             v == w.tree
         IN  /\ w.assets = (W[leaf] * percent) \div ONE
             /\ w.assets \in Nat /\ w.assets <= W[leaf] /\ w.assets <= t[1]
             /\ TreeInv(v, next)
             /\ v[1] = t[1] - w.assets
             /\ PushView(v)[leaf] = W[leaf] - w.assets
             /\ \A k \in Leaves \ {leaf} : PushView(v)[k] = W[k]
<1> DEFINE W == PushView(t)
           u == Push(t, leaf)
           a == (u[leaf] * percent) \div ONE
           v == UpdateUp(u, leaf, a, TRUE)
<1>0. t \in Trees /\ Rooted(t) /\ leaf \in Nodes /\ leaf \in Above(leaf) /\ ONE \in Nat /\ ONE > 0
  BY PathEnds, TreeAssumption DEF TreeInv
<1>1. /\ u \in Trees /\ Rooted(u) /\ PushView(u) = W /\ u[1] = t[1]
      /\ \A n \in Above(leaf) : u[n] = W[n]
      /\ \A n \in Above(leaf) \cap Inner : Exact(u, n)
      /\ TreeInv(u, next)
  BY <1>0, PushKeeps
<1>2. NodeWithdrawPercent(t, leaf, percent).assets = a /\ NodeWithdrawPercent(t, leaf, percent).tree = v
  BY DEF NodeWithdrawPercent
<1>3. W \in Trees /\ \A n \in Nodes : W[n] \in Nat /\ u[n] \in Nat
  BY <1>0, <1>1, ViewIs DEF Trees
<1>4. u[leaf] = W[leaf]
  BY <1>0, <1>1
<1> HIDE DEF u, W
<1>5. a \in Nat /\ a <= W[leaf]
  <2>1. W[leaf] \in Nat /\ percent \in Nat /\ percent <= ONE
    BY <1>0, <1>3
  <2>2. W[leaf] * percent = percent * W[leaf]
    BY <2>1, Times
  <2> DEFINE x == W[leaf]
  <2>3. x \in Nat
    BY <2>1
  <2> HIDE DEF x
  <2>4. (x * percent) \div ONE \in Nat /\ (x * percent) \div ONE <= x
    BY <1>0, <2>1, <2>3, Share
  <2> QED BY <1>4, <2>4 DEF x
<1>6. \A n \in Above(leaf) : W[leaf] <= W[n]
  <2> DEFINE P == {n \in Nodes : n \in Above(leaf) => W[leaf] <= W[n]}
  <2>1. \A n \in Leaves : n \in P
    BY <1>3, Numbers, PathEnds
  <2>2. ASSUME NEW n \in Inner, 2 * n \in P, 2 * n + 1 \in P PROVE n \in P
    <3> SUFFICES ASSUME n \in Above(leaf) PROVE W[leaf] <= W[n]
      BY Children
    <3>1. 2 * n \in Above(leaf) \/ 2 * n + 1 \in Above(leaf)
      <4>1. Last[2 * n] \in Nat /\ leaf \in Nat
        BY <1>0, Children, SpansAreIntervals, Numbers
      <4> QED BY <4>1, PathDown
    <3>2. W[n] = W[2 * n] + W[2 * n + 1] /\ W[2 * n] \in Nat /\ W[2 * n + 1] \in Nat
      BY <1>0, ViewSplits DEF W
    <3>3. W[leaf] <= W[2 * n] \/ W[leaf] <= W[2 * n + 1]
      BY <2>2, <3>1
    <3> QED BY <1>0, <1>3, <3>2, <3>3
  <2>3. Nodes \subseteq P
    <3> HIDE DEF P
    <3> QED BY <2>1, <2>2, UpTheTree
  <2> QED BY <2>3 DEF Above
<1> HIDE DEF a
<1>7. v \in Trees /\ \A n \in Nodes : v[n] = IF n \in Above(leaf) THEN u[n] + (0 - a) ELSE u[n]
  <2>1. ASSUME NEW n \in Nodes
        PROVE  /\ v[n] = IF n \in Above(leaf) THEN u[n] + (0 - a) ELSE u[n]
               /\ v[n] \in Nat
    <3>1. CASE n \in Above(leaf)
      <4>1. u[n] \in Nat /\ a <= u[n]
        BY <1>1, <1>3, <1>5, <1>6, <1>0, <3>1
      <4>2. v[n] = ChangeAmount(u[n], a, TRUE)
        BY <3>1 DEF UpdateUp
      <4>3. v[n] = u[n] - a
        <5> DEFINE x == u[n]
        <5>1. x \in Nat /\ a <= x /\ v[n] = ChangeAmount(x, a, TRUE)
          BY <4>1, <4>2
        <5> HIDE DEF x, v
        <5>2. v[n] = x - a
          BY <1>5, <5>1 DEF ChangeAmount
        <5> QED BY <5>2 DEF x
      <4> HIDE DEF v
      <4> QED BY <1>5, <3>1, <4>1, <4>3
    <3>2. CASE n \notin Above(leaf)
      BY <1>3, <3>2 DEF UpdateUp
    <3> QED BY <3>1, <3>2
  <2>2. v = [n \in Nodes |-> v[n]]
    BY DEF UpdateUp
  <2> HIDE DEF v
  <2> QED BY <2>1, <2>2 DEF Trees
<1> HIDE DEF v
<1>8. /\ Rooted(v)
      /\ \A n \in Nodes : PushView(v)[n] = IF n \in Above(leaf) THEN W[n] + (0 - a) ELSE W[n]
      /\ \A m : Fresh(u, m) => Fresh(v, m)
  <2> DEFINE d == 0 - a
  <2>1. d \in Int /\ \A n \in Nodes : v[n] = IF n \in Above(leaf) THEN u[n] + d ELSE u[n]
    BY <1>5, <1>7
  <2> HIDE DEF d
  <2>2. /\ Rooted(v)
        /\ \A n \in Nodes : PushView(v)[n] = IF n \in Above(leaf) THEN PushView(u)[n] + d
                                                 ELSE PushView(u)[n]
        /\ \A m : Fresh(u, m) => Fresh(v, m)
    BY <1>1, <1>7, <2>1, PathChange
  <2> QED BY <1>1, <2>2 DEF d
<1>9. Unused(v, next)
  <2> SUFFICES ASSUME NEW n \in Leaves, n >= next PROVE v[n] = 0
    BY DEF Unused
  <2>1. n \in Nodes /\ u[n] = 0
    BY <1>1, Numbers DEF TreeInv, Unused
  <2>2. CASE n \in Above(leaf)
    <3>1. n = leaf
      BY <2>2, PathEnds
    <3> QED BY <1>4, <1>5, <1>7, <2>1, <3>1
  <2>3. CASE n \notin Above(leaf)
    BY <1>7, <2>1, <2>3
  <2> QED BY <2>2, <2>3
<1>10. TreeInv(v, next)
  BY <1>1, <1>7, <1>8, <1>9 DEF TreeInv
<1>11. v[1] = t[1] - a /\ a <= t[1]
  <2>1. 1 \in Above(leaf) /\ 1 \in Nodes
    BY PathEnds, Numbers
  <2>2. v[1] = u[1] + (0 - a) /\ u[1] \in Nat
    BY <1>3, <1>7, <2>1
  <2>3. W[leaf] <= W[1] /\ W[1] = t[1] /\ W[leaf] \in Nat
    BY <1>0, <1>1, <1>3, <1>6, <2>1
  <2> QED BY <1>1, <1>5, <2>2, <2>3
<1>12. PushView(v)[leaf] = W[leaf] - a
  BY <1>0, <1>3, <1>5, <1>8
<1>13. \A k \in Leaves \ {leaf} : PushView(v)[k] = W[k]
  BY <1>8, Numbers, PathEnds
<1>14. a = (W[leaf] * percent) \div ONE
  BY <1>4 DEF a
<1> QED BY <1>2, <1>5, <1>10, <1>11, <1>12, <1>13, <1>14 DEF W

-----------------------------------------------------------------------------
(* The sum of the nodes that cover a range of leaves.                      *)

Borders == (1..(2 * LIQUIDITYNODES)) \X (0..(2 * LIQUIDITYNODES - 1))
AtBorder(t, a, b) == (IF a % 2 = 1 THEN t[a] ELSE 0) + (IF b % 2 = 0 THEN t[b] ELSE 0)
IsBorderSum(s, t) ==
    \A a \in 1..(2 * LIQUIDITYNODES), b \in 0..(2 * LIQUIDITYNODES - 1) :
      /\ s[<<a, b>>] \in Nat
      /\ s[<<a, b>>] = IF a > b THEN 0
                       ELSE AtBorder(t, a, b) + s[<<(a + 1) \div 2, (b - 1) \div 2>>]

\* LeavesAmount adds up its borders.
LEMMA LeavesAmountIs ==
  ASSUME NEW t \in Trees
  PROVE  \E s : IsBorderSum(s, t) /\ \A l, r : LeavesAmount(t, l, r) = s[<<l, r>>]
<1> DEFINE c == [p \in Borders |-> <<(p[1] + 1) \div 2, (p[2] - 1) \div 2>>]
           B == {p \in Borders : p[1] > p[2]}
           A == [p \in Borders |-> 0]
           d(p) == IF p[1] > p[2] THEN 0 ELSE AtBorder(t, p[1], p[2])
           G == [p \in Borders |-> [v \in Nat |-> d(p) + v]]
           rank == [p \in Borders |-> p[2]]
           m == 2 * LIQUIDITYNODES
           Solves(g) == g = [border \in Borders |->
                              LET a == border[1]
                                  b == border[2]
                              IN  IF a > b THEN 0
                                  ELSE (IF a % 2 = 1 THEN t[a] ELSE 0) + (IF b % 2 = 0 THEN t[b] ELSE 0)
                                       + g[<<(a + 1) \div 2, (b - 1) \div 2>>]]
<1>1. ASSUME NEW a \in 1..(2 * LIQUIDITYNODES), NEW b \in 0..(2 * LIQUIDITYNODES - 1), a <= b
      PROVE  /\ AtBorder(t, a, b) \in Nat /\ <<(a + 1) \div 2, (b - 1) \div 2>> \in Borders
             /\ (b - 1) \div 2 < b
  <2>1. a \in Nodes /\ b \in Nodes /\ a \in Nat /\ b \in Nat /\ b >= 1
    BY <1>1, Width DEF Nodes
  <2>2. t[a] \in Nat /\ t[b] \in Nat
    BY <2>1 DEF Trees
  <2>3. AtBorder(t, a, b) \in Nat
    BY <2>2 DEF AtBorder
  <2>4. /\ (a + 1) \div 2 \in 1..(2 * LIQUIDITYNODES)
        /\ (b - 1) \div 2 \in 0..(2 * LIQUIDITYNODES - 1) /\ (b - 1) \div 2 < b
    BY <1>1, <2>1, Width
  <2> QED BY <2>3, <2>4 DEF Borders
<1>p. ASSUME NEW p \in Borders
      PROVE  p[1] \in 1..(2 * LIQUIDITYNODES) /\ p[2] \in 0..(2 * LIQUIDITYNODES - 1) /\ p = <<p[1], p[2]>>
  BY DEF Borders
<1>2. ChainGiven(Borders, B, m, rank, c, Nat, A, G)
  <2>1. m \in Nat /\ rank \in [Borders -> 0..m] /\ A \in [Borders -> Nat]
    <3>1. \A p \in Borders : p[2] \in 0..m
      BY <1>p, Width
    <3> HIDE DEF m
    <3> QED BY <3>1, Width DEF m
  <2>2. ASSUME NEW p \in Borders PROVE d(p) \in Nat
    <3>1. CASE p[1] > p[2]
      BY <3>1
    <3>2. CASE p[1] <= p[2]
      BY <1>1, <1>p, <3>2
    <3> QED BY <1>p, <3>1, <3>2
  <2>3. G \in [Borders -> [Nat -> Nat]]
    <3> HIDE DEF d
    <3> QED BY <2>2
  <2>4. ASSUME NEW p \in Borders \ B PROVE c[p] \in Borders /\ rank[c[p]] < rank[p]
    <3>1. p \in Borders /\ p[1] <= p[2]
      BY <1>p
    <3>2. c[p] = <<(p[1] + 1) \div 2, (p[2] - 1) \div 2>> /\ c[p] \in Borders
      BY <1>1, <1>p, <3>1
    <3>3. rank[c[p]] = (p[2] - 1) \div 2 /\ rank[p] = p[2]
      BY <3>1, <3>2
    <3> QED BY <1>1, <1>p, <3>1, <3>2, <3>3
  <2> HIDE DEF m, rank, c, A, G, B
  <2> QED BY <2>1, <2>3, <2>4 DEF ChainGiven
<1>3. PICK g : IsChainOf(g, Borders, B, c, Nat, A, G)
  <2> HIDE DEF m, rank, c, A, G, B
  <2> QED BY <1>2, ChainExists
<1>4. g \in [Borders -> Nat] /\ \A p \in Borders : g[p] = IF p \in B THEN A[p] ELSE G[p][g[c[p]]]
  <2> HIDE DEF m, rank, c, A, G, B
  <2> QED BY <1>3 DEF IsChainOf
<1>5. ASSUME NEW p \in Borders
      PROVE  g[p] = IF p[1] > p[2] THEN 0
                    ELSE AtBorder(t, p[1], p[2]) + g[<<(p[1] + 1) \div 2, (p[2] - 1) \div 2>>]
  <2>1. CASE p[1] > p[2]
    BY <1>4, <2>1
  <2>2. CASE p[1] <= p[2]
    <3>1. p \notin B /\ c[p] = <<(p[1] + 1) \div 2, (p[2] - 1) \div 2>> /\ c[p] \in Borders
      BY <1>1, <1>p, <2>2
    <3>2. g[c[p]] \in Nat /\ g[p] = G[p][g[c[p]]]
      <4> HIDE DEF G, B, A, c
      <4> QED BY <1>4, <3>1
    <3>3. G[p][g[c[p]]] = d(p) + g[c[p]]
      <4> HIDE DEF d, c
      <4> QED BY <3>2
    <3>4. d(p) = AtBorder(t, p[1], p[2]) /\ ~(p[1] > p[2])
      BY <1>p, <2>2
    <3> HIDE DEF c, d, G
    <3> QED BY <3>1, <3>2, <3>3, <3>4
  <2> QED BY <1>p, <2>1, <2>2
<1>6. Solves(g)
  <2>1. g = [border \in Borders |-> g[border]]
    BY <1>4
  <2> QED BY <1>5, <2>1 DEF AtBorder
<1> DEFINE s == CHOOSE h : Solves(h)
<1>7. \A l, r : LeavesAmount(t, l, r) = s[<<l, r>>]
  BY DEF LeavesAmount, Borders
<1>8. Solves(s)
  <2> HIDE DEF Solves
  <2> QED BY <1>6
<1> HIDE DEF s, c, B, A, d, G, rank, m
<1>9. ASSUME NEW p \in Borders
      PROVE  s[p] = IF p[1] > p[2] THEN 0
                    ELSE AtBorder(t, p[1], p[2]) + s[<<(p[1] + 1) \div 2, (p[2] - 1) \div 2>>]
  BY <1>8 DEF AtBorder
<1>10. \A p \in Borders : s[p] \in Nat
  <2> DEFINE P == {p \in Borders : s[p] \in Nat}
             size == [p \in Borders |-> p[2]]
  <2>1. size \in [Borders -> Nat]
    BY <1>p
  <2>2. ASSUME NEW p \in Borders, \A q \in Borders : size[q] < size[p] => q \in P PROVE p \in P
    <3>1. CASE p[1] > p[2]
      <4>1. s[p] = 0
        BY <1>9, <3>1
      <4> QED BY <4>1
    <3>2. CASE p[1] <= p[2]
      <4> DEFINE q == <<(p[1] + 1) \div 2, (p[2] - 1) \div 2>>
      <4>1. AtBorder(t, p[1], p[2]) \in Nat /\ q \in Borders /\ q[2] < p[2]
        BY <1>1, <1>p, <3>2
      <4>2. q \in P
        BY <2>2, <4>1
      <4>3. s[p] = AtBorder(t, p[1], p[2]) + s[q]
        BY <1>9, <1>p, <3>2
      <4> HIDE DEF q
      <4> QED BY <4>1, <4>2, <4>3
    <3> QED BY <1>p, <3>1, <3>2
  <2> HIDE DEF P, size
  <2>3. Borders \subseteq P
    BY <2>1, <2>2, RankInduction
  <2>4. \A p \in P : s[p] \in Nat
    BY DEF P
  <2> QED BY <2>3, <2>4
<1>11. IsBorderSum(s, t)
  <2> SUFFICES ASSUME NEW a \in 1..(2 * LIQUIDITYNODES), NEW b \in 0..(2 * LIQUIDITYNODES - 1)
               PROVE  /\ s[<<a, b>>] \in Nat
                      /\ s[<<a, b>>] = IF a > b THEN 0
                                       ELSE AtBorder(t, a, b) + s[<<(a + 1) \div 2, (b - 1) \div 2>>]
    BY DEF IsBorderSum
  <2> DEFINE p == <<a, b>>
  <2>1. p \in Borders /\ p[1] = a /\ p[2] = b
    BY DEF Borders
  <2> HIDE DEF p
  <2>2. s[p] \in Nat /\ s[p] = IF a > b THEN 0
                               ELSE AtBorder(t, a, b) + s[<<(a + 1) \div 2, (b - 1) \div 2>>]
    BY <1>9, <1>10, <2>1
  <2> QED BY <2>2 DEF p
<1> QED BY <1>7, <1>11

\* On a tree pushed to r, the nodes that cover the leaves after r hold what these are worth.
LEMMA RestWorth ==
  ASSUME NEW t \in Trees, Rooted(t), NEW r \in Leaves, NEW u \in Trees,
         \A n \in Nodes : Split(n, r) => u[n] = PushView(t)[n],
         NEW m \in Above(r)
  PROVE  LeavesAmount(u, r + 1, Last[m]) = PrefixWorth(t, Last[m]) - PrefixWorth(t, r)
<1> DEFINE W == PushView(t)
           Pre(k) == PrefixWorth(t, k)
<1>1. PICK s : IsBorderSum(s, u) /\ \A a, b : LeavesAmount(u, a, b) = s[<<a, b>>]
  BY LeavesAmountIs
<1> DEFINE Right(e, f) == /\ f \in Nodes /\ e <= f /\ Last[f] = Last[m]
                          /\ \A p \in Powers : ~(e < p /\ p <= f)
                          /\ s[<<e + 1, f>>] = Pre(Last[m]) - Pre(Last[e])
           P == {e \in Above(r) : e >= m => \E f \in Nodes : Right(e, f)}
<1>2. Above(r) \subseteq Nodes /\ m \in Nodes /\ 1 \in Above(r) /\ 1 \in Nodes /\ r \in Above(r) /\ r \in Nodes
  BY PathEnds, Numbers
<1>3. ASSUME NEW n \in Nodes PROVE Pre(Last[n]) \in Nat /\ n \in Nat /\ n >= 1 /\ n <= 2 * LIQUIDITYNODES - 1
  BY SpanWorth, Width DEF Nodes
<1>4. ASSUME NEW a \in 1..(2 * LIQUIDITYNODES), NEW b \in 0..(2 * LIQUIDITYNODES - 1)
      PROVE  /\ s[<<a, b>>] \in Nat
             /\ a > b => s[<<a, b>>] = 0
             /\ ~(a > b) => s[<<a, b>>] = AtBorder(u, a, b) + s[<<(a + 1) \div 2, (b - 1) \div 2>>]
  BY <1>1 DEF IsBorderSum
<1>5. Right(m, m)
  <2>1. m \in Nat /\ m >= 1 /\ m <= 2 * LIQUIDITYNODES - 1 /\ Pre(Last[m]) \in Nat
    BY <1>2, <1>3
  <2>2. m + 1 \in 1..(2 * LIQUIDITYNODES) /\ m \in 0..(2 * LIQUIDITYNODES - 1) /\ m + 1 > m
    BY <2>1, Width
  <2> DEFINE q == <<m + 1, m>>
  <2>3. s[q] = 0
    BY <1>4, <2>2
  <2>4. \A p \in Powers : p \in Nat
    BY PowersHalve
  <2> HIDE DEF q, Pre
  <2>5. s[q] = Pre(Last[m]) - Pre(Last[m])
    BY <2>1, <2>3
  <2> QED BY <1>2, <2>1, <2>4, <2>5 DEF q
<1> HIDE DEF W, Pre
<1>6. 1 \in P
  <2> SUFFICES ASSUME 1 >= m PROVE \E f \in Nodes : Right(1, f)
    BY <1>2
  <2>1. m = 1
    BY <1>2, <1>3
  <2> HIDE DEF Right
  <2> QED BY <1>2, <1>5, <2>1
<1>7. ASSUME NEW n \in Inner, n \in Above(r), n \in P,
             NEW e \in {2 * n, 2 * n + 1}, e \in Above(r)
      PROVE  e \in P
  <2> HIDE DEF Right
  <2> SUFFICES ASSUME e >= m PROVE \E f \in Nodes : Right(e, f)
    BY <1>7
  <2> USE DEF Right
  <2>1. CASE e = m
    <3> HIDE DEF Right
    <3> QED BY <1>2, <1>5, <2>1
  <2>2. CASE e # m
    <3>n. /\ n \in Nat /\ n >= 1 /\ n < LIQUIDITYNODES /\ e \in Nodes /\ e \in Nat /\ m \in Nat
          /\ 2 * n \in Nodes /\ 2 * n + 1 \in Nodes /\ n \in Nodes /\ (2 * n) \div 2 = n
      BY <1>2, <1>3, Children
    <3>1. m <= n
      <4>1. m < e
        BY <2>2, <3>n
      <4>2. m <= e \div 2
        BY <1>7, <4>1, PathOrder
      <4> QED BY <3>n, <4>2
    <3>2. PICK f \in Nodes : Right(n, f)
      BY <1>7, <3>1, <3>n
    <3> DEFINE g == 2 * f + 1
    <3>3. f \in Nat /\ n <= f /\ f \in Inner
      <4>1. f \in Nat /\ n <= f
        BY <1>3, <3>2
      <4>2. ~(n < LIQUIDITYNODES /\ LIQUIDITYNODES <= f)
        BY <3>2, Width
      <4> QED BY <3>n, <4>1, <4>2, Width DEF Inner, Leaves, Nodes
    <3>4. g \in Nodes /\ e <= g /\ Last[g] = Last[m] /\ g \in Nat
      BY <1>3, <3>2, <3>3, <3>n, Children, Spans
    <3>5. ASSUME NEW p \in Powers PROVE ~(e < p /\ p <= g)
      <4> DEFINE q == p \div 2
      <4>1. p \in Nat /\ (p # 1 => q \in Powers /\ q \in Nat /\ p = 2 * q)
        BY PowersHalve
      <4>2. q \in Powers => ~(n < q /\ q <= f)
        BY <3>2
      <4> HIDE DEF q
      <4> QED BY <3>3, <3>n, <4>1, <4>2
    <3>6. s[<<n + 1, f>>] = Pre(Last[m]) - Pre(Last[n])
      BY <3>2
    <3>7. s[<<e + 1, g>>] = Pre(Last[m]) - Pre(Last[e])
      <4>1. Pre(Last[m]) \in Nat /\ Pre(Last[e]) \in Nat /\ Pre(Last[n]) \in Nat /\ Pre(Last[2 * n]) \in Nat
        BY <1>2, <1>3, <3>n
      <4>2. /\ e + 1 \in 1..(2 * LIQUIDITYNODES) /\ g \in 0..(2 * LIQUIDITYNODES - 1)
            /\ g <= 2 * LIQUIDITYNODES - 1
        BY <1>3, <3>4, <3>n, Width
      <4>3. CASE e = g
        <5>0. e + 1 > g
          BY <3>n, <4>3
        <5>1. s[<<e + 1, g>>] = 0
          <6> HIDE DEF g
          <6> QED BY <1>4, <4>2, <5>0
        <5>2. Last[e] = Last[m]
          BY <3>4, <4>3
        <5> HIDE DEF g
        <5> QED BY <4>1, <5>1, <5>2
      <4>4. CASE e # g
        <5>1. ~(e + 1 > g)
          BY <3>4, <3>n, <4>4
        <5>2. s[<<e + 1, g>>] = AtBorder(u, e + 1, g) + s[<<((e + 1) + 1) \div 2, (g - 1) \div 2>>]
          BY <1>4, <4>2, <5>1
        <5>3. ((e + 1) + 1) \div 2 = n + 1 /\ (g - 1) \div 2 = f
          BY <3>3, <3>n
        <5>4. CASE e = 2 * n
          <6>1. Split(2 * n + 1, r)
            BY <1>7, <3>n, Children DEF Split
          <6>2. u[2 * n + 1] = W[2 * n + 1]
            BY <3>n, <6>1 DEF W
          <6>3. AtBorder(u, e + 1, g) = W[2 * n + 1]
            <7>1. (e + 1) % 2 = 1 /\ g % 2 # 0
              BY <3>3, <3>n, <5>4
            <7>2. W[2 * n + 1] \in Nat
              BY <3>n, ViewIs DEF W, Trees
            <7> QED BY <5>4, <6>2, <7>1, <7>2 DEF AtBorder
          <6>4. /\ Last[2 * n + 1] = Last[n]
                /\ Pre(Last[2 * n + 1]) = Pre(First[2 * n + 1] - 1) + W[2 * n + 1]
                /\ First[2 * n + 1] - 1 = Last[2 * n]
            <7>1. Last[2 * n + 1] = Last[n] /\ Last[2 * n] + 1 = First[2 * n + 1]
              BY Spans
            <7>2. Last[2 * n] \in Nat
              BY <3>n, SpansAreIntervals
            <7> QED BY <3>n, <7>1, <7>2, SpanWorth DEF W, Pre
          <6>5. W[2 * n + 1] \in Nat
            BY <3>n, ViewIs DEF W, Trees
          <6> HIDE DEF g
          <6>6. s[<<e + 1, g>>] = W[2 * n + 1] + (Pre(Last[m]) - Pre(Last[n]))
            BY <3>6, <5>2, <5>3, <6>3
          <6>7. Pre(Last[n]) = Pre(Last[e]) + W[2 * n + 1]
            BY <5>4, <6>4
          <6> QED BY <4>1, <6>5, <6>6, <6>7
        <5>5. CASE e = 2 * n + 1
          <6>1. AtBorder(u, e + 1, g) = 0
            <7>1. (e + 1) % 2 # 1 /\ g % 2 # 0
              BY <3>3, <3>n, <5>5
            <7> QED BY <7>1 DEF AtBorder
          <6>2. Last[e] = Last[n]
            BY <5>5, Spans
          <6> HIDE DEF g
          <6> QED BY <3>6, <4>1, <5>2, <5>3, <6>1, <6>2
        <5> QED BY <5>4, <5>5
      <4> QED BY <4>3, <4>4
    <3> HIDE DEF g
    <3>8. Right(e, g)
      BY <3>4, <3>5, <3>7
    <3> HIDE DEF Right
    <3> QED BY <3>4, <3>8
  <2> QED BY <2>1, <2>2
<1>8. Above(r) \subseteq P
  <2> HIDE DEF P
  <2> QED BY <1>6, <1>7, DownThePath
<1>9. r >= m
  <2>1. r \in Nat /\ m \in Nat /\ r \in Leaves
    BY <1>2, <1>3
  <2> SUFFICES ASSUME r < m PROVE FALSE
    BY <2>1
  <2>2. r <= m \div 2 /\ m <= 2 * LIQUIDITYNODES - 1
    BY <1>2, <1>3, PathOrder
  <2> QED BY <2>1, <2>2, Numbers, Width
<1>10. PICK f \in Nodes : Right(r, f)
  <2>1. \A e \in P : e >= m => \E f \in Nodes : Right(e, f)
    BY DEF P
  <2> HIDE DEF P, Right
  <2> QED BY <1>2, <1>8, <1>9, <2>1
<1>11. f = Last[m] /\ Last[r] = r
  <2>1. f \in Leaves
    BY <1>10, <1>3, Width, Numbers DEF Leaves, Nodes
  <2> QED BY <1>10, <2>1, LastIs, Numbers
<1> QED BY <1>1, <1>10, <1>11 DEF Pre

-----------------------------------------------------------------------------
(* A change on its way down.                                               *)

\* What the right child holds in the range is a number.
LEMMA RightTyped ==
  ASSUME NEW u \in Trees, NEW r \in Leaves, NEW last \in Int, NEW n \in Inner
  PROVE  RightInRange(u, n, r, last) \in Int
<1>1. u[2 * n + 1] \in Nat
  BY TreeValues
<1>2. PICK s : IsBorderSum(s, u) /\ \A a, b : LeavesAmount(u, a, b) = s[<<a, b>>]
  BY LeavesAmountIs
<1>3. r + 1 \in 1..(2 * LIQUIDITYNODES) /\ Last[n] \in 0..(2 * LIQUIDITYNODES - 1) /\ r \in Nat
  BY Width, Numbers, Children, LastIs DEF Leaves
<1>4. LeavesAmount(u, r + 1, Last[n]) \in Nat
  BY <1>2, <1>3 DEF IsBorderSum
<1> QED BY <1>1, <1>3, <1>4 DEF RightInRange

\* Portions satisfies its equation.
LEMMA PortionsAre ==
  ASSUME NEW u \in Trees, NEW r \in Leaves, NEW last \in Int, NEW a \in Int
  PROVE  LET d == Portions(u, r, a, last)
         IN  /\ d \in [Nodes -> Int] /\ d[1] = a
             /\ \A n \in Inner :
                  LET left == ForLeft(u, n, RightInRange(u, n, r, last), d[n])
                  IN  IF r >= Last[n] THEN d[2 * n] = 0 /\ d[2 * n + 1] = 0
                      ELSE IF r <= Last[2 * n] THEN d[2 * n] = d[n] /\ d[2 * n + 1] = 0
                      ELSE IF Halts(u, n, r, last) THEN d[2 * n] = 0 /\ d[2 * n + 1] = 0
                      ELSE d[2 * n] = left /\ d[2 * n + 1] = d[n] - left
<1> DEFINE L(n, v) == ForLeft(u, n, RightInRange(u, n, r, last), v)
           F(n, v) == LET up == n \div 2 IN
                      IF r >= Last[up] THEN 0
                      ELSE IF r <= Last[2 * up] THEN IF n = 2 * up THEN v ELSE 0
                      ELSE IF Halts(u, up, r, last) THEN 0
                      ELSE IF n = 2 * up THEN L(up, v) ELSE v - L(up, v)
           G == [n \in Nodes |-> [v \in Int |-> IF n = 1 THEN 0 ELSE F(n, v)]]
           Solves(g) == g = [n \in Nodes |-> IF n = 1 THEN a ELSE F(n, g[n \div 2])]
<1>1. ASSUME NEW n \in Inner, NEW v \in Int, ~Halts(u, n, r, last) PROVE L(n, v) \in Int
  <2> DEFINE right == RightInRange(u, n, r, last)
             sum == u[2 * n] + right
             x == (v * u[2 * n]) * ONE
  <2>1. right \in Int /\ u[2 * n] \in Nat
    BY RightTyped, TreeValues
  <2>2. right >= 0 /\ sum # 0
    BY <1>1, <2>1 DEF Halts
  <2>3. sum \in Int /\ sum > 0 /\ x \in Int /\ ONE \in Int /\ ONE > 0
    <3> HIDE DEF right
    <3> QED BY <2>1, <2>2, TreeAssumption
  <2>4. L(n, v) = (x \div sum) \div ONE
    BY DEF ForLeft
  <2> HIDE DEF L, x, sum
  <2>5. x \div sum \in Int
    BY <2>3
  <2>6. (x \div sum) \div ONE \in Int
    BY <2>3, <2>5
  <2> QED BY <2>4, <2>6
<1>2. ASSUME NEW n \in Nodes, NEW v \in Int, n # 1 PROVE F(n, v) \in Int
  <2> DEFINE up == n \div 2
  <2>1. up \in Inner
    BY <1>2, Parent
  <2>2. ~Halts(u, up, r, last) => L(up, v) \in Int
    <3> HIDE DEF L, up
    <3> QED BY <1>1, <2>1
  <2> HIDE DEF L
  <2> QED BY <2>2
<1>3. G \in [Nodes -> [Int -> Int]]
  <2> HIDE DEF F
  <2> QED BY <1>2
<1>4. PICK g : IsHandedDown(g, Int, a, G)
  <2> HIDE DEF G
  <2> QED BY <1>3, ParentRecursion
<1>5. g \in [Nodes -> Int] /\ \A n \in Nodes : g[n] = IF n = 1 THEN a ELSE G[n][g[n \div 2]]
  <2> HIDE DEF G
  <2> QED BY <1>4 DEF IsHandedDown
<1>6. Solves(g)
  <2>1. ASSUME NEW n \in Nodes PROVE g[n] = IF n = 1 THEN a ELSE F(n, g[n \div 2])
    <3> HIDE DEF F
    <3>1. CASE n = 1
      BY <1>5, <3>1
    <3>2. CASE n # 1
      <4>1. n \div 2 \in Nodes
        BY <3>2, Parent
      <4>2. g[n \div 2] \in Int
        BY <1>5, <4>1
      <4>3. g[n] = G[n][g[n \div 2]]
        <5> HIDE DEF G
        <5> QED BY <1>5, <3>2
      <4> QED BY <3>2, <4>2, <4>3
    <3> QED BY <3>1, <3>2
  <2>2. g = [n \in Nodes |-> g[n]]
    BY <1>5
  <2> HIDE DEF F
  <2> QED BY <2>1, <2>2
<1> DEFINE d == Portions(u, r, a, last)
<1>7. Solves(d)
  <2>1. d = CHOOSE h : Solves(h)
    BY DEF Portions
  <2> HIDE DEF Solves, d
  <2> QED BY <1>6, <2>1
<1> HIDE DEF d, G
<1>8. \A n \in Nodes : d[n] = IF n = 1 THEN a ELSE F(n, d[n \div 2])
  <2> HIDE DEF F
  <2> QED BY <1>7
<1>9. d = [n \in Nodes |-> d[n]]
  <2> HIDE DEF F
  <2> QED BY <1>7
<1>10. \A n \in Nodes : d[n] \in Int
  <2> DEFINE P == {n \in Nodes : d[n] \in Int}
  <2> HIDE DEF F
  <2>1. 1 \in P
    BY <1>8, Numbers
  <2>2. ASSUME NEW n \in Nodes, n # 1, n \div 2 \in P PROVE n \in P
    BY <1>2, <1>8, <2>2
  <2>3. Nodes \subseteq P
    <3> HIDE DEF P
    <3> QED BY <2>1, <2>2, DownTheTree
  <2> QED BY <2>3
<1>11. d \in [Nodes -> Int]
  BY <1>9, <1>10
<1>12. d[1] = a
  <2> HIDE DEF F
  <2> QED BY <1>8, Numbers
<1>13. ASSUME NEW n \in Inner
       PROVE  IF r >= Last[n] THEN d[2 * n] = 0 /\ d[2 * n + 1] = 0
              ELSE IF r <= Last[2 * n] THEN d[2 * n] = d[n] /\ d[2 * n + 1] = 0
              ELSE IF Halts(u, n, r, last) THEN d[2 * n] = 0 /\ d[2 * n + 1] = 0
              ELSE d[2 * n] = L(n, d[n]) /\ d[2 * n + 1] = d[n] - L(n, d[n])
  <2>1. /\ 2 * n \in Nodes /\ 2 * n + 1 \in Nodes /\ 2 * n # 1 /\ 2 * n + 1 # 1 /\ n \in Nat
        /\ (2 * n) \div 2 = n /\ (2 * n + 1) \div 2 = n
    BY Children
  <2>2. d[2 * n] = F(2 * n, d[n]) /\ d[2 * n + 1] = F(2 * n + 1, d[n])
    <3> HIDE DEF F
    <3> QED BY <1>8, <2>1
  <2>3. 2 * n + 1 # 2 * n
    BY <2>1
  <2> HIDE DEF L
  <2> QED BY <2>1, <2>2, <2>3
<1> QED BY <1>11, <1>12, <1>13 DEF d

\* u is tree t pushed to r; no leaf after r is worth anything unless it is before last.
Pushed(t, u, r) ==
    /\ t \in Trees /\ Rooted(t) /\ u \in Trees /\ r \in Leaves /\ u[1] = t[1]
    /\ \A n \in Nodes : Split(n, r) => u[n] = PushView(t)[n]
Bounded(t, r, last) == last \in Int /\ (r >= last => PrefixWorth(t, r) = t[1])

\* On a pushed tree, the right child holds the worth of its leaves in the range.
LEMMA RightIs ==
  ASSUME NEW t, NEW u, NEW r, Pushed(t, u, r), NEW last, Bounded(t, r, last),
         NEW n \in Inner, n \in Above(r), Last[2 * n] < r, r < Last[n]
  PROVE  /\ RightInRange(u, n, r, last) = Held(t, 2 * n + 1, r)
         /\ u[2 * n] = PushView(t)[2 * n] /\ PushView(t)[2 * n] \in Nat
         /\ 2 * n + 1 \in Above(r) /\ Held(t, 2 * n + 1, r) \in Nat
         /\ Held(t, n, r) = PushView(t)[2 * n] + Held(t, 2 * n + 1, r)
<1> DEFINE W == PushView(t)
           m == 2 * n + 1
<1>0. t \in Trees /\ Rooted(t) /\ u \in Trees /\ r \in Leaves /\ r \in Nat /\ last \in Int
  BY Numbers DEF Pushed, Bounded
<1>1. n \in Nodes /\ 2 * n \in Nodes /\ m \in Nodes /\ 2 * n # 1 /\ m # 1 /\ (2 * n) \div 2 = n /\ m \div 2 = n
  BY Children
<1>2. Last[2 * n] \in Nat /\ Last[n] \in Nat /\ Last[m] = Last[n]
  BY <1>1, SpansAreIntervals, Spans
<1>3. m \in Above(r)
  BY <1>0, <1>2, PathDown
<1>4. u[2 * n] = W[2 * n] /\ u[m] = W[m] /\ W[2 * n] \in Nat /\ W[m] \in Nat
  BY <1>0, <1>1, ViewIs DEF Pushed, Split, Trees
<1>5. /\ Held(t, m, r) \in Nat /\ Held(t, m, r) <= W[m]
      /\ PrefixWorth(t, Last[m]) - PrefixWorth(t, r) = W[m] - Held(t, m, r)
  BY <1>0, <1>3, HeldIs
<1>6. Held(t, n, r) = W[2 * n] + Held(t, m, r)
  BY <1>0, <1>2, HeldIs
<1>7. LeavesAmount(u, r + 1, Last[n]) = PrefixWorth(t, Last[n]) - PrefixWorth(t, r)
  BY <1>0, RestWorth DEF Pushed
<1>8. r >= last => PrefixWorth(t, Last[n]) = PrefixWorth(t, r)
  <2> SUFFICES ASSUME r >= last PROVE PrefixWorth(t, Last[n]) = PrefixWorth(t, r)
    OBVIOUS
  <2>1. /\ r \in (LIQUIDITYNODES - 1)..(2 * LIQUIDITYNODES - 1)
        /\ Last[n] \in (LIQUIDITYNODES - 1)..(2 * LIQUIDITYNODES - 1)
    BY <1>0, <1>1, SpansAreIntervals, Width DEF Leaves
  <2>2. PrefixWorth(t, r) <= PrefixWorth(t, Last[n])
    BY <1>0, <1>2, <2>1, PrefixOrder
  <2>3. /\ PrefixWorth(t, Last[n]) <= t[1] /\ PrefixWorth(t, Last[n]) \in Nat
        /\ PrefixWorth(t, r) \in Nat
    BY <1>0, <2>1, RootWorth
  <2>4. PrefixWorth(t, r) = t[1]
    BY DEF Bounded
  <2> QED BY <2>2, <2>3, <2>4
<1>9. RightInRange(u, n, r, last) = W[m] - (W[m] - Held(t, m, r))
  <2>1. CASE r >= last
    <3>1. PrefixWorth(t, Last[n]) \in Nat /\ PrefixWorth(t, Last[n]) - PrefixWorth(t, r) = 0
      BY <1>0, <1>1, <1>8, <2>1, SpanWorth
    <3>2. RightInRange(u, n, r, last) = W[m] - 0
      BY <1>4, <2>1 DEF RightInRange
    <3> QED BY <1>2, <1>5, <3>1, <3>2
  <2>2. CASE ~(r >= last)
    <3>1. RightInRange(u, n, r, last) = W[m] - LeavesAmount(u, r + 1, Last[n])
      BY <1>4, <2>2 DEF RightInRange
    <3> QED BY <1>2, <1>5, <1>7, <3>1
  <2> QED BY <2>1, <2>2
<1> HIDE DEF W, m
<1>10. RightInRange(u, n, r, last) = Held(t, m, r)
  BY <1>4, <1>5, <1>9
<1> QED BY <1>3, <1>4, <1>5, <1>6, <1>10 DEF W, m

\* What the nodes are handed: the range is split by the worth of its parts.
LEMMA PortionSteps ==
  ASSUME NEW t, NEW u, NEW r, Pushed(t, u, r), NEW last, Bounded(t, r, last), NEW a \in Nat
  PROVE  LET W == PushView(t)
             d == Portions(u, r, a, last)
         IN  /\ d \in [Nodes -> Nat] /\ d[1] = a
             /\ \A n \in Nodes : n \notin Above(r) /\ r < Last[n] => d[n] = 0
             /\ \A n \in Inner : n \notin Above(r) \/ r >= Last[n] => d[2 * n] = 0 /\ d[2 * n + 1] = 0
             /\ \A n \in Inner : n \in Above(r) /\ r < Last[n] /\ r <= Last[2 * n] =>
                  d[2 * n] = d[n] /\ d[2 * n + 1] = 0
             /\ \A n \in Inner : n \in Above(r) /\ r < Last[n] /\ Last[2 * n] < r =>
                  IF Held(t, n, r) = 0 THEN d[2 * n] = 0 /\ d[2 * n + 1] = 0
                  ELSE /\ d[2 * n] = (d[n] * W[2 * n]) \div Held(t, n, r)
                       /\ d[2 * n + 1] = d[n] - d[2 * n]
<1> DEFINE W == PushView(t)
           d == Portions(u, r, a, last)
<1>0. t \in Trees /\ Rooted(t) /\ u \in Trees /\ r \in Leaves /\ r \in Nat /\ last \in Int
  BY Numbers DEF Pushed, Bounded
<1>n. ASSUME NEW n \in Inner
      PROVE  /\ n \in Nodes /\ 2 * n \in Nodes /\ 2 * n + 1 \in Nodes
             /\ Last[2 * n] \in Nat /\ Last[n] \in Nat /\ Last[2 * n] < Last[n] /\ Last[2 * n + 1] = Last[n]
             /\ First[n] \in Nat /\ First[2 * n] = First[n] /\ First[2 * n + 1] = Last[2 * n] + 1
             /\ First[n] <= Last[2 * n]
  <2>1. n \in Nodes /\ 2 * n \in Nodes /\ 2 * n + 1 \in Nodes
    BY Children
  <2>2. /\ First[2 * n] = First[n] /\ Last[2 * n + 1] = Last[n] /\ Last[2 * n] + 1 = First[2 * n + 1]
    BY Spans
  <2>3. /\ Last[2 * n] \in Nat /\ Last[n] \in Nat /\ First[n] \in Nat /\ First[2 * n + 1] \in Nat
        /\ First[2 * n + 1] <= Last[2 * n + 1] /\ First[2 * n] <= Last[2 * n]
    BY <2>1, SpansAreIntervals
  <2> QED BY <2>1, <2>2, <2>3
<1>1. d \in [Nodes -> Int] /\ d[1] = a
  BY <1>0, PortionsAre
<1>2. ASSUME NEW n \in Inner
      PROVE  LET left == ForLeft(u, n, RightInRange(u, n, r, last), d[n])
             IN  IF r >= Last[n] THEN d[2 * n] = 0 /\ d[2 * n + 1] = 0
                 ELSE IF r <= Last[2 * n] THEN d[2 * n] = d[n] /\ d[2 * n + 1] = 0
                 ELSE IF Halts(u, n, r, last) THEN d[2 * n] = 0 /\ d[2 * n + 1] = 0
                 ELSE d[2 * n] = left /\ d[2 * n + 1] = d[n] - left
  BY <1>0, PortionsAre
<1> HIDE DEF d
<1>3. ASSUME NEW n \in Inner, n \in Above(r), r < Last[n], r <= Last[2 * n]
      PROVE  d[2 * n] = d[n] /\ d[2 * n + 1] = 0
  BY <1>0, <1>2, <1>3, <1>n
\* Outside of the way to r, either nothing is handed to a node or its leaves are in the range.
<1>4. \A n \in Nodes : n \in Above(r) \/ d[n] = 0 \/ Last[n] <= r
  <2> DEFINE P == {n \in Nodes : n \in Above(r) \/ d[n] = 0 \/ Last[n] <= r}
  <2>1. 1 \in P
    BY <1>0, PathEnds, Numbers
  <2>2. ASSUME NEW n \in Nodes, n # 1, n \div 2 \in P PROVE n \in P
    <3> DEFINE p == n \div 2
    <3>1. p \in Inner /\ (n = 2 * p \/ n = 2 * p + 1) /\ p \in P
      BY <2>2, Parent
    <3> HIDE DEF p, P
    <3>2. r <= Last[2 * p] => 2 * p + 1 \notin Above(r) /\ (p \in Above(r) <=> 2 * p \in Above(r))
      BY <1>0, <3>1, PathDown
    <3>3. r > Last[2 * p] => 2 * p \notin Above(r) /\ (p \in Above(r) <=> 2 * p + 1 \in Above(r))
      BY <1>0, <3>1, PathDown
    <3>n. Last[2 * p] \in Nat /\ Last[p] \in Nat /\ p \in Nodes /\ First[p] \in Nat /\ First[p] <= Last[2 * p]
      BY <1>n, <3>1
    <3>4. CASE r >= Last[p]
      <4>1. d[n] = 0
        BY <1>0, <1>2, <3>1, <3>4
      <4> QED BY <2>2, <4>1 DEF P
    <3>5. CASE r < Last[p] /\ r <= Last[2 * p]
      <4>1. d[2 * p] = d[p] /\ d[2 * p + 1] = 0
        BY <1>0, <1>2, <3>1, <3>5, <3>n
      <4>2. p \in Above(r) \/ d[p] = 0
        BY <1>0, <3>1, <3>5, <3>n DEF P
      <4> QED BY <2>2, <3>1, <3>2, <3>5, <4>1, <4>2 DEF P
    <3>6. CASE r < Last[p] /\ Last[2 * p] < r
      <4>1. p \in Above(r)
        BY <1>0, <3>1, <3>6, <3>n DEF Above
      <4>2. n = 2 * p => Last[n] <= r
        BY <1>0, <3>6, <3>n
      <4> QED BY <1>0, <2>2, <3>1, <3>3, <3>6, <3>n, <4>1, <4>2 DEF P
    <3> QED BY <1>0, <3>4, <3>5, <3>6, <3>n
  <2>3. Nodes \subseteq P
    <3> HIDE DEF P
    <3> QED BY <2>1, <2>2, DownTheTree
  <2> QED BY <2>3
<1>5. ASSUME NEW n \in Nodes, n \notin Above(r), r < Last[n] PROVE d[n] = 0
  <2>1. Last[n] \in Nat
    BY SpansAreIntervals
  <2> QED BY <1>0, <1>4, <1>5, <2>1
<1>6. ASSUME NEW n \in Inner, n \notin Above(r) \/ r >= Last[n]
      PROVE  d[2 * n] = 0 /\ d[2 * n + 1] = 0
  <2>1. CASE r >= Last[n]
    BY <1>2, <2>1
  <2>2. CASE r < Last[n]
    <3>1. n \notin Above(r) /\ n \in Nodes
      BY <1>0, <1>6, <1>n, <2>2
    <3>2. d[n] = 0
      BY <1>5, <2>2, <3>1
    <3>3. r < First[n]
      BY <1>0, <1>n, <2>2, <3>1 DEF Above
    <3>4. r <= Last[2 * n] /\ ~(r >= Last[n])
      BY <1>0, <1>n, <2>2, <3>3
    <3> QED BY <1>2, <3>2, <3>4
  <2> QED BY <1>0, <1>n, <2>1, <2>2
<1>7. ASSUME NEW n \in Inner, n \in Above(r), r < Last[n], Last[2 * n] < r, d[n] \in Nat
      PROVE  IF Held(t, n, r) = 0 THEN d[2 * n] = 0 /\ d[2 * n + 1] = 0
             ELSE /\ d[2 * n] = (d[n] * W[2 * n]) \div Held(t, n, r)
                  /\ d[2 * n + 1] = d[n] - d[2 * n]
                  /\ d[2 * n] \in Nat /\ d[2 * n + 1] \in Nat
  <2> DEFINE right == RightInRange(u, n, r, last)
             h == Held(t, 2 * n + 1, r)
             H == Held(t, n, r)
             x == d[n]
             l == W[2 * n]
  <2>1. right = h /\ u[2 * n] = l /\ l \in Nat /\ h \in Nat /\ H = l + h
    BY <1>7, RightIs
  <2>2. Halts(u, n, r, last) <=> H = 0
    <3>1. Halts(u, n, r, last) <=> h < 0 \/ l + h = 0
      BY <2>1 DEF Halts
    <3> QED BY <2>1, <3>1
  <2>3. ~(r >= Last[n]) /\ ~(r <= Last[2 * n])
    BY <1>0, <1>7, <1>n
  <2>4. CASE H = 0
    <3>1. d[2 * n] = 0 /\ d[2 * n + 1] = 0
      BY <1>2, <2>2, <2>3, <2>4
    <3> QED BY <2>4, <3>1
  <2>5. CASE H # 0
    <3>1. d[2 * n] = ForLeft(u, n, right, x) /\ d[2 * n + 1] = x - ForLeft(u, n, right, x)
      BY <1>2, <2>2, <2>3, <2>5
    <3>2. ForLeft(u, n, right, x) = (((x * l) * ONE) \div (l + h)) \div ONE
      BY <2>1 DEF ForLeft
    <3>3. x \in Nat /\ H \in Nat /\ H > 0 /\ l <= H
      <4> HIDE DEF H, h, l, x
      <4>1. H \in Nat /\ H > 0 /\ l <= H
        BY <2>1, <2>5
      <4>2. x \in Nat
        BY <1>7 DEF x
      <4> QED BY <4>1, <4>2
    <3> HIDE DEF H, h, l, x, right
    <3>4. x * l \in Nat /\ x * l >= 0
      BY <2>1, <3>3, Times
    <3> DEFINE y == x * l
    <3>5. ((y * ONE) \div H) \div ONE = y \div H
      <4> HIDE DEF y
      <4>1. y \in Nat
        BY <3>4 DEF y
      <4>2. ONE \in Nat /\ ONE > 0
        BY TreeAssumption
      <4> QED BY <3>3, <4>1, <4>2, TwoDivisions
    <3>6. ForLeft(u, n, right, x) = (x * l) \div H
      BY <2>1, <3>2, <3>5
    <3>7. (x * l) \div H \in Nat /\ x - (x * l) \div H \in Nat
      BY <2>1, <3>3, Share
    <3>8. d[2 * n] = (x * l) \div H /\ d[2 * n + 1] = x - d[2 * n] /\ d[2 * n] \in Nat /\ d[2 * n + 1] \in Nat
      BY <3>1, <3>6, <3>7
    <3> QED BY <2>5, <3>8 DEF H, l, x
  <2> QED BY <2>4, <2>5
<1>8. \A n \in Nodes : d[n] \in Nat
  <2> DEFINE P == {n \in Nodes : d[n] \in Nat}
  <2>1. 1 \in P
    BY <1>1, Numbers
  <2>2. ASSUME NEW n \in Nodes, n # 1, n \div 2 \in P PROVE n \in P
    <3> DEFINE p == n \div 2
    <3>1. p \in Inner /\ (n = 2 * p \/ n = 2 * p + 1) /\ d[p] \in Nat
      BY <2>2, Parent
    <3> HIDE DEF p
    <3>n. Last[2 * p] \in Nat /\ Last[p] \in Nat
      BY <1>n, <3>1
    <3>2. d[2 * p] \in Nat /\ d[2 * p + 1] \in Nat
      <4>1. CASE p \notin Above(r) \/ r >= Last[p]
        BY <1>6, <3>1, <4>1
      <4>2. CASE p \in Above(r) /\ r < Last[p] /\ r <= Last[2 * p]
        BY <1>3, <3>1, <4>2
      <4>3. CASE p \in Above(r) /\ r < Last[p] /\ Last[2 * p] < r
        <5>1. CASE Held(t, p, r) = 0
          BY <1>7, <3>1, <4>3, <5>1
        <5>2. CASE Held(t, p, r) # 0
          BY <1>7, <3>1, <4>3, <5>2
        <5> QED BY <5>1, <5>2
      <4> QED BY <1>0, <3>n, <4>1, <4>2, <4>3
    <3> QED BY <3>1, <3>2
  <2>3. Nodes \subseteq P
    <3> HIDE DEF P
    <3> QED BY <2>1, <2>2, DownTheTree
  <2> QED BY <2>3
<1>9. d \in [Nodes -> Nat]
  BY <1>1, <1>8
<1>10. ASSUME NEW n \in Inner, n \in Above(r), r < Last[n], Last[2 * n] < r
       PROVE  IF Held(t, n, r) = 0 THEN d[2 * n] = 0 /\ d[2 * n + 1] = 0
              ELSE /\ d[2 * n] = (d[n] * W[2 * n]) \div Held(t, n, r)
                   /\ d[2 * n + 1] = d[n] - d[2 * n]
  <2>1. d[n] \in Nat
    BY <1>8, <1>n
  <2> HIDE DEF W
  <2> QED BY <1>7, <1>10, <2>1
<1> QED BY <1>1, <1>3, <1>5, <1>6, <1>9, <1>10 DEF d

\* A pushed node on the way to r is the sum of its children and has its worth.
LEMMA PushedPath ==
  ASSUME NEW t, NEW u, NEW r, Pushed(t, u, r)
  PROVE  LET W == PushView(t)
         IN  /\ \A n \in Above(r) : u[n] = W[n] /\ W[n] \in Nat
             /\ \A n \in Inner : n \in Above(r) =>
                  /\ u[2 * n] = W[2 * n] /\ u[2 * n + 1] = W[2 * n + 1]
                  /\ W[2 * n] \in Nat /\ W[2 * n + 1] \in Nat /\ W[n] = W[2 * n] + W[2 * n + 1]
<1> DEFINE W == PushView(t)
<1>0. t \in Trees /\ Rooted(t) /\ r \in Leaves /\ u[1] = t[1] /\ \A n \in Nodes : Split(n, r) => u[n] = W[n]
  BY DEF Pushed
<1>1. \A n \in Nodes : W[n] \in Nat
  BY <1>0, ViewIs DEF Trees
<1>2. ASSUME NEW n \in Above(r) PROVE u[n] = W[n] /\ W[n] \in Nat
  <2>1. n \in Nodes
    BY DEF Above
  <2>2. CASE n = 1
    BY <1>0, <1>1, <2>1, <2>2, ViewIs
  <2>3. CASE n # 1
    <3>1. n \div 2 \in Above(r)
      BY <1>0, <2>3, PathUp
    <3> QED BY <1>0, <1>1, <2>1, <2>3, <3>1 DEF Split
  <2> QED BY <2>2, <2>3
<1>3. ASSUME NEW n \in Inner, n \in Above(r)
      PROVE  /\ u[2 * n] = W[2 * n] /\ u[2 * n + 1] = W[2 * n + 1]
             /\ W[2 * n] \in Nat /\ W[2 * n + 1] \in Nat /\ W[n] = W[2 * n] + W[2 * n + 1]
  <2>1. Split(2 * n, r) /\ Split(2 * n + 1, r) /\ 2 * n \in Nodes /\ 2 * n + 1 \in Nodes
    BY <1>3, Children DEF Split
  <2>2. W[n] = W[2 * n] + W[2 * n + 1]
    BY <1>0, ViewSplits
  <2> QED BY <1>0, <1>1, <2>1, <2>2
<1> QED BY <1>2, <1>3

\* What arrives at a node is for leaves that are worth something, and all of it goes on.
LEMMA PortionArrives ==
  ASSUME NEW t, NEW u, NEW r, Pushed(t, u, r), NEW last, Bounded(t, r, last), NEW a \in Nat,
         PrefixWorth(t, r) > 0
  PROVE  LET d == Portions(u, r, a, last)
         IN  /\ \A n \in Above(r) : d[n] > 0 => Held(t, n, r) > 0
             /\ \A n \in Inner : n \in Above(r) /\ r < Last[n] => d[n] = d[2 * n] + d[2 * n + 1]
             /\ \A n \in Nodes : d[n] > 0 => u[n] > 0
<1> DEFINE W == PushView(t)
           d == Portions(u, r, a, last)
           H(n) == Held(t, n, r)
<1>0. t \in Trees /\ Rooted(t) /\ r \in Leaves /\ r \in Nat
  BY Numbers DEF Pushed
<1>1. /\ d \in [Nodes -> Nat] /\ d[1] = a
      /\ \A n \in Inner : n \notin Above(r) \/ r >= Last[n] => d[2 * n] = 0 /\ d[2 * n + 1] = 0
      /\ \A n \in Inner : n \in Above(r) /\ r < Last[n] /\ r <= Last[2 * n] =>
           d[2 * n] = d[n] /\ d[2 * n + 1] = 0
      /\ \A n \in Inner : n \in Above(r) /\ r < Last[n] /\ Last[2 * n] < r =>
           IF Held(t, n, r) = 0 THEN d[2 * n] = 0 /\ d[2 * n + 1] = 0
           ELSE /\ d[2 * n] = (d[n] * W[2 * n]) \div Held(t, n, r)
                /\ d[2 * n + 1] = d[n] - d[2 * n]
  BY PortionSteps
<1>2. /\ \A n \in Above(r) : u[n] = W[n] /\ W[n] \in Nat
      /\ \A n \in Inner : n \in Above(r) =>
           /\ u[2 * n] = W[2 * n] /\ u[2 * n + 1] = W[2 * n + 1]
           /\ W[2 * n] \in Nat /\ W[2 * n + 1] \in Nat
  BY PushedPath
<1>3. ASSUME NEW n \in Above(r)
      PROVE  /\ H(n) \in Nat /\ H(n) <= W[n] /\ n \in Nodes
             /\ n \in Inner /\ r <= Last[2 * n] => H(2 * n) = H(n)
             /\ n \in Inner /\ r > Last[2 * n] => H(n) = W[2 * n] + H(2 * n + 1)
  BY <1>0, HeldIs DEF Above
<1>n. ASSUME NEW n \in Inner
      PROVE  /\ n \in Nodes /\ 2 * n \in Nodes /\ 2 * n + 1 \in Nodes /\ n \in Nat
             /\ Last[2 * n] \in Nat /\ Last[n] \in Nat
  BY Children, SpansAreIntervals
<1>d. \A n \in Nodes : d[n] \in Nat
  BY <1>1
<1> HIDE DEF d, W, H
\* One step below a node on the way, when the range ends within its right child.
<1>4. ASSUME NEW n \in Inner, n \in Above(r), r < Last[n], Last[2 * n] < r, d[n] > 0 => H(n) > 0
      PROVE  /\ d[n] = d[2 * n] + d[2 * n + 1]
             /\ d[2 * n] > 0 => W[2 * n] > 0
             /\ d[2 * n + 1] > 0 => H(2 * n + 1) > 0
  <2> DEFINE l == W[2 * n]
             h == H(2 * n + 1)
             s == H(n)
             x == d[n]
  <2>1. 2 * n + 1 \in Above(r)
    BY <1>0, <1>4, <1>n, PathDown
  <2>2. l \in Nat /\ h \in Nat /\ s = l + h /\ x \in Nat
    BY <1>0, <1>2, <1>3, <1>4, <1>n, <1>d, <2>1
  <2>3. CASE s = 0
    <3>1. d[2 * n] = 0 /\ d[2 * n + 1] = 0
      BY <1>1, <1>4, <2>3 DEF H
    <3>2. x = 0
      BY <1>4, <2>2, <2>3
    <3> QED BY <3>1, <3>2
  <2>4. CASE s # 0
    <3>1. d[2 * n] = (x * l) \div s /\ d[2 * n + 1] = x - d[2 * n]
      BY <1>1, <1>4, <2>4 DEF H
    <3> HIDE DEF x, s, l, h
    <3>2. s \in Nat /\ s > 0 /\ l <= s
      BY <2>2, <2>4
    <3>3. /\ (x * l) \div s \in Nat /\ (l = s => (x * l) \div s = x) /\ (l = 0 => (x * l) \div s = 0)
      BY <2>2, <3>2, Share
    <3>4. d[2 * n] \in Nat /\ x = d[2 * n] + d[2 * n + 1]
      BY <2>2, <3>1, <3>3
    <3>5. l = 0 => d[2 * n] = 0
      BY <3>1, <3>3
    <3>6. h = 0 => d[2 * n + 1] = 0
      BY <2>2, <3>1, <3>3
    <3>7. (d[2 * n] > 0 => l > 0) /\ (d[2 * n + 1] > 0 => h > 0)
      BY <2>2, <3>5, <3>6
    <3> QED BY <3>4, <3>7 DEF x, l, h
  <2> QED BY <2>3, <2>4
<1>5. Above(r) \subseteq {n \in Nodes : d[n] > 0 => H(n) > 0}
  <2> DEFINE P == {n \in Nodes : d[n] > 0 => H(n) > 0}
  <2>1. 1 \in P
    <3>1. H(1) = PrefixWorth(t, r)
      BY <1>0, HeldByRoot DEF H
    <3> QED BY <3>1, Numbers
  <2>2. ASSUME NEW n \in Inner, n \in Above(r), n \in P,
               NEW c \in {2 * n, 2 * n + 1}, c \in Above(r)
        PROVE  c \in P
    <3>0. c \in Nodes /\ (d[n] > 0 => H(n) > 0)
      BY <1>n, <2>2
    <3>1. CASE r >= Last[n]
      <4>1. d[c] = 0
        BY <1>1, <2>2, <3>1
      <4> QED BY <3>0, <4>1
    <3>2. CASE r < Last[n] /\ r <= Last[2 * n]
      <4>1. c = 2 * n
        BY <1>0, <2>2, <3>2, PathDown
      <4>2. d[c] = d[n] /\ H(c) = H(n)
        BY <1>1, <1>3, <2>2, <3>2, <4>1
      <4> QED BY <3>0, <4>2
    <3>3. CASE r < Last[n] /\ Last[2 * n] < r
      <4>1. c = 2 * n + 1
        BY <1>0, <1>n, <2>2, <3>3, PathDown
      <4>2. d[c] > 0 => H(c) > 0
        BY <1>4, <2>2, <3>0, <3>3, <4>1
      <4> QED BY <3>0, <4>2
    <3> QED BY <1>0, <1>n, <3>1, <3>2, <3>3
  <2> HIDE DEF P
  <2>3. Above(r) \subseteq P
    BY <1>0, <2>1, <2>2, DownThePath
  <2> QED BY <2>3 DEF P
<1>6. \A n \in Above(r) : d[n] > 0 => H(n) > 0
  BY <1>5
<1>7. ASSUME NEW n \in Inner, n \in Above(r), r < Last[n] PROVE d[n] = d[2 * n] + d[2 * n + 1]
  <2>1. CASE r <= Last[2 * n]
    BY <1>1, <1>7, <1>d, <1>n, <2>1
  <2>2. CASE Last[2 * n] < r
    BY <1>4, <1>6, <1>7, <2>2
  <2> QED BY <1>0, <1>n, <2>1, <2>2
<1>8. ASSUME NEW n \in Above(r), d[n] > 0 PROVE u[n] > 0
  <2>1. H(n) > 0 /\ H(n) <= W[n] /\ H(n) \in Nat /\ W[n] \in Nat /\ u[n] = W[n]
    BY <1>2, <1>3, <1>6, <1>8
  <2> QED BY <2>1
<1>9. ASSUME NEW n \in Nodes, n \notin Above(r), d[n] > 0 PROVE u[n] > 0
  <2>0. n # 1
    BY <1>0, <1>9, PathEnds
  <2> DEFINE p == n \div 2
  <2>1. p \in Inner /\ (n = 2 * p \/ n = 2 * p + 1)
    BY <2>0, Parent
  <2> HIDE DEF p
  <2>2. p \in Above(r) /\ r < Last[p]
    <3>1. d[n] # 0
      BY <1>9
    <3> QED BY <1>0, <1>1, <1>n, <2>1, <3>1
  <2>3. Last[2 * p] < r
    <3> SUFFICES ASSUME r <= Last[2 * p] PROVE FALSE
      BY <1>0, <1>n, <2>1
    <3>1. n = 2 * p + 1
      BY <1>0, <1>9, <2>1, <2>2, PathDown
    <3> QED BY <1>1, <1>9, <2>1, <2>2, <3>1
  <2>4. n = 2 * p
    BY <1>0, <1>9, <1>n, <2>1, <2>2, <2>3, PathDown
  <2>5. W[n] > 0
    BY <1>4, <1>6, <1>9, <2>1, <2>2, <2>3, <2>4
  <2> QED BY <1>2, <2>1, <2>2, <2>4, <2>5
<1>10. \A n \in Nodes : d[n] > 0 => u[n] > 0
  BY <1>8, <1>9
<1> QED BY <1>6, <1>7, <1>10 DEF d, H

\* A change that the prefix can bear can be borne by every node.
LEMMA PortionFits ==
  ASSUME NEW t, NEW u, NEW r, Pushed(t, u, r), NEW last, Bounded(t, r, last), NEW a \in Nat,
         a <= PrefixWorth(t, r)
  PROVE  LET d == Portions(u, r, a, last)
         IN  /\ \A n \in Above(r) : d[n] <= Held(t, n, r)
             /\ \A n \in Nodes : d[n] <= u[n]
<1> DEFINE W == PushView(t)
           d == Portions(u, r, a, last)
           H(n) == Held(t, n, r)
<1>0. t \in Trees /\ Rooted(t) /\ r \in Leaves /\ r \in Nat /\ u \in Trees
  BY Numbers DEF Pushed
<1>1. /\ d \in [Nodes -> Nat] /\ d[1] = a
      /\ \A n \in Inner : n \notin Above(r) \/ r >= Last[n] => d[2 * n] = 0 /\ d[2 * n + 1] = 0
      /\ \A n \in Inner : n \in Above(r) /\ r < Last[n] /\ r <= Last[2 * n] =>
           d[2 * n] = d[n] /\ d[2 * n + 1] = 0
      /\ \A n \in Inner : n \in Above(r) /\ r < Last[n] /\ Last[2 * n] < r =>
           IF Held(t, n, r) = 0 THEN d[2 * n] = 0 /\ d[2 * n + 1] = 0
           ELSE /\ d[2 * n] = (d[n] * W[2 * n]) \div Held(t, n, r)
                /\ d[2 * n + 1] = d[n] - d[2 * n]
  BY PortionSteps
<1>2. /\ \A n \in Above(r) : u[n] = W[n] /\ W[n] \in Nat
      /\ \A n \in Inner : n \in Above(r) =>
           /\ u[2 * n] = W[2 * n] /\ u[2 * n + 1] = W[2 * n + 1]
           /\ W[2 * n] \in Nat /\ W[2 * n + 1] \in Nat
  BY PushedPath
<1>3. ASSUME NEW n \in Above(r)
      PROVE  /\ H(n) \in Nat /\ H(n) <= W[n] /\ n \in Nodes
             /\ n \in Inner /\ r <= Last[2 * n] => H(2 * n) = H(n)
             /\ n \in Inner /\ r > Last[2 * n] => H(n) = W[2 * n] + H(2 * n + 1)
  BY <1>0, HeldIs DEF Above
<1>n. ASSUME NEW n \in Inner
      PROVE  /\ n \in Nodes /\ 2 * n \in Nodes /\ 2 * n + 1 \in Nodes /\ n \in Nat
             /\ Last[2 * n] \in Nat /\ Last[n] \in Nat
  BY Children, SpansAreIntervals
<1>d. \A n \in Nodes : d[n] \in Nat
  BY <1>1
<1> HIDE DEF d, W, H
<1>4. ASSUME NEW n \in Inner, n \in Above(r), r < Last[n], Last[2 * n] < r, d[n] <= H(n)
      PROVE  d[2 * n] <= W[2 * n] /\ d[2 * n + 1] <= H(2 * n + 1)
  <2> DEFINE l == W[2 * n]
             h == H(2 * n + 1)
             s == H(n)
             x == d[n]
  <2>1. 2 * n + 1 \in Above(r)
    BY <1>0, <1>4, <1>n, PathDown
  <2>2. l \in Nat /\ h \in Nat /\ s = l + h /\ x \in Nat
    BY <1>0, <1>2, <1>3, <1>4, <1>n, <1>d, <2>1
  <2>3. CASE s = 0
    <3>1. d[2 * n] = 0 /\ d[2 * n + 1] = 0
      BY <1>1, <1>4, <2>3 DEF H
    <3> QED BY <2>2, <3>1
  <2>4. CASE s # 0
    <3>1. d[2 * n] = (x * l) \div s /\ d[2 * n + 1] = x - d[2 * n]
      BY <1>1, <1>4, <2>4 DEF H
    <3>0. x <= s
      BY <1>4
    <3> HIDE DEF x, s, l, h
    <3>2. s \in Nat /\ s > 0 /\ l <= s
      BY <2>2, <2>4
    <3>3. (x * l) \div s <= l /\ x - (x * l) \div s <= s - l
      BY <2>2, <3>0, <3>2, Share
    <3>4. d[2 * n] <= l /\ d[2 * n + 1] <= h
      BY <2>2, <3>1, <3>3
    <3> QED BY <3>4 DEF l, h
  <2> QED BY <2>3, <2>4
<1>5. Above(r) \subseteq {n \in Nodes : d[n] <= H(n)}
  <2> DEFINE P == {n \in Nodes : d[n] <= H(n)}
  <2>1. 1 \in P
    <3>1. H(1) = PrefixWorth(t, r)
      BY <1>0, HeldByRoot DEF H
    <3> QED BY <1>1, <3>1, Numbers
  <2>2. ASSUME NEW n \in Inner, n \in Above(r), n \in P,
               NEW c \in {2 * n, 2 * n + 1}, c \in Above(r)
        PROVE  c \in P
    <3>0. c \in Nodes /\ d[n] <= H(n) /\ H(c) \in Nat
      BY <1>n, <1>3, <2>2
    <3>1. CASE r >= Last[n]
      <4>1. d[c] = 0
        BY <1>1, <2>2, <3>1
      <4> QED BY <3>0, <4>1
    <3>2. CASE r < Last[n] /\ r <= Last[2 * n]
      <4>1. c = 2 * n
        BY <1>0, <2>2, <3>2, PathDown
      <4>2. d[c] = d[n] /\ H(c) = H(n)
        BY <1>1, <1>3, <2>2, <3>2, <4>1
      <4> QED BY <3>0, <4>2
    <3>3. CASE r < Last[n] /\ Last[2 * n] < r
      <4>1. c = 2 * n + 1
        BY <1>0, <1>n, <2>2, <3>3, PathDown
      <4>2. d[c] <= H(c)
        BY <1>4, <2>2, <3>0, <3>3, <4>1
      <4> QED BY <3>0, <4>2
    <3> QED BY <1>0, <1>n, <3>1, <3>2, <3>3
  <2> HIDE DEF P
  <2>3. Above(r) \subseteq P
    BY <1>0, <2>1, <2>2, DownThePath
  <2> QED BY <2>3 DEF P
<1>6. \A n \in Above(r) : d[n] <= H(n)
  BY <1>5
<1>8. ASSUME NEW n \in Above(r) PROVE d[n] <= u[n]
  <2>1. d[n] <= H(n) /\ H(n) <= W[n] /\ H(n) \in Nat /\ W[n] \in Nat /\ u[n] = W[n] /\ d[n] \in Nat
    BY <1>2, <1>3, <1>6, <1>8, <1>d
  <2> QED BY <2>1
<1>9. ASSUME NEW n \in Nodes, n \notin Above(r) PROVE d[n] <= u[n]
  <2> SUFFICES ASSUME d[n] > 0 PROVE d[n] <= u[n]
    BY <1>0, <1>d DEF Trees
  <2>0. n # 1
    BY <1>0, <1>9, PathEnds
  <2> DEFINE p == n \div 2
  <2>1. p \in Inner /\ (n = 2 * p \/ n = 2 * p + 1)
    BY <2>0, Parent
  <2> HIDE DEF p
  <2>2. p \in Above(r) /\ r < Last[p]
    BY <1>0, <1>1, <1>n, <2>1
  <2>3. Last[2 * p] < r
    <3> SUFFICES ASSUME r <= Last[2 * p] PROVE FALSE
      BY <1>0, <1>n, <2>1
    <3>1. n = 2 * p + 1
      BY <1>0, <1>9, <2>1, <2>2, PathDown
    <3> QED BY <1>1, <2>1, <2>2, <3>1
  <2>4. n = 2 * p
    BY <1>0, <1>9, <1>n, <2>1, <2>2, <2>3, PathDown
  <2>5. d[n] <= W[n]
    BY <1>4, <1>6, <2>1, <2>2, <2>3, <2>4
  <2> QED BY <1>2, <2>1, <2>2, <2>4, <2>5
<1>10. \A n \in Nodes : d[n] <= u[n]
  BY <1>8, <1>9
<1> QED BY <1>6, <1>10 DEF d, H

\* What the lemmas above say of the amounts d that a change of the leaves up to r hands out.
SpreadOver(d, u, r) ==
    /\ d \in [Nodes -> Nat]
    /\ \A n \in Nodes : n \notin Above(r) /\ r < Last[n] => d[n] = 0
    /\ \A n \in Inner : n \notin Above(r) \/ r >= Last[n] => d[2 * n] = 0 /\ d[2 * n + 1] = 0
    /\ \A n \in Inner : n \in Above(r) /\ r < Last[n] => d[n] = d[2 * n] + d[2 * n + 1]
    /\ \A n \in Nodes : d[n] > 0 => u[n] > 0

\* u is tree t pushed to the used leaf r, and keeps the invariant.
Ready(t, u, r, next) ==
    /\ Pushed(t, u, r) /\ next \in Nat /\ r < next
    /\ TreeInv(u, next) /\ PushView(u) = PushView(t)
    /\ \A n \in Inner : n \in Above(r) => Exact(u, n)

IsBooked(v, u, d, isSub) ==
    /\ v \in [Nodes -> Nat]
    /\ \A n \in Nodes : v[n] = IF isSub THEN u[n] - d[n] ELSE u[n] + d[n]

\* A change spread over the tree as it is handed down keeps the invariant of the tree.
LEMMA SpreadKeeps ==
  ASSUME NEW t, NEW u, NEW r, NEW next, Ready(t, u, r, next), u[1] > 0,
         NEW d, SpreadOver(d, u, r), NEW v, NEW isSub \in BOOLEAN, IsBooked(v, u, d, isSub)
  PROVE  TreeInv(v, next)
<1>0. /\ r \in Leaves /\ r \in Nat /\ next \in Nat /\ r < next /\ u \in Trees /\ v \in Trees
      /\ Rooted(u) /\ Unused(u, next) /\ Fresh(u, next)
  BY Numbers DEF Ready, Pushed, TreeInv, IsBooked, Trees
<1>n. ASSUME NEW n \in Inner
      PROVE  /\ n \in Nodes /\ 2 * n \in Nodes /\ 2 * n + 1 \in Nodes
             /\ Last[2 * n] \in Nat /\ Last[2 * n + 1] \in Nat /\ Last[n] \in Nat
  BY Children, SpansAreIntervals
<1>1. ASSUME NEW n \in Nodes
      PROVE  /\ v[n] = IF isSub THEN u[n] - d[n] ELSE u[n] + d[n]
             /\ v[n] \in Nat /\ u[n] \in Nat /\ d[n] \in Nat /\ (d[n] > 0 => u[n] > 0)
  BY <1>0 DEF IsBooked, SpreadOver, Trees
<1>2. ASSUME NEW n \in Inner, n \in Above(r), r < Last[n] PROVE Exact(v, n)
  <2>1. u[n] = u[2 * n] + u[2 * n + 1]
    BY <1>2 DEF Ready, Exact
  <2>2. d[n] = d[2 * n] + d[2 * n + 1]
    BY <1>2 DEF SpreadOver
  <2>3. v[n] = v[2 * n] + v[2 * n + 1]
    <3>1. CASE isSub
      BY <1>1, <1>n, <2>1, <2>2, <3>1
    <3>2. CASE ~isSub
      BY <1>1, <1>n, <2>1, <2>2, <3>2
    <3> QED BY <3>1, <3>2
  <2> QED BY <2>3 DEF Exact
<1>3. ASSUME NEW n \in Inner, n \notin Above(r) \/ r >= Last[n]
      PROVE  v[2 * n] = u[2 * n] /\ v[2 * n + 1] = u[2 * n + 1] /\ d[2 * n] = 0 /\ d[2 * n + 1] = 0
  <2>1. d[2 * n] = 0 /\ d[2 * n + 1] = 0
    BY <1>3 DEF SpreadOver
  <2>2. CASE isSub
    BY <1>1, <1>n, <2>1, <2>2
  <2>3. CASE ~isSub
    BY <1>1, <1>n, <2>1, <2>3
  <2> QED BY <2>1, <2>2, <2>3
<1>4. Rooted(v)
  <2> SUFFICES ASSUME NEW n \in Inner, v[n] > 0 PROVE v[2 * n] > 0 \/ v[2 * n + 1] > 0
    BY DEF Rooted
  <2>1. CASE n \in Above(r) /\ r < Last[n]
    <3>1. v[n] = v[2 * n] + v[2 * n + 1]
      BY <1>2, <2>1 DEF Exact
    <3> QED BY <1>1, <1>n, <3>1
  <2>2. CASE n \notin Above(r) \/ r >= Last[n]
    <3>1. u[n] > 0
      <4>1. d[n] = 0 \/ u[n] > 0
        BY <1>1, <1>n
      <4> QED BY <1>1, <1>n, <4>1
    <3>2. u[2 * n] > 0 \/ u[2 * n + 1] > 0
      BY <1>0, <3>1 DEF Rooted
    <3> QED BY <1>3, <2>2, <3>2
  <2> QED BY <1>0, <1>n, <2>1, <2>2
<1>5. Unused(v, next)
  <2> SUFFICES ASSUME NEW n \in Leaves, n >= next PROVE v[n] = 0
    BY DEF Unused
  <2>1. n \in Nodes /\ u[n] = 0
    BY <1>0, Numbers DEF Unused
  <2>2. d[n] = 0
    BY <1>1, <2>1
  <2> QED BY <1>1, <2>1, <2>2
<1>6. Fresh(v, next)
  <2> SUFFICES ASSUME NEW n \in Inner, Last[n] >= next PROVE Exact(v, n)
    BY DEF Fresh
  <2>0. r < Last[n]
    BY <1>0, <1>n
  <2>1. CASE n \in Above(r)
    BY <1>2, <2>0, <2>1
  <2>2. CASE n \notin Above(r)
    <3>1. d[n] = 0
      BY <1>n, <2>0, <2>2 DEF SpreadOver
    <3>2. v[n] = u[n] /\ v[2 * n] = u[2 * n] /\ v[2 * n + 1] = u[2 * n + 1]
      BY <1>1, <1>3, <1>n, <2>2, <3>1
    <3>3. Exact(u, n)
      BY <1>0 DEF Fresh
    <3> QED BY <3>2, <3>3 DEF Exact
  <2> QED BY <2>1, <2>2
<1> QED BY <1>0, <1>4, <1>5, <1>6 DEF TreeInv

\* The leaves of the range move in one direction, the others keep their worth.
LEMMA SpreadMoves ==
  ASSUME NEW t, NEW u, NEW r, NEW next, Ready(t, u, r, next), u[1] > 0,
         NEW d, SpreadOver(d, u, r), NEW v, NEW isSub \in BOOLEAN, IsBooked(v, u, d, isSub)
  PROVE  LET W == PushView(t)
             V == PushView(v)
         IN  \A k \in Leaves :
               /\ k > r => V[k] = W[k]
               /\ isSub => V[k] <= W[k]
               /\ ~isSub => V[k] >= W[k]
<1> DEFINE W == PushView(t)
           V == PushView(v)
           Moves(x, y) == (isSub => x <= y) /\ (~isSub => x >= y)
           P == {n \in Nodes : (First[n] > r => V[n] = W[n]) /\ Moves(V[n], W[n])}
           D == {n \in Nodes : n = 1 \/ (n \div 2 \in Above(r) /\ r < Last[n \div 2])}
<1>0. /\ r \in Leaves /\ r \in Nat /\ next \in Nat /\ r < next /\ u \in Trees /\ v \in Trees /\ t \in Trees
      /\ PushView(u) = W /\ u[1] = t[1]
  BY Numbers DEF Ready, Pushed, TreeInv, IsBooked, Trees
<1>n. ASSUME NEW n \in Inner
      PROVE  /\ n \in Nodes /\ 2 * n \in Nodes /\ 2 * n + 1 \in Nodes /\ n \in Nat
             /\ Last[2 * n] \in Nat /\ Last[2 * n + 1] \in Nat /\ Last[n] \in Nat
             /\ First[2 * n] \in Nat /\ First[2 * n + 1] \in Nat /\ First[n] \in Nat
             /\ First[2 * n] <= Last[2 * n] /\ First[2 * n + 1] <= Last[2 * n + 1]
             /\ First[2 * n] = First[n] /\ Last[2 * n + 1] = Last[n] /\ Last[2 * n] + 1 = First[2 * n + 1]
  BY Children, SpansAreIntervals, Spans
<1>1. ASSUME NEW n \in Nodes
      PROVE  /\ v[n] = IF isSub THEN u[n] - d[n] ELSE u[n] + d[n]
             /\ v[n] \in Nat /\ u[n] \in Nat /\ d[n] \in Nat /\ W[n] \in Nat /\ V[n] \in Nat
  BY <1>0, ViewIs DEF IsBooked, SpreadOver, Trees
<1>2. ASSUME NEW n \in Inner, n \in Above(r), r < Last[n] PROVE Exact(v, n)
  <2>1. u[n] = u[2 * n] + u[2 * n + 1]
    BY <1>2 DEF Ready, Exact
  <2>2. d[n] = d[2 * n] + d[2 * n + 1]
    BY <1>2 DEF SpreadOver
  <2>3. v[n] = v[2 * n] + v[2 * n + 1]
    <3>1. CASE isSub
      BY <1>1, <1>n, <2>1, <2>2, <3>1
    <3>2. CASE ~isSub
      BY <1>1, <1>n, <2>1, <2>2, <3>2
    <3> QED BY <3>1, <3>2
  <2> QED BY <2>3 DEF Exact
<1>3. ASSUME NEW n \in Inner, n \notin Above(r) \/ r >= Last[n]
      PROVE  v[2 * n] = u[2 * n] /\ v[2 * n + 1] = u[2 * n + 1]
  <2>1. d[2 * n] = 0 /\ d[2 * n + 1] = 0
    BY <1>3 DEF SpreadOver
  <2>2. CASE isSub
    BY <1>1, <1>n, <2>1, <2>2
  <2>3. CASE ~isSub
    BY <1>1, <1>n, <2>1, <2>3
  <2> QED BY <2>1, <2>2, <2>3
<1>4. \A n \in D : V[n] = v[n]
  <2>1. ASSUME NEW n \in D, n # 1 PROVE n \div 2 \in D /\ Exact(v, n \div 2)
    <3> DEFINE p == n \div 2
    <3>1. p \in Inner /\ p \in Above(r) /\ r < Last[p] /\ p \in Nodes
      BY <2>1, Parent
    <3> HIDE DEF p
    <3>2. Exact(v, p)
      BY <1>2, <3>1
    <3>3. CASE p = 1
      BY <3>1, <3>2, <3>3 DEF p
    <3>4. CASE p # 1
      <4> DEFINE q == p \div 2
      <4>1. q \in Inner /\ q \in Above(r) /\ (p = 2 * q \/ p = 2 * q + 1)
        BY <1>0, <3>1, <3>4, Parent, PathUp
      <4> HIDE DEF q
      <4>2. Last[p] <= Last[q]
        BY <1>n, <4>1
      <4>3. r < Last[q]
        BY <1>0, <1>n, <3>1, <4>1, <4>2, SpansAreIntervals
      <4>4. p \in D
        BY <3>1, <4>1, <4>3 DEF q
      <4> QED BY <3>2, <4>4 DEF p
    <3> QED BY <3>3, <3>4
  <2>2. D \in SUBSET Nodes
    OBVIOUS
  <2> HIDE DEF D, V
  <2> QED BY <1>0, <2>1, <2>2, ViewOfExact DEF V
<1>5. \A n \in Nodes : n = 1 \/ (n \div 2 \in Above(r) /\ r < Last[n \div 2]) => V[n] = v[n]
  BY <1>4
<1> HIDE DEF W, V, D
<1>6. 1 \in P
  <2>1. V[1] = v[1] /\ W[1] = u[1] /\ 1 \in Nodes
    BY <1>0, <1>5, Numbers, ViewIs DEF W
  <2>2. ~(First[1] > r)
    BY <1>0, PathEnds, SpansAreIntervals, Numbers
  <2>3. Moves(v[1], u[1])
    BY <1>1, <2>1
  <2> QED BY <2>1, <2>2, <2>3
<1>7. ASSUME NEW n \in Nodes, n # 1, n \div 2 \in P PROVE n \in P
  <2> DEFINE p == n \div 2
  <2>1. p \in Inner /\ (n = 2 * p \/ n = 2 * p + 1) /\ p \in P
    BY <1>7, Parent
  <2>n. First[n] \in Nat /\ Last[n] \in Nat /\ First[n] <= Last[n]
    BY SpansAreIntervals
  <2>2. CASE p \in Above(r) /\ r < Last[p]
    <3>1. V[n] = v[n]
      BY <1>5, <2>2
    <3>2. W[n] = u[n]
      <4> HIDE DEF p
      <4>1. (u[2 * p] = W[2 * p]) /\ (u[2 * p + 1] = W[2 * p + 1])
        BY <2>1, <2>2, PushedPath DEF W, Ready
      <4> QED BY <2>1, <4>1
    <3>3. First[n] > r => d[n] = 0
      <4> SUFFICES ASSUME First[n] > r PROVE d[n] = 0
        OBVIOUS
      <4>1. n \notin Above(r)
        BY <1>0, <2>n DEF Above
      <4>2. r < Last[n]
        BY <1>0, <2>n
      <4> QED BY <4>1, <4>2 DEF SpreadOver
    <3>4. d[n] = 0 => v[n] = u[n]
      BY <1>1
    <3>5. Moves(v[n], u[n])
      BY <1>1
    <3> HIDE DEF Moves
    <3> QED BY <3>1, <3>2, <3>3, <3>4, <3>5
  <2>3. CASE p \notin Above(r) \/ r >= Last[p]
    <3> HIDE DEF p
    <3>1. v[2 * p] = u[2 * p] /\ v[2 * p + 1] = u[2 * p + 1]
      BY <1>3, <2>1, <2>3
    <3>2. (First[p] > r => V[p] = W[p]) /\ Moves(V[p], W[p])
      BY <2>1
    <3>3. First[n] > r => First[p] > r
      BY <1>0, <1>n, <2>1, <2>3 DEF Above
    <3>4. First[p] > r => V[n] = W[n]
      BY <1>0, <2>1, <3>1, <3>2, ViewsAgree DEF V, W
    <3>5. Moves(V[n], W[n])
      <4> DEFINE x == V[p]
                 y == W[p]
      <4>1. x \in Nat /\ y \in Nat
        BY <1>1, <1>n, <2>1
      <4>2. /\ V[2 * p] = LeftShare(v, p, x)
            /\ V[2 * p + 1] = IF v[2 * p + 1] = 0 THEN 0 ELSE x - LeftShare(v, p, x)
        BY <1>0, <2>1, ViewIs DEF V
      <4>3. /\ W[2 * p] = LeftShare(u, p, y)
            /\ W[2 * p + 1] = IF u[2 * p + 1] = 0 THEN 0 ELSE y - LeftShare(u, p, y)
        BY <1>0, <2>1, ViewIs DEF W
      <4>4. LeftShare(v, p, x) = LeftShare(u, p, x)
        BY <3>1 DEF LeftShare
      <4> HIDE DEF x, y
      <4>5. CASE isSub
        <5>1. x <= y
          BY <3>2, <4>5 DEF x, y
        <5>2. LeftShare(u, p, x) <= LeftShare(u, p, y) /\ x - LeftShare(u, p, x) <= y - LeftShare(u, p, y)
          BY <1>0, <2>1, <4>1, <5>1, LeftShareGrows
        <5>3. V[2 * p] <= W[2 * p] /\ V[2 * p + 1] <= W[2 * p + 1]
          BY <3>1, <4>2, <4>3, <4>4, <5>2
        <5> QED BY <2>1, <4>5, <5>3
      <4>6. CASE ~isSub
        <5>1. y <= x
          BY <3>2, <4>1, <4>6 DEF x, y
        <5>2. LeftShare(u, p, y) <= LeftShare(u, p, x) /\ y - LeftShare(u, p, y) <= x - LeftShare(u, p, x)
          BY <1>0, <2>1, <4>1, <5>1, LeftShareGrows
        <5>3. W[2 * p] <= V[2 * p] /\ W[2 * p + 1] <= V[2 * p + 1]
          BY <3>1, <4>2, <4>3, <4>4, <5>2
        <5>4. V[n] >= W[n]
          BY <1>1, <1>n, <2>1, <5>3
        <5> QED BY <4>6, <5>4
      <4> QED BY <4>5, <4>6
    <3> HIDE DEF Moves
    <3> QED BY <3>3, <3>4, <3>5
  <2>4. Last[p] \in Nat
    <3> HIDE DEF p
    <3> QED BY <1>n, <2>1
  <2> QED BY <1>0, <2>2, <2>3, <2>4
<1>8. Nodes \subseteq P
  <2> HIDE DEF P
  <2> QED BY <1>6, <1>7, DownTheTree
<1>9. \A k \in Leaves : k \in Nodes /\ First[k] = k
  BY Numbers, FirstIs
<1> QED BY <1>8, <1>9 DEF V, W

\* Min is the least element.
LEMMA LeastIs ==
  ASSUME NEW S \in SUBSET Nat, S # {}
  PROVE  Min(S) \in S /\ \A x \in S : Min(S) <= x
<1>1. \E x \in S : \A y \in S : x <= y
  BY LeastNatural
<1> QED BY <1>1 DEF Min

\* The subtraction of _getPushPercent does not fail on a pushed tree: PushLazy never reverts.
LEMMA NoUnderflow ==
  ASSUME NEW t, NEW u, NEW r, Pushed(t, u, r), NEW last, Bounded(t, r, last)
  PROVE  ~Underflows(u, r, last)
<1> DEFINE halts == {n \in Nodes : Splits(n, r) /\ Halts(u, n, r, last)}
<1> SUFFICES ASSUME halts # {}, RightInRange(u, Min(halts), r, last) < 0 PROVE FALSE
  BY DEF Underflows
<1> DEFINE m == Min(halts)
<1>1. m \in halts
  <2>1. halts \in SUBSET Nat
    BY Numbers
  <2> HIDE DEF halts
  <2> QED BY <2>1, LeastIs
<1>2. m \in Nodes /\ Splits(m, r)
  BY <1>1
<1> HIDE DEF m
<1>3. m \in Inner /\ m \in Above(r) /\ Last[2 * m] < r /\ r < Last[m]
  BY <1>2 DEF Splits, Inner
<1>4. RightInRange(u, m, r, last) \in Nat
  BY <1>3, RightIs
<1> QED BY <1>4 DEF m

\* A push makes the tree ready for a change of the leaves up to r.
LEMMA ReadyPush ==
  ASSUME NEW t, NEW next \in Nat, TreeInv(t, next), NEW r \in Leaves, r < next
  PROVE  /\ Ready(t, Push(t, r), r, next) /\ Pushed(t, Push(t, r), r)
         /\ Push(t, r)[1] = t[1] /\ Push(t, r) \in Trees
<1> DEFINE u == Push(t, r)
<1>1. t \in Trees /\ Rooted(t)
  BY DEF TreeInv
<1>2. \A n \in Nodes : u[n] = IF Split(n, r) THEN PushView(t)[n] ELSE t[n]
  BY <1>1, PushIs
<1>3. /\ u \in Trees /\ Rooted(u) /\ PushView(u) = PushView(t) /\ u[1] = t[1] /\ TreeInv(u, next)
      /\ \A n \in Above(r) \cap Inner : Exact(u, n)
  BY <1>1, PushKeeps
<1> HIDE DEF u
<1>4. Pushed(t, u, r)
  BY <1>1, <1>2, <1>3 DEF Pushed
<1> QED BY <1>3, <1>4 DEF Ready, u

\* No used leaf but the last is after all of the worth.
LEMMA UsedBound ==
  ASSUME NEW t, NEW next \in (LIQUIDITYNODES + 1)..(2 * LIQUIDITYNODES), TreeInv(t, next),
         NEW r \in LIQUIDITYNODES..(next - 1)
  PROVE  /\ r \in Leaves /\ r < next /\ next \in Nat /\ PrefixWorth(t, r) \in Nat
         /\ PrefixWorth(t, r) <= t[1] /\ t[1] \in Nat
         /\ PrefixWorth(t, next - 1) = t[1]
         /\ Bounded(t, r, next - 1)
         /\ Bounded(t, r, 2 * LIQUIDITYNODES - 1)
<1>1. r \in Leaves /\ r < next /\ next \in Nat /\ r \in Nat /\ LIQUIDITYNODES \in Nat
  BY Width DEF Leaves
<1>2. t \in Trees /\ Rooted(t) /\ Unused(t, next)
  BY DEF TreeInv
<1>3. /\ r \in (LIQUIDITYNODES - 1)..(2 * LIQUIDITYNODES - 1)
      /\ next \in LIQUIDITYNODES..(2 * LIQUIDITYNODES)
      /\ next - 1 \in (next - 1)..(2 * LIQUIDITYNODES - 1)
  BY <1>1
<1>4. PrefixWorth(t, r) \in Nat /\ PrefixWorth(t, r) <= t[1] /\ t[1] \in Nat
  BY <1>2, <1>3, RootWorth
<1>5. PrefixWorth(t, next - 1) = t[1]
  BY <1>2, <1>3, RootWorth
<1>6. Bounded(t, r, next - 1)
  <2>1. r >= next - 1 => r = next - 1
    BY <1>1
  <2>2. next - 1 \in Int
    BY <1>1
  <2> QED BY <1>5, <2>1, <2>2 DEF Bounded
<1>7. Bounded(t, r, 2 * LIQUIDITYNODES - 1)
  <2>1. r >= 2 * LIQUIDITYNODES - 1 => r = 2 * LIQUIDITYNODES - 1
    BY <1>1 DEF Leaves
  <2>2. 2 * LIQUIDITYNODES - 1 \in Int
    BY <1>1
  <2> QED BY <1>2, <2>1, <2>2, RootWorth DEF Bounded
<1> QED BY <1>1, <1>4, <1>5, <1>6, <1>7

\* A change of the leaves up to a used leaf, over the tree pushed to it: it is booked to the unit,
\* moves the leaves of the range in one direction, and no other leaf.
LEMMA Booked ==
  ASSUME NEW t, NEW next \in (LIQUIDITYNODES + 1)..(2 * LIQUIDITYNODES), TreeInv(t, next),
         NEW r \in LIQUIDITYNODES..(next - 1), NEW a \in Nat, NEW isSub \in BOOLEAN,
         PrefixWorth(t, r) > 0, isSub => a <= PrefixWorth(t, r)
  PROVE  LET v == PushLazy(Push(t, r), r, a, isSub, next)
             W == PushView(t)
             V == PushView(v)
         IN  /\ TreeInv(v, next)
             /\ v[1] = IF isSub THEN t[1] - a ELSE t[1] + a
             /\ \A k \in Leaves :
                  /\ k > r => V[k] = W[k]
                  /\ isSub => V[k] <= W[k]
                  /\ ~isSub => V[k] >= W[k]
<1> DEFINE u == Push(t, r)
           last == next - 1
           d == Portions(u, r, a, last)
           v == PushLazy(u, r, a, isSub, next)
<1>1. /\ r \in Leaves /\ r < next /\ next \in Nat /\ Bounded(t, r, last)
      /\ PrefixWorth(t, r) \in Nat /\ PrefixWorth(t, r) <= t[1] /\ t[1] \in Nat
  BY UsedBound
<1>2. Ready(t, u, r, next) /\ Pushed(t, u, r) /\ u[1] = t[1] /\ u \in Trees
  BY <1>1, ReadyPush
<1> HIDE DEF u, last
<1>3. /\ d \in [Nodes -> Nat] /\ d[1] = a
      /\ \A n \in Nodes : n \notin Above(r) /\ r < Last[n] => d[n] = 0
      /\ \A n \in Inner : n \notin Above(r) \/ r >= Last[n] => d[2 * n] = 0 /\ d[2 * n + 1] = 0
  BY <1>1, <1>2, PortionSteps
<1>4. /\ \A n \in Inner : n \in Above(r) /\ r < Last[n] => d[n] = d[2 * n] + d[2 * n + 1]
      /\ \A n \in Nodes : d[n] > 0 => u[n] > 0
  BY <1>1, <1>2, PortionArrives
<1>5. isSub => \A n \in Nodes : d[n] <= u[n]
  BY <1>1, <1>2, PortionFits
<1>6. ~Underflows(u, r, last)
  BY <1>1, <1>2, NoUnderflow
<1>7. u[1] > 0 /\ u[1] \in Nat
  BY <1>1, <1>2
<1>8. v = [n \in Nodes |-> IF n = 1 \/ u[n] > 0 THEN ChangeAmount(u[n], d[n], isSub) ELSE u[n]]
  <2>1. ~(~isSub /\ u[1] = 0)
    BY <1>7
  <2> HIDE DEF d
  <2> QED BY <1>6, <2>1 DEF PushLazy, last, d
<1> HIDE DEF d, v
<1>9. ASSUME NEW n \in Nodes
      PROVE  v[n] = (IF isSub THEN u[n] - d[n] ELSE u[n] + d[n]) /\ v[n] \in Nat
  <2> DEFINE x == u[n]
             y == d[n]
  <2>1. x \in Nat /\ y \in Nat /\ (y > 0 => x > 0) /\ (isSub => y <= x)
    BY <1>2, <1>3, <1>4, <1>5 DEF Trees
  <2>2. v[n] = IF n = 1 \/ x > 0 THEN ChangeAmount(x, y, isSub) ELSE x
    BY <1>8
  <2> HIDE DEF x, y
  <2>3. v[n] = (IF isSub THEN x - y ELSE x + y) /\ v[n] \in Nat
    <3>1. CASE isSub
      BY <2>1, <2>2, <3>1 DEF ChangeAmount
    <3>2. CASE ~isSub
      BY <2>1, <2>2, <3>2 DEF ChangeAmount
    <3> QED BY <3>1, <3>2
  <2> QED BY <2>3 DEF x, y
<1>10. v \in [Nodes -> Nat]
  <2>1. v = [n \in Nodes |-> v[n]]
    BY <1>8
  <2> QED BY <1>9, <2>1
<1>11. SpreadOver(d, u, r)
  BY <1>3, <1>4 DEF SpreadOver
<1>12. IsBooked(v, u, d, isSub)
  BY <1>9, <1>10 DEF IsBooked
<1>13. TreeInv(v, next)
  BY <1>2, <1>7, <1>11, <1>12, SpreadKeeps
<1>14. \A k \in Leaves :
         /\ k > r => PushView(v)[k] = PushView(t)[k]
         /\ isSub => PushView(v)[k] <= PushView(t)[k]
         /\ ~isSub => PushView(v)[k] >= PushView(t)[k]
  BY <1>2, <1>7, <1>11, <1>12, SpreadMoves
<1>15. v[1] = IF isSub THEN t[1] - a ELSE t[1] + a
  BY <1>2, <1>3, <1>9, Numbers
<1> QED BY <1>13, <1>14, <1>15 DEF v, u

-----------------------------------------------------------------------------
(* The preview of a change.                                                *)

Short(t, d, n, isSub) == IF isSub THEN t[n] < d[n] ELSE t[n] = 0
WholeStep(t, d, r, last, n, isSub, below) ==
    LET right == RightInRange(t, n, r, last)
    IN  IF Short(t, d, n, isSub) THEN TRUE
        ELSE IF n \in Leaves \/ r >= Last[n] THEN FALSE
        ELSE IF r <= Last[2 * n] THEN t[2 * n] = 0 \/ below
        ELSE IF right < 0 THEN FALSE
        ELSE IF t[2 * n] + right = 0 THEN TRUE
        ELSE IF ~isSub THEN Short(t, d, 2 * n, isSub) /\ below
        ELSE IF Short(t, d, 2 * n, isSub) /\ right < d[2 * n + 1] THEN TRUE
        ELSE IF d[2 * n] > 0 /\ ~Short(t, d, 2 * n, isSub) THEN FALSE
        ELSE t[2 * n + 1] >= d[2 * n + 1] /\ below
Below(n, r) == IF n \in Leaves THEN n ELSE IF r <= Last[2 * n] THEN 2 * n ELSE 2 * n + 1

IsWhole(w, t, r, a, isSub) ==
    LET last == 2 * LIQUIDITYNODES - 1
        d == Portions(t, r, a, last)
    IN  /\ NeedsWhole(t, r, a, isSub) = w[1]
        /\ \A n \in Nodes : w[n] = WholeStep(t, d, r, last, n, isSub, w[Below(n, r)])

\* NeedsWhole satisfies its equation.
LEMMA WholeIs ==
  ASSUME NEW t, NEW r, NEW a, NEW isSub
  PROVE  \E w : IsWhole(w, t, r, a, isSub)
<1> DEFINE last == 2 * LIQUIDITYNODES - 1
           d == Portions(t, r, a, last)
           F(n, below) == WholeStep(t, d, r, last, n, isSub, below)
           c == [n \in Nodes |-> Below(n, r)]
           A == [n \in Nodes |-> F(n, FALSE)]
           G == [n \in Nodes |-> [v \in BOOLEAN |-> F(n, v)]]
           Sh(n) == IF isSub THEN t[n] < d[n] ELSE t[n] = 0
           Solves(g) == g = [n \in Nodes |->
                         LET right == RightInRange(t, n, r, last)
                         IN  IF Sh(n) THEN TRUE
                             ELSE IF n \in Leaves \/ r >= Last[n] THEN FALSE
                             ELSE IF r <= Last[2 * n] THEN t[2 * n] = 0 \/ g[2 * n]
                             ELSE IF right < 0 THEN FALSE
                             ELSE IF t[2 * n] + right = 0 THEN TRUE
                             ELSE IF ~isSub THEN Sh(2 * n) /\ g[2 * n + 1]
                             ELSE IF Sh(2 * n) /\ right < d[2 * n + 1] THEN TRUE
                             ELSE IF d[2 * n] > 0 /\ ~Sh(2 * n) THEN FALSE
                             ELSE t[2 * n + 1] >= d[2 * n + 1] /\ g[2 * n + 1]]
<1> HIDE DEF d, last
<1>1. ASSUME NEW n, NEW v PROVE F(n, v) \in BOOLEAN
  BY DEF WholeStep
<1>2. G \in [Nodes -> [BOOLEAN -> BOOLEAN]] /\ A \in [Nodes -> BOOLEAN]
  <2> HIDE DEF F
  <2> QED BY <1>1
<1>3. \A n \in Nodes \ Leaves : n \in Inner /\ c[n] \in {2 * n, 2 * n + 1}
  BY DEF Inner, Below
<1>4. PICK g : IsChainOf(g, Nodes, Leaves, c, BOOLEAN, A, G)
  <2> HIDE DEF G, A, c
  <2> QED BY <1>2, <1>3, ChildRecursion
<1>5. g \in [Nodes -> BOOLEAN] /\ \A n \in Nodes : g[n] = IF n \in Leaves THEN A[n] ELSE G[n][g[c[n]]]
  <2> HIDE DEF G, A, c
  <2> QED BY <1>4 DEF IsChainOf
<1>6. ASSUME NEW n \in Nodes PROVE g[n] = F(n, g[Below(n, r)])
  <2>1. CASE n \in Leaves
    <3>1. g[n] = F(n, FALSE)
      <4> HIDE DEF F
      <4> QED BY <1>5, <2>1
    <3>2. F(n, FALSE) = F(n, g[Below(n, r)])
      BY <2>1 DEF WholeStep
    <3> QED BY <3>1, <3>2
  <2>2. CASE n \notin Leaves
    <3>1. n \in Inner /\ Below(n, r) \in Nodes /\ c[n] = Below(n, r)
      BY <2>2, Children DEF Inner, Below
    <3>2. g[c[n]] \in BOOLEAN
      <4> HIDE DEF c
      <4> QED BY <1>5, <3>1
    <3>3. g[n] = G[n][g[c[n]]]
      <4> HIDE DEF c, G
      <4> QED BY <1>5, <2>2
    <3>4. G[n][g[c[n]]] = F(n, g[c[n]])
      <4> HIDE DEF c, F
      <4> QED BY <3>2
    <3> HIDE DEF c, F, G
    <3> QED BY <3>1, <3>3, <3>4
  <2> QED BY <2>1, <2>2
<1>7. ASSUME NEW h
      PROVE  Solves(h) <=> h = [n \in Nodes |-> F(n, h[Below(n, r)])]
  <2>1. ASSUME NEW n \in Nodes
        PROVE  F(n, h[Below(n, r)]) =
                 LET right == RightInRange(t, n, r, last)
                 IN  IF Sh(n) THEN TRUE
                     ELSE IF n \in Leaves \/ r >= Last[n] THEN FALSE
                     ELSE IF r <= Last[2 * n] THEN t[2 * n] = 0 \/ h[2 * n]
                     ELSE IF right < 0 THEN FALSE
                     ELSE IF t[2 * n] + right = 0 THEN TRUE
                     ELSE IF ~isSub THEN Sh(2 * n) /\ h[2 * n + 1]
                     ELSE IF Sh(2 * n) /\ right < d[2 * n + 1] THEN TRUE
                     ELSE IF d[2 * n] > 0 /\ ~Sh(2 * n) THEN FALSE
                     ELSE t[2 * n + 1] >= d[2 * n + 1] /\ h[2 * n + 1]
    BY DEF WholeStep, Short, Below
  <2> HIDE DEF F
  <2> QED BY <2>1
<1>8. Solves(g)
  <2>1. g = [n \in Nodes |-> g[n]]
    BY <1>5
  <2>2. g = [n \in Nodes |-> F(n, g[Below(n, r)])]
    <3> HIDE DEF F
    <3> QED BY <1>6, <2>1
  <2> HIDE DEF Solves, F
  <2> QED BY <1>7, <2>2
<1> DEFINE w == CHOOSE h : Solves(h)
<1>9. NeedsWhole(t, r, a, isSub) = w[1]
  BY DEF NeedsWhole, d, last
<1>10. Solves(w)
  <2> HIDE DEF Solves
  <2> QED BY <1>8
<1>11. \A n \in Nodes : w[n] = F(n, w[Below(n, r)])
  <2> HIDE DEF Solves, w, F
  <2>1. w = [n \in Nodes |-> F(n, w[Below(n, r)])]
    BY <1>7, <1>10
  <2> QED BY <2>1
<1> HIDE DEF w, F
<1>12. IsWhole(w, t, r, a, isSub)
  BY <1>9, <1>11 DEF F, d, last, IsWhole
<1> QED BY <1>12

\* A profit finds no node to go to exactly when its range is worth nothing.
LEMMA PreviewOfProfit ==
  ASSUME NEW t, NEW u, NEW r, Pushed(t, u, r), Bounded(t, r, 2 * LIQUIDITYNODES - 1), NEW a \in Nat
  PROVE  NeedsWhole(u, r, a, FALSE) <=> PrefixWorth(t, r) = 0
<1> DEFINE last == 2 * LIQUIDITYNODES - 1
           d == Portions(u, r, a, last)
           W == PushView(t)
           H(n) == Held(t, n, r)
<1>0. t \in Trees /\ Rooted(t) /\ r \in Leaves /\ r \in Nat /\ u \in Trees
  BY Numbers DEF Pushed
<1>p. PICK w : IsWhole(w, u, r, a, FALSE)
  BY WholeIs
<1>1. /\ NeedsWhole(u, r, a, FALSE) = w[1]
      /\ \A n \in Nodes : w[n] = WholeStep(u, d, r, last, n, FALSE, w[Below(n, r)])
  BY <1>p DEF IsWhole
<1>2. /\ \A n \in Above(r) : u[n] = W[n] /\ W[n] \in Nat
      /\ \A n \in Inner : n \in Above(r) => u[2 * n] = W[2 * n] /\ W[2 * n] \in Nat
  BY PushedPath
<1>3. ASSUME NEW n \in Above(r)
      PROVE  /\ H(n) \in Nat /\ H(n) <= W[n] /\ n \in Nodes
             /\ r = Last[n] => H(n) = W[n]
             /\ n \in Inner /\ r <= Last[2 * n] => H(2 * n) = H(n)
             /\ n \in Inner /\ r > Last[2 * n] => H(n) = W[2 * n] + H(2 * n + 1)
  BY <1>0, HeldIs DEF Above
<1>n. ASSUME NEW n \in Inner
      PROVE  n \in Nodes /\ n \notin Leaves /\ n \in Nat /\ Last[2 * n] \in Nat /\ Last[n] \in Nat
  BY Children, SpansAreIntervals
<1>4. ASSUME NEW n \in Inner, n \in Above(r), Last[2 * n] < r, r < Last[n]
      PROVE  RightInRange(u, n, r, last) = H(2 * n + 1)
  BY <1>4, RightIs
<1> HIDE DEF d, W, H, last
<1> DEFINE P == {n \in Nodes : n \in Above(r) => (w[n] <=> H(n) = 0)}
<1>5. ASSUME NEW n \in Above(r), r = Last[n] PROVE w[n] <=> H(n) = 0
  <2>1. H(n) = W[n] /\ u[n] = W[n] /\ n \in Nodes
    BY <1>2, <1>3, <1>5
  <2>2. r >= Last[n]
    BY <1>0, <1>5
  <2>3. w[n] = IF u[n] = 0 THEN TRUE ELSE FALSE
    <3>1. w[n] = WholeStep(u, d, r, last, n, FALSE, w[Below(n, r)])
      BY <1>1, <2>1
    <3> QED BY <2>2, <3>1 DEF WholeStep, Short
  <2> QED BY <2>1, <2>3
<1>6. \A n \in Leaves : n \in P
  <2> SUFFICES ASSUME NEW n \in Leaves, n \in Above(r) PROVE w[n] <=> H(n) = 0
    BY Numbers
  <2>1. n = r /\ Last[n] = n
    BY <1>0, PathEnds, Numbers, LastIs
  <2> QED BY <1>5, <2>1
<1>7. ASSUME NEW n \in Inner, 2 * n \in P, 2 * n + 1 \in P PROVE n \in P
  <2> SUFFICES ASSUME n \in Above(r) PROVE w[n] <=> H(n) = 0
    BY <1>n
  <2>1. w[n] = WholeStep(u, d, r, last, n, FALSE, w[Below(n, r)])
    BY <1>1, <1>n
  <2>2. u[n] = W[n] /\ W[n] \in Nat /\ H(n) \in Nat /\ H(n) <= W[n] /\ u[2 * n] = W[2 * n] /\ W[2 * n] \in Nat
    BY <1>2, <1>3
  <2>3. r <= Last[n]
    BY <1>0, PathEnds
  <2>4. CASE r = Last[n]
    BY <1>5, <2>4
  <2>5. CASE W[n] = 0
    <3>1. w[n]
      BY <2>1, <2>2, <2>5 DEF WholeStep, Short
    <3>2. H(n) = 0
      BY <2>2, <2>5
    <3> QED BY <3>1, <3>2
  <2>6. CASE r < Last[n] /\ W[n] # 0 /\ r <= Last[2 * n]
    <3>1. w[n] <=> u[2 * n] = 0 \/ w[2 * n]
      <4> DEFINE b == w[2 * n]
      <4>1. w[n] = WholeStep(u, d, r, last, n, FALSE, b)
        BY <1>n, <2>1, <2>6 DEF Below
      <4>2. ~Short(u, d, n, FALSE) /\ n \notin Leaves /\ ~(r >= Last[n]) /\ r <= Last[2 * n]
        BY <1>0, <1>n, <2>2, <2>6 DEF Short
      <4> HIDE DEF b
      <4>3. WholeStep(u, d, r, last, n, FALSE, b) = (u[2 * n] = 0 \/ b)
        BY <4>2 DEF WholeStep
      <4> QED BY <4>1, <4>3 DEF b
    <3>2. 2 * n \in Above(r) /\ H(2 * n) = H(n)
      BY <1>0, <1>3, <2>6, PathDown
    <3>3. w[2 * n] <=> H(2 * n) = 0
      BY <1>7, <3>2
    <3>4. W[2 * n] = 0 => H(2 * n) = 0
      BY <1>2, <1>3, <3>2
    <3> QED BY <2>2, <3>1, <3>2, <3>3, <3>4
  <2>7. CASE r < Last[n] /\ W[n] # 0 /\ Last[2 * n] < r
    <3> DEFINE h == H(2 * n + 1)
               l == W[2 * n]
    <3>1. 2 * n + 1 \in Above(r)
      BY <1>0, <1>n, <2>7, PathDown
    <3>2. h \in Nat /\ H(n) = l + h /\ RightInRange(u, n, r, last) = h
      BY <1>0, <1>3, <1>4, <1>n, <2>7, <3>1
    <3>3. w[2 * n + 1] <=> h = 0
      BY <1>7, <3>1
    <3>4. ~(r >= Last[n]) /\ ~(r <= Last[2 * n]) /\ ~(h < 0)
      BY <1>0, <1>n, <2>7, <3>2
    <3> HIDE DEF h, l
    <3>5. w[n] = IF l + h = 0 THEN TRUE ELSE l = 0 /\ w[2 * n + 1]
      BY <1>n, <2>1, <2>2, <2>7, <3>2, <3>4 DEF WholeStep, Short, Below, l
    <3>6. l \in Nat
      BY <2>2 DEF l
    <3>7. CASE l + h = 0
      <4>1. w[n] /\ H(n) = 0
        BY <3>2, <3>5, <3>7
      <4> QED BY <4>1
    <3>8. CASE l + h # 0
      <4>1. w[n] = (l = 0 /\ w[2 * n + 1])
        BY <3>5, <3>8
      <4>2. ~(l = 0 /\ h = 0) /\ H(n) # 0
        BY <3>2, <3>8
      <4>3. ~w[n]
        BY <3>3, <4>1, <4>2
      <4> QED BY <4>2, <4>3
    <3> QED BY <3>7, <3>8
  <2> QED BY <1>0, <1>n, <2>3, <2>4, <2>5, <2>6, <2>7
<1>8. Nodes \subseteq P
  <2> HIDE DEF P
  <2> QED BY <1>6, <1>7, UpTheTree
<1>9. w[1] <=> H(1) = 0
  <2>1. 1 \in Nodes /\ 1 \in Above(r)
    BY <1>0, PathEnds, Numbers
  <2> QED BY <1>8, <2>1
<1>10. H(1) = PrefixWorth(t, r)
  BY <1>0, HeldByRoot DEF H
<1> QED BY <1>1, <1>9, <1>10

\* A loss that its range can bear always finds nodes to take it from.
LEMMA PreviewOfLoss ==
  ASSUME NEW t, NEW u, NEW r, Pushed(t, u, r), Bounded(t, r, 2 * LIQUIDITYNODES - 1),
         NEW a \in Nat, a > 0, a <= PrefixWorth(t, r)
  PROVE  ~NeedsWhole(u, r, a, TRUE)
<1> DEFINE last == 2 * LIQUIDITYNODES - 1
           d == Portions(u, r, a, last)
           W == PushView(t)
           H(n) == Held(t, n, r)
<1>0. t \in Trees /\ Rooted(t) /\ r \in Leaves /\ r \in Nat /\ u \in Trees
  BY Numbers DEF Pushed
<1>w. PrefixWorth(t, r) > 0
  <2>1. PrefixWorth(t, r) \in Nat
    BY <1>0, PrefixGrows, Width DEF Leaves
  <2> QED BY <2>1
<1>p. PICK w : IsWhole(w, u, r, a, TRUE)
  BY WholeIs
<1>1. /\ NeedsWhole(u, r, a, TRUE) = w[1]
      /\ \A n \in Nodes : w[n] = WholeStep(u, d, r, last, n, TRUE, w[Below(n, r)])
  BY <1>p DEF IsWhole
<1>2. /\ d \in [Nodes -> Nat] /\ d[1] = a
      /\ \A n \in Inner : n \in Above(r) /\ r < Last[n] /\ r <= Last[2 * n] =>
           d[2 * n] = d[n] /\ d[2 * n + 1] = 0
  BY PortionSteps
<1>3. \A n \in Above(r) : d[n] <= H(n)
  BY PortionFits
<1>4. ASSUME NEW n \in Nodes PROVE d[n] \in Nat /\ u[n] \in Nat /\ ~(u[n] < d[n])
  <2>1. d[n] <= u[n]
    BY PortionFits
  <2> QED BY <1>0, <1>2, <2>1 DEF Trees
<1>5. \A n \in Inner : n \in Above(r) /\ r < Last[n] => d[n] = d[2 * n] + d[2 * n + 1]
  BY <1>w, PortionArrives
<1>6. ASSUME NEW n \in Inner, n \in Above(r), Last[2 * n] < r, r < Last[n]
      PROVE  /\ RightInRange(u, n, r, last) = H(2 * n + 1) /\ H(2 * n + 1) \in Nat
             /\ H(n) = W[2 * n] + H(2 * n + 1) /\ u[2 * n] = W[2 * n] /\ W[2 * n] \in Nat
  BY <1>6, RightIs
<1>n. ASSUME NEW n \in Inner
      PROVE  /\ n \in Nodes /\ n \notin Leaves /\ n \in Nat /\ Last[2 * n] \in Nat /\ Last[n] \in Nat
             /\ 2 * n \in Nodes /\ 2 * n + 1 \in Nodes
  BY Children, SpansAreIntervals
<1> HIDE DEF d, W, H, last
<1> DEFINE P == {n \in Nodes : n \in Above(r) /\ d[n] > 0 => ~w[n]}
<1>7. ASSUME NEW n \in Nodes, n \in Leaves \/ r >= Last[n] PROVE ~w[n]
  <2>1. w[n] = WholeStep(u, d, r, last, n, TRUE, w[Below(n, r)])
    BY <1>1
  <2> QED BY <1>4, <1>7, <2>1 DEF WholeStep, Short
<1>8. \A n \in Leaves : n \in P
  BY <1>7, Numbers
<1>9. ASSUME NEW n \in Inner, 2 * n \in P, 2 * n + 1 \in P PROVE n \in P
  <2> SUFFICES ASSUME n \in Above(r), d[n] > 0 PROVE ~w[n]
    BY <1>n
  <2>1. w[n] = WholeStep(u, d, r, last, n, TRUE, w[Below(n, r)])
    BY <1>1, <1>n
  <2>2. ~(u[n] < d[n]) /\ ~(u[2 * n] < d[2 * n])
    BY <1>4, <1>n
  <2>3. CASE r >= Last[n]
    BY <1>7, <1>n, <2>3
  <2>4. CASE r < Last[n] /\ r <= Last[2 * n]
    <3>1. w[n] <=> u[2 * n] = 0 \/ w[2 * n]
      <4> DEFINE b == w[2 * n]
      <4>1. w[n] = WholeStep(u, d, r, last, n, TRUE, b)
        BY <1>n, <2>1, <2>4 DEF Below
      <4>2. ~Short(u, d, n, TRUE) /\ n \notin Leaves /\ ~(r >= Last[n]) /\ r <= Last[2 * n]
        BY <1>0, <1>n, <2>2, <2>4 DEF Short
      <4> HIDE DEF b
      <4>3. WholeStep(u, d, r, last, n, TRUE, b) = (u[2 * n] = 0 \/ b)
        BY <4>2 DEF WholeStep
      <4> QED BY <4>1, <4>3 DEF b
    <3>2. 2 * n \in Above(r) /\ d[2 * n] > 0
      BY <1>0, <1>2, <2>4, PathDown
    <3>3. ~w[2 * n]
      BY <1>9, <3>2
    <3>4. u[2 * n] # 0
      BY <1>4, <1>n, <3>2
    <3> QED BY <3>1, <3>3, <3>4
  <2>5. CASE r < Last[n] /\ Last[2 * n] < r
    <3> DEFINE h == H(2 * n + 1)
               l == W[2 * n]
    <3>1. 2 * n + 1 \in Above(r)
      BY <1>0, <1>n, <2>5, PathDown
    <3>2. /\ h \in Nat /\ H(n) = l + h /\ RightInRange(u, n, r, last) = h
          /\ u[2 * n] = l /\ l \in Nat
      BY <1>6, <2>5
    <3>3. ~(r >= Last[n]) /\ ~(r <= Last[2 * n]) /\ ~(h < 0)
      BY <1>0, <1>n, <2>5, <3>2
    <3>4. l + h # 0
      BY <1>3, <1>4, <1>n, <3>2
    <3> HIDE DEF h, l
    <3>5. w[n] = IF d[2 * n] > 0 THEN FALSE ELSE u[2 * n + 1] >= d[2 * n + 1] /\ w[2 * n + 1]
      BY <1>n, <2>1, <2>2, <2>5, <3>2, <3>3, <3>4 DEF WholeStep, Short, Below
    <3>6. CASE d[2 * n] > 0
      BY <3>5, <3>6
    <3>7. CASE ~(d[2 * n] > 0)
      <4>1. d[2 * n + 1] > 0
        BY <1>4, <1>5, <1>n, <2>5, <3>7
      <4>2. ~w[2 * n + 1]
        BY <1>9, <3>1, <4>1
      <4> QED BY <3>5, <3>7, <4>2
    <3> QED BY <3>6, <3>7
  <2> QED BY <1>0, <1>n, <2>3, <2>4, <2>5
<1>10. Nodes \subseteq P
  <2> HIDE DEF P
  <2> QED BY <1>8, <1>9, UpTheTree
<1>11. 1 \in Nodes /\ 1 \in Above(r) /\ d[1] > 0
  BY <1>0, <1>2, PathEnds, Numbers
<1>12. ~w[1]
  BY <1>10, <1>11
<1> QED BY <1>1, <1>12

-----------------------------------------------------------------------------
(* The walk of _prefixCovers, and the quote of depositState.               *)

\* The walk of _prefixCovers keeps the worth of its node, and of all that lies to its left.
LEMMA WalkIs ==
  ASSUME NEW t \in Trees, Rooted(t)
  PROVE  \A n \in Nodes : /\ Walk(t)[n].amount = PushView(t)[n]
                          /\ Walk(t)[n].capital = PrefixWorth(t, First[n] - 1)
<1> DEFINE V == [amount : Nat, capital : Nat]
           F(n, from) ==
             LET up == n \div 2
                 left == LeftShare(t, up, from.amount)
             IN  IF n = 2 * up THEN [amount |-> left, capital |-> from.capital]
                 ELSE [amount |-> IF t[n] = 0 THEN 0 ELSE from.amount - left,
                       capital |-> from.capital + left]
           a == [amount |-> t[1], capital |-> 0]
           G == [n \in Nodes |-> [v \in V |-> IF n = 1 THEN a ELSE F(n, v)]]
           Solves(g) == g = [n \in Nodes |-> IF n = 1 THEN a ELSE F(n, g[n \div 2])]
           w == Walk(t)
           W == PushView(t)
<1>1. a \in V
  BY Numbers DEF Trees
<1>2. ASSUME NEW n \in Nodes, n # 1, NEW v \in V PROVE F(n, v) \in V
  <2> DEFINE up == n \div 2
             x == v.amount
             left == LeftShare(t, up, x)
  <2>1. up \in Inner /\ x \in Nat /\ v.capital \in Nat
    BY <1>2, Parent
  <2>2. left \in Nat /\ x - left \in Nat
    <3> HIDE DEF up, x
    <3> QED BY <2>1, LeftShareIs
  <2> HIDE DEF left
  <2> QED BY <2>1, <2>2 DEF left
<1>3. G \in [Nodes -> [V -> V]]
  <2> HIDE DEF F, V, a
  <2> QED BY <1>1, <1>2
<1>4. PICK g : IsHandedDown(g, V, a, G)
  <2> HIDE DEF G, V, a
  <2> QED BY <1>1, <1>3, ParentRecursion
<1>5. g \in [Nodes -> V] /\ \A n \in Nodes : g[n] = IF n = 1 THEN a ELSE G[n][g[n \div 2]]
  <2> HIDE DEF G, V, a
  <2> QED BY <1>4 DEF IsHandedDown
<1>6. Solves(g)
  <2>1. ASSUME NEW n \in Nodes PROVE g[n] = IF n = 1 THEN a ELSE F(n, g[n \div 2])
    <3> HIDE DEF F, a, V
    <3>1. CASE n = 1
      <4> HIDE DEF G
      <4> QED BY <1>5, <3>1
    <3>2. CASE n # 1
      <4>1. n \div 2 \in Nodes
        BY <3>2, Parent
      <4>2. g[n \div 2] \in V
        BY <1>5, <4>1
      <4>3. g[n] = G[n][g[n \div 2]]
        <5> HIDE DEF G
        <5> QED BY <1>5, <3>2
      <4> QED BY <3>2, <4>2, <4>3
    <3> QED BY <3>1, <3>2
  <2>2. g = [n \in Nodes |-> g[n]]
    BY <1>5
  <2> HIDE DEF F, a
  <2> QED BY <2>1, <2>2
<1>7. Solves(w)
  <2>1. w = CHOOSE h : Solves(h)
    BY DEF Walk
  <2> HIDE DEF Solves, w
  <2> QED BY <1>6, <2>1
<1> HIDE DEF w, G, V
<1>8. \A n \in Nodes : w[n] = IF n = 1 THEN a ELSE F(n, w[n \div 2])
  <2> HIDE DEF F, a
  <2> QED BY <1>7
<1> DEFINE Pre(k) == PrefixWorth(t, k)
           P == {n \in Nodes : w[n].amount = W[n] /\ w[n].capital = Pre(First[n] - 1)}
<1>9. 1 \in P
  <2>1. w[1] = a /\ 1 \in Nodes
    <3> HIDE DEF F, a
    <3> QED BY <1>8, Numbers
  <2>2. W[1] = t[1] /\ Pre(First[1] - 1) = 0
    BY ViewIs, SpansAreIntervals, PrefixGrows
  <2> QED BY <2>1, <2>2
<1>10. ASSUME NEW n \in Nodes, n # 1, n \div 2 \in P PROVE n \in P
  <2> DEFINE p == n \div 2
             x == W[p]
             left == LeftShare(t, p, x)
  <2>1. p \in Inner /\ (n = 2 * p \/ n = 2 * p + 1) /\ w[p].amount = x /\ w[p].capital = Pre(First[p] - 1)
    BY <1>10, Parent
  <2>2. w[n] = F(n, w[p])
    <3> HIDE DEF F
    <3> QED BY <1>8, <1>10
  <2>3. w[n] = IF n = 2 * p THEN [amount |-> left, capital |-> Pre(First[p] - 1)]
               ELSE [amount |-> IF t[n] = 0 THEN 0 ELSE x - left, capital |-> Pre(First[p] - 1) + left]
    BY <2>1, <2>2
  <2> HIDE DEF p
  <2>n. /\ p \in Nat /\ 2 * p \in Nodes /\ 2 * p + 1 \in Nodes
        /\ First[2 * p] = First[p] /\ Last[2 * p] + 1 = First[2 * p + 1] /\ Last[2 * p] \in Nat
    BY <2>1, Children, Spans, SpansAreIntervals
  <2>4. /\ W[2 * p] = left
        /\ W[2 * p + 1] = IF t[2 * p + 1] = 0 THEN 0 ELSE x - left
    BY <2>1, ViewIs
  <2>5. Pre(Last[2 * p]) = Pre(First[2 * p] - 1) + W[2 * p]
    BY <2>n, SpanWorth
  <2>6. First[2 * p + 1] - 1 = Last[2 * p]
    BY <2>n
  <2> HIDE DEF W, Pre, left, x, w
  <2>7. CASE n = 2 * p
    <3>1. w[n].amount = left /\ w[n].capital = Pre(First[p] - 1)
      BY <2>3, <2>7
    <3> QED BY <2>4, <2>7, <2>n, <3>1
  <2>8. CASE n = 2 * p + 1
    <3>1. n # 2 * p
      BY <2>8, <2>n
    <3>2. /\ w[n].amount = IF t[n] = 0 THEN 0 ELSE x - left
          /\ w[n].capital = Pre(First[p] - 1) + left
      BY <2>3, <3>1
    <3> QED BY <2>4, <2>5, <2>6, <2>8, <2>n, <3>2
  <2> QED BY <2>1, <2>7, <2>8
<1>11. Nodes \subseteq P
  <2> HIDE DEF P
  <2> QED BY <1>9, <1>10, DownTheTree
<1> QED BY <1>11 DEF w

\* The interval that the walk keeps decides as the worth of the prefix would.
LEMMA CoversIs ==
  ASSUME treeNode \in Trees, Rooted(treeNode), NEW cutoff \in Leaves, NEW maxLoss \in Nat
  PROVE  PrefixCovers(cutoff, maxLoss) <=> PrefixWorth(treeNode, cutoff) >= maxLoss
<1> DEFINE t == treeNode
           walk == Walk(t)
           Pre(k) == PrefixWorth(t, k)
           Bounds(m) == walk[m].capital + walk[m].amount
           Decides(m) == Last[m] = cutoff \/ walk[m].capital >= maxLoss \/ Bounds(m) < maxLoss
           D == {m \in Above(cutoff) : Decides(m)}
           n == Min(D)
<1>1. PrefixCovers(cutoff, maxLoss) =
        IF Last[n] = cutoff THEN Bounds(n) >= maxLoss ELSE walk[n].capital >= maxLoss
  BY DEF PrefixCovers
<1>2. n \in D
  <2>1. cutoff \in D
    BY PathEnds, LastIs
  <2>2. D \in SUBSET Nat
    BY PathEnds, Numbers
  <2> HIDE DEF D
  <2> QED BY <2>1, <2>2, LeastIs
<1>3. n \in Above(cutoff) /\ Decides(n) /\ n \in Nodes /\ First[n] <= cutoff /\ cutoff <= Last[n]
  BY <1>2 DEF Above
<1> HIDE DEF n, walk
<1>4. /\ walk[n].amount = PushView(t)[n] /\ walk[n].capital = Pre(First[n] - 1)
      /\ Pre(Last[n]) = Pre(First[n] - 1) + PushView(t)[n]
  BY <1>3, WalkIs, SpanWorth DEF walk
<1>5. /\ First[n] - 1 \in (LIQUIDITYNODES - 1)..(2 * LIQUIDITYNODES - 1) /\ First[n] - 1 <= cutoff
      /\ Last[n] \in (LIQUIDITYNODES - 1)..(2 * LIQUIDITYNODES - 1)
      /\ cutoff \in (LIQUIDITYNODES - 1)..(2 * LIQUIDITYNODES - 1)
  BY <1>3, SpansAreIntervals, Width, Numbers DEF Leaves
<1>6. /\ Pre(First[n] - 1) <= Pre(cutoff) /\ Pre(cutoff) <= Pre(Last[n])
      /\ Pre(First[n] - 1) \in Nat /\ Pre(cutoff) \in Nat /\ Pre(Last[n]) \in Nat
  BY <1>3, <1>5, PrefixOrder, PrefixGrows
<1> HIDE DEF Pre, D
<1>7. CASE Last[n] = cutoff
  <2>1. Bounds(n) = Pre(cutoff)
    BY <1>4, <1>7
  <2> QED BY <1>1, <1>7, <2>1 DEF Pre
<1>8. CASE Last[n] # cutoff
  <2>1. PrefixCovers(cutoff, maxLoss) = (Pre(First[n] - 1) >= maxLoss)
    BY <1>1, <1>4, <1>8
  <2>2. Pre(First[n] - 1) >= maxLoss \/ Pre(Last[n]) < maxLoss
    BY <1>3, <1>4, <1>8
  <2>3. Pre(First[n] - 1) >= maxLoss <=> Pre(cutoff) >= maxLoss
    BY <1>6, <2>2
  <2> QED BY <2>1, <2>3 DEF Pre
<1> QED BY <1>7, <1>8

\* The share p of w is at most f exactly when p is at most the quote.
LEMMA QuoteFits ==
  ASSUME NEW w \in Nat, NEW f \in Nat, NEW o \in Nat, o > 0, w > 0, NEW p \in Nat
  PROVE  LET R == ((f + 1) * o - 1) \div w
         IN  /\ R \in Nat
             /\ (w * p) \div o \in Nat
             /\ (w * p) \div o <= f <=> p <= R
<1> DEFINE x == (f + 1) * o - 1
           R == x \div w
           q == (w * p) \div o
           y == w * p
<1>1. (f + 1) * o = o * (f + 1) /\ o * (f + 1) = o * f + o /\ o * f \in Nat /\ f + 1 \in Nat
  BY Times
<1>2. x \in Nat /\ x = o * f + o - 1
  BY <1>1
<1>3. y \in Nat
  BY Times
<1> HIDE DEF x, y
<1>4. R \in Nat /\ w * R <= x /\ x < w * R + w
  BY <1>2, Quotient
<1>5. (y \div o) \in Nat /\ o * (y \div o) <= y /\ y < o * (y \div o) + o
  BY <1>3, Quotient
<1>6. q = y \div o
  BY DEF y
<1> HIDE DEF R, q
<1>7. w * R \in Nat /\ o * q \in Nat
  BY <1>4, <1>5, <1>6, Times
<1>8. ASSUME q <= f PROVE p <= R
  <2> SUFFICES ASSUME p >= R + 1 PROVE FALSE
    BY <1>4
  <2>1. w * (R + 1) <= w * p /\ w * (R + 1) = w * R + w
    BY <1>4, Times
  <2>2. o * q <= o * f
    BY <1>5, <1>6, <1>8, Times
  <2>3. y >= w * R + w
    BY <2>1 DEF y
  <2>4. y < o * q + o
    BY <1>5, <1>6
  <2> QED BY <1>1, <1>2, <1>3, <1>4, <1>7, <2>2, <2>3, <2>4
<1>9. ASSUME p <= R PROVE q <= f
  <2> SUFFICES ASSUME q >= f + 1 PROVE FALSE
    BY <1>5, <1>6
  <2>1. w * p <= w * R
    BY <1>4, <1>9, Times
  <2>2. o * (f + 1) <= o * q
    BY <1>1, <1>5, <1>6, Times
  <2>3. y <= w * R
    BY <2>1 DEF y
  <2>4. o * q <= y
    BY <1>5, <1>6
  <2> QED BY <1>1, <1>2, <1>3, <1>4, <1>7, <2>2, <2>3, <2>4
<1> QED BY <1>4, <1>5, <1>6, <1>8, <1>9 DEF R, x, q

\* The whole of w is w: withdrawing ONE of ONE rounds nothing away.
LEMMA WholeShare ==
  ASSUME NEW w \in Nat, NEW o \in Nat, o > 0
  PROVE  (w * o) \div o = w
<1>1. w * o = o * w /\ o * w \in Nat
  BY Times
<1> DEFINE x == o * w
<1>2. x \in Nat /\ o * w <= x /\ x < o * w + o
  BY <1>1
<1> HIDE DEF x
<1>3. x \div o = w
  BY <1>2, QuotientIs
<1> QED BY <1>1, <1>3 DEF x

\* The quote of depositState for a deposit, when no more is locked than there is.
LEMMA QuoteIs ==
  ASSUME NEW next \in Nat, TreeInv(treeNode, next), NEW id \in Leaves,
         lockedLiquidity \in Nat, lockedLiquidity <= treeNode[1]
  PROVE  /\ MaxPercent(id) > 0 => CanWithdraw(id, MaxPercent(id))
         /\ \A percent \in (MaxPercent(id) + 1)..ONE : ~CanWithdraw(id, percent)
<1> DEFINE w == PushView(treeNode)[id]
           f == Free
           R == ((f + 1) * ONE - 1) \div w
           assets(p) == (w * p) \div ONE
<1>0. treeNode \in Trees /\ Rooted(treeNode) /\ ONE \in Nat /\ ONE > 0 /\ id \in Above(id) /\ id \in Nodes
  BY TreeAssumption, PathEnds DEF TreeInv
<1>1. w \in Nat /\ f \in Nat
  <2>1. treeNode[1] \in Nat
    BY <1>0, Numbers DEF Trees
  <2> QED BY <1>0, <2>1, ViewIs DEF Trees, Free, GetReserve
<1>2. Push(treeNode, id)[id] = w
  BY <1>0, PushKeeps
<1>3. \A p : NodeWithdrawPercent(treeNode, id, p).assets = assets(p)
  BY <1>2 DEF NodeWithdrawPercent
<1>4. \A p : CanWithdraw(id, p) <=> (assets(p) > 0 \/ p = ONE) /\ assets(p) <= f
  BY <1>3 DEF CanWithdraw
<1>5. MaxPercent(id) = IF f >= w THEN ONE ELSE IF assets(R) = 0 THEN 0 ELSE R
  BY DEF MaxPercent, WithdrawView, Rounded
<1> HIDE DEF f, w
<1>6. assets(ONE) = w
  BY <1>0, <1>1, WholeShare
<1>7. CASE f >= w
  <2>1. CanWithdraw(id, ONE)
    BY <1>0, <1>1, <1>4, <1>6, <1>7
  <2> QED BY <1>0, <1>5, <1>7, <2>1
<1>8. CASE f < w
  <2>1. R \in Nat /\ \A p \in Nat : assets(p) \in Nat /\ (assets(p) <= f <=> p <= R)
    BY <1>0, <1>1, <1>8, QuoteFits
  <2>2. MaxPercent(id) = IF assets(R) = 0 THEN 0 ELSE R
    BY <1>1, <1>5, <1>8
  <2> HIDE DEF R
  <2>3. \A p \in Nat : p > R => ~CanWithdraw(id, p)
    <3> HIDE DEF assets
    <3> QED BY <1>1, <1>4, <2>1
  <2>4. ~(ONE <= R)
    BY <1>0, <1>1, <1>6, <1>8, <2>1
  <2>5. CASE assets(R) # 0
    <3>1. MaxPercent(id) = R /\ assets(R) > 0 /\ assets(R) <= f
      <4> HIDE DEF assets
      <4> QED BY <1>1, <2>1, <2>2, <2>5
    <3>2. CanWithdraw(id, MaxPercent(id))
      BY <1>4, <3>1
    <3> HIDE DEF assets
    <3> QED BY <1>0, <2>1, <2>3, <3>1, <3>2
  <2>6. CASE assets(R) = 0
    <3>1. MaxPercent(id) = 0
      BY <2>2, <2>6
    <3>2. ASSUME NEW p \in 1..ONE, p <= R PROVE ~CanWithdraw(id, p)
      <4>1. p \in Nat /\ p # ONE
        BY <1>0, <2>1, <2>4, <3>2
      <4>2. assets(p) = 0
        <5> DEFINE y == w * p
                   z == w * R
        <5>1. w * p <= w * R /\ w * p \in Nat /\ w * R \in Nat
          BY <1>1, <2>1, <3>2, <4>1, Times
        <5>2. y \in Nat /\ z \in Nat /\ y <= z /\ z \div ONE = 0
          BY <2>6, <5>1
        <5> HIDE DEF y, z
        <5>3. z < ONE * (z \div ONE) + ONE
          BY <1>0, <5>2, Quotient
        <5>4. z < ONE
          BY <1>0, <5>2, <5>3
        <5>5. ONE * 0 <= y /\ y < ONE * 0 + ONE /\ 0 \in Nat
          BY <1>0, <5>2, <5>4
        <5>6. y \div ONE = 0
          BY <1>0, <5>2, <5>5, QuotientIs
        <5> QED BY <5>6 DEF y
      <4> HIDE DEF assets
      <4> QED BY <1>4, <4>1, <4>2
    <3>3. \A p \in 1..ONE : p \in Nat
      BY <1>0
    <3> QED BY <1>0, <2>1, <2>3, <3>1, <3>2, <3>3
  <2> QED BY <2>5, <2>6
<1> QED BY <1>1, <1>7, <1>8

-----------------------------------------------------------------------------
(* The invariant of the vault.                                             *)

Stake == [i \in PositionIds |-> positions[i].stake]
Lock == [i \in PositionIds |-> positions[i].lock]

PositionsOK ==
    /\ positions \in [PositionIds -> Positions \cup {NoPosition}]
    /\ \A i \in OpenIds : positions[i].cutoff < nextNode

VaultInv ==
    /\ nextNode \in LIQUIDITYNODES..(2 * LIQUIDITYNODES)
    /\ TreeInv(treeNode, nextNode)
    /\ deposits \subseteq UsedLeaves
    /\ PositionsOK
    /\ lockedLiquidity = SumOf(Lock, OpenIds) /\ lockedLiquidity <= treeNode[1]
    /\ treeNode[1] + SumOf(Stake, OpenIds) <= MAX_TREE_CAPITAL

\* No record of a position is the mark of an empty place.
LEMMA NoRecord == NoPosition \notin Positions
BY VaultAssumption DEF Positions

\* What open positions are, and that Pending and lockedLiquidity are sums over them.
LEMMA PositionFacts ==
  ASSUME PositionsOK
  PROVE  /\ OpenIds \subseteq PositionIds /\ IsFiniteSet(OpenIds)
         /\ \A i \in OpenIds : /\ positions[i] \in Positions
                               /\ positions[i].stake \in Nat /\ positions[i].stake > 0
                               /\ positions[i].stake \in Stakes /\ positions[i].lock \in Locks
                               /\ positions[i].lock \in Nat /\ positions[i].cutoff \in Leaves
                               /\ Stake[i] = positions[i].stake /\ Lock[i] = positions[i].lock
         /\ Pending = SumOf(Stake, OpenIds) /\ Pending \in Nat
         /\ SumOf(Lock, OpenIds) \in Nat
<1>1. OpenIds \subseteq PositionIds
  BY DEF OpenIds
<1>2. IsFiniteSet(OpenIds)
  BY <1>1, VaultAssumption, FS_Subset
<1>3. ASSUME NEW i \in OpenIds
      PROVE  /\ positions[i] \in Positions
             /\ positions[i].stake \in Nat /\ positions[i].stake > 0
             /\ positions[i].stake \in Stakes /\ positions[i].lock \in Locks
             /\ positions[i].lock \in Nat /\ positions[i].cutoff \in Leaves
             /\ Stake[i] = positions[i].stake /\ Lock[i] = positions[i].lock
  <2>1. positions[i] \in Positions /\ i \in PositionIds
    BY DEF OpenIds, PositionsOK
  <2>2. /\ positions[i].stake \in Stakes /\ positions[i].lock \in Locks
        /\ positions[i].cutoff \in Leaves
    BY <2>1 DEF Positions
  <2>3. \A s \in Stakes : s \in Nat /\ s > 0
    BY VaultAssumption
  <2>4. \A k \in Locks : k \in Nat
    BY VaultAssumption
  <2> QED BY <2>1, <2>2, <2>3, <2>4 DEF Stake, Lock
<1>4. Pending = SumOf(Stake, OpenIds)
  <2> DEFINE S == OpenIds
             M(T, g) == IF T = {} THEN 0 ELSE positions[Pick(T)].stake + g[T \ {Pick(T)}]
             N(T, g) == IF T = {} THEN 0 ELSE Stake[Pick(T)] + g[T \ {Pick(T)}]
             IsM(g) == g = [T \in SUBSET S |-> M(T, g)]
             m == CHOOSE g : IsM(g)
  <2>1. Pending = m[S]
    BY DEF Pending, MapThenSumSet, MapThenFoldSet, Pick
  <2> HIDE DEF S
  <2>2. S \subseteq PositionIds /\ IsFiniteSet(S) /\ \A i \in S : Stake[i] \in Nat
    BY <1>1, <1>2, <1>3 DEF S
  <2>3. ASSUME NEW g PROVE IsM(g) <=> IsSum(g, Stake, S)
    <3>1. \A T \in SUBSET S : M(T, g) = N(T, g)
      BY <2>2, PickFrom DEF Stake
    <3> HIDE DEF M, N
    <3>2. IsM(g) <=> (g = [T \in SUBSET S |-> N(T, g)])
      BY <3>1
    <3> QED BY <3>2 DEF N, IsSum
  <2> HIDE DEF IsM
  <2>4. PICK g : IsM(g)
    BY <2>2, <2>3, SumExists
  <2>5. IsM(m)
    BY <2>4
  <2> HIDE DEF m
  <2>6. m[S] = SumOf(Stake, S)
    BY <2>2, <2>3, <2>5, SumIsUnique
  <2> QED BY <2>1, <2>6 DEF S
<1>5. SumOf(Stake, OpenIds) \in Nat /\ SumOf(Lock, OpenIds) \in Nat
  <2>1. \A i \in OpenIds : Stake[i] \in Nat /\ Lock[i] \in Nat
    BY <1>3
  <2> QED BY <1>2, <2>1, SumTyped
<1> QED BY <1>1, <1>2, <1>3, <1>4, <1>5

\* Numbers in a state that the invariant allows, and an open position in it.
LEMMA VaultNumbers ==
  ASSUME VaultInv
  PROVE  /\ treeNode \in Trees /\ Rooted(treeNode) /\ treeNode[1] \in Nat
         /\ lockedLiquidity \in Nat /\ Pending \in Nat /\ nextNode \in Nat
         /\ lockedLiquidity <= treeNode[1] /\ treeNode[1] + Pending <= MAX_TREE_CAPITAL
         /\ MAX_TREE_CAPITAL \in Nat
         /\ GetReserve = treeNode[1] /\ Free = treeNode[1] - lockedLiquidity
         /\ UsedLeaves \subseteq Leaves /\ \A k \in UsedLeaves : k \in Nat /\ k < nextNode
         /\ treeNode[1] > 0 => nextNode \in (LIQUIDITYNODES + 1)..(2 * LIQUIDITYNODES)
         /\ PrefixWorth(treeNode, nextNode - 1) = treeNode[1]
<1>1. treeNode \in Trees /\ Rooted(treeNode) /\ treeNode[1] \in Nat /\ Unused(treeNode, nextNode)
  BY Numbers DEF VaultInv, TreeInv, Trees
<1>2. nextNode \in LIQUIDITYNODES..(2 * LIQUIDITYNODES) /\ LIQUIDITYNODES \in Nat /\ nextNode \in Nat
  BY Width DEF VaultInv
<1>3. PrefixWorth(treeNode, nextNode - 1) = treeNode[1]
  <2>1. nextNode - 1 \in (nextNode - 1)..(2 * LIQUIDITYNODES - 1)
    BY <1>2
  <2> QED BY <1>1, <1>2, <2>1, RootWorth
<1>4. treeNode[1] > 0 => nextNode \in (LIQUIDITYNODES + 1)..(2 * LIQUIDITYNODES)
  <2>1. nextNode = LIQUIDITYNODES => PrefixWorth(treeNode, nextNode - 1) = 0
    BY <1>1, PrefixGrows
  <2> QED BY <1>2, <1>3, <2>1
<1>5. UsedLeaves \subseteq Leaves /\ \A k \in UsedLeaves : k \in Nat /\ k < nextNode
  BY <1>2 DEF UsedLeaves, Leaves
<1>6. /\ lockedLiquidity \in Nat /\ Pending \in Nat
      /\ lockedLiquidity <= treeNode[1] /\ treeNode[1] + Pending <= MAX_TREE_CAPITAL
  BY PositionFacts DEF VaultInv
<1> QED BY <1>1, <1>2, <1>3, <1>4, <1>5, <1>6, VaultAssumption DEF GetReserve, Free

\* The cutoff, stake and lock of an open position, within what the vault holds.
LEMMA OpenNumbers ==
  ASSUME VaultInv, NEW i \in OpenIds
  PROVE  /\ nextNode \in (LIQUIDITYNODES + 1)..(2 * LIQUIDITYNODES)
         /\ positions[i].cutoff \in LIQUIDITYNODES..(nextNode - 1)
         /\ positions[i].cutoff \in Leaves /\ positions[i].cutoff \in Nat
         /\ positions[i].stake \in Nat /\ positions[i].stake > 0 /\ positions[i].lock \in Nat
         /\ positions[i].lock <= lockedLiquidity /\ positions[i].stake <= Pending
         /\ lockedLiquidity \in Nat /\ Pending \in Nat
         /\ nextNode - 1 \in LIQUIDITYNODES..(nextNode - 1)
<1> DEFINE p == positions[i]
<1>1. /\ OpenIds \subseteq PositionIds /\ IsFiniteSet(OpenIds)
      /\ p \in Positions /\ p.stake \in Nat /\ p.stake > 0 /\ p.lock \in Nat /\ p.cutoff \in Leaves
      /\ Stake[i] = p.stake /\ Lock[i] = p.lock
      /\ \A j \in OpenIds : Stake[j] \in Nat /\ Lock[j] \in Nat
      /\ Pending = SumOf(Stake, OpenIds) /\ Pending \in Nat /\ SumOf(Lock, OpenIds) \in Nat
  BY PositionFacts DEF VaultInv
<1>2. p.cutoff < nextNode /\ nextNode \in LIQUIDITYNODES..(2 * LIQUIDITYNODES)
  BY DEF VaultInv, PositionsOK
<1>3. LIQUIDITYNODES \in Nat /\ p.cutoff \in Nat /\ p.cutoff >= LIQUIDITYNODES
  BY <1>1, Width, Numbers
<1>4. p.lock <= SumOf(Lock, OpenIds) /\ p.stake <= SumOf(Stake, OpenIds)
  <2>1. SumOf(Lock, OpenIds) = Lock[i] + SumOf(Lock, OpenIds \ {i})
    BY <1>1, SumTake
  <2>2. SumOf(Stake, OpenIds) = Stake[i] + SumOf(Stake, OpenIds \ {i})
    BY <1>1, SumTake
  <2>3. IsFiniteSet(OpenIds \ {i})
    BY <1>1, FS_Subset
  <2>4. SumOf(Lock, OpenIds \ {i}) \in Nat /\ SumOf(Stake, OpenIds \ {i}) \in Nat
    BY <1>1, <2>3, SumTyped
  <2> HIDE DEF p
  <2> QED BY <1>1, <2>1, <2>2, <2>4
<1>5. lockedLiquidity = SumOf(Lock, OpenIds)
  BY DEF VaultInv
<1> HIDE DEF p
<1>6. /\ nextNode \in (LIQUIDITYNODES + 1)..(2 * LIQUIDITYNODES)
      /\ p.cutoff \in LIQUIDITYNODES..(nextNode - 1)
      /\ nextNode - 1 \in LIQUIDITYNODES..(nextNode - 1)
  BY <1>2, <1>3
<1> QED BY <1>1, <1>3, <1>4, <1>5, <1>6 DEF p

-----------------------------------------------------------------------------
(* A result is shared by the deposits of the position if these are worth   *)
(* something, and its greatest loss; by all deposits otherwise.            *)

BackLeaf(p) ==
    IF PrefixWorth(treeNode, p.cutoff) > 0 /\ PrefixWorth(treeNode, p.cutoff) >= p.lock
    THEN p.cutoff ELSE nextNode - 1

\* v is the tree after a change of the leaves up to r.
ChangedUpTo(v, r, a, isSub) ==
    /\ TreeInv(v, nextNode)
    /\ v[1] = IF isSub THEN treeNode[1] - a ELSE treeNode[1] + a
    /\ \A k \in Leaves :
         /\ k > r => PushView(v)[k] = PushView(treeNode)[k]
         /\ isSub => PushView(v)[k] <= PushView(treeNode)[k]
         /\ ~isSub => PushView(v)[k] >= PushView(treeNode)[k]

\* The leaf that _allocate chooses is used, and the deposits up to it can bear the lock.
LEMMA BackLeafIs ==
  ASSUME VaultInv, NEW i \in OpenIds, treeNode[1] > 0
  PROVE  LET p == positions[i]
             r == BackLeaf(p)
         IN  /\ r \in LIQUIDITYNODES..(nextNode - 1)
             /\ PrefixWorth(treeNode, r) > 0 /\ PrefixWorth(treeNode, r) \in Nat
             /\ PrefixWorth(treeNode, r) >= p.lock
             /\ p.lock > 0 => AllocationLeaf(p.cutoff, p.lock) = r
<1> DEFINE p == positions[i]
           r == BackLeaf(p)
           Pre(k) == PrefixWorth(treeNode, k)
<1>1. /\ nextNode \in (LIQUIDITYNODES + 1)..(2 * LIQUIDITYNODES)
      /\ p.cutoff \in LIQUIDITYNODES..(nextNode - 1) /\ p.cutoff \in Leaves
      /\ p.lock \in Nat /\ p.lock <= lockedLiquidity /\ lockedLiquidity \in Nat
      /\ nextNode - 1 \in LIQUIDITYNODES..(nextNode - 1)
  BY OpenNumbers
<1>2. /\ treeNode \in Trees /\ Rooted(treeNode) /\ treeNode[1] \in Nat
      /\ lockedLiquidity <= treeNode[1] /\ Pre(nextNode - 1) = treeNode[1]
      /\ TreeInv(treeNode, nextNode)
  BY VaultNumbers DEF VaultInv
<1>3. Pre(p.cutoff) \in Nat
  BY <1>1, <1>2, UsedBound
<1>4. PrefixCovers(p.cutoff, p.lock) <=> Pre(p.cutoff) >= p.lock
  BY <1>1, <1>2, CoversIs
<1>5. AllocationLeaf(p.cutoff, p.lock) =
        IF p.cutoff = nextNode - 1 \/ PrefixCovers(p.cutoff, p.lock) THEN p.cutoff ELSE nextNode - 1
  BY DEF AllocationLeaf
<1>6. r = IF Pre(p.cutoff) > 0 /\ Pre(p.cutoff) >= p.lock THEN p.cutoff ELSE nextNode - 1
  BY DEF BackLeaf
<1> HIDE DEF r, p, Pre
<1>7. r = p.cutoff \/ r = nextNode - 1
  BY <1>6
<1>8. Pre(r) > 0 /\ Pre(r) \in Nat /\ Pre(r) >= p.lock
  <2>1. CASE Pre(p.cutoff) > 0 /\ Pre(p.cutoff) >= p.lock
    BY <1>3, <1>6, <2>1
  <2>2. CASE ~(Pre(p.cutoff) > 0 /\ Pre(p.cutoff) >= p.lock)
    <3>1. r = nextNode - 1
      BY <1>6, <2>2
    <3>2. Pre(r) = treeNode[1]
      BY <1>2, <3>1
    <3> QED BY <1>1, <1>2, <3>2
  <2> QED BY <2>1, <2>2
<1>9. ASSUME p.lock > 0 PROVE AllocationLeaf(p.cutoff, p.lock) = r
  <2>1. CASE Pre(p.cutoff) >= p.lock
    <3>1. r = p.cutoff
      BY <1>1, <1>3, <1>6, <1>9, <2>1
    <3> QED BY <1>4, <1>5, <2>1, <3>1
  <2>2. CASE ~(Pre(p.cutoff) >= p.lock)
    <3>1. r = nextNode - 1
      BY <1>6, <2>2
    <3> QED BY <1>4, <1>5, <2>2, <3>1
  <2> QED BY <2>1, <2>2
<1>10. r \in LIQUIDITYNODES..(nextNode - 1)
  BY <1>1, <1>7
<1> QED BY <1>8, <1>9, <1>10 DEF r, p, Pre

\* A result within the lock is booked to the unit on the leaves up to BackLeaf (_allocate).
LEMMA Allocated ==
  ASSUME VaultInv, NEW i \in OpenIds, treeNode[1] > 0, NEW a \in Nat, NEW isSub \in BOOLEAN,
         isSub => a > 0 /\ a <= positions[i].lock
  PROVE  ChangedUpTo(Allocate(positions[i], a, isSub), BackLeaf(positions[i]), a, isSub)
<1> DEFINE p == positions[i]
           r == BackLeaf(p)
           last == nextNode - 1
           t == treeNode
           u == Push(t, p.cutoff)
<1>1. /\ nextNode \in (LIQUIDITYNODES + 1)..(2 * LIQUIDITYNODES) /\ nextNode \in Nat
      /\ p.cutoff \in LIQUIDITYNODES..(nextNode - 1) /\ p.cutoff \in Leaves /\ p.cutoff \in Nat
      /\ p.lock \in Nat /\ last \in LIQUIDITYNODES..(nextNode - 1)
      /\ t \in Trees /\ Rooted(t) /\ TreeInv(t, nextNode) /\ t[1] \in Nat
      /\ PrefixWorth(t, last) = t[1]
  BY OpenNumbers, VaultNumbers DEF VaultInv
<1>2. /\ r \in LIQUIDITYNODES..(nextNode - 1)
      /\ PrefixWorth(t, r) > 0 /\ PrefixWorth(t, r) \in Nat /\ PrefixWorth(t, r) >= p.lock
      /\ p.lock > 0 => AllocationLeaf(p.cutoff, p.lock) = r
  BY BackLeafIs
<1>3. isSub => a <= PrefixWorth(t, r)
  <2> HIDE DEF p, r, t
  <2> QED BY <1>1, <1>2 DEF p
<1> HIDE DEF r
<1>4. ChangedUpTo(PushLazy(Push(t, r), r, a, isSub, nextNode), r, a, isSub)
  BY <1>1, <1>2, <1>3, Booked DEF ChangedUpTo
<1>5. CASE p.lock > 0
  <2>1. Allocate(p, a, isSub) = PushLazy(Push(t, r), r, a, isSub, nextNode)
    BY <1>1, <1>2, <1>5 DEF Allocate
  <2> QED BY <1>4, <2>1 DEF r
<1>6. CASE p.lock = 0
  <2>0. ~isSub /\ isSub = FALSE
    BY <1>6
  <2>1. Allocate(p, a, isSub) = AddLimit(t, nextNode, a, p.cutoff)
    BY <1>6 DEF Allocate
  <2>2. ~(p.cutoff > last)
    BY <1>1
  <2>3. AddLimit(t, nextNode, a, p.cutoff) =
          IF NeedsWhole(u, p.cutoff, a, FALSE)
          THEN PushLazy(Push(u, last), last, a, FALSE, nextNode)
          ELSE PushLazy(u, p.cutoff, a, FALSE, nextNode)
    BY <2>2 DEF AddLimit
  <2>4. p.cutoff < nextNode /\ Ready(t, u, p.cutoff, nextNode) /\ Pushed(t, u, p.cutoff) /\ u[1] = t[1]
    BY <1>1, ReadyPush
  <2>5. Bounded(t, p.cutoff, 2 * LIQUIDITYNODES - 1) /\ PrefixWorth(t, p.cutoff) \in Nat
    BY <1>1, UsedBound
  <2>6. NeedsWhole(u, p.cutoff, a, FALSE) <=> PrefixWorth(t, p.cutoff) = 0
    BY <2>4, <2>5, PreviewOfProfit
  <2>7. CASE PrefixWorth(t, p.cutoff) # 0
    <3>1. r = p.cutoff
      BY <1>6, <2>5, <2>7 DEF r, BackLeaf
    <3> QED BY <1>4, <2>0, <2>1, <2>3, <2>6, <2>7, <3>1 DEF r
  <2>8. CASE PrefixWorth(t, p.cutoff) = 0
    <3>1. r = last
      BY <2>8 DEF r, BackLeaf
    <3>2. TreeInv(u, nextNode) /\ PushView(u) = PushView(t)
      BY <2>4 DEF Ready
    <3>3. PrefixWorth(u, last) = PrefixWorth(t, last)
      BY <3>2, PrefixIsSum
    <3>4. PrefixWorth(u, last) > 0
      BY <1>1, <3>3
    <3> HIDE DEF u, last, t
    <3> DEFINE v == PushLazy(Push(u, last), last, a, FALSE, nextNode)
    <3> DEFINE no == FALSE
    <3>0. no \in BOOLEAN /\ ~no /\ (no => a <= PrefixWorth(u, last))
      OBVIOUS
    <3> HIDE DEF no
    <3>9. LET w == PushLazy(Push(u, last), last, a, no, nextNode)
          IN  /\ TreeInv(w, nextNode)
              /\ w[1] = IF no THEN u[1] - a ELSE u[1] + a
              /\ \A k \in Leaves :
                   /\ k > last => PushView(w)[k] = PushView(u)[k]
                   /\ no => PushView(w)[k] <= PushView(u)[k]
                   /\ ~no => PushView(w)[k] >= PushView(u)[k]
      BY <1>1, <3>0, <3>2, <3>4, Booked
    <3>8. v = PushLazy(Push(u, last), last, a, no, nextNode)
      BY DEF no
    <3> HIDE DEF v
    <3>5. /\ TreeInv(v, nextNode) /\ v[1] = u[1] + a
          /\ \A k \in Leaves : /\ k > last => PushView(v)[k] = PushView(u)[k]
                               /\ PushView(v)[k] >= PushView(u)[k]
      BY <3>0, <3>8, <3>9
    <3> HIDE DEF v
    <3>6. ChangedUpTo(v, last, a, FALSE)
      BY <2>4, <3>2, <3>5 DEF ChangedUpTo, t
    <3>7. Allocate(p, a, isSub) = v
      BY <2>1, <2>3, <2>6, <2>8 DEF v
    <3> QED BY <2>0, <3>1, <3>6, <3>7 DEF r, p
  <2> QED BY <2>7, <2>8
<1> QED BY <1>1, <1>5, <1>6

\* Closing a position within its stake and its lock.
LEMMA Settled ==
  ASSUME VaultInv, NEW i \in OpenIds, NEW cost \in 0..(positions[i].stake + positions[i].lock)
  PROVE  LET p == positions[i]
             v == Applied(p, cost)
         IN  /\ TreeInv(v, nextNode) /\ v # Reverted
             /\ v[1] = treeNode[1] + (IF treeNode[1] = 0 /\ cost <= p.stake THEN 0 ELSE p.stake - cost)
             /\ v[1] >= lockedLiquidity - p.lock
             /\ v[1] \in Nat
             /\ cost > p.stake \/ treeNode[1] > 0 => v[1] = treeNode[1] + p.stake - cost
             /\ \A k \in Leaves :
                  /\ treeNode[1] > 0 /\ k > BackLeaf(p) => PushView(v)[k] = PushView(treeNode)[k]
                  /\ cost >= p.stake => PushView(v)[k] <= PushView(treeNode)[k]
                  /\ cost <= p.stake => PushView(v)[k] >= PushView(treeNode)[k]
                  /\ treeNode[1] = 0 => PushView(v)[k] = PushView(treeNode)[k]
<1> DEFINE p == positions[i]
           t == treeNode
           v == Applied(p, cost)
           r == BackLeaf(p)
           W == PushView(t)
           V == PushView(v)
           K == \A k \in Leaves :
                  /\ t[1] > 0 /\ k > r => V[k] = W[k]
                  /\ cost >= p.stake => V[k] <= W[k]
                  /\ cost <= p.stake => V[k] >= W[k]
                  /\ t[1] = 0 => V[k] = W[k]
<1>1. /\ p.stake \in Nat /\ p.stake > 0 /\ p.lock \in Nat /\ p.lock <= lockedLiquidity
      /\ p.stake <= Pending /\ lockedLiquidity \in Nat /\ Pending \in Nat
      /\ t \in Trees /\ Rooted(t) /\ t[1] \in Nat /\ lockedLiquidity <= t[1] /\ t[1] + Pending <= MAX_TREE_CAPITAL
      /\ MAX_TREE_CAPITAL \in Nat /\ GetReserve = t[1] /\ TreeInv(t, nextNode)
  BY OpenNumbers, VaultNumbers DEF VaultInv
<1>2. cost \in Nat /\ cost <= p.stake + p.lock
  BY <1>1
<1>3. \A x \in Trees : x # Reverted
  BY TreeAssumption DEF Trees
<1>4. \A k \in Leaves : k \in Nodes
  BY Numbers
<1>5. \A x \in Trees : \A k \in Leaves : PushView(x)[k] \in Nat
  BY <1>4, ViewIs DEF Trees
<1>6. CASE cost > p.stake
  <2> DEFINE a == cost - p.stake
  <2>1. a \in Nat /\ a > 0 /\ a <= p.lock /\ t[1] > 0
    BY <1>1, <1>2, <1>6
  <2>2. v = Allocate(p, a, TRUE)
    BY <1>6 DEF Applied
  <2> HIDE DEF a
  <2>3. ChangedUpTo(v, r, a, TRUE)
    BY <2>1, <2>2, Allocated
  <2> HIDE DEF v
  <2>4. /\ TreeInv(v, nextNode) /\ v[1] = t[1] - a
        /\ \A k \in Leaves : (k > r => V[k] = W[k]) /\ V[k] <= W[k]
    BY <2>3 DEF ChangedUpTo
  <2>5. v \in Trees /\ v # Reverted
    BY <1>3, <2>4 DEF TreeInv
  <2> HIDE DEF p, t, V, W, r
  <2>6. v[1] = t[1] + p.stake - cost /\ v[1] >= lockedLiquidity - p.lock /\ v[1] \in Nat /\ ~(cost <= p.stake)
    BY <1>1, <1>2, <1>6, <2>1, <2>4 DEF a
  <2>7. K
    BY <1>1, <1>2, <1>6, <2>1, <2>4
  <2>8. v[1] = t[1] + (p.stake - cost)
    BY <1>1, <1>2, <2>6
  <2> QED BY <2>4, <2>5, <2>6, <2>7, <2>8 DEF p, t, v, V, W, r
<1>7. CASE cost < p.stake /\ t[1] > 0
  <2> DEFINE a == p.stake - cost
  <2>1. a \in Nat /\ a > 0
    BY <1>1, <1>2, <1>7
  <2>2. v = Allocate(p, a, FALSE)
    <3>1. ~(GetReserve + p.stake - cost > MAX_TREE_CAPITAL)
      BY <1>1, <1>2
    <3>2. ~(cost > p.stake) /\ ~OwnerlessProfit
      BY <1>1, <1>2, <1>7 DEF OwnerlessProfit
    <3> QED BY <1>7, <3>1, <3>2 DEF Applied
  <2> HIDE DEF a
  <2>3. ChangedUpTo(v, r, a, FALSE)
    BY <1>7, <2>1, <2>2, Allocated
  <2> HIDE DEF v
  <2>4. /\ TreeInv(v, nextNode) /\ v[1] = t[1] + a
        /\ \A k \in Leaves : (k > r => V[k] = W[k]) /\ V[k] >= W[k]
    BY <2>3 DEF ChangedUpTo
  <2>5. v \in Trees /\ v # Reverted
    BY <1>3, <2>4 DEF TreeInv
  <2> HIDE DEF p, t, V, W, r
  <2>6. v[1] = t[1] + p.stake - cost /\ v[1] >= lockedLiquidity - p.lock /\ v[1] \in Nat /\ t[1] # 0
    BY <1>1, <1>2, <1>7, <2>1, <2>4 DEF a
  <2>7. K
    BY <1>1, <1>2, <1>7, <2>1, <2>4
  <2>8. v[1] = t[1] + (p.stake - cost)
    BY <1>1, <1>2, <2>6
  <2> QED BY <2>4, <2>5, <2>6, <2>7, <2>8 DEF p, t, v, V, W, r
<1>8. CASE cost = p.stake \/ (cost < p.stake /\ t[1] = 0)
  <2>1. v = t
    <3>1. CASE cost = p.stake
      <4>1. ~(cost > p.stake) /\ ~(cost < p.stake)
        BY <1>1, <3>1
      <4> QED BY <4>1 DEF Applied
    <3>2. CASE cost < p.stake /\ t[1] = 0
      <4>1. ~(cost > p.stake)
        BY <1>1, <1>2, <3>2
      <4>2. OwnerlessProfit
        BY <1>1, <3>2 DEF OwnerlessProfit
      <4> QED BY <4>1, <4>2 DEF Applied
    <3> QED BY <1>8, <3>1, <3>2
  <2>2. V = W
    BY <2>1
  <2> HIDE DEF v
  <2>3. \A k \in Leaves : V[k] = W[k] /\ W[k] \in Nat
    BY <1>1, <1>5, <2>2
  <2> HIDE DEF p, t, V, W, r
  <2>4. K
    BY <2>3
  <2>5. /\ v[1] = t[1] + (IF t[1] = 0 /\ cost <= p.stake THEN 0 ELSE p.stake - cost)
        /\ v[1] >= lockedLiquidity - p.lock /\ v[1] \in Nat
        /\ cost > p.stake \/ t[1] > 0 => v[1] = t[1] + p.stake - cost
    <3> DEFINE x == v[1]
               y == t[1]
               g == p.stake
               l == p.lock
    <3>1. /\ x = y /\ y \in Nat /\ g \in Nat /\ g > 0 /\ l \in Nat /\ cost \in Nat
          /\ lockedLiquidity <= y /\ l <= lockedLiquidity /\ lockedLiquidity \in Nat
          /\ cost = g \/ (cost < g /\ y = 0)
      BY <1>1, <1>2, <1>8, <2>1
    <3> HIDE DEF x, y, g, l
    <3>2. /\ x = y + (IF y = 0 /\ cost <= g THEN 0 ELSE g - cost)
          /\ x >= lockedLiquidity - l /\ x \in Nat
          /\ cost > g \/ y > 0 => x = y + g - cost
      <4>1. CASE cost = g
        BY <3>1, <4>1
      <4>2. CASE cost < g /\ y = 0
        BY <3>1, <4>2
      <4> QED BY <3>1, <4>1, <4>2
    <3> QED BY <3>2 DEF x, y, g, l
  <2>6. TreeInv(v, nextNode) /\ v # Reverted
    BY <1>1, <1>3, <2>1
  <2> QED BY <2>4, <2>5, <2>6 DEF p, t, v, V, W, r
<1>9. cost > p.stake \/ (cost < p.stake /\ t[1] > 0) \/ cost = p.stake \/ (cost < p.stake /\ t[1] = 0)
  <2> HIDE DEF p, t
  <2> QED BY <1>1, <1>2
<1> QED BY <1>6, <1>7, <1>8, <1>9

-----------------------------------------------------------------------------
(* Every state of the vault satisfies the invariant.                       *)

\* The tree of zeros.
LEMMA ZeroTree ==
  ASSUME treeNode = [n \in Nodes |-> 0]
  PROVE  TreeInv(treeNode, LIQUIDITYNODES)
<1>1. \A n \in Nodes : treeNode[n] = 0
  OBVIOUS
<1>2. treeNode \in Trees
  BY DEF Trees
<1>3. Rooted(treeNode)
  BY <1>1, Numbers DEF Rooted
<1>4. Unused(treeNode, LIQUIDITYNODES)
  BY <1>1, Numbers DEF Unused
<1>5. Fresh(treeNode, LIQUIDITYNODES)
  <2> SUFFICES ASSUME NEW n \in Inner PROVE Exact(treeNode, n)
    BY DEF Fresh
  <2>1. n \in Nodes /\ 2 * n \in Nodes /\ 2 * n + 1 \in Nodes
    BY Children
  <2> HIDE DEF Nodes
  <2> QED BY <1>1, <2>1 DEF Exact
<1> QED BY <1>2, <1>3, <1>4, <1>5 DEF TreeInv

\* An empty vault satisfies the invariant.
LEMMA InitKeeps == Init => VaultInv
<1> SUFFICES ASSUME Init PROVE VaultInv
  OBVIOUS
<1>1. /\ nextNode = LIQUIDITYNODES /\ deposits = {} /\ lockedLiquidity = 0
      /\ positions = [i \in PositionIds |-> NoPosition] /\ treeNode = [n \in Nodes |-> 0]
  BY DEF Init
<1>2. OpenIds = {}
  BY <1>1 DEF OpenIds
<1>3. PositionsOK
  BY <1>1, <1>2 DEF PositionsOK
<1>4. SumOf(Lock, OpenIds) = 0 /\ SumOf(Stake, OpenIds) = 0
  BY <1>2, SumEmpty
<1>5. TreeInv(treeNode, nextNode) /\ treeNode[1] = 0
  BY <1>1, ZeroTree, Numbers
<1>6. nextNode \in LIQUIDITYNODES..(2 * LIQUIDITYNODES)
  BY <1>1, Width
<1>7. MAX_TREE_CAPITAL \in Nat
  BY VaultAssumption
<1> QED BY <1>1, <1>3, <1>4, <1>5, <1>6, <1>7 DEF VaultInv

\* A deposit moves no other deposit.
LEMMA Deposited ==
  ASSUME VaultInv, NEW a \in Amounts, AddDeposit(a)
  PROVE  /\ VaultInv'
         /\ nextNode \in Leaves /\ nextNode' = nextNode + 1 /\ treeNode'[1] = treeNode[1] + a
         /\ PushView(treeNode')[nextNode] = a /\ a > 0
         /\ \A k \in Leaves \ {nextNode} : PushView(treeNode')[k] = PushView(treeNode)[k]
<1>1. /\ nextNode \in Leaves
      /\ a <= MAX_TREE_CAPITAL - GetReserve - Pending
      /\ treeNode' = NodeAddLiquidity(treeNode, nextNode, a)
      /\ deposits' = deposits \cup {nextNode}
      /\ nextNode' = nextNode + 1
      /\ lockedLiquidity' = lockedLiquidity /\ positions' = positions
  BY DEF AddDeposit
<1>2. a \in Nat /\ a > 0
  BY VaultAssumption
<1>3. TreeInv(treeNode, nextNode)
  BY DEF VaultInv
<1>4. /\ TreeInv(treeNode', nextNode + 1) /\ treeNode'[1] = treeNode[1] + a
      /\ PushView(treeNode')[nextNode] = a
      /\ \A k \in Leaves \ {nextNode} : PushView(treeNode')[k] = PushView(treeNode)[k]
  BY <1>1, <1>2, <1>3, AddedLeaf
<1>5. /\ treeNode[1] \in Nat /\ Pending \in Nat /\ GetReserve = treeNode[1]
      /\ MAX_TREE_CAPITAL \in Nat /\ lockedLiquidity \in Nat /\ lockedLiquidity <= treeNode[1]
      /\ nextNode \in Nat
  BY VaultNumbers
<1>6. OpenIds' = OpenIds /\ Stake' = Stake /\ Lock' = Lock
  BY <1>1 DEF OpenIds, Stake, Lock
<1>7. Pending = SumOf(Stake, OpenIds)
  BY PositionFacts DEF VaultInv
<1>8. nextNode' \in LIQUIDITYNODES..(2 * LIQUIDITYNODES)
  BY <1>1, Width DEF Leaves
<1>9. deposits' \subseteq UsedLeaves'
  <2>1. deposits \subseteq UsedLeaves /\ nextNode \in LIQUIDITYNODES..(2 * LIQUIDITYNODES)
    BY DEF VaultInv
  <2> QED BY <1>1, <1>5, <2>1, Width DEF UsedLeaves
<1>10. PositionsOK'
  <2>1. PositionsOK
    BY DEF VaultInv
  <2>2. \A i \in OpenIds : positions[i].cutoff < nextNode /\ positions[i].cutoff \in Nat
    <3>1. \A i \in OpenIds : positions[i].cutoff \in Leaves
      BY <2>1, PositionFacts
    <3> QED BY <2>1, <3>1, Numbers DEF PositionsOK
  <2>3. \A i \in OpenIds : positions[i].cutoff < nextNode + 1
    BY <1>5, <2>2
  <2> QED BY <1>1, <1>6, <2>1, <2>3 DEF PositionsOK
<1>11. /\ lockedLiquidity' = SumOf(Lock', OpenIds') /\ lockedLiquidity' <= treeNode'[1]
       /\ treeNode'[1] + SumOf(Stake', OpenIds') <= MAX_TREE_CAPITAL
  <2>1. lockedLiquidity = SumOf(Lock, OpenIds)
    BY DEF VaultInv
  <2> QED BY <1>1, <1>2, <1>4, <1>5, <1>6, <1>7, <2>1
<1>12. TreeInv(treeNode', nextNode')
  BY <1>1, <1>4
<1>13. VaultInv'
  BY <1>8, <1>9, <1>10, <1>11, <1>12 DEF VaultInv
<1> QED BY <1>1, <1>2, <1>4, <1>13

\* A withdrawal takes from one deposit, and no more than is free.
LEMMA Withdrawn ==
  ASSUME VaultInv, NEW id \in deposits, NEW percent \in 1..ONE, WithdrawDeposit(id, percent)
  PROVE  /\ VaultInv'
         /\ id \in UsedLeaves /\ nextNode' = nextNode /\ positions' = positions
         /\ PushView(treeNode')[id] <= PushView(treeNode)[id]
         /\ \A k \in Leaves \ {id} : PushView(treeNode')[k] = PushView(treeNode)[k]
<1> DEFINE w == NodeWithdrawPercent(treeNode, id, percent)
<1>1. /\ CanWithdraw(id, percent) /\ treeNode' = w.tree
      /\ deposits' = (IF percent = ONE THEN deposits \ {id} ELSE deposits)
      /\ nextNode' = nextNode /\ lockedLiquidity' = lockedLiquidity /\ positions' = positions
  BY DEF WithdrawDeposit
<1>2. w.assets <= Free
  BY <1>1 DEF CanWithdraw
<1>3. /\ treeNode \in Trees /\ treeNode[1] \in Nat /\ Pending \in Nat /\ Free = treeNode[1] - lockedLiquidity
      /\ MAX_TREE_CAPITAL \in Nat /\ lockedLiquidity \in Nat /\ UsedLeaves \subseteq Leaves
      /\ nextNode \in Nat /\ treeNode[1] + Pending <= MAX_TREE_CAPITAL
  BY VaultNumbers
<1>4. /\ deposits \subseteq UsedLeaves /\ TreeInv(treeNode, nextNode)
      /\ nextNode \in LIQUIDITYNODES..(2 * LIQUIDITYNODES) /\ PositionsOK
      /\ lockedLiquidity = SumOf(Lock, OpenIds)
  BY DEF VaultInv
<1>5. id \in Leaves /\ id \in UsedLeaves /\ percent \in 0..ONE
  BY <1>3, <1>4
<1>6. /\ w.assets \in Nat /\ w.assets <= PushView(treeNode)[id]
      /\ TreeInv(treeNode', nextNode) /\ treeNode'[1] = treeNode[1] - w.assets
      /\ PushView(treeNode')[id] = PushView(treeNode)[id] - w.assets
      /\ \A k \in Leaves \ {id} : PushView(treeNode')[k] = PushView(treeNode)[k]
  BY <1>1, <1>3, <1>4, <1>5, WithdrawnLeaf
<1> HIDE DEF w
<1>7. OpenIds' = OpenIds /\ Stake' = Stake /\ Lock' = Lock /\ UsedLeaves' = UsedLeaves
  BY <1>1 DEF OpenIds, Stake, Lock, UsedLeaves
<1>8. Pending = SumOf(Stake, OpenIds)
  BY <1>4, PositionFacts
<1>9. PushView(treeNode)[id] \in Nat
  BY <1>3, <1>5, ViewIs, Numbers DEF Trees
<1>10. PositionsOK'
  BY <1>1, <1>4, <1>7 DEF PositionsOK
<1>11. deposits' \subseteq UsedLeaves'
  BY <1>1, <1>4, <1>7
<1>12. /\ lockedLiquidity' = SumOf(Lock', OpenIds') /\ lockedLiquidity' <= treeNode'[1]
       /\ treeNode'[1] + SumOf(Stake', OpenIds') <= MAX_TREE_CAPITAL
  BY <1>1, <1>2, <1>3, <1>4, <1>6, <1>7, <1>8
<1>13. nextNode' \in LIQUIDITYNODES..(2 * LIQUIDITYNODES) /\ TreeInv(treeNode', nextNode')
  BY <1>1, <1>4, <1>6
<1>14. VaultInv'
  BY <1>10, <1>11, <1>12, <1>13 DEF VaultInv
<1> QED BY <1>1, <1>5, <1>6, <1>9, <1>14

\* A position opens against the deposits made so far.
LEMMA Opened ==
  ASSUME VaultInv, NEW i \in PositionIds, NEW s \in Stakes, NEW k \in Locks, Open(i, s, k)
  PROVE  /\ VaultInv'
         /\ positions[i] = NoPosition /\ treeNode[1] > 0
         /\ treeNode' = treeNode /\ nextNode' = nextNode
         /\ positions'[i] = [cutoff |-> nextNode - 1, stake |-> s, lock |-> k]
         /\ positions'[i] \in Positions
         /\ \A j \in PositionIds \ {i} : positions'[j] = positions[j]
<1> DEFINE r == [cutoff |-> nextNode - 1, stake |-> s, lock |-> k]
<1>1. /\ positions[i] = NoPosition /\ GetReserve > 0
      /\ lockedLiquidity + k <= GetReserve
      /\ GetReserve + Pending + s <= MAX_TREE_CAPITAL
      /\ positions' = [positions EXCEPT ![i] = r]
      /\ lockedLiquidity' = lockedLiquidity + k
      /\ treeNode' = treeNode /\ nextNode' = nextNode /\ deposits' = deposits
  BY DEF Open
<1>2. /\ treeNode[1] \in Nat /\ Pending \in Nat /\ GetReserve = treeNode[1]
      /\ lockedLiquidity \in Nat /\ nextNode \in Nat
      /\ treeNode[1] > 0 => nextNode \in (LIQUIDITYNODES + 1)..(2 * LIQUIDITYNODES)
  BY VaultNumbers
<1>3. /\ PositionsOK /\ deposits \subseteq UsedLeaves /\ lockedLiquidity = SumOf(Lock, OpenIds)
      /\ nextNode \in LIQUIDITYNODES..(2 * LIQUIDITYNODES) /\ TreeInv(treeNode, nextNode)
  BY DEF VaultInv
<1>4. /\ OpenIds \subseteq PositionIds /\ IsFiniteSet(OpenIds) /\ Pending = SumOf(Stake, OpenIds)
      /\ \A j \in OpenIds : Stake[j] \in Nat /\ Lock[j] \in Nat
  BY <1>3, PositionFacts
<1>5. s \in Nat /\ s > 0 /\ k \in Nat
  BY VaultAssumption
<1>6. treeNode[1] > 0 /\ nextNode - 1 \in Leaves /\ nextNode - 1 < nextNode
  BY <1>1, <1>2, Width DEF Leaves
<1>7. r \in Positions /\ r # NoPosition
  BY <1>6, NoRecord DEF Positions
<1>8. positions \in [PositionIds -> Positions \cup {NoPosition}]
  BY <1>3 DEF PositionsOK
<1>9. r.cutoff = nextNode - 1 /\ r.stake = s /\ r.lock = k
  OBVIOUS
<1> HIDE DEF r
<1>10. /\ positions' \in [PositionIds -> Positions \cup {NoPosition}]
       /\ positions'[i] = r /\ \A j \in PositionIds \ {i} : positions'[j] = positions[j]
  BY <1>1, <1>7, <1>8
<1>11. i \notin OpenIds /\ OpenIds' = OpenIds \cup {i}
  BY <1>1, <1>7, <1>10 DEF OpenIds
<1>12. \A j \in OpenIds' : positions'[j].cutoff < nextNode'
  BY <1>1, <1>3, <1>6, <1>9, <1>10, <1>11 DEF PositionsOK, OpenIds
<1>13. PositionsOK'
  BY <1>10, <1>12 DEF PositionsOK
<1>14. /\ Stake'[i] = s /\ Lock'[i] = k
       /\ \A j \in OpenIds : Stake'[j] = Stake[j] /\ Lock'[j] = Lock[j]
  <2>1. \A j \in PositionIds : Stake'[j] = positions'[j].stake /\ Lock'[j] = positions'[j].lock
    BY DEF Stake, Lock
  <2>2. \A j \in PositionIds : Stake[j] = positions[j].stake /\ Lock[j] = positions[j].lock
    BY DEF Stake, Lock
  <2> QED BY <1>4, <1>9, <1>10, <1>11, <2>1, <2>2
<1>15. SumOf(Stake', OpenIds') = s + SumOf(Stake, OpenIds)
  BY <1>4, <1>5, <1>11, <1>14, SumGrows
<1>16. SumOf(Lock', OpenIds') = k + SumOf(Lock, OpenIds)
  BY <1>4, <1>5, <1>11, <1>14, SumGrows
<1>17. /\ lockedLiquidity' = SumOf(Lock', OpenIds') /\ lockedLiquidity' <= treeNode'[1]
       /\ treeNode'[1] + SumOf(Stake', OpenIds') <= MAX_TREE_CAPITAL
  <2>1. MAX_TREE_CAPITAL \in Nat
    BY VaultAssumption
  <2> QED BY <1>1, <1>2, <1>3, <1>4, <1>5, <1>15, <1>16, <2>1
<1>18. deposits' \subseteq UsedLeaves'
  BY <1>1, <1>3 DEF UsedLeaves
<1>19. VaultInv'
  BY <1>1, <1>3, <1>13, <1>17, <1>18 DEF VaultInv
<1> QED BY <1>1, <1>6, <1>7, <1>10, <1>19 DEF r

\* A position closes: the tree is the one of Settled, and the others keep their records.
LEMMA Closed ==
  ASSUME VaultInv, NEW i \in OpenIds, NEW cost \in 0..(positions[i].stake + positions[i].lock),
         ApplySettlement(i, cost)
  PROVE  /\ VaultInv'
         /\ treeNode' = Applied(positions[i], cost) /\ nextNode' = nextNode
         /\ positions' = [positions EXCEPT ![i] = NoPosition]
<1> DEFINE p == positions[i]
<1>1. /\ treeNode' = Applied(p, cost)
      /\ lockedLiquidity' = lockedLiquidity - p.lock
      /\ positions' = [positions EXCEPT ![i] = NoPosition]
      /\ nextNode' = nextNode /\ deposits' = deposits
  BY DEF ApplySettlement, Released
<1>2. /\ treeNode[1] \in Nat /\ Pending \in Nat /\ GetReserve = treeNode[1]
      /\ lockedLiquidity \in Nat /\ nextNode \in Nat /\ MAX_TREE_CAPITAL \in Nat
      /\ treeNode[1] + Pending <= MAX_TREE_CAPITAL
  BY VaultNumbers
<1>3. /\ PositionsOK /\ deposits \subseteq UsedLeaves /\ lockedLiquidity = SumOf(Lock, OpenIds)
      /\ nextNode \in LIQUIDITYNODES..(2 * LIQUIDITYNODES)
  BY DEF VaultInv
<1>4. /\ OpenIds \subseteq PositionIds /\ IsFiniteSet(OpenIds) /\ Pending = SumOf(Stake, OpenIds)
      /\ \A j \in OpenIds : Stake[j] \in Nat /\ Lock[j] \in Nat
      /\ Stake[i] = p.stake /\ Lock[i] = p.lock /\ p.stake \in Nat /\ p.lock \in Nat
  BY <1>3, PositionFacts
<1>5. p.lock <= lockedLiquidity /\ p.stake <= Pending
  BY OpenNumbers
<1>6. /\ TreeInv(Applied(p, cost), nextNode)
      /\ Applied(p, cost)[1] = treeNode[1] + (IF treeNode[1] = 0 /\ cost <= p.stake THEN 0 ELSE p.stake - cost)
      /\ Applied(p, cost)[1] >= lockedLiquidity - p.lock
      /\ Applied(p, cost)[1] \in Nat
  BY Settled
<1>7. cost \in Nat
  BY <1>4
<1>8. positions \in [PositionIds -> Positions \cup {NoPosition}]
  BY <1>3 DEF PositionsOK
<1> HIDE DEF p
<1>9. /\ TreeInv(treeNode', nextNode')
      /\ treeNode'[1] = treeNode[1] + (IF treeNode[1] = 0 /\ cost <= p.stake THEN 0 ELSE p.stake - cost)
      /\ treeNode'[1] >= lockedLiquidity' /\ treeNode'[1] \in Nat
  BY <1>1, <1>6
<1>10. /\ positions' \in [PositionIds -> Positions \cup {NoPosition}]
       /\ positions'[i] = NoPosition /\ \A j \in PositionIds \ {i} : positions'[j] = positions[j]
  BY <1>1, <1>4, <1>8
<1>11. OpenIds' = OpenIds \ {i}
  BY <1>10 DEF OpenIds
<1>12. PositionsOK'
  BY <1>1, <1>3, <1>10, <1>11 DEF PositionsOK, OpenIds
<1>13. \A j \in OpenIds \ {i} : Stake'[j] = Stake[j] /\ Lock'[j] = Lock[j]
  <2>1. \A j \in PositionIds : Stake'[j] = positions'[j].stake /\ Lock'[j] = positions'[j].lock
    BY DEF Stake, Lock
  <2>2. \A j \in PositionIds : Stake[j] = positions[j].stake /\ Lock[j] = positions[j].lock
    BY DEF Stake, Lock
  <2> QED BY <1>4, <1>10, <2>1, <2>2
<1>14. SumOf(Stake, OpenIds) = p.stake + SumOf(Stake', OpenIds')
  BY <1>4, <1>11, <1>13, SumShrinks
<1>15. SumOf(Lock, OpenIds) = p.lock + SumOf(Lock', OpenIds')
  BY <1>4, <1>11, <1>13, SumShrinks
<1>16. SumOf(Lock', OpenIds') \in Nat /\ SumOf(Stake', OpenIds') \in Nat
  <2>1. IsFiniteSet(OpenIds') /\ \A j \in OpenIds' : Stake'[j] \in Nat /\ Lock'[j] \in Nat
    BY <1>4, <1>11, <1>13, FS_Subset
  <2> QED BY <2>1, SumTyped
<1>17. lockedLiquidity' = SumOf(Lock', OpenIds')
  BY <1>1, <1>3, <1>4, <1>15, <1>16
<1>18. treeNode'[1] + SumOf(Stake', OpenIds') <= MAX_TREE_CAPITAL
  BY <1>2, <1>4, <1>7, <1>9, <1>14, <1>16
<1>19. deposits' \subseteq UsedLeaves'
  BY <1>1, <1>3 DEF UsedLeaves
<1>20. VaultInv'
  BY <1>1, <1>3, <1>9, <1>12, <1>17, <1>18, <1>19 DEF VaultInv
<1> QED BY <1>1, <1>20 DEF p

(***************************************************************************)
(* The invariant of the vault: the tree is rooted, its unused leaves are   *)
(* empty and nothing above them is stale, cutoffs are used leaves, and     *)
(* what is locked and staked is the sum over the open positions, backed by *)
(* the root and within the cap (addDeposit, withdrawDeposit,               *)
(* lockLiquidity, applySettlement).                                        *)
(***************************************************************************)
THEOREM VaultInductive == Spec => []VaultInv
<1>1. ASSUME VaultInv, [Next]_vars PROVE VaultInv'
  <2>1. ASSUME NEW a \in Amounts, AddDeposit(a) PROVE VaultInv'
    BY <1>1, <2>1, Deposited
  <2>2. ASSUME NEW id \in deposits, NEW percent \in 1..ONE, WithdrawDeposit(id, percent) PROVE VaultInv'
    BY <1>1, <2>2, Withdrawn
  <2>3. ASSUME NEW i \in PositionIds, NEW s \in Stakes, NEW k \in Locks, Open(i, s, k) PROVE VaultInv'
    BY <1>1, <2>3, Opened
  <2>4. ASSUME NEW i \in OpenIds, NEW cost \in 0..(positions[i].stake + positions[i].lock),
               ApplySettlement(i, cost)
        PROVE  VaultInv'
    BY <1>1, <2>4, Closed
  <2>5. CASE UNCHANGED vars
    <3>1. /\ treeNode' = treeNode /\ nextNode' = nextNode /\ deposits' = deposits
          /\ lockedLiquidity' = lockedLiquidity /\ positions' = positions
      BY <2>5 DEF vars
    <3>2. OpenIds' = OpenIds /\ Stake' = Stake /\ Lock' = Lock /\ UsedLeaves' = UsedLeaves
      BY <3>1 DEF OpenIds, Stake, Lock, UsedLeaves
    <3> QED BY <1>1, <3>1, <3>2 DEF VaultInv, PositionsOK
  <2> QED BY <1>1, <2>1, <2>2, <2>3, <2>4, <2>5 DEF Next
<1> QED BY InitKeeps, <1>1, PTL DEF Spec

-----------------------------------------------------------------------------
(* The invariants that the runs check.                                     *)

(***************************************************************************)
(* No sequence of lazy changes, pushes, deposits and withdrawals over      *)
(* stale nodes loses or invents a unit: the used leaves are worth what the *)
(* root holds (_pushLazy, _push, _updateUp), for a tree of any depth.      *)
(***************************************************************************)
THEOREM LeavesHoldTheRootHolds == Spec => []LeavesHoldTheRoot
<1>1. VaultInv => LeavesHoldTheRoot
  <2> SUFFICES ASSUME VaultInv PROVE LeavesHoldTheRoot
    OBVIOUS
  <2>1. PrefixWorth(treeNode, nextNode - 1) = GetReserve
    BY VaultNumbers
  <2>2. /\ nextNode \in LIQUIDITYNODES..(2 * LIQUIDITYNODES)
        /\ Unused(treeNode, nextNode) /\ Rooted(treeNode)
    BY DEF VaultInv, TreeInv
  <2>3. \A n \in nextNode..(2 * LIQUIDITYNODES - 1) : n \in Leaves /\ n >= nextNode
    BY <2>2, Width DEF Leaves
  <2>4. \A n \in nextNode..(2 * LIQUIDITYNODES - 1) : treeNode[n] = 0
    BY <2>2, <2>3 DEF Unused
  <2>5. \A n \in Nodes \ Leaves :
          treeNode[n] > 0 => treeNode[2 * n] > 0 \/ treeNode[2 * n + 1] > 0
    BY <2>2 DEF Rooted, Inner
  <2> QED BY <2>1, <2>4, <2>5 DEF LeavesHoldTheRoot
<1> QED BY <1>1, VaultInductive, PTL

(***************************************************************************)
(* The argument of the comment on LiquidityVault._allocate: with a lock,   *)
(* the preview of the vendored tree would find the range able to take any  *)
(* result of the position. Amounts below the split are worths on the       *)
(* pushed tree, so a loss within the worth of the range meets no node that *)
(* holds less.                                                             *)
(***************************************************************************)
THEOREM PreviewNeverFallsBackHolds == Spec => []PreviewNeverFallsBack
<1>1. VaultInv => PreviewNeverFallsBack
  <2> SUFFICES ASSUME VaultInv, NEW i \in OpenIds, positions[i].lock > 0
               PROVE  LET p == positions[i]
                          leaf == AllocationLeaf(p.cutoff, p.lock)
                          t == Push(treeNode, leaf)
                      IN  /\ \A loss \in 1..p.lock : ~NeedsWhole(t, leaf, loss, TRUE)
                          /\ GetReserve > 0 =>
                               \A profit \in 1..p.stake : ~NeedsWhole(t, leaf, profit, FALSE)
    BY DEF PreviewNeverFallsBack
  <2> DEFINE p == positions[i]
             r == BackLeaf(p)
             u == Push(treeNode, r)
  <2>1. /\ nextNode \in (LIQUIDITYNODES + 1)..(2 * LIQUIDITYNODES) /\ nextNode \in Nat
        /\ p.lock \in Nat /\ p.stake \in Nat /\ p.lock <= lockedLiquidity
        /\ treeNode[1] \in Nat /\ lockedLiquidity \in Nat /\ lockedLiquidity <= treeNode[1]
    BY OpenNumbers, VaultNumbers
  <2>2. TreeInv(treeNode, nextNode)
    BY DEF VaultInv
  <2>3. treeNode[1] > 0
    <3> HIDE DEF p
    <3>1. p.lock > 0
      BY DEF p
    <3> QED BY <2>1, <3>1
  <2>4. /\ r \in LIQUIDITYNODES..(nextNode - 1)
        /\ PrefixWorth(treeNode, r) > 0 /\ PrefixWorth(treeNode, r) \in Nat
        /\ PrefixWorth(treeNode, r) >= p.lock
        /\ AllocationLeaf(p.cutoff, p.lock) = r
    BY <2>3, BackLeafIs
  <2> HIDE DEF r
  <2>5. Pushed(treeNode, u, r) /\ Bounded(treeNode, r, 2 * LIQUIDITYNODES - 1)
    <3>1. r \in Leaves /\ r < nextNode /\ Bounded(treeNode, r, 2 * LIQUIDITYNODES - 1)
      BY <2>1, <2>2, <2>4, UsedBound
    <3> QED BY <2>1, <2>2, <3>1, ReadyPush
  <2> HIDE DEF u
  <2>6. \A loss \in 1..p.lock : ~NeedsWhole(u, r, loss, TRUE)
    <3> SUFFICES ASSUME NEW loss \in 1..p.lock PROVE ~NeedsWhole(u, r, loss, TRUE)
      OBVIOUS
    <3> HIDE DEF p
    <3>1. loss \in Nat /\ loss > 0 /\ loss <= PrefixWorth(treeNode, r)
      BY <2>1, <2>4
    <3> QED BY <2>5, <3>1, PreviewOfLoss
  <2>7. \A profit \in 1..p.stake : ~NeedsWhole(u, r, profit, FALSE)
    <3> SUFFICES ASSUME NEW profit \in 1..p.stake PROVE ~NeedsWhole(u, r, profit, FALSE)
      OBVIOUS
    <3> HIDE DEF p
    <3>1. profit \in Nat
      BY <2>1
    <3>2. ~(PrefixWorth(treeNode, r) = 0)
      BY <2>4
    <3>3. NeedsWhole(u, r, profit, FALSE) <=> PrefixWorth(treeNode, r) = 0
      BY <2>5, <3>1, PreviewOfProfit
    <3> QED BY <3>2, <3>3
  <2> QED BY <2>4, <2>6, <2>7 DEF u
<1> QED BY <1>1, VaultInductive, PTL

(***************************************************************************)
(* applySettlement never blocks: for any cost within the stake and the     *)
(* lock, no subtraction of the tree fails, the root moves by the result to *)
(* the unit, and what other positions have locked stays backed.            *)
(***************************************************************************)
THEOREM SettlementAlwaysBooksHolds == Spec => []SettlementAlwaysBooks
<1>1. VaultInv => SettlementAlwaysBooks
  <2> SUFFICES ASSUME VaultInv, NEW i \in OpenIds,
                      NEW cost \in 0..(positions[i].stake + positions[i].lock)
               PROVE  LET p == positions[i]
                          t == Applied(p, cost)
                      IN  /\ t # Reverted
                          /\ t[1] = GetReserve + (IF OwnerlessProfit /\ cost <= p.stake THEN 0
                                                  ELSE p.stake - cost)
                          /\ t[1] >= lockedLiquidity - p.lock
    BY DEF SettlementAlwaysBooks
  <2>1. LET p == positions[i]
            v == Applied(p, cost)
        IN  /\ v # Reverted
            /\ v[1] = treeNode[1] + (IF treeNode[1] = 0 /\ cost <= p.stake THEN 0 ELSE p.stake - cost)
            /\ v[1] >= lockedLiquidity - p.lock
    BY Settled
  <2> QED BY <2>1 DEF OwnerlessProfit, GetReserve
<1> QED BY <1>1, VaultInductive, PTL

(***************************************************************************)
(* _prefixCovers answers as the sum of the worths of the prefix would,     *)
(* however early its walk stops.                                           *)
(***************************************************************************)
THEOREM PrefixCoversIsExactHolds == Spec => []PrefixCoversIsExact
<1>1. VaultInv => PrefixCoversIsExact
  <2> SUFFICES ASSUME VaultInv, NEW leaf \in UsedLeaves, NEW maxLoss \in 0..MAX_TREE_CAPITAL
               PROVE  PrefixCovers(leaf, maxLoss) <=> PrefixWorth(treeNode, leaf) >= maxLoss
    BY DEF PrefixCoversIsExact
  <2>1. /\ treeNode \in Trees /\ Rooted(treeNode) /\ leaf \in Leaves
        /\ maxLoss \in Nat
    BY VaultNumbers
  <2> QED BY <2>1, CoversIs
<1> QED BY <1>1, VaultInductive, PTL

(***************************************************************************)
(* The share that depositState quotes can be withdrawn, and no greater     *)
(* share can, for any scale of shares and any rounding on the way.         *)
(***************************************************************************)
THEOREM QuoteIsTheBestHolds == Spec => []QuoteIsTheBest
<1>1. VaultInv => QuoteIsTheBest
  <2> SUFFICES ASSUME VaultInv, NEW id \in deposits
               PROVE  /\ MaxPercent(id) > 0 => CanWithdraw(id, MaxPercent(id))
                      /\ \A percent \in (MaxPercent(id) + 1)..ONE : ~CanWithdraw(id, percent)
    BY DEF QuoteIsTheBest
  <2>1. /\ TreeInv(treeNode, nextNode) /\ nextNode \in Nat /\ id \in Leaves
        /\ lockedLiquidity \in Nat /\ lockedLiquidity <= treeNode[1]
    BY VaultNumbers DEF VaultInv
  <2> QED BY <2>1, QuoteIs
<1> QED BY <1>1, VaultInductive, PTL

-----------------------------------------------------------------------------
(* The vault implements the ledger of worths.                              *)

Worths(t) == [d \in Leaves |-> WithdrawView(t, d)]
Bets == [i \in PositionIds |->
           IF positions[i] = NoPosition THEN NoPosition
           ELSE [backers |-> LIQUIDITYNODES..positions[i].cutoff,
                 stake |-> positions[i].stake, lock |-> positions[i].lock]]

\* The ledger's total of a prefix is its worth.
LEMMA TotalIs ==
  ASSUME NEW t \in Trees, NEW k \in (LIQUIDITYNODES - 1)..(2 * LIQUIDITYNODES - 1)
  PROVE  Promise!Total(Worths(t), LIQUIDITYNODES..k) = PrefixWorth(t, k)
<1> DEFINE W == Worths(t)
           D == LIQUIDITYNODES..k
<1>1. Promise!Total(W, D) = SumOf(W, D)
  <2> HIDE DEF W, D
  <2> QED BY DEF Promise!Total, Promise!MapThenSumSet, Promise!MapThenFoldSet, SumOf, IsSum, Pick
<1>2. PrefixWorth(t, k) = SumOf(PushView(t), D)
  BY PrefixIsSum
<1>3. D \subseteq Leaves /\ D \subseteq Nodes
  BY Width DEF Leaves, Nodes
<1>4. \A d \in D : PushView(t)[d] \in Nat /\ W[d] = PushView(t)[d]
  BY <1>3, ViewIs DEF Trees, Worths, WithdrawView
<1>5. IsFiniteSet(D)
  BY <1>3, Numbers, FS_Subset
<1> HIDE DEF W, D
<1>6. SumOf(W, D) = SumOf(PushView(t), D)
  BY <1>4, <1>5, SumSame
<1> QED BY <1>1, <1>2, <1>6 DEF W, D

\* The records of the ledger.
LEMMA BetsAre ==
  ASSUME PositionsOK
  PROVE  \A i \in PositionIds :
           /\ Bets[i] = NoPosition <=> positions[i] = NoPosition
           /\ i \in OpenIds => /\ Bets[i].backers = LIQUIDITYNODES..positions[i].cutoff
                               /\ Bets[i].stake = positions[i].stake
                               /\ Bets[i].lock = positions[i].lock
<1> SUFFICES ASSUME NEW i \in PositionIds
             PROVE  /\ Bets[i] = NoPosition <=> positions[i] = NoPosition
                    /\ i \in OpenIds => /\ Bets[i].backers = LIQUIDITYNODES..positions[i].cutoff
                                        /\ Bets[i].stake = positions[i].stake
                                        /\ Bets[i].lock = positions[i].lock
  OBVIOUS
<1>1. CASE positions[i] = NoPosition
  BY <1>1 DEF Bets, OpenIds
<1>2. CASE positions[i] # NoPosition
  <2> DEFINE b == [backers |-> LIQUIDITYNODES..positions[i].cutoff,
                   stake |-> positions[i].stake, lock |-> positions[i].lock]
  <2>1. Bets[i] = b
    BY <1>2 DEF Bets
  <2>2. i \in OpenIds
    BY <1>2 DEF OpenIds
  <2>3. /\ positions[i].stake \in Stakes /\ positions[i].lock \in Locks
        /\ positions[i].cutoff \in Leaves
    BY <2>2, PositionFacts
  <2>4. LIQUIDITYNODES..positions[i].cutoff \in SUBSET Leaves
    BY <2>3, Width DEF Leaves
  <2>5. b \in [backers : SUBSET Leaves, stake : Stakes, lock : Locks]
    BY <2>3, <2>4
  <2>6. b # NoPosition
    BY <2>5, VaultAssumption
  <2> QED BY <1>2, <2>1, <2>6
<1> QED BY <1>1, <1>2

\* What open positions have locked is worth of the deposits.
LEMMA Backed ==
  ASSUME VaultInv
  PROVE  Promise!LocksStay
<1> DEFINE S == PositionIds
           u == [i \in S |-> IF Bets[i] = NoPosition THEN 0 ELSE Bets[i].lock]
           L == Promise!MapThenSumSet(LAMBDA i : IF Bets[i] = NoPosition THEN 0 ELSE Bets[i].lock, S)
<1>1. PositionsOK /\ lockedLiquidity = SumOf(Lock, OpenIds)
  BY DEF VaultInv
<1>2. IsFiniteSet(S)
  BY VaultAssumption
<1>3. /\ OpenIds \in SUBSET S
      /\ \A i \in OpenIds : Lock[i] \in Nat /\ u[i] = Lock[i]
      /\ \A i \in S \ OpenIds : u[i] = 0
  BY <1>1, BetsAre, PositionFacts DEF OpenIds
<1>4. \A i \in S : u[i] \in Nat
  <2> HIDE DEF u, S
  <2> QED BY <1>3
<1>5. L = SumOf(u, S)
  <2> DEFINE M(T, g) == IF T = {} THEN 0
                        ELSE (IF Bets[Pick(T)] = NoPosition THEN 0 ELSE Bets[Pick(T)].lock)
                             + g[T \ {Pick(T)}]
             N(T, g) == IF T = {} THEN 0 ELSE u[Pick(T)] + g[T \ {Pick(T)}]
             IsM(g) == g = [T \in SUBSET S |-> M(T, g)]
             m == CHOOSE g : IsM(g)
  <2>1. L = m[S]
    BY DEF Promise!MapThenSumSet, Promise!MapThenFoldSet, Pick
  <2>2. ASSUME NEW g PROVE IsM(g) <=> IsSum(g, u, S)
    <3>1. \A T \in SUBSET S : M(T, g) = N(T, g)
      BY PickFrom
    <3> HIDE DEF M, N, u
    <3>2. IsM(g) <=> (g = [T \in SUBSET S |-> N(T, g)])
      BY <3>1
    <3> QED BY <3>2 DEF N, IsSum
  <2> HIDE DEF IsM, u
  <2>3. PICK g : IsM(g)
    BY <1>2, <1>4, <2>2, SumExists
  <2>4. IsM(m)
    BY <2>3
  <2> HIDE DEF m, L
  <2> QED BY <1>2, <1>4, <2>1, <2>2, <2>4, SumIsUnique
<1>6. SumOf(u, S) = SumOf(Lock, OpenIds)
  <2> HIDE DEF u, S
  <2> QED BY <1>2, <1>3, SumOfPart
<1>7. Promise!Total(Worths(treeNode), UsedLeaves) = treeNode[1] /\ lockedLiquidity <= treeNode[1]
  <2>1. nextNode - 1 \in (LIQUIDITYNODES - 1)..(2 * LIQUIDITYNODES - 1)
    BY Width DEF VaultInv
  <2> QED BY <2>1, VaultNumbers, TotalIs DEF UsedLeaves
<1>8. L <= Promise!Total(Worths(treeNode), UsedLeaves)
  BY <1>1, <1>5, <1>6, <1>7
<1> QED BY <1>8 DEF Promise!LocksStay, Worths, Bets

\* An empty vault is an empty ledger.
LEMMA LedgerInit ==
  ASSUME Init
  PROVE  Promise!Init
<1>1. /\ nextNode = LIQUIDITYNODES /\ treeNode = [n \in Nodes |-> 0]
      /\ positions = [i \in PositionIds |-> NoPosition]
  BY DEF Init
<1>2. \A d \in Leaves : WithdrawView(treeNode, d) = 0
  <2>1. treeNode \in Trees /\ \A n \in Nodes : treeNode[n] = 0
    BY <1>1 DEF Trees
  <2> QED BY <2>1, ViewIs, Numbers DEF WithdrawView
<1>3. Worths(treeNode) = [d \in Leaves |-> 0]
  BY <1>2 DEF Worths
<1>4. UsedLeaves = {}
  BY <1>1, Width DEF UsedLeaves
<1>5. Bets = [i \in PositionIds |-> NoPosition]
  BY <1>1 DEF Bets
<1> QED BY <1>3, <1>4, <1>5 DEF Promise!Init, Worths, Bets

\* A deposit of the vault is one of the ledger.
LEMMA LedgerDeposit ==
  ASSUME VaultInv, NEW a \in Amounts, AddDeposit(a)
  PROVE  \E d \in Leaves \ UsedLeaves : Promise!Deposit(d)
<1>1. /\ nextNode \in Leaves /\ nextNode' = nextNode + 1
      /\ PushView(treeNode')[nextNode] = a /\ a > 0
      /\ \A k \in Leaves \ {nextNode} : PushView(treeNode')[k] = PushView(treeNode)[k]
  BY Deposited
<1>2. nextNode \in Nat /\ nextNode >= LIQUIDITYNODES /\ nextNode \notin UsedLeaves
  BY <1>1, Numbers, Width DEF UsedLeaves
<1>3. UsedLeaves' = UsedLeaves \cup {nextNode}
  BY <1>1, <1>2, Width DEF UsedLeaves
<1>4. positions' = positions
  BY DEF AddDeposit
<1>5. /\ Worths(treeNode')[nextNode] > 0
      /\ \A k \in Leaves \ {nextNode} : Worths(treeNode')[k] = Worths(treeNode)[k]
  BY <1>1 DEF Worths, WithdrawView
<1>6. Bets' = Bets
  BY <1>4 DEF Bets
<1>7. Promise!OnlyMoves(nextNode)
  BY <1>5 DEF Promise!OnlyMoves, Worths
<1>8. Promise!Deposit(nextNode)
  BY <1>3, <1>5, <1>6, <1>7 DEF Promise!Deposit, Worths, Bets
<1> QED BY <1>1, <1>2, <1>8

\* A withdrawal of the vault is one of the ledger, or takes nothing from it.
LEMMA LedgerWithdraw ==
  ASSUME VaultInv, NEW id \in deposits, NEW percent \in 1..ONE, WithdrawDeposit(id, percent)
  PROVE  (\E d \in UsedLeaves : Promise!Withdraw(d)) \/ UNCHANGED Promise!ledger
<1>1. /\ id \in UsedLeaves /\ nextNode' = nextNode /\ positions' = positions
      /\ PushView(treeNode')[id] <= PushView(treeNode)[id]
      /\ \A k \in Leaves \ {id} : PushView(treeNode')[k] = PushView(treeNode)[k]
      /\ VaultInv'
  BY Withdrawn
<1>2. id \in Leaves
  BY <1>1, VaultNumbers
<1>3. UsedLeaves' = UsedLeaves /\ Bets' = Bets
  BY <1>1 DEF UsedLeaves, Bets
<1>4. /\ Worths(treeNode')[id] <= Worths(treeNode)[id]
      /\ \A k \in Leaves \ {id} : Worths(treeNode')[k] = Worths(treeNode)[k]
  BY <1>1, <1>2 DEF Worths, WithdrawView
<1>5. Worths(treeNode')[id] \in Nat /\ Worths(treeNode)[id] \in Nat
  <2>1. treeNode \in Trees /\ treeNode' \in Trees /\ id \in Nodes
    BY <1>1, <1>2, Numbers DEF VaultInv, TreeInv
  <2>2. PushView(treeNode)[id] \in Nat /\ PushView(treeNode')[id] \in Nat
    BY <2>1, ViewIs DEF Trees
  <2> QED BY <1>2, <2>2 DEF Worths, WithdrawView
<1>6. CASE Worths(treeNode')[id] < Worths(treeNode)[id]
  <2>1. Promise!OnlyMoves(id)
    BY <1>4 DEF Promise!OnlyMoves, Worths
  <2>2. Promise!Withdraw(id)
    BY <1>3, <1>6, <2>1 DEF Promise!Withdraw, Worths, Bets
  <2> QED BY <1>1, <2>2
<1>7. CASE Worths(treeNode')[id] = Worths(treeNode)[id]
  <2>1. \A k \in Leaves : Worths(treeNode')[k] = Worths(treeNode)[k]
    BY <1>4, <1>7
  <2>2. Worths(treeNode') = Worths(treeNode)
    <3>1. \A k \in Leaves : WithdrawView(treeNode', k) = WithdrawView(treeNode, k)
      BY <2>1 DEF Worths
    <3> QED BY <3>1 DEF Worths
  <2> QED BY <1>3, <2>2 DEF Promise!ledger, Worths, Bets
<1> QED BY <1>4, <1>5, <1>6, <1>7

\* A position opens with the deposits of its time behind it.
LEMMA LedgerOpen ==
  ASSUME VaultInv, NEW i \in PositionIds, NEW s \in Stakes, NEW k \in Locks, Open(i, s, k)
  PROVE  Promise!Open(i)
<1>1. /\ VaultInv' /\ positions[i] = NoPosition /\ treeNode[1] > 0
      /\ treeNode' = treeNode /\ nextNode' = nextNode
      /\ positions'[i] = [cutoff |-> nextNode - 1, stake |-> s, lock |-> k]
      /\ positions'[i] \in Positions
      /\ \A j \in PositionIds \ {i} : positions'[j] = positions[j]
  BY Opened
<1>2. UsedLeaves' = UsedLeaves /\ Worths(treeNode') = Worths(treeNode)
  BY <1>1 DEF UsedLeaves, Worths
<1>3. Bets[i] = NoPosition
  BY <1>1 DEF Bets
<1>4. Bets'[i] # NoPosition /\ Bets'[i].backers = UsedLeaves
  <2>1. positions'[i] # NoPosition /\ positions'[i].cutoff = nextNode - 1
    BY <1>1, NoRecord
  <2> DEFINE b == [backers |-> LIQUIDITYNODES..positions'[i].cutoff,
                   stake |-> positions'[i].stake, lock |-> positions'[i].lock]
  <2>2. Bets'[i] = b
    BY <2>1 DEF Bets
  <2>3. b \in [backers : SUBSET Leaves, stake : Stakes, lock : Locks]
    <3>1. UsedLeaves \in SUBSET Leaves
      BY VaultNumbers
    <3> QED BY <1>1, <2>1, <3>1 DEF UsedLeaves
  <2>4. b # NoPosition
    BY <2>3, VaultAssumption
  <2> QED BY <2>1, <2>2, <2>4 DEF UsedLeaves
<1>5. \A j \in PositionIds \ {i} : Bets'[j] = Bets[j]
  BY <1>1 DEF Bets
<1>6. Promise!Total(Worths(treeNode), UsedLeaves) > 0
  <2>1. nextNode - 1 \in (LIQUIDITYNODES - 1)..(2 * LIQUIDITYNODES - 1)
    BY Width DEF VaultInv
  <2> QED BY <1>1, <2>1, VaultNumbers, TotalIs DEF UsedLeaves
<1> QED BY <1>2, <1>3, <1>4, <1>5, <1>6 DEF Promise!Open, Worths, Bets

\* The deposits that the ledger lets share a result are those up to BackLeaf.
LEMMA SharersAre ==
  ASSUME VaultInv, NEW i \in OpenIds
  PROVE  Promise!Sharers(Bets[i]) = LIQUIDITYNODES..BackLeaf(positions[i])
<1> DEFINE p == positions[i]
           b == Bets[i]
<1>1. b.backers = LIQUIDITYNODES..p.cutoff /\ b.lock = p.lock
  BY BetsAre DEF VaultInv, OpenIds
<1>2. p.cutoff \in (LIQUIDITYNODES - 1)..(2 * LIQUIDITYNODES - 1) /\ treeNode \in Trees
  <2>1. p.cutoff \in Leaves
    BY OpenNumbers
  <2> QED BY <2>1, VaultNumbers, Width DEF Leaves
<1> HIDE DEF b, p
<1>3. Promise!Total(Worths(treeNode), b.backers) = PrefixWorth(treeNode, p.cutoff)
  BY <1>1, <1>2, TotalIs
<1>4. Promise!Sharers(b) =
        IF Promise!Total(Worths(treeNode), b.backers) > 0
           /\ Promise!Total(Worths(treeNode), b.backers) >= b.lock
        THEN b.backers ELSE UsedLeaves
  BY DEF Promise!Sharers, Worths
<1>5. BackLeaf(p) = IF PrefixWorth(treeNode, p.cutoff) > 0 /\ PrefixWorth(treeNode, p.cutoff) >= p.lock
                    THEN p.cutoff ELSE nextNode - 1
  BY DEF BackLeaf
<1>6. Promise!Sharers(b) = LIQUIDITYNODES..BackLeaf(p)
  <2>1. CASE PrefixWorth(treeNode, p.cutoff) > 0 /\ PrefixWorth(treeNode, p.cutoff) >= p.lock
    BY <1>1, <1>3, <1>4, <1>5, <2>1
  <2>2. CASE ~(PrefixWorth(treeNode, p.cutoff) > 0 /\ PrefixWorth(treeNode, p.cutoff) >= p.lock)
    BY <1>1, <1>3, <1>4, <1>5, <2>2 DEF UsedLeaves
  <2> QED BY <2>1, <2>2
<1> QED BY <1>6 DEF b, p

\* A settlement is one of the ledger: the right deposits share it, in one direction.
LEMMA LedgerSettle ==
  ASSUME VaultInv, NEW i \in OpenIds, NEW cost \in 0..(positions[i].stake + positions[i].lock),
         ApplySettlement(i, cost)
  PROVE  Promise!Settle(i)
<1> DEFINE p == positions[i]
           r == BackLeaf(p)
           t == treeNode
           v == treeNode'
           W == Worths(t)
           V == Worths(v)
           x == t[1]
           y == v[1]
           result == Promise!Total(V, UsedLeaves) - Promise!Total(W, UsedLeaves)
<1>1. /\ VaultInv' /\ v = Applied(p, cost) /\ nextNode' = nextNode
      /\ positions' = [positions EXCEPT ![i] = NoPosition]
  BY Closed
<1>2. /\ y = x + (IF x = 0 /\ cost <= p.stake THEN 0 ELSE p.stake - cost)
      /\ y \in Nat
      /\ \A k \in Leaves :
           /\ x > 0 /\ k > r => PushView(v)[k] = PushView(t)[k]
           /\ cost >= p.stake => PushView(v)[k] <= PushView(t)[k]
           /\ cost <= p.stake => PushView(v)[k] >= PushView(t)[k]
           /\ x = 0 => PushView(v)[k] = PushView(t)[k]
  BY <1>1, Settled
<1>3. /\ t \in Trees /\ v \in Trees /\ Rooted(t) /\ Rooted(v) /\ Unused(t, nextNode) /\ Unused(v, nextNode)
      /\ nextNode \in LIQUIDITYNODES..(2 * LIQUIDITYNODES)
  BY <1>1 DEF VaultInv, TreeInv
<1>4. nextNode - 1 \in (LIQUIDITYNODES - 1)..(2 * LIQUIDITYNODES - 1)
      /\ nextNode - 1 \in (nextNode - 1)..(2 * LIQUIDITYNODES - 1) /\ nextNode \in Nat /\ LIQUIDITYNODES \in Nat
  BY <1>3, Width
<1>5. Promise!Total(W, UsedLeaves) = x /\ Promise!Total(V, UsedLeaves) = y
  <2>1. PrefixWorth(t, nextNode - 1) = x /\ PrefixWorth(v, nextNode - 1) = y
    BY <1>3, <1>4, RootWorth
  <2> HIDE DEF v
  <2>2. /\ Promise!Total(W, UsedLeaves) = PrefixWorth(t, nextNode - 1)
        /\ Promise!Total(V, UsedLeaves) = PrefixWorth(v, nextNode - 1)
    BY <1>3, <1>4, TotalIs DEF UsedLeaves
  <2> QED BY <2>1, <2>2
<1>6. /\ p.stake \in Nat /\ p.lock \in Nat /\ p.lock <= lockedLiquidity /\ lockedLiquidity \in Nat
      /\ x \in Nat /\ lockedLiquidity <= x
  BY OpenNumbers, VaultNumbers
<1>7. i \in PositionIds /\ PositionsOK /\ positions[i] # NoPosition
  BY DEF OpenIds, VaultInv
<1>8. Bets[i] # NoPosition /\ Bets[i].lock = p.lock /\ Bets[i].stake = p.stake
  BY <1>7, BetsAre
<1>9. Bets' = [Bets EXCEPT ![i] = NoPosition]
  <2>1. \A j \in PositionIds : positions'[j] = IF j = i THEN NoPosition ELSE positions[j]
    BY <1>1, <1>7 DEF PositionsOK
  <2>2. Bets' = [j \in PositionIds |-> IF j = i THEN NoPosition ELSE Bets[j]]
    BY <2>1 DEF Bets
  <2>3. Bets = [j \in PositionIds |-> Bets[j]]
    BY DEF Bets
  <2> HIDE DEF p
  <2> QED BY <2>2, <2>3
<1>10. UsedLeaves' = UsedLeaves
  BY <1>1 DEF UsedLeaves
<1>11. Promise!Sharers(Bets[i]) = LIQUIDITYNODES..r
  BY SharersAre
<1>12. \A k \in Leaves : /\ W[k] = PushView(t)[k] /\ V[k] = PushView(v)[k]
                         /\ W[k] \in Nat /\ V[k] \in Nat
  BY <1>3, Numbers, ViewIs DEF Worths, WithdrawView, Trees
<1>13. r \in Int
  <2>1. p.cutoff \in Nat
    BY OpenNumbers
  <2> QED BY <1>4, <2>1 DEF BackLeaf
<1>14. cost \in Nat /\ cost <= p.stake + p.lock
  BY <1>6
<1>15. result = y - x
  BY <1>5
<1> HIDE DEF r, W, V, p, x, y, result
<1>16. x = 0 => result = 0
  BY <1>2, <1>6, <1>14, <1>15
<1>17. x # 0 => result = p.stake - cost
  BY <1>2, <1>6, <1>14, <1>15
<1>18. x # 0 => result \in (0 - p.lock)..p.stake
  BY <1>6, <1>14, <1>17
<1>19. ASSUME NEW k \in Leaves, k \notin LIQUIDITYNODES..r PROVE V[k] = W[k]
  <2>1. k > r /\ k \in Nat
    BY <1>4, <1>13, <1>19, Numbers
  <2>2. CASE x = 0
    BY <1>2, <1>12, <2>2
  <2>3. CASE x # 0
    <3>1. x > 0
      BY <1>6, <2>3
    <3> QED BY <1>2, <1>12, <2>1, <3>1
  <2> QED BY <2>2, <2>3
<1>20. ASSUME NEW k \in Leaves PROVE IF result < 0 THEN V[k] <= W[k] ELSE V[k] >= W[k]
  <2>0. /\ cost >= p.stake => V[k] <= W[k]
        /\ cost <= p.stake => V[k] >= W[k]
        /\ x = 0 => V[k] = W[k]
        /\ V[k] \in Nat /\ W[k] \in Nat
    BY <1>2, <1>12
  <2>1. CASE x = 0
    BY <1>16, <2>0, <2>1
  <2>2. CASE x # 0
    <3>1. CASE cost > p.stake
      BY <1>6, <1>14, <1>17, <2>0, <2>2, <3>1
    <3>2. CASE cost <= p.stake
      BY <1>6, <1>14, <1>17, <2>0, <2>2, <3>2
    <3> QED BY <1>6, <1>14, <3>1, <3>2
  <2> QED BY <2>1, <2>2
<1>21. \A d \in Leaves :
         IF d \notin Promise!Sharers(Bets[i]) THEN V[d] = W[d]
         ELSE IF result < 0 THEN V[d] <= W[d] ELSE V[d] >= W[d]
  BY <1>11, <1>19, <1>20
<1>22. IF Promise!Total(W, UsedLeaves) = 0 THEN result = 0
       ELSE result \in (0 - Bets[i].lock)..Bets[i].stake
  BY <1>5, <1>8, <1>16, <1>18
<1> QED BY <1>8, <1>9, <1>10, <1>21, <1>22 DEF Promise!Settle, Worths, Bets, W, V, result

\* Nothing happens to the ledger when nothing happens to the vault.
LEMMA LedgerSame ==
  ASSUME UNCHANGED vars
  PROVE  UNCHANGED Promise!ledger
BY DEF vars, Promise!ledger, UsedLeaves

(***************************************************************************)
(* The vault over its lazy tree implements the ledger of worths: deposits  *)
(* and withdrawals move no other deposit, a result is shared by the        *)
(* deposits of the bet's time if they can bear its greatest loss and by    *)
(* all otherwise, to the unit and in one direction, and locks stay backed. *)
(***************************************************************************)
THEOREM DepositsKept == Spec => ImplementsDeposits
<1>1. ASSUME VaultInv, Promise!LocksStay', [Next]_vars PROVE [Promise!Next]_(Promise!ledger)
  <2>1. ASSUME NEW a \in Amounts, AddDeposit(a) PROVE Promise!Next
    BY <1>1, <2>1, LedgerDeposit DEF Promise!Next
  <2>2. ASSUME NEW id \in deposits, NEW percent \in 1..ONE, WithdrawDeposit(id, percent)
        PROVE  Promise!Next \/ UNCHANGED Promise!ledger
    BY <1>1, <2>2, LedgerWithdraw DEF Promise!Next
  <2>3. ASSUME NEW i \in PositionIds, NEW s \in Stakes, NEW k \in Locks, Open(i, s, k)
        PROVE  Promise!Next
    BY <1>1, <2>3, LedgerOpen DEF Promise!Next
  <2>4. ASSUME NEW i \in OpenIds, NEW cost \in 0..(positions[i].stake + positions[i].lock),
               ApplySettlement(i, cost)
        PROVE  Promise!Next
    <3>1. Promise!Settle(i)
      BY <1>1, <2>4, LedgerSettle
    <3>2. i \in PositionIds
      BY DEF OpenIds
    <3> QED BY <1>1, <3>1, <3>2 DEF Promise!Next
  <2> QED BY <1>1, <2>1, <2>2, <2>3, <2>4, LedgerSame DEF Next
<1>2. VaultInv => Promise!LocksStay
  BY Backed
<1> QED BY <1>1, <1>2, LedgerInit, VaultInductive, PTL DEF Spec, Promise!Spec, ImplementsDeposits
=============================================================================
