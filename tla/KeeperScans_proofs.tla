------------------------- MODULE KeeperScans_proofs -------------------------
(***************************************************************************)
(* Theorems about what keepers learn by scanning a chain from a place of   *)
(* their own: PayableClaimer, which must forget no debtor, and             *)
(* TimelockIndex, whose rows must be the timelock's.                       *)
(*                                                                         *)
(* The claimer forgets nobody, for any number of players, debts, failed    *)
(* reads, replaced blocks and restarts, as long as no finalized read is    *)
(* older than the cursor.  (PayableClaimer's run payables_lagging shows    *)
(* that the condition is needed.)  NothingForgotten is inductive together  *)
(* with the types and with Bounds: cursors stay within the finalized part  *)
(* of the chain, which nothing changes, and the finalized block a pass     *)
(* uses is at or past the cursor, so that a zero read there speaks of      *)
(* every creation scanned.                                                 *)
(*                                                                         *)
(* A row of TimelockIndex is pinned down by the furthest block that was    *)
(* written, for any set of operations and keepers and any history: it      *)
(* holds the last schedule of its operation and the marks after it, to     *)
(* apply an event of an earlier block changes nothing, and so a range that *)
(* begins at or before that block leaves the row of the later of the two   *)
(* ends.                                                                   *)
(***************************************************************************)
EXTENDS PayableClaimer, TimelockIndex, SetInduction, TLAPS, SequenceTheorems, FiniteSetTheorems

-----------------------------------------------------------------------------
\* Lists of players.
Elements(s) == {s[i] : i \in DOMAIN s}
Removed(s, i) == SubSeq(s, 1, i - 1) \o SubSeq(s, i + 1, Len(s))

\* What Without(i) does to a list.
LEMMA RemovedProperties ==
    ASSUME NEW S, NEW s \in Seq(S), ListsOnce(s), NEW i \in 1..Len(s)
    PROVE  /\ Removed(s, i) \in Seq(S)
           /\ ListsOnce(Removed(s, i))
           /\ Elements(s) \subseteq Elements(Removed(s, i)) \cup {s[i]}
           /\ s[i] \notin Elements(Removed(s, i))
<1> DEFINE n == Len(s)
           a == SubSeq(s, 1, i - 1)
           b == SubSeq(s, i + 1, n)
           w == a \o b
<1>1. n \in Nat /\ i \in 1..n /\ DOMAIN s = 1..n /\ \A j \in 1..n : s[j] \in S
  BY LenProperties, ElementOfSeq
<1>2. a \in Seq(S) /\ Len(a) = i - 1 /\ \A j \in 1..(i - 1) : a[j] = s[j]
  <2>1. \A j \in 1..(i - 1) : s[j] \in S
    BY <1>1
  <2>2. /\ a \in Seq(S)
        /\ Len(a) = IF 1 <= i - 1 THEN i - 1 - 1 + 1 ELSE 0
        /\ \A j \in 1..(i - 1 - 1 + 1) : a[j] = s[1 + j - 1]
    BY <1>1, <2>1, SubSeqProperties
  <2> HIDE DEF a
  <2> QED BY <1>1, <2>2
<1>3. b \in Seq(S) /\ Len(b) = n - i /\ \A j \in 1..(n - i) : b[j] = s[i + j]
  <2>1. \A j \in (i + 1)..n : s[j] \in S
    BY <1>1
  <2>2. /\ b \in Seq(S)
        /\ Len(b) = IF i + 1 <= n THEN n - (i + 1) + 1 ELSE 0
        /\ \A j \in 1..(n - (i + 1) + 1) : b[j] = s[i + 1 + j - 1]
    BY <1>1, <2>1, SubSeqProperties
  <2> HIDE DEF b, n
  <2>3. \A j \in 1..(n - i) : i + 1 + j - 1 = i + j
    BY <1>1
  <2> QED BY <1>1, <2>2, <2>3
<1>4. /\ w \in Seq(S)
      /\ Len(w) = n - 1
      /\ DOMAIN w = 1..(n - 1)
      /\ \A j \in 1..(n - 1) : w[j] = IF j < i THEN s[j] ELSE s[j + 1]
  <2> HIDE DEF a, b, n
  <2>1. /\ w \in Seq(S)
        /\ Len(w) = Len(a) + Len(b)
        /\ \A j \in 1..(Len(a) + Len(b)) : w[j] = IF j <= Len(a) THEN a[j] ELSE b[j - Len(a)]
    BY <1>2, <1>3, ConcatProperties
  <2>2. Len(a) + Len(b) = n - 1
    BY <1>1, <1>2, <1>3
  <2>3. DOMAIN w = 1..(n - 1)
    BY <2>1, <2>2, LenProperties
  <2>5. \A j \in 1..(n - 1) : w[j] = IF j <= i - 1 THEN a[j] ELSE b[j - (i - 1)]
    BY <1>2, <2>1, <2>2
  <2> HIDE DEF w
  <2>4. ASSUME NEW j \in 1..(n - 1) PROVE w[j] = IF j < i THEN s[j] ELSE s[j + 1]
    <3>1. CASE j < i
      <4>1. j \in 1..(i - 1) /\ j <= i - 1
        BY <1>1, <3>1
      <4> QED BY <1>2, <2>5, <3>1, <4>1
    <3>2. CASE ~(j < i)
      <4>1. PICK k \in 1..(n - i) : k = j - (i - 1)
        BY <1>1, <3>2
      <4>2. ~(j <= i - 1) /\ i + k = j + 1
        BY <1>1, <3>2, <4>1
      <4>3. w[j] = b[k]
        BY <1>1, <2>5, <4>1, <4>2
      <4>4. b[k] = s[j + 1]
        BY <1>3, <4>2
      <4> QED BY <4>3, <4>4, <3>2
    <3> QED BY <3>1, <3>2
  <2> QED BY <2>1, <2>2, <2>3, <2>4
<1>5. w = Removed(s, i)
  BY DEF Removed
<1> HIDE DEF a, b, w
<1>6. ListsOnce(w)
  <2> SUFFICES ASSUME NEW j \in 1..(n - 1), NEW k \in 1..(n - 1), w[j] = w[k] PROVE j = k
    BY <1>4 DEF ListsOnce
  <2>1. \A x, y \in 1..n : s[x] = s[y] => x = y
    BY <1>1 DEF ListsOnce
  <2> HIDE DEF n
  <2> DEFINE at(x) == IF x < i THEN x ELSE x + 1
  <2>2. \A x \in 1..(n - 1) : at(x) \in 1..n /\ w[x] = s[at(x)]
    BY <1>1, <1>4
  <2>3. at(j) = at(k)
    BY <2>1, <2>2
  <2> QED BY <1>1, <2>3
<1>7. Elements(s) \subseteq Elements(w) \cup {s[i]}
  <2> SUFFICES ASSUME NEW j \in 1..n, j # i PROVE s[j] \in Elements(w)
    BY <1>1 DEF Elements
  <2> HIDE DEF n
  <2>1. CASE j < i
    <3>1. j \in 1..(n - 1) /\ w[j] = s[j]
      BY <1>1, <1>4, <2>1
    <3> QED BY <1>4, <3>1 DEF Elements
  <2>2. CASE j > i
    <3>1. j - 1 \in 1..(n - 1) /\ ~(j - 1 < i) /\ j - 1 + 1 = j
      BY <1>1, <2>2
    <3>2. w[j - 1] = s[j]
      BY <1>4, <3>1
    <3> QED BY <1>4, <3>1, <3>2 DEF Elements
  <2> QED BY <1>1, <2>1, <2>2
<1>8. s[i] \notin Elements(w)
  <2> SUFFICES ASSUME NEW j \in 1..(n - 1), w[j] = s[i] PROVE FALSE
    BY <1>4 DEF Elements
  <2>1. \A x, y \in 1..n : s[x] = s[y] => x = y
    BY <1>1 DEF ListsOnce
  <2> HIDE DEF n
  <2> QED BY <1>1, <1>4, <2>1
<1> QED BY <1>4, <1>5, <1>6, <1>7, <1>8

\* A Map to which another Map's keys are added.
LEMMA JoinedProperties ==
    ASSUME NEW S, NEW s \in Seq(S), NEW t \in Seq(S), ListsOnce(s), ListsOnce(t),
           Elements(s) \cap Elements(t) = {}
    PROVE  /\ s \o t \in Seq(S)
           /\ ListsOnce(s \o t)
           /\ Elements(s) \cup Elements(t) \subseteq Elements(s \o t)
<1> DEFINE m == Len(s)
           n == Len(t)
           w == s \o t
<1>1. m \in Nat /\ n \in Nat /\ DOMAIN s = 1..m /\ DOMAIN t = 1..n
  BY LenProperties
<1>2. /\ w \in Seq(S) /\ Len(w) = m + n
      /\ \A j \in 1..(m + n) : w[j] = IF j <= m THEN s[j] ELSE t[j - m]
  BY ConcatProperties
<1>3. DOMAIN w = 1..(m + n)
  BY <1>2, LenProperties
<1> HIDE DEF m, n, w
<1>4. /\ \A x, y \in 1..m : s[x] = s[y] => x = y
      /\ \A x, y \in 1..n : t[x] = t[y] => x = y
      /\ \A x \in 1..m, y \in 1..n : s[x] # t[y]
  <2>1. \A x, y \in 1..m : s[x] = s[y] => x = y
    BY <1>1 DEF ListsOnce
  <2>2. \A x, y \in 1..n : t[x] = t[y] => x = y
    BY <1>1 DEF ListsOnce
  <2>3. \A x \in 1..m, y \in 1..n : s[x] # t[y]
    <3> SUFFICES ASSUME NEW x \in 1..m, NEW y \in 1..n, s[x] = t[y] PROVE FALSE
      OBVIOUS
    <3>1. s[x] \in Elements(s) /\ t[y] \in Elements(t)
      BY <1>1 DEF Elements
    <3> QED BY <3>1
  <2> QED BY <2>1, <2>2, <2>3
<1>5. ListsOnce(w)
  <2> SUFFICES ASSUME NEW j \in 1..(m + n), NEW k \in 1..(m + n), w[j] = w[k] PROVE j = k
    BY <1>3 DEF ListsOnce
  <2> QED BY <1>1, <1>2, <1>4
<1>6. Elements(s) \subseteq Elements(w)
  <2> SUFFICES ASSUME NEW j \in 1..m PROVE s[j] \in Elements(w)
    BY <1>1 DEF Elements
  <2>1. j \in 1..(m + n) /\ w[j] = s[j]
    <3>1. j \in 1..(m + n) /\ j <= m
      BY <1>1
    <3> QED BY <1>2, <3>1
  <2> QED BY <1>3, <2>1 DEF Elements
<1>7. Elements(t) \subseteq Elements(w)
  <2> SUFFICES ASSUME NEW j \in 1..n PROVE t[j] \in Elements(w)
    BY <1>1 DEF Elements
  <2>1. m + j \in 1..(m + n) /\ ~(m + j <= m) /\ m + j - m = j
    BY <1>1
  <2>2. PICK k \in 1..(m + n) : k = m + j
    BY <2>1
  <2>3. ~(k <= m) /\ k - m = j
    BY <1>1, <2>2
  <2>4. w[k] = IF k <= m THEN s[k] ELSE t[k - m]
    BY <1>2
  <2>5. w[k] = t[j]
    BY <2>3, <2>4
  <2> QED BY <1>3, <2>5 DEF Elements
<1>8. w = s \o t
  BY DEF w
<1> QED BY <1>2, <1>5, <1>6, <1>7, <1>8

\* A player moved to the end of the Map.
LEMMA MovedProperties ==
    ASSUME NEW S, NEW s \in Seq(S), ListsOnce(s), NEW i \in 1..Len(s)
    PROVE  /\ Append(Removed(s, i), s[i]) \in Seq(S)
           /\ ListsOnce(Append(Removed(s, i), s[i]))
           /\ Elements(s) \subseteq Elements(Append(Removed(s, i), s[i]))
<1> DEFINE w == Removed(s, i)
           e == <<s[i]>>
<1>1. /\ w \in Seq(S) /\ ListsOnce(w)
      /\ Elements(s) \subseteq Elements(w) \cup {s[i]}
      /\ s[i] \notin Elements(w)
  BY RemovedProperties
<1>2. s[i] \in S
  BY ElementOfSeq
<1>3. e \in Seq(S) /\ ListsOnce(e) /\ Elements(e) = {s[i]}
  BY <1>2 DEF ListsOnce, Elements
<1>4. Append(w, s[i]) = w \o e
  BY <1>1, <1>2
<1> HIDE DEF w, e
<1>5. Elements(w) \cap Elements(e) = {}
  BY <1>1, <1>3
<1>6. /\ w \o e \in Seq(S) /\ ListsOnce(w \o e)
      /\ Elements(w) \cup Elements(e) \subseteq Elements(w \o e)
  BY <1>1, <1>3, <1>5, JoinedProperties
<1>7. Elements(s) \subseteq Elements(w \o e)
  BY <1>1, <1>3, <1>6
<1>8. w = Removed(s, i)
  BY DEF w
<1> QED BY <1>4, <1>6, <1>7, <1>8

LEMMA ListingProperties ==
    ASSUME NEW T, T \subseteq Players, NEW s \in Listings(T)
    PROVE  s \in Seq(Players) /\ ListsOnce(s) /\ Elements(s) = T
<1>1. Cardinality(T) \in Nat
  BY PlayersAssumption, FS_Subset, FS_CardinalityType
<1>2. s \in [1..Cardinality(T) -> T] /\ ListsOnce(s) /\ \A p \in T : \E i \in DOMAIN s : s[i] = p
  BY DEF Listings
<1>3. s \in Seq(Players)
  BY <1>1, <1>2
<1> QED BY <1>2, <1>3 DEF Elements


-----------------------------------------------------------------------------
(***************************************************************************)
(* The inductive invariant.  CoveredIn is Covered with the chain and its   *)
(* finalized block as parameters.                                          *)
(***************************************************************************)
CoveredIn(c, f, through, kept) ==
    \A i \in 1..through :
        /\ i \in 1..Len(c)
        /\ c[i].kind = "created" =>
               \/ c[i].player \in kept
               \/ \E j \in (i + 1)..f : j \in 1..Len(c) /\ c[j] = Paid(c[i].player)

Safe ==
    /\ CoveredIn(chain, finalized, nextBlock - 1, Elements(tracked))
    /\ saved # NoState => CoveredIn(chain, finalized, saved.through, saved.players)

Bounds ==
    /\ nextBlock - 1 <= finalized
    /\ saved # NoState => saved.through <= finalized
    /\ phase = "visit" /\ finalizedBlock # NoBlock =>
           nextBlock - 1 <= finalizedBlock /\ finalizedBlock <= finalized

IInv == TypeOK /\ Bounds /\ Safe

\* What is final stays, and only more becomes final.
ChainGoesOn ==
    /\ chain' \in Seq(Events)
    /\ finalized' \in Nat /\ finalized <= finalized' /\ finalized' <= Len(chain')
    /\ \A n \in 1..finalized : chain'[n] = chain[n]

LEMMA SafeIsNothingForgotten ==
    ASSUME TypeOK PROVE Safe <=> NothingForgotten
<1>1. DOMAIN chain = 1..Len(chain)
  BY LenProperties DEF TypeOK
<1> QED BY <1>1 DEF Safe, NothingForgotten, CoveredIn, Covered, PaidWithin, Tracked, Elements,
                    ScannedThrough

\* A cursor within the finalized blocks stays covered.
LEMMA CoveredStays ==
    ASSUME NEW c \in Seq(Events), NEW d \in Seq(Events), NEW f \in Nat, NEW g \in Nat,
           f <= Len(c), f <= g, g <= Len(d), \A n \in 1..f : d[n] = c[n],
           NEW t \in Nat, t <= f, NEW k, NEW l, k \subseteq l, CoveredIn(c, f, t, k)
    PROVE  CoveredIn(d, g, t, l)
<1>1. Len(c) \in Nat /\ Len(d) \in Nat
  BY LenProperties
<1> SUFFICES ASSUME NEW i \in 1..t
             PROVE  /\ i \in 1..Len(d)
                    /\ d[i].kind = "created" =>
                           \/ d[i].player \in l
                           \/ \E j \in (i + 1)..g : j \in 1..Len(d) /\ d[j] = Paid(d[i].player)
  BY DEF CoveredIn
<1>2. i \in 1..f /\ d[i] = c[i]
  OBVIOUS
<1>3. i \in 1..Len(d)
  BY <1>1
<1>4. ASSUME d[i].kind = "created", d[i].player \notin l
      PROVE  \E j \in (i + 1)..g : j \in 1..Len(d) /\ d[j] = Paid(d[i].player)
  <2>1. PICK j \in (i + 1)..f : c[j] = Paid(c[i].player)
    BY <1>2, <1>4 DEF CoveredIn
  <2>2. j \in 1..f /\ j \in (i + 1)..g /\ j \in 1..Len(d)
    BY <1>1
  <2> QED BY <1>2, <2>1, <2>2
<1> QED BY <1>3, <1>4

LEMMA CursorsStayCovered ==
    ASSUME IInv, ChainGoesOn, NEW k, Elements(tracked) \subseteq k
    PROVE  /\ CoveredIn(chain', finalized', nextBlock - 1, k)
           /\ saved # NoState => CoveredIn(chain', finalized', saved.through, saved.players)
<1>1. /\ chain \in Seq(Events) /\ finalized \in Nat /\ finalized <= Len(chain)
      /\ nextBlock - 1 \in Nat /\ nextBlock - 1 <= finalized
      /\ saved # NoState => saved.through \in Nat /\ saved.through <= finalized
  BY LenProperties DEF IInv, TypeOK, Bounds
<1>2. /\ CoveredIn(chain, finalized, nextBlock - 1, Elements(tracked))
      /\ saved # NoState => CoveredIn(chain, finalized, saved.through, saved.players)
  BY DEF IInv, Safe
<1>3. CoveredIn(chain', finalized', nextBlock - 1, k)
  BY <1>1, <1>2, CoveredStays DEF ChainGoesOn
<1>4. ASSUME saved # NoState
      PROVE  CoveredIn(chain', finalized', saved.through, saved.players)
  BY <1>1, <1>2, <1>4, CoveredStays DEF ChainGoesOn
<1> QED BY <1>3, <1>4

\* The Map after a visit that keeps the player.
LEMMA RotateKeeps ==
    ASSUME IInv, ChainGoesOn, NEW i \in DOMAIN tracked, Rotate(i),
           UNCHANGED <<nextBlock, saved>>
    PROVE  tracked' \in Seq(Players) /\ ListsOnce(tracked') /\ Safe'
<1>1. tracked \in Seq(Players) /\ ListsOnce(tracked) /\ i \in 1..Len(tracked)
  BY LenProperties DEF IInv, TypeOK
<1>2. tracked' = Append(Removed(tracked, i), tracked[i])
  BY DEF Rotate, Without, Removed
<1>3. /\ tracked' \in Seq(Players) /\ ListsOnce(tracked')
      /\ Elements(tracked) \subseteq Elements(tracked')
  BY <1>1, <1>2, MovedProperties
<1>4. Safe'
  BY <1>3, CursorsStayCovered DEF Safe
<1> QED BY <1>3, <1>4

\* The Map after a visit that drops the player: its balance was zero at a final block that is
\* not before the cursor, so each of its creations that were scanned has been paid since.
LEMMA DropKeeps ==
    ASSUME IInv, ChainGoesOn, NEW i \in DOMAIN tracked, tracked' = Without(i),
           phase = "visit", finalizedBlock # NoBlock, ~OwedAt(tracked[i], finalizedBlock),
           UNCHANGED <<nextBlock, saved>>
    PROVE  tracked' \in Seq(Players) /\ ListsOnce(tracked') /\ Safe'
<1> DEFINE p == tracked[i]
           t == nextBlock - 1
<1>1. tracked \in Seq(Players) /\ ListsOnce(tracked) /\ i \in 1..Len(tracked)
  BY LenProperties DEF IInv, TypeOK
<1>2. tracked' = Removed(tracked, i)
  BY DEF Without, Removed
<1>3. /\ tracked' \in Seq(Players) /\ ListsOnce(tracked')
      /\ Elements(tracked) \subseteq Elements(tracked') \cup {p}
  BY <1>1, <1>2, RemovedProperties
<1>4. /\ DOMAIN chain = 1..Len(chain) /\ Len(chain) \in Nat
      /\ t \in Nat /\ finalizedBlock \in Nat /\ finalized \in Nat
      /\ t <= finalizedBlock /\ finalizedBlock <= finalized /\ finalized <= Len(chain)
  BY LenProperties, NoValueAssumption DEF IInv, TypeOK, Bounds
<1>5. CoveredIn(chain, finalized, t, Elements(tracked'))
  <2> SUFFICES ASSUME NEW n \in 1..t, chain[n].kind = "created",
                      chain[n].player \notin Elements(tracked')
               PROVE  \E j \in (n + 1)..finalized :
                        j \in 1..Len(chain) /\ chain[j] = Paid(chain[n].player)
    BY DEF IInv, Safe, CoveredIn
  <2> HIDE DEF t
  <2>1. CASE chain[n].player = p
    <3>1. chain[n] = Created(p)
      <4>1. n \in 1..Len(chain)
        BY <1>4
      <4>2. chain[n] \in Events
        BY <4>1, ElementOfSeq DEF IInv, TypeOK
      <4> QED BY <2>1, <4>2 DEF Events, Created
    <3>2. n \in 1..finalizedBlock /\ n \in DOMAIN chain
      BY <1>4
    <3>3. PaidWithin(p, n + 1, finalizedBlock)
      BY <3>1, <3>2 DEF OwedAt
    <3>4. PICK j \in (n + 1)..finalizedBlock : j \in DOMAIN chain /\ chain[j] = Paid(p)
      BY <3>3 DEF PaidWithin
    <3>5. j \in (n + 1)..finalized
      BY <1>4
    <3> QED BY <1>4, <2>1, <3>4, <3>5
  <2>2. CASE chain[n].player # p
    <3>1. chain[n].player \notin Elements(tracked)
      BY <1>3, <2>2
    <3> QED BY <3>1 DEF IInv, Safe, CoveredIn, t
  <2> QED BY <2>1, <2>2
<1>6. CoveredIn(chain', finalized', t, Elements(tracked'))
  BY <1>4, <1>5, CoveredStays DEF ChainGoesOn, IInv, TypeOK
<1>7. Safe'
  BY <1>6, CursorsStayCovered DEF Safe
<1> QED BY <1>3, <1>7

-----------------------------------------------------------------------------
LEMMA InitInv == Init => IInv
<1> SUFFICES ASSUME Init PROVE IInv
  OBVIOUS
<1>1. TypeOK
  <2>1. chain \in Seq(Events) /\ tracked \in Seq(Players) /\ Len(chain) = 0
    BY EmptySeq DEF Init
  <2>2. ListsOnce(tracked)
    BY DEF Init, ListsOnce
  <2> QED BY <2>1, <2>2 DEF Init, TypeOK
<1>2. Bounds /\ Safe
  BY DEF Init, Bounds, Safe, CoveredIn
<1> QED BY <1>1, <1>2 DEF IInv

\* A step that leaves the cursors and the Map alone, and the chain's final part.
LEMMA ChainStep ==
    ASSUME IInv, ChainGoesOn, TypeOK',
           UNCHANGED <<saved, phase, nextBlock, tracked, finalizedBlock>>
    PROVE  IInv'
<1>1. Safe'
  BY CursorsStayCovered DEF Safe
<1>2. Bounds'
  BY NoValueAssumption DEF Bounds, IInv, TypeOK, ChainGoesOn
<1> QED BY <1>1, <1>2 DEF IInv

LEMMA ChainIsTyped ==
    ASSUME TypeOK
    PROVE  /\ Len(chain) \in Nat /\ DOMAIN chain = 1..Len(chain)
           /\ finalized \in Nat /\ finalized <= Len(chain)
           /\ Len(tracked) \in Nat /\ DOMAIN tracked = 1..Len(tracked)
           /\ \A i \in DOMAIN tracked : tracked[i] \in Players
  BY LenProperties, ElementOfSeq DEF TypeOK

\* An event appended to the chain.
LEMMA ChainGrows ==
    ASSUME TypeOK, NEW e \in Events, chain' = Append(chain, e), finalized' = finalized
    PROVE  ChainGoesOn /\ finalized' \in 0..Len(chain') /\ Len(chain') \in Nat
<1>1. chain \in Seq(Events)
  BY DEF TypeOK
<1>2. /\ chain' \in Seq(Events) /\ Len(chain') = Len(chain) + 1
      /\ \A n \in 1..Len(chain) : chain'[n] = chain[n]
  BY <1>1
<1> QED BY <1>2, ChainIsTyped DEF ChainGoesOn

LEMMA ChainStays ==
    ASSUME TypeOK, UNCHANGED chain, finalized' = finalized
    PROVE  ChainGoesOn /\ finalized' \in 0..Len(chain')
  BY ChainIsTyped DEF ChainGoesOn, TypeOK

LEMMA BookDebtInv == ASSUME IInv, NEW p \in Players, BookDebt(p) PROVE IInv'
<1>1. Created(p) \in Events
  BY DEF Created, Events
<1>2. ChainGoesOn /\ finalized' \in 0..Len(chain')
  BY <1>1, ChainGrows DEF IInv, BookDebt
<1>3. TypeOK'
  BY <1>2 DEF IInv, TypeOK, BookDebt, claimerVars, passVars, ChainGoesOn
<1> QED BY <1>2, <1>3, ChainStep DEF BookDebt, claimerVars, passVars

LEMMA ClaimByOtherInv == ASSUME IInv, NEW p \in Players, ClaimByOther(p) PROVE IInv'
<1>1. Paid(p) \in Events
  BY DEF Paid, Events
<1>2. ChainGoesOn /\ finalized' \in 0..Len(chain')
  BY <1>1, ChainGrows DEF IInv, ClaimByOther
<1>3. TypeOK'
  BY <1>2 DEF IInv, TypeOK, ClaimByOther, claimerVars, passVars, ChainGoesOn
<1> QED BY <1>2, <1>3, ChainStep DEF ClaimByOther, claimerVars, passVars

LEMMA FinalizeInv == ASSUME IInv, Finalize PROVE IInv'
<1>1. ChainGoesOn /\ finalized' \in 0..Len(chain')
  BY ChainIsTyped DEF IInv, TypeOK, Finalize, ChainGoesOn
<1>2. TypeOK'
  BY <1>1 DEF IInv, TypeOK, Finalize, claimerVars, passVars, ChainGoesOn
<1> QED BY <1>1, <1>2, ChainStep DEF Finalize, claimerVars, passVars

LEMMA ReorgInv == ASSUME IInv, NEW n \in finalized..(Len(chain) - 1), Reorg(n) PROVE IInv'
<1>1. /\ n \in Nat /\ finalized <= n /\ n <= Len(chain) /\ finalized \in Nat
      /\ chain \in Seq(Events) /\ Len(chain) \in Nat
  BY ChainIsTyped DEF IInv, TypeOK
<1>2. \A i \in 1..n : chain[i] \in Events
  BY <1>1, ElementOfSeq
<1>3. /\ chain' \in Seq(Events) /\ Len(chain') = n
      /\ \A i \in 1..n : chain'[i] = chain[i]
  <2>1. /\ SubSeq(chain, 1, n) \in Seq(Events)
        /\ Len(SubSeq(chain, 1, n)) = IF 1 <= n THEN n - 1 + 1 ELSE 0
        /\ \A i \in 1..(n - 1 + 1) : SubSeq(chain, 1, n)[i] = chain[1 + i - 1]
    BY <1>1, <1>2, SubSeqProperties
  <2>2. \A i \in 1..n : 1 + i - 1 = i
    BY <1>1
  <2> QED BY <1>1, <2>1, <2>2 DEF Reorg
<1>4. ChainGoesOn /\ finalized' \in 0..Len(chain')
  BY <1>1, <1>3 DEF ChainGoesOn, Reorg, claimerVars
<1>5. TypeOK'
  BY <1>4 DEF IInv, TypeOK, Reorg, claimerVars, passVars, ChainGoesOn
<1> QED BY <1>4, <1>5, ChainStep DEF Reorg, claimerVars, passVars

LEMMA BackoffEndsInv == ASSUME IInv, NEW p \in Players, BackoffEnds(p) PROVE IInv'
<1>1. ChainGoesOn
  BY ChainStays DEF IInv, BackoffEnds, chainVars
<1>2. TypeOK'
  BY DEF IInv, TypeOK, BackoffEnds, chainVars, passVars
<1> QED BY <1>1, <1>2, ChainStep DEF BackoffEnds, passVars

\* After a restart nothing is scanned and nobody kept: both are empty together.
LEMMA StopInv == ASSUME IInv, Stop PROVE IInv'
<1>1. tracked' = << >> /\ tracked' \in Seq(Players) /\ ListsOnce(tracked')
  BY EmptySeq DEF Stop, Forget, ListsOnce
<1>2. TypeOK'
  BY <1>1 DEF IInv, TypeOK, Stop, Forget, chainVars
<1>3. Bounds'
  BY DEF IInv, TypeOK, Bounds, Stop, Forget, chainVars
<1>4. Safe'
  <2>1. nextBlock' - 1 = 0
    BY DEF Stop, Forget
  <2>2. CoveredIn(chain', finalized', nextBlock' - 1, Elements(tracked'))
    BY <2>1 DEF CoveredIn
  <2> QED BY <2>2 DEF IInv, Safe, Stop, chainVars
<1> QED BY <1>2, <1>3, <1>4 DEF IInv

LEMMA LoadInv == ASSUME IInv, Load PROVE IInv'
<1>1. CASE UNCHANGED <<nextBlock, tracked>>
  <2>1. TypeOK'
    BY <1>1 DEF IInv, TypeOK, Load, chainVars, passVars
  <2>2. Bounds' /\ Safe'
    BY <1>1 DEF IInv, Bounds, Safe, Load, chainVars
  <2> QED BY <2>1, <2>2 DEF IInv
<1>2. CASE saved # NoState /\ nextBlock' = saved.through + 1 /\ tracked' \in Listings(saved.players)
  <2>1. saved.through \in Nat /\ saved.players \subseteq Players
    BY <1>2 DEF IInv, TypeOK
  <2>2. tracked' \in Seq(Players) /\ ListsOnce(tracked') /\ Elements(tracked') = saved.players
    BY <1>2, <2>1, ListingProperties
  <2>3. TypeOK'
    BY <1>2, <2>1, <2>2 DEF IInv, TypeOK, Load, chainVars, passVars
  <2>4. nextBlock' - 1 = saved.through
    BY <1>2, <2>1
  <2>5. Bounds'
    BY <1>2, <2>4 DEF IInv, Bounds, Load, chainVars
  <2>6. Safe'
    BY <1>2, <2>2, <2>4 DEF IInv, Safe, Load, chainVars
  <2> QED BY <2>3, <2>5, <2>6 DEF IInv
<1> QED BY <1>1, <1>2 DEF Load

\* A scan nominates whoever is owed in what it scanned.
LEMMA ReadChainInv ==
    ASSUME IInv, NEW h \in LatestReads \cup FailedRead, NEW f \in FinalizedReads \cup FailedRead,
           NEW t \in ScannedThrough..ScanTarget(f), ReadChain(h, f, t),
           FinalizedReadsMayGoBack = FALSE
    PROVE  IInv'
<1>1. /\ nextBlock \in Nat \ {0} /\ nextBlock - 1 <= finalized
      /\ finalized \in Nat /\ finalized <= Len(chain) /\ Len(chain) \in Nat
      /\ DOMAIN chain = 1..Len(chain)
  BY ChainIsTyped DEF IInv, TypeOK, Bounds
<1>2. h \in Nat \cup {NoBlock}
  BY <1>1 DEF LatestReads, FailedRead
<1>3. f = NoBlock \/ (f \in Nat /\ nextBlock - 1 <= f /\ f <= finalized)
  BY <1>1 DEF FinalizedReads, FailedRead, ScannedThrough
<1>4. /\ ScanTarget(f) \in Nat /\ nextBlock - 1 <= ScanTarget(f) /\ ScanTarget(f) <= finalized
      /\ f # NoBlock => ScanTarget(f) <= f
  <2>1. CASE f = NoBlock
    BY <1>1, <2>1 DEF ScanTarget, ScannedThrough
  <2>2. CASE f \in Nat /\ nextBlock - 1 <= f /\ f <= finalized
    <3>1. f # NoBlock /\ ScanBudget \in Nat
      BY <2>2, NoValueAssumption, BoundAssumption
    <3>2. CASE f < nextBlock
      BY <1>1, <2>2, <3>1, <3>2 DEF ScanTarget, ScannedThrough
    <3>3. CASE ~(f < nextBlock) /\ f <= nextBlock - 1 + ScanBudget
      BY <1>1, <2>2, <3>1, <3>3 DEF ScanTarget, ScannedThrough
    <3>4. CASE ~(f < nextBlock) /\ ~(f <= nextBlock - 1 + ScanBudget)
      <4>1. ScanTarget(f) = nextBlock - 1 + ScanBudget
        BY <3>1, <3>4 DEF ScanTarget, ScannedThrough
      <4> QED BY <1>1, <2>2, <3>1, <3>4, <4>1
    <3> QED BY <3>2, <3>3, <3>4
  <2> QED BY <1>3, <2>1, <2>2
<1>5. t \in Nat /\ nextBlock - 1 <= t /\ t <= ScanTarget(f) /\ t <= finalized
  BY <1>1, <1>4 DEF ScannedThrough
<1>6. nextBlock' = t + 1 /\ UNCHANGED <<chain, finalized, saved>>
  BY DEF ReadChain, CursorAfter, chainVars
<1>7. PICK new \in Listings(Nominated(t)) : tracked' = tracked \o new
  BY DEF ReadChain
<1>8. new \in Seq(Players) /\ ListsOnce(new) /\ Elements(new) = Nominated(t)
  BY <1>7, ListingProperties DEF Nominated
<1>9. /\ tracked' \in Seq(Players) /\ ListsOnce(tracked')
      /\ Elements(tracked) \cup Nominated(t) \subseteq Elements(tracked')
  <2>1. tracked \in Seq(Players) /\ ListsOnce(tracked)
    BY DEF IInv, TypeOK
  <2>2. Elements(tracked) \cap Elements(new) = {}
    BY <1>8 DEF Nominated, Tracked, Elements
  <2> QED BY <1>7, <1>8, <2>1, <2>2, JoinedProperties
<1>10. TypeOK'
  BY <1>2, <1>3, <1>5, <1>6, <1>9 DEF IInv, TypeOK, ReadChain, chainVars
<1>11. Bounds'
  <2>1. finalizedBlock' # NoBlock => finalizedBlock' = f /\ t = ScanTarget(f)
    BY DEF ReadChain
  <2>2. nextBlock' - 1 = t
    BY <1>5, <1>6
  <2> QED BY <1>3, <1>4, <1>5, <1>6, <2>1, <2>2 DEF IInv, Bounds
<1>12. CoveredIn(chain, finalized, t, Elements(tracked'))
  <2> SUFFICES ASSUME NEW i \in 1..t, chain[i].kind = "created",
                      chain[i].player \notin Elements(tracked')
               PROVE  \E j \in (i + 1)..finalized :
                        j \in 1..Len(chain) /\ chain[j] = Paid(chain[i].player)
    BY <1>1, <1>5 DEF CoveredIn
  <2>1. i \in 1..(nextBlock - 1)
    <3> SUFFICES ASSUME i \in nextBlock..t PROVE FALSE
      BY <1>1, <1>5
    <3>1. chain[i] \in Events
      BY <1>1, <1>5, ElementOfSeq DEF IInv, TypeOK
    <3>2. chain[i].player \in Players /\ chain[i] = Created(chain[i].player)
      BY <3>1 DEF Events, Created
    <3>3. chain[i].player \in Nominated(t) \cup Tracked
      BY <3>2 DEF Nominated
    <3>4. Tracked = Elements(tracked)
      BY DEF Tracked, Elements
    <3> QED BY <1>9, <3>3, <3>4
  <2>2. chain[i].player \notin Elements(tracked)
    BY <1>9
  <2> QED BY <2>1, <2>2 DEF IInv, Safe, CoveredIn
<1>13. Safe'
  <2>1. nextBlock' - 1 = t
    BY <1>5, <1>6
  <2> QED BY <1>6, <1>12, <2>1 DEF IInv, Safe
<1> QED BY <1>10, <1>11, <1>13 DEF IInv

\* What every visit leaves alone or must establish.
LEMMA VisitStep ==
    ASSUME IInv, ChainGoesOn, finalized' \in 0..Len(chain'),
           NEW i \in DOMAIN tracked, Turn(i), EndVisit(i),
           tracked' \in Seq(Players), ListsOnce(tracked'), Safe',
           zeroObservedAt' \in [Players -> Nat \cup {NoBlock}], backoff' \subseteq Players
    PROVE  IInv'
<1>1. visited' \subseteq Players
  BY ChainIsTyped DEF IInv, TypeOK, EndVisit
<1>2. TypeOK'
  BY <1>1 DEF IInv, TypeOK, EndVisit, ChainGoesOn
<1>3. Bounds'
  BY DEF IInv, Bounds, EndVisit
<1> QED BY <1>2, <1>3 DEF IInv

LEMMA WatchKeeps ==
    ASSUME IInv, ChainGoesOn, NEW i \in DOMAIN tracked, NEW z \in Nat \cup {NoBlock}, Rotate(i),
           zeroObservedAt' = [zeroObservedAt EXCEPT ![tracked[i]] = z],
           UNCHANGED <<nextBlock, saved>>
    PROVE  /\ tracked' \in Seq(Players) /\ ListsOnce(tracked') /\ Safe'
           /\ zeroObservedAt' \in [Players -> Nat \cup {NoBlock}]
  BY RotateKeeps DEF IInv, TypeOK

LEMMA VisitUnreadInv ==
    ASSUME IInv, NEW i \in DOMAIN tracked, VisitUnread(i) PROVE IInv'
<1>1. ChainGoesOn /\ finalized' \in 0..Len(chain') /\ UNCHANGED <<nextBlock, saved>>
  BY ChainStays DEF IInv, VisitUnread, EndVisit
<1>2. tracked' \in Seq(Players) /\ ListsOnce(tracked') /\ Safe'
  BY <1>1, RotateKeeps DEF VisitUnread
<1> QED BY <1>1, <1>2, VisitStep DEF IInv, TypeOK, VisitUnread

LEMMA VisitRefusedInv ==
    ASSUME IInv, NEW i \in DOMAIN tracked, VisitRefused(i) PROVE IInv'
<1>1. ChainGoesOn /\ finalized' \in 0..Len(chain') /\ UNCHANGED <<nextBlock, saved>>
  BY ChainStays DEF IInv, VisitRefused, EndVisit
<1>2. /\ tracked' \in Seq(Players) /\ ListsOnce(tracked') /\ Safe'
      /\ zeroObservedAt' \in [Players -> Nat \cup {NoBlock}]
  BY <1>1, WatchKeeps DEF VisitRefused, Watch
<1>3. backoff' \subseteq Players
  BY ChainIsTyped DEF VisitRefused, IInv, TypeOK
<1> QED BY <1>1, <1>2, <1>3, VisitStep DEF VisitRefused

\* The two outcomes of the check of a finalized zero.
LEMMA DropsOrWatches ==
    ASSUME IInv, ChainGoesOn, NEW i \in DOMAIN tracked, NEW z \in Nat \cup {NoBlock},
           phase = "visit", UNCHANGED <<nextBlock, saved>>,
           \/ IsFinal(tracked[i], z) /\ Drop(i)
           \/ Rotate(i) /\ zeroObservedAt' = [zeroObservedAt EXCEPT ![tracked[i]] = z]
    PROVE  /\ tracked' \in Seq(Players) /\ ListsOnce(tracked') /\ Safe'
           /\ zeroObservedAt' \in [Players -> Nat \cup {NoBlock}]
<1>1. CASE IsFinal(tracked[i], z) /\ Drop(i)
  <2>1. tracked' \in Seq(Players) /\ ListsOnce(tracked') /\ Safe'
    BY <1>1, DropKeeps DEF IsFinal, Drop
  <2>2. zeroObservedAt' \in [Players -> Nat \cup {NoBlock}]
    BY <1>1 DEF Drop, IInv, TypeOK
  <2> QED BY <2>1, <2>2
<1>2. CASE Rotate(i) /\ zeroObservedAt' = [zeroObservedAt EXCEPT ![tracked[i]] = z]
  BY <1>2, WatchKeeps
<1> QED BY <1>1, <1>2

LEMMA VisitZeroInv ==
    ASSUME IInv, NEW i \in DOMAIN tracked, VisitZero(i) PROVE IInv'
<1> DEFINE p == tracked[i]
           z == IF zeroObservedAt[p] = NoBlock THEN head ELSE zeroObservedAt[p]
<1>1. ChainGoesOn /\ finalized' \in 0..Len(chain') /\ UNCHANGED <<nextBlock, saved>>
  BY ChainStays DEF IInv, VisitZero, EndVisit
<1>2. z \in Nat \cup {NoBlock}
  BY ChainIsTyped DEF IInv, TypeOK
<1>3. phase = "visit" /\ Confirm(i, z)
  BY DEF VisitZero, Turn
<1> HIDE DEF z
<1>4. /\ tracked' \in Seq(Players) /\ ListsOnce(tracked') /\ Safe'
      /\ zeroObservedAt' \in [Players -> Nat \cup {NoBlock}]
  BY <1>1, <1>2, <1>3, DropsOrWatches DEF Confirm, Watch
<1> QED BY <1>1, <1>4, VisitStep DEF IInv, TypeOK, VisitZero

LEMMA VisitPaidInv ==
    ASSUME IInv, NEW i \in DOMAIN tracked, VisitPaid(i) PROVE IInv'
<1>1. tracked[i] \in Players /\ Paid(tracked[i]) \in Events
  BY ChainIsTyped DEF IInv, Paid, Events
<1>2. finalized' = finalized /\ UNCHANGED <<nextBlock, saved>>
  BY DEF VisitPaid, EndVisit
<1>3. /\ ChainGoesOn /\ finalized' \in 0..Len(chain') /\ Len(chain') \in Nat
  <2>1. CASE chain' = Append(chain, Paid(tracked[i]))
    BY <1>1, <1>2, <2>1, ChainGrows DEF IInv
  <2>2. CASE UNCHANGED chain
    BY <1>2, <2>2, ChainStays, ChainIsTyped DEF IInv
  <2> QED BY <2>1, <2>2 DEF VisitPaid
<1>4. PICK z \in Nat : z = Len(chain')
  BY <1>3
<1>5. phase = "visit" /\ Confirm(i, z)
  BY <1>4 DEF VisitPaid, Turn
<1>6. /\ tracked' \in Seq(Players) /\ ListsOnce(tracked') /\ Safe'
      /\ zeroObservedAt' \in [Players -> Nat \cup {NoBlock}]
  BY <1>2, <1>3, <1>5, DropsOrWatches DEF Confirm, Watch
<1> QED BY <1>3, <1>6, VisitStep DEF IInv, TypeOK, VisitPaid

LEMMA EndPassInv == ASSUME IInv, EndPass PROVE IInv'
<1>1. Tracked = Elements(tracked) /\ ScannedThrough = nextBlock - 1 /\ nextBlock \in Nat \ {0}
  BY DEF Tracked, Elements, ScannedThrough, IInv, TypeOK
<1>2. saved' = saved \/ saved' = [through |-> nextBlock - 1, players |-> Elements(tracked)]
  BY <1>1 DEF EndPass
<1>3. nextBlock - 1 \in Nat /\ Elements(tracked) \subseteq Players
  BY <1>1, ChainIsTyped DEF Elements, IInv
<1>4. TypeOK'
  BY <1>2, <1>3 DEF IInv, TypeOK, EndPass, chainVars
<1>5. Bounds'
  BY <1>2 DEF IInv, Bounds, EndPass, chainVars
<1>6. Safe'
  BY <1>2 DEF IInv, Safe, EndPass, chainVars
<1> QED BY <1>4, <1>5, <1>6 DEF IInv

-----------------------------------------------------------------------------
LEMMA NextInv ==
    ASSUME IInv, [Next]_vars, FinalizedReadsMayGoBack = FALSE PROVE IInv'
<1>1. CASE Load
  BY <1>1, LoadInv
<1>2. CASE \E h \in LatestReads \cup FailedRead, f \in FinalizedReads \cup FailedRead :
             \E t \in ScannedThrough..ScanTarget(f) : ReadChain(h, f, t)
  BY <1>2, ReadChainInv
<1>3. CASE \E i \in DOMAIN tracked :
             VisitUnread(i) \/ VisitZero(i) \/ VisitRefused(i) \/ VisitPaid(i)
  BY <1>3, VisitUnreadInv, VisitZeroInv, VisitRefusedInv, VisitPaidInv
<1>4. CASE EndPass
  BY <1>4, EndPassInv
<1>5. CASE \E p \in Players : BackoffEnds(p) \/ BookDebt(p) \/ ClaimByOther(p)
  BY <1>5, BackoffEndsInv, BookDebtInv, ClaimByOtherInv
<1>6. CASE Stop
  BY <1>6, StopInv
<1>7. CASE Finalize
  BY <1>7, FinalizeInv
<1>8. CASE \E n \in finalized..(Len(chain) - 1) : Reorg(n)
  BY <1>8, ReorgInv
<1>9. CASE UNCHANGED vars
  <2>1. TypeOK'
    BY <1>9 DEF IInv, TypeOK, vars, chainVars, passVars
  <2>2. Bounds' /\ Safe'
    BY <1>9 DEF IInv, Bounds, Safe, vars, chainVars, passVars
  <2> QED BY <2>1, <2>2 DEF IInv
<1> QED BY <1>1, <1>2, <1>3, <1>4, <1>5, <1>6, <1>7, <1>8, <1>9 DEF Next, Pass

\* While no finalized read is older than the cursor, the invariant holds in every run.
THEOREM InductiveInvariant ==
    ASSUME FinalizedReadsMayGoBack = FALSE PROVE Spec => []IInv
<1>1. Init => IInv
  BY InitInv
<1>2. IInv /\ [Next]_vars => IInv'
  BY NextInv
<1> QED BY <1>1, <1>2, PTL DEF Spec

\* The state keeps its types; in particular no player is kept twice.
THEOREM TypeCorrect ==
    ASSUME FinalizedReadsMayGoBack = FALSE PROVE Spec => []TypeOK
<1>1. IInv => TypeOK
  BY DEF IInv
<1> QED BY <1>1, InductiveInvariant, PTL

\* Whatever fails, is replaced or restarted: a player owed in a scanned block is kept until its
\* payment is final, in memory and in the file.
THEOREM NobodyForgotten ==
    ASSUME FinalizedReadsMayGoBack = FALSE PROVE Spec => []NothingForgotten
<1>1. IInv => NothingForgotten
  BY SafeIsNothingForgotten DEF IInv
<1> QED BY <1>1, InductiveInvariant, PTL

-----------------------------------------------------------------------------
(* TimelockIndex: the places of the keepers, the cursor they share, the    *)
(* rows they have written and the answers read off them.                   *)

\* A keeper that has written its range is not ahead of the rows.
PlaceInv ==
    \A k \in Keepers : /\ keeper[k].through <= keeper[k].to
                       /\ keeper[k].written => /\ keeper[k].through < keeper[k].to
                                               /\ keeper[k].to <= reached

QueueInv == TimelockTypeOK /\ PlaceInv

LEMMA QueueInit == TimelockInit => QueueInv
<1> SUFFICES ASSUME TimelockInit PROVE QueueInv
  OBVIOUS
<1>1. log \in Seq([op : Operations, kind : Kinds]) /\ Len(log) = 0
  BY DEF TimelockInit
<1>2. \A k \in Keepers : /\ keeper[k].through = 0 /\ keeper[k].to = 0 /\ keeper[k].written = FALSE
  BY DEF TimelockInit, Undefined
<1>3. keeper \in [Keepers -> [verified : BOOLEAN, through : 0..0, to : 0..0, written : BOOLEAN]]
  BY DEF TimelockInit, Undefined
<1>4. cursor = 0 /\ reached = 0 /\ losses \in 0..MaxLosses
  BY BoundsAssumption DEF TimelockInit
<1> QED BY <1>1, <1>2, <1>3, <1>4 DEF QueueInv, TimelockTypeOK, PlaceInv

LEMMA Places ==
  ASSUME QueueInv, NEW k \in Keepers
  PROVE  /\ Len(log) \in Nat /\ cursor \in Nat /\ reached \in Nat
         /\ cursor <= reached /\ reached <= Len(log)
         /\ keeper[k].through \in Nat /\ keeper[k].to \in Nat
         /\ keeper[k].through <= reached /\ keeper[k].to <= Len(log)
         /\ keeper[k].through <= keeper[k].to
         /\ keeper[k].written => keeper[k].through < keeper[k].to /\ keeper[k].to <= reached
BY DEF QueueInv, TimelockTypeOK, PlaceInv

PlaceType == [verified : BOOLEAN, through : 0..reached, to : 0..Len(log), written : BOOLEAN]

\* One keeper moves; the rows and the cursor may be ahead of where they were.
LEMMA OneMoves ==
  ASSUME QueueInv, UNCHANGED log, NEW k \in Keepers, (keeper \in [Keepers -> PlaceType])',
         \A j \in Keepers \ {k} : keeper'[j] = keeper[j],
         keeper'[k].through <= keeper'[k].to, keeper'[k].written => keeper'[k].through < keeper'[k].to /\ keeper'[k].to <= reached',
         reached' \in 0..Len(log), reached <= reached', cursor' \in 0..reached', losses' \in 0..MaxLosses
  PROVE  QueueInv'
<1>1. TimelockTypeOK'
  BY DEF QueueInv, TimelockTypeOK, PlaceType
<1>2. PlaceInv'
  <2> SUFFICES ASSUME NEW j \in Keepers
               PROVE  /\ keeper'[j].through <= keeper'[j].to
                      /\ keeper'[j].written => /\ keeper'[j].through < keeper'[j].to
                                               /\ keeper'[j].to <= reached'
    BY DEF PlaceInv
  <2>1. CASE j = k
    BY <2>1
  <2>2. CASE j # k
    <3>1. keeper'[j] = keeper[j]
      BY <2>2
    <3> QED BY <3>1, Places
  <2> QED BY <2>1, <2>2
<1> QED BY <1>1, <1>2 DEF QueueInv

LEMMA PlaceTyping ==
  ASSUME QueueInv
  PROVE  /\ keeper \in [Keepers -> PlaceType] /\ losses \in 0..MaxLosses
         /\ cursor \in 0..reached /\ reached \in 0..Len(log) /\ Len(log) \in Nat
BY DEF QueueInv, TimelockTypeOK, PlaceType

LEMMA EmitKeeps ==
  ASSUME QueueInv, NEW op \in Operations, NEW kind \in Kinds, Emit(op, kind)
  PROVE  QueueInv'
<1>1. /\ log' \in Seq([op : Operations, kind : Kinds]) /\ Len(log') = Len(log) + 1
      /\ UNCHANGED <<cursor, keeper, reached, losses>>
  <2>1. [op |-> op, kind |-> kind] \in [op : Operations, kind : Kinds]
    OBVIOUS
  <2> QED BY <2>1 DEF Emit, QueueInv, TimelockTypeOK
<1>2. keeper \in [Keepers -> [verified : BOOLEAN, through : 0..reached, to : 0..Len(log'), written : BOOLEAN]]
  <2>1. 0..Len(log) \subseteq 0..Len(log')
    BY <1>1, PlaceTyping
  <2> QED BY <2>1, PlaceTyping DEF PlaceType
<1>3. TimelockTypeOK'
  BY <1>1, <1>2, PlaceTyping DEF TimelockTypeOK
<1>4. PlaceInv'
  BY <1>1 DEF QueueInv, PlaceInv
<1> QED BY <1>3, <1>4 DEF QueueInv

LEMMA VerifyKeeps ==
  ASSUME QueueInv, NEW k \in Keepers, Verify(k)
  PROVE  QueueInv'
<1> DEFINE g == [verified |-> TRUE, through |-> cursor, to |-> cursor, written |-> FALSE]
<1>1. keeper' = [keeper EXCEPT ![k] = g] /\ UNCHANGED <<log, cursor, reached, losses>>
  BY DEF Verify
<1>2. g \in PlaceType /\ g.through = cursor /\ g.to = cursor /\ g.written = FALSE
  BY PlaceTyping DEF PlaceType
<1> HIDE DEF g
<1>3. /\ (keeper \in [Keepers -> PlaceType])' /\ \A j \in Keepers \ {k} : keeper'[j] = keeper[j]
      /\ keeper'[k] = g
  BY <1>1, <1>2, PlaceTyping DEF PlaceType
<1> QED BY <1>1, <1>2, <1>3, PlaceTyping, OneMoves

LEMMA ForgetKeeps ==
  ASSUME QueueInv, NEW k \in Keepers, ForgetPlace(k)
  PROVE  QueueInv'
<1>1. keeper' = [keeper EXCEPT ![k] = Undefined] /\ UNCHANGED <<log, cursor, reached>>
      /\ losses' \in 0..MaxLosses
  BY PlaceTyping, BoundsAssumption DEF ForgetPlace
<1>2. Undefined \in PlaceType /\ Undefined.through = 0 /\ Undefined.to = 0 /\ Undefined.written = FALSE
  BY PlaceTyping DEF PlaceType, Undefined
<1>3. /\ (keeper \in [Keepers -> PlaceType])' /\ \A j \in Keepers \ {k} : keeper'[j] = keeper[j]
      /\ keeper'[k] = Undefined
  BY <1>1, <1>2, PlaceTyping DEF PlaceType
<1> QED BY <1>1, <1>2, <1>3, PlaceTyping, OneMoves

LEMMA RangeKeeps ==
  ASSUME QueueInv, NEW k \in Keepers, NextRange(k)
  PROVE  QueueInv'
<1>1. PICK to \in Ends(keeper[k].through) : keeper' = [keeper EXCEPT ![k].to = to]
  BY Zenon DEF NextRange
<1>2. UNCHANGED <<log, cursor, reached, losses>> /\ keeper[k].to = keeper[k].through
  BY Zenon DEF NextRange
<1>x. ~keeper[k].written
  BY <1>2, Places
<1>w. to \in 0..Len(log) /\ keeper[k].through <= to
  BY Places DEF Ends
<1>3. /\ (keeper \in [Keepers -> PlaceType])' /\ \A j \in Keepers \ {k} : keeper'[j] = keeper[j]
      /\ keeper'[k].through = keeper[k].through /\ keeper'[k].to = to
      /\ keeper'[k].written = keeper[k].written
  BY <1>1, <1>2, <1>w, PlaceTyping DEF PlaceType
<1>4. ~keeper'[k].written /\ keeper'[k].through <= keeper'[k].to
  BY <1>w, <1>x, <1>3
<1> QED BY <1>2, <1>3, <1>4, PlaceTyping, OneMoves

\* The rows of a range are written up to its end, which is then the furthest, or not.
LEMMA WriteKeeps ==
  ASSUME QueueInv, NEW k \in Keepers, Write(k)
  PROVE  QueueInv'
<1>1. keeper' = [keeper EXCEPT ![k].written = TRUE] /\ UNCHANGED <<log, cursor, losses>>
  BY DEF Write
<1>2. /\ reached' \in 0..Len(log) /\ reached <= reached' /\ keeper[k].to <= reached'
      /\ keeper[k].through < keeper[k].to
  BY Places DEF Write
<1>3. 0..reached \subseteq 0..reached'
  BY <1>2, PlaceTyping
<1>4. keeper \in [Keepers -> [verified : BOOLEAN, through : 0..reached', to : 0..Len(log), written : BOOLEAN]]
  BY <1>3, PlaceTyping DEF PlaceType
<1>5. /\ (keeper \in [Keepers -> PlaceType])' /\ \A j \in Keepers \ {k} : keeper'[j] = keeper[j]
      /\ keeper'[k].through = keeper[k].through /\ keeper'[k].to = keeper[k].to
  BY <1>1, <1>4 DEF PlaceType
<1>6. cursor' \in 0..reached'
  BY <1>1, <1>3, PlaceTyping
<1>7. /\ keeper'[k].through <= keeper'[k].to /\ keeper'[k].through < keeper'[k].to
      /\ keeper'[k].to <= reached' /\ losses' \in 0..MaxLosses
  BY <1>1, <1>2, <1>5, Places, PlaceTyping
<1> QED BY <1>1, <1>2, <1>5, <1>6, <1>7, OneMoves

\* Only a range whose rows are written moves the cursor.
LEMMA SetCursorKeeps ==
  ASSUME QueueInv, NEW k \in Keepers, SetCursor(k)
  PROVE  QueueInv'
<1>1. /\ keeper' = [keeper EXCEPT ![k].through = keeper[k].to, ![k].written = FALSE]
      /\ UNCHANGED <<log, reached, losses>> /\ keeper[k].written
      /\ cursor' = IF keeper[k].to > cursor THEN keeper[k].to ELSE cursor
  BY DEF SetCursor
<1>2. keeper[k].to \in 0..reached
  BY <1>1, Places
<1>3. cursor' \in 0..reached
  BY <1>1, <1>2, PlaceTyping
<1>4. /\ (keeper \in [Keepers -> PlaceType])' /\ \A j \in Keepers \ {k} : keeper'[j] = keeper[j]
      /\ keeper'[k].through = keeper[k].to /\ keeper'[k].to = keeper[k].to /\ keeper'[k].written = FALSE
  BY <1>1, <1>2, PlaceTyping DEF PlaceType
<1> QED BY <1>1, <1>2, <1>3, <1>4, PlaceTyping, OneMoves

LEMMA ScanFailKeeps ==
  ASSUME QueueInv, NEW k \in Keepers, ScanFail(k)
  PROVE  QueueInv'
<1>1. /\ keeper' = [keeper EXCEPT ![k].to = keeper[k].through, ![k].written = FALSE]
      /\ UNCHANGED <<log, cursor, reached, losses>>
  BY DEF ScanFail
<1>2. keeper[k].through \in 0..reached /\ keeper[k].through \in 0..Len(log)
  BY Places
<1>3. /\ (keeper \in [Keepers -> PlaceType])' /\ \A j \in Keepers \ {k} : keeper'[j] = keeper[j]
      /\ keeper'[k].through = keeper[k].through /\ keeper'[k].to = keeper[k].through
      /\ keeper'[k].written = FALSE
  BY <1>1, <1>2, PlaceTyping DEF PlaceType
<1> QED BY <1>1, <1>2, <1>3, PlaceTyping, OneMoves

LEMMA QueueStep ==
  ASSUME QueueInv, [TimelockNext]_timelockVars
  PROVE  QueueInv'
<1>1. CASE ReadOperations \/ ReadCoverage \/ NextReply
  BY <1>1 DEF ReadOperations, ReadCoverage, NextReply, QueueInv, TimelockTypeOK, PlaceInv
<1>2. CASE UNCHANGED timelockVars
  BY <1>2 DEF timelockVars, QueueInv, TimelockTypeOK, PlaceInv
<1> QED BY <1>1, <1>2, EmitKeeps, VerifyKeeps, RangeKeeps, WriteKeeps, SetCursorKeeps, ScanFailKeeps,
           ForgetKeeps DEF TimelockNext

\* The shared cursor is never ahead of the rows, whichever keepers fail, forget their place
\* and write ranges again (scanGovernanceTimelock, setCursor).
THEOREM QueueTypes == TimelockSpec => []TimelockTypeOK
<1>1. QueueInv /\ [TimelockNext]_timelockVars => QueueInv'
  BY QueueStep
<1>2. QueueInv => TimelockTypeOK
  BY DEF QueueInv
<1> QED BY <1>1, <1>2, QueueInit, PTL DEF TimelockSpec

-----------------------------------------------------------------------------
(* The rows.  A row tells the last schedule of its operation among the     *)
(* first blocks, and the last execution and cancellation after it; to      *)
(* apply an event once more changes nothing, so a replay makes no          *)
(* difference until it passes the furthest block that was written.         *)

RowType == [scheduled : Nat, executed : Nat, cancelled : Nat]

Is(i, op, kind) == log[i].op = op /\ log[i].kind = kind

\* The row of an operation after the first t blocks.
RowIs(op, t, row) ==
    /\ row \in RowType
    /\ row.scheduled <= t /\ row.executed <= t /\ row.cancelled <= t
    /\ row.scheduled = 0 => row.executed = 0 /\ row.cancelled = 0
    /\ row.scheduled # 0 => Is(row.scheduled, op, "CallScheduled")
    /\ row.executed # 0 => Is(row.executed, op, "CallExecuted") /\ row.scheduled < row.executed
    /\ row.cancelled # 0 => Is(row.cancelled, op, "Cancelled") /\ row.scheduled < row.cancelled
    /\ \A i \in 1..t : Is(i, op, "CallScheduled") => i <= row.scheduled
    /\ \A i \in 1..t : Is(i, op, "CallExecuted") /\ i > row.scheduled => i <= row.executed
    /\ \A i \in 1..t : Is(i, op, "Cancelled") /\ i > row.scheduled => i <= row.cancelled

\* The timelock takes a schedule of what is not set, and ends what is pending.
LogInv ==
    \A i \in 1..Len(log) :
        Recorded(log[i].op, i - 1) = IF log[i].kind = "CallScheduled" THEN "unset" ELSE "pending"

\* A list that was read is that of one moment between the cursor and the head.
ReplyInv ==
    /\ reply.ops = "unread" => reply.listed = {}
    /\ reply.ops # "unread" =>
          \E t \in reply.from..reply.at :
              \A op \in Operations : op \in reply.listed <=> Recorded(op, t) = "pending"
    /\ reply \in [ops : {"unread", "read"}, listed : SUBSET Operations, block : {-1} \cup Nat,
                  from : Nat, at : 0..Len(log)]

HistoryInv ==
    /\ LogInv
    /\ rows \in [Operations -> RowType]
    /\ \A op \in Operations : RowIs(op, reached, rows[op])
    /\ ReplyInv

\* Recorded is about the first blocks of the log and nothing else.
KindHeld(kind) ==
    CASE kind = "CallScheduled" -> "pending" [] kind = "Cancelled" -> "unset" [] kind = "CallExecuted" -> "done"
RecordedIn(history, op, t) ==
    LET mine == {i \in 1..t : history[i].op = op}
        latest == CHOOSE i \in mine : \A j \in mine : j <= i
    IN  IF mine = {} THEN "unset" ELSE KindHeld(history[latest].kind)

LEMMA SameHistory ==
  ASSUME NEW h, NEW g, NEW t \in Nat, \A i \in 1..t : g[i] = h[i], NEW op
  PROVE  RecordedIn(g, op, t) = RecordedIn(h, op, t)
<1> DEFINE mine == {i \in 1..t : h[i].op = op}
           latest == CHOOSE i \in mine : \A j \in mine : j <= i
<1>1. {i \in 1..t : g[i].op = op} = mine
  OBVIOUS
<1>2. RecordedIn(h, op, t) = IF mine = {} THEN "unset" ELSE KindHeld(h[latest].kind)
  BY DEF RecordedIn
<1>3. RecordedIn(g, op, t) = IF mine = {} THEN "unset" ELSE KindHeld(g[latest].kind)
  <2> DEFINE other == {i \in 1..t : g[i].op = op}
  <2>1. RecordedIn(g, op, t) = IF other = {} THEN "unset"
                               ELSE KindHeld(g[CHOOSE i \in other : \A j \in other : j <= i].kind)
    BY DEF RecordedIn
  <2>2. other = mine
    BY <1>1
  <2> HIDE DEF other, mine
  <2> QED BY <2>1, <2>2
<1>4. mine # {} => latest \in 1..t
  <2> SUFFICES ASSUME mine # {} PROVE latest \in 1..t
    OBVIOUS
  <2>1. mine \in SUBSET Nat /\ \A j \in mine : j <= t
    OBVIOUS
  <2>2. \E i \in mine : \A j \in mine : j <= i
    <3> HIDE DEF mine
    <3> QED BY <2>1, GreatestNatural
  <2>3. latest \in mine
    BY <2>2
  <2> QED BY <2>3
<1> HIDE DEF mine, latest
<1> QED BY <1>2, <1>3, <1>4

LEMMA RecordedNow == \A op, t : /\ Recorded(op, t) = RecordedIn(log, op, t)
                                /\ Recorded(op, t)' = RecordedIn(log', op, t)
<1> SUFFICES ASSUME NEW op, NEW t
             PROVE  /\ Recorded(op, t) = RecordedIn(log, op, t)
                    /\ Recorded(op, t)' = RecordedIn(log', op, t)
  OBVIOUS
<1>1. Recorded(op, t) = RecordedIn(log, op, t)
  BY DEF Recorded, RecordedIn, KindHeld
<1>2. Recorded(op, t)' = RecordedIn(log', op, t)
  BY DEF Recorded, RecordedIn, KindHeld
<1> QED BY <1>1, <1>2

LEMMA LogTyping ==
  ASSUME TimelockTypeOK, NEW i \in 1..Len(log)
  PROVE  log[i].op \in Operations /\ log[i].kind \in Kinds /\ log[i] \in [op : Operations, kind : Kinds]
<1> DEFINE Event == [op : Operations, kind : Kinds]
<1>1. log \in Seq(Event)
  BY DEF TimelockTypeOK
<1> HIDE DEF Event
<1>2. log[i] \in Event
  BY <1>1
<1> QED BY <1>2 DEF Event

\* The last event of an operation decides what the timelock holds of it.
LEMMA RecordedByLast ==
  ASSUME TimelockTypeOK, NEW t \in 0..Len(log), NEW op, NEW l \in 1..t, log[l].op = op,
         \A j \in 1..t : log[j].op = op => j <= l
  PROVE  /\ log[l].kind = "CallScheduled" => Recorded(op, t) = "pending"
         /\ log[l].kind = "Cancelled" => Recorded(op, t) = "unset"
         /\ log[l].kind = "CallExecuted" => Recorded(op, t) = "done"
<1> DEFINE mine == {i \in 1..t : log[i].op = op}
           latest == CHOOSE i \in mine : \A j \in mine : j <= i
<1>1. l \in mine /\ \A j \in mine : j <= l
  OBVIOUS
<1>2. latest = l
  <2>1. latest \in mine /\ \A j \in mine : j <= latest
    BY <1>1
  <2>2. latest <= l /\ l <= latest /\ latest \in Int /\ l \in Int
    BY <1>1, <2>1
  <2> HIDE DEF latest, mine
  <2> QED BY <2>2
<1>3. Recorded(op, t) = CASE log[latest].kind = "CallScheduled" -> "pending"
               [] log[latest].kind = "Cancelled" -> "unset"
               [] log[latest].kind = "CallExecuted" -> "done"
  <2>1. mine # {}
    BY <1>1
  <2> QED BY <2>1 DEF Recorded
<1> HIDE DEF latest
<1> QED BY <1>2, <1>3

LEMMA NothingRecorded ==
  ASSUME NEW t, NEW op, \A j \in 1..t : log[j].op # op
  PROVE  Recorded(op, t) = "unset"
BY DEF Recorded

LEMMA LastEvent ==
  ASSUME NEW t \in Nat, NEW op, NEW i \in 1..t, log[i].op = op
  PROVE  \E l \in 1..t : log[l].op = op /\ \A j \in 1..t : log[j].op = op => j <= l
<1> DEFINE T == {j \in 1..t : log[j].op = op}
<1>1. T \in SUBSET Nat /\ T # {} /\ \A j \in T : j <= t
  OBVIOUS
<1>2. PICK l \in T : \A j \in T : j <= l
  <2> HIDE DEF T
  <2> QED BY <1>1, GreatestNatural
<1> QED BY <1>2

\* What is pending has a schedule as its last event.
LEMMA PendingIs ==
  ASSUME TimelockTypeOK, NEW t \in 0..Len(log), NEW op
  PROVE  Recorded(op, t) = "pending" <=>
            \E l \in 1..t : /\ Is(l, op, "CallScheduled")
                            /\ \A j \in 1..t : log[j].op = op => j <= l
<1>0. Len(log) \in Nat /\ t \in Nat
  BY DEF TimelockTypeOK
<1>1. CASE \A j \in 1..t : log[j].op # op
  BY <1>1, NothingRecorded DEF Is
<1>2. CASE \E j \in 1..t : log[j].op = op
  <2>1. PICK l \in 1..t : log[l].op = op /\ \A j \in 1..t : log[j].op = op => j <= l
    BY <1>0, <1>2, LastEvent
  <2>2. log[l].kind \in Kinds
    BY <1>0, LogTyping
  <2>3. \A m \in 1..t : (log[m].op = op /\ \A j \in 1..t : log[j].op = op => j <= m) => m = l
    BY <2>1
  <2>4. /\ log[l].kind = "CallScheduled" => Recorded(op, t) = "pending"
        /\ log[l].kind = "Cancelled" => Recorded(op, t) = "unset"
        /\ log[l].kind = "CallExecuted" => Recorded(op, t) = "done"
    BY <2>1, RecordedByLast
  <2> QED BY <2>1, <2>2, <2>3, <2>4 DEF Is, Kinds
<1> QED BY <1>1, <1>2

\* Nothing follows an execution.
LEMMA ExecutionIsLast ==
  ASSUME TimelockTypeOK, LogInv, NEW op, NEW e \in 1..Len(log), Is(e, op, "CallExecuted"),
         NEW i \in 1..Len(log), log[i].op = op
  PROVE  i <= e
<1> SUFFICES ASSUME i > e PROVE FALSE
  BY DEF TimelockTypeOK
<1> DEFINE T == {j \in 1..Len(log) : j > e /\ log[j].op = op}
<1>0. Len(log) \in Nat
  BY DEF TimelockTypeOK
<1>1. T \in SUBSET Nat /\ T # {}
  OBVIOUS
<1>2. PICK n \in T : \A j \in T : n <= j
  <2> HIDE DEF T
  <2> QED BY <1>1, LeastNatural
<1>3. /\ n - 1 \in 0..Len(log) /\ e \in 1..(n - 1) /\ log[n].op = op /\ n \in 1..Len(log)
      /\ \A j \in 1..(n - 1) : log[j].op = op => j <= e
  BY <1>0, <1>2
<1>4. Recorded(op, n - 1) = "done"
  BY <1>3, RecordedByLast DEF Is
<1> QED BY <1>3, <1>4 DEF LogInv

LEMMA AppliedTyped ==
  ASSUME TimelockTypeOK, NEW row \in RowType, NEW i \in 1..Len(log)
  PROVE  Applied(row, i) \in RowType
<1>1. i \in Nat /\ log[i].kind \in Kinds
  BY LogTyping
<1>2. Scheduled(row, i) \in RowType
  BY <1>1 DEF Scheduled, RowType, None
<1>3. Executed(row, i) \in RowType
  BY <1>1 DEF Executed, RowType
<1>4. Cancelled(row, i) \in RowType
  BY <1>1 DEF Cancelled, RowType
<1> QED BY <1>1, <1>2, <1>3, <1>4 DEF Applied, Kinds

\* An event that the row knows changes nothing.
LEMMA Replayed ==
  ASSUME TimelockTypeOK, NEW op, NEW t \in 0..Len(log), NEW row, RowIs(op, t, row),
         NEW i \in 1..t, log[i].op = op
  PROVE  Applied(row, i) = row
<1>1. /\ log[i].kind \in Kinds /\ i \in Nat
      /\ row.scheduled \in Nat /\ row.executed \in Nat /\ row.cancelled \in Nat
  BY LogTyping DEF RowIs, RowType, TimelockTypeOK
<1>2. CASE log[i].kind = "CallScheduled"
  <2>1. i <= row.scheduled
    BY <1>2 DEF RowIs, Is
  <2> QED BY <1>1, <1>2, <2>1 DEF Applied, Scheduled
<1>3. CASE log[i].kind = "CallExecuted"
  <2>1. ~(i > row.scheduled /\ i > row.executed)
    BY <1>1, <1>3 DEF RowIs, Is
  <2> QED BY <1>3, <2>1 DEF Applied, Executed
<1>4. CASE log[i].kind = "Cancelled"
  <2>1. ~(i > row.scheduled /\ i > row.cancelled)
    BY <1>1, <1>4 DEF RowIs, Is
  <2> QED BY <1>4, <2>1 DEF Applied, Cancelled
<1> QED BY <1>1, <1>2, <1>3, <1>4 DEF Kinds

\* The next event makes the next row.
LEMMA RowMoves ==
  ASSUME TimelockTypeOK, LogInv, NEW op, NEW t \in Nat, t + 1 \in 1..Len(log), NEW row, RowIs(op, t, row)
  PROVE  RowIs(op, t + 1, IF log[t + 1].op = op THEN Applied(row, t + 1) ELSE row)
<1> DEFINE i == t + 1
           new == IF log[i].op = op THEN Applied(row, i) ELSE row
<1>1. /\ log[i].kind \in Kinds /\ i \in Nat /\ t < i
      /\ row.scheduled \in Nat /\ row.executed \in Nat /\ row.cancelled \in Nat
      /\ row \in RowType /\ row.scheduled <= t /\ row.executed <= t /\ row.cancelled <= t
  BY LogTyping DEF RowIs, RowType
<1>2. \A j \in 1..i : j \in 1..t \/ j = i
  OBVIOUS
<1>3. t \in 0..Len(log)
  BY DEF TimelockTypeOK
<1>4. i - 1 = t /\ i \in 1..Len(log)
  OBVIOUS
<1> HIDE DEF i
<1>5. CASE log[i].op # op
  <2>1. \A j \in 1..i : \A kind \in Kinds : Is(j, op, kind) => j \in 1..t
    BY <1>2, <1>5 DEF Is
  <2>2. /\ \A j \in 1..i : Is(j, op, "CallScheduled") => j \in 1..t
        /\ \A j \in 1..i : Is(j, op, "CallExecuted") => j \in 1..t
        /\ \A j \in 1..i : Is(j, op, "Cancelled") => j \in 1..t
    BY <2>1 DEF Kinds
  <2>3. RowIs(op, i, row)
    BY <1>1, <2>2 DEF RowIs
  <2> QED BY <1>5, <2>3 DEF i
<1>6. CASE Is(i, op, "CallScheduled")
  <2>1. Applied(row, i) = [scheduled |-> i, executed |-> 0, cancelled |-> 0]
    BY <1>1, <1>6 DEF Applied, Scheduled, None, Is
  <2> DEFINE r == [scheduled |-> i, executed |-> 0, cancelled |-> 0]
  <2>2. RowIs(op, i, r)
    BY <1>1, <1>6 DEF RowIs, RowType
  <2> QED BY <1>6, <2>1, <2>2 DEF i, Is
<1>7. ASSUME log[i].op = op, log[i].kind # "CallScheduled"
      PROVE  row.scheduled # 0
  <2>1. Recorded(op, t) = "pending"
    BY <1>4, <1>7 DEF LogInv
  <2>2. PICK l \in 1..t : Is(l, op, "CallScheduled")
    BY <1>3, <2>1, PendingIs
  <2> QED BY <1>1, <2>2 DEF RowIs
<1>8. CASE Is(i, op, "CallExecuted")
  <2>1. Applied(row, i) = [row EXCEPT !.executed = i]
    BY <1>1, <1>7, <1>8 DEF Applied, Executed, None, Is
  <2> DEFINE r == [row EXCEPT !.executed = i]
  <2>2. r \in RowType /\ r.scheduled = row.scheduled /\ r.executed = i /\ r.cancelled = row.cancelled
    BY <1>1 DEF RowType
  <2>3. \A j \in 1..i : Is(j, op, "CallScheduled") \/ Is(j, op, "Cancelled") => j \in 1..t
    BY <1>2, <1>8 DEF Is
  <2> HIDE DEF r
  <2>4. RowIs(op, i, r)
    <3>1. /\ r \in RowType
          /\ r.scheduled <= i /\ r.executed <= i /\ r.cancelled <= i
          /\ r.scheduled # 0
          /\ Is(r.scheduled, op, "CallScheduled")
          /\ Is(r.executed, op, "CallExecuted") /\ r.scheduled < r.executed
          /\ r.cancelled # 0 => Is(r.cancelled, op, "Cancelled") /\ r.scheduled < r.cancelled
      BY <1>1, <1>7, <1>8, <2>2 DEF RowIs, Is
    <3>2. \A j \in 1..i : Is(j, op, "CallScheduled") => j <= r.scheduled
      BY <2>2, <2>3 DEF RowIs
    <3>3. \A j \in 1..i : Is(j, op, "CallExecuted") /\ j > r.scheduled => j <= r.executed
      BY <1>1, <2>2
    <3>4. \A j \in 1..i : Is(j, op, "Cancelled") /\ j > r.scheduled => j <= r.cancelled
      BY <2>2, <2>3 DEF RowIs
    <3> QED BY <3>1, <3>2, <3>3, <3>4 DEF RowIs
  <2> QED BY <1>8, <2>1, <2>4 DEF i, r, Is
<1>9. CASE Is(i, op, "Cancelled")
  <2>1. Applied(row, i) = [row EXCEPT !.cancelled = i]
    BY <1>1, <1>7, <1>9 DEF Applied, Cancelled, None, Is
  <2> DEFINE r == [row EXCEPT !.cancelled = i]
  <2>2. r \in RowType /\ r.scheduled = row.scheduled /\ r.cancelled = i /\ r.executed = row.executed
    BY <1>1 DEF RowType
  <2>3. \A j \in 1..i : Is(j, op, "CallScheduled") \/ Is(j, op, "CallExecuted") => j \in 1..t
    BY <1>2, <1>9 DEF Is
  <2> HIDE DEF r
  <2>4. RowIs(op, i, r)
    <3>1. /\ r \in RowType
          /\ r.scheduled <= i /\ r.executed <= i /\ r.cancelled <= i
          /\ r.scheduled # 0
          /\ Is(r.scheduled, op, "CallScheduled")
          /\ Is(r.cancelled, op, "Cancelled") /\ r.scheduled < r.cancelled
          /\ r.executed # 0 => Is(r.executed, op, "CallExecuted") /\ r.scheduled < r.executed
      BY <1>1, <1>7, <1>9, <2>2 DEF RowIs, Is
    <3>2. \A j \in 1..i : Is(j, op, "CallScheduled") => j <= r.scheduled
      BY <2>2, <2>3 DEF RowIs
    <3>3. \A j \in 1..i : Is(j, op, "Cancelled") /\ j > r.scheduled => j <= r.cancelled
      BY <1>1, <2>2
    <3>4. \A j \in 1..i : Is(j, op, "CallExecuted") /\ j > r.scheduled => j <= r.executed
      BY <2>2, <2>3 DEF RowIs
    <3> QED BY <3>1, <3>2, <3>3, <3>4 DEF RowIs
  <2> QED BY <1>9, <2>1, <2>4 DEF i, r, Is
<1> QED BY <1>1, <1>5, <1>6, <1>8, <1>9 DEF Kinds, Is

-----------------------------------------------------------------------------
(* A range of blocks on a row.                                             *)

\* The recursive function of Written.
IsReplay(step, row, op, from, to) ==
    step = [i \in (from - 1)..to |->
              IF i = from - 1 THEN row
              ELSE IF log[i].op = op THEN Applied(step[i - 1], i) ELSE step[i - 1]]

LEMMA WrittenEquation ==
  ASSUME TimelockTypeOK, NEW row \in RowType, NEW op, NEW from \in Nat \ {0}, NEW to \in 0..Len(log), from - 1 <= to
  PROVE  \E step : /\ IsReplay(step, row, op, from, to)
                   /\ Written(row, op, from, to) = step[to]
<1> DEFINE through == from - 1
           n == to - through
           G == [i \in 1..n |-> [v \in RowType |->
                   IF log[through + i].op = op THEN Applied(v, through + i) ELSE v]]
<1>0. n \in Nat /\ Len(log) \in Nat /\ to \in Nat /\ through \in Nat
  BY DEF TimelockTypeOK
<1>1. G \in [1..n -> [RowType -> RowType]]
  <2>1. \A i \in 1..n : through + i \in 1..Len(log)
    BY <1>0
  <2>2. \A i \in 1..n, v \in RowType : Applied(v, through + i) \in RowType
    BY <2>1, AppliedTyped
  <2> HIDE DEF n
  <2> QED BY <2>2
<1>2. PICK g : IsRecursionOf(g, n, RowType, row, G)
  <2> HIDE DEF G, n
  <2>1. RecursionGiven(n, RowType, row, G)
    BY <1>0, <1>1 DEF RecursionGiven
  <2> QED BY <2>1, RecursionExists
<1>3. g \in [0..n -> RowType] /\ g[0] = row /\ \A i \in 1..n : g[i] = G[i][g[i - 1]]
  BY <1>2 DEF IsRecursionOf
<1>4. ASSUME NEW i \in 1..n
      PROVE  g[i] = IF log[through + i].op = op THEN Applied(g[i - 1], through + i) ELSE g[i - 1]
  <2>1. i - 1 \in 0..n
    BY <1>0
  <2>2. g[i - 1] \in RowType
    BY <1>3, <2>1
  <2>3. g[i] = G[i][g[i - 1]]
    BY <1>3
  <2> HIDE DEF n
  <2> QED BY <2>2, <2>3
<1> HIDE DEF G
<1> DEFINE h == [i \in through..to |-> g[i - through]]
           k == [i \in through..to |->
                   IF i = through THEN row
                   ELSE IF log[i].op = op THEN Applied(h[i - 1], i) ELSE h[i - 1]]
<1>5. ASSUME NEW i \in through..to PROVE h[i] = k[i]
  <2>1. CASE i = through
    BY <1>3, <2>1
  <2>2. CASE i # through
    <3>1. i - through \in 1..n /\ through + (i - through) = i /\ i - 1 \in through..to
          /\ (i - through) - 1 = (i - 1) - through
      BY <1>0, <2>2
    <3>2. h[i] = g[i - through] /\ h[i - 1] = g[(i - 1) - through]
      BY <3>1
    <3>3. k[i] = IF log[i].op = op THEN Applied(h[i - 1], i) ELSE h[i - 1]
      BY <2>2
    <3> HIDE DEF h, k, n
    <3>4. g[i - through] = IF log[through + (i - through)].op = op
                           THEN Applied(g[(i - through) - 1], through + (i - through))
                           ELSE g[(i - through) - 1]
      BY <1>4, <3>1
    <3> QED BY <3>1, <3>2, <3>3, <3>4
  <2> QED BY <2>1, <2>2
<1>6. IsReplay(h, row, op, from, to)
  <2>1. h = k
    <3>1. h = [i \in through..to |-> h[i]] /\ k = [i \in through..to |-> k[i]]
      OBVIOUS
    <3> HIDE DEF h, k
    <3> QED BY <1>5, <3>1
  <2>2. from - 1 = through
    OBVIOUS
  <2>3. k = [i \in through..to |->
                   IF i = through THEN row
                   ELSE IF log[i].op = op THEN Applied(h[i - 1], i) ELSE h[i - 1]]
    OBVIOUS
  <2> HIDE DEF h, k
  <2> QED BY <2>1, <2>2, <2>3 DEF IsReplay
<1>7. Written(row, op, from, to) = (CHOOSE step : IsReplay(step, row, op, from, to))[to]
  BY DEF Written, IsReplay
<1> HIDE DEF h
<1>8. IsReplay(CHOOSE step : IsReplay(step, row, op, from, to), row, op, from, to)
  BY <1>6
<1> QED BY <1>7, <1>8

\* A range that begins in what is known ends at its own end, or where the row was.
LEMMA WrittenMoves ==
  ASSUME TimelockTypeOK, LogInv, NEW op, NEW t \in 0..Len(log), NEW row, RowIs(op, t, row),
         NEW through \in Nat, NEW to \in 0..Len(log), through <= t, through <= to
  PROVE  RowIs(op, IF to > t THEN to ELSE t, Written(row, op, through + 1, to))
<1>0. row \in RowType /\ Len(log) \in Nat /\ t \in Nat /\ to \in Nat
  BY DEF RowIs, TimelockTypeOK
<1>1. PICK step : /\ IsReplay(step, row, op, through + 1, to)
                  /\ Written(row, op, through + 1, to) = step[to]
  <2>1. through + 1 \in Nat \ {0} /\ (through + 1) - 1 <= to
    OBVIOUS
  <2> QED BY <1>0, <2>1, WrittenEquation
<1>2. \A i \in through..to :
         step[i] = IF i = through THEN row
                   ELSE IF log[i].op = op THEN Applied(step[i - 1], i) ELSE step[i - 1]
  <2>1. (through + 1) - 1 = through
    OBVIOUS
  <2> QED BY <1>1, <2>1 DEF IsReplay
<1> DEFINE far(i) == IF i > t THEN i ELSE t
           P == {n \in Nat : through + n <= to => RowIs(op, far(through + n), step[through + n])}
<1>3. 0 \in P
  <2>1. step[through] = row /\ far(through) = t /\ through + 0 = through
    BY <1>0, <1>2
  <2> HIDE DEF far
  <2> QED BY <2>1
<1>4. ASSUME NEW n \in Nat, n \in P PROVE n + 1 \in P
  <2> SUFFICES ASSUME through + (n + 1) <= to
               PROVE  RowIs(op, far(through + (n + 1)), step[through + (n + 1)])
    OBVIOUS
  <2> DEFINE i == through + n
             r == step[i]
  <2>1. /\ i \in Nat /\ through + (n + 1) = i + 1 /\ i + 1 \in 1..Len(log) /\ i \in through..to
        /\ i + 1 \in through..to /\ (i + 1) - 1 = i /\ i + 1 # through
    BY <1>0
  <2>2. RowIs(op, far(i), r)
    BY <1>4, <2>1
  <2> HIDE DEF i
  <2>3. step[i + 1] = IF log[i + 1].op = op THEN Applied(r, i + 1) ELSE r
    <3>1. step[i + 1] = IF i + 1 = through THEN row
                        ELSE IF log[i + 1].op = op THEN Applied(step[(i + 1) - 1], i + 1) ELSE step[(i + 1) - 1]
      BY <1>2, <2>1
    <3> QED BY <2>1, <3>1
  <2> HIDE DEF r
  <2>4. RowIs(op, far(i + 1), step[i + 1])
    <3>1. CASE i + 1 <= t
      <4>1. far(i) = t /\ far(i + 1) = t /\ i + 1 \in 1..t
        BY <1>0, <2>1, <3>1
      <4>2. RowIs(op, t, r)
        BY <2>2, <4>1
      <4>3. log[i + 1].op = op => Applied(r, i + 1) = r
        BY <4>1, <4>2, Replayed
      <4> HIDE DEF far
      <4> QED BY <2>3, <4>1, <4>2, <4>3
    <3>2. CASE i + 1 > t
      <4>1. far(i) = i /\ far(i + 1) = i + 1
        BY <1>0, <2>1, <3>2
      <4>2. RowIs(op, i, r)
        BY <2>2, <4>1
      <4>3. RowIs(op, i + 1, IF log[i + 1].op = op THEN Applied(r, i + 1) ELSE r)
        BY <2>1, <4>2, RowMoves
      <4> HIDE DEF far
      <4> QED BY <2>3, <4>1, <4>3
    <3> QED BY <1>0, <2>1, <3>1, <3>2
  <2> HIDE DEF far
  <2> QED BY <2>1, <2>4
<1>5. to - through \in P
  <2>1. to - through \in Nat
    BY <1>0
  <2> HIDE DEF P
  <2>2. Nat \subseteq P
    BY <1>3, <1>4, NatSetInduction
  <2> QED BY <2>1, <2>2
<1>6. through + (to - through) = to
  BY <1>0
<1> QED BY <1>0, <1>1, <1>5, <1>6

-----------------------------------------------------------------------------
(* The steps.                                                              *)

LEMMA HistoryInit == TimelockInit => HistoryInv
<1> SUFFICES ASSUME TimelockInit PROVE HistoryInv
  OBVIOUS
<1>1. Len(log) = 0 /\ reached = 0 /\ rows = [op \in Operations |-> NoRow] /\ reply = NoReply
  BY DEF TimelockInit
<1>2. NoRow \in RowType /\ NoRow.scheduled = 0 /\ NoRow.executed = 0 /\ NoRow.cancelled = 0
  BY DEF NoRow, RowType, None
<1>3. \A op : RowIs(op, 0, NoRow)
  BY <1>2 DEF RowIs
<1>4. LogInv
  BY <1>1 DEF LogInv
<1>5. ReplyInv
  BY <1>1 DEF ReplyInv, NoReply
<1> QED BY <1>1, <1>2, <1>3, <1>4, <1>5 DEF HistoryInv

\* A transaction of the timelock comes after everything that is written or read.
LEMMA EmitHistory ==
  ASSUME QueueInv, HistoryInv, NEW op \in Operations, NEW kind \in Kinds, Emit(op, kind)
  PROVE  HistoryInv'
<1> DEFINE e == [op |-> op, kind |-> kind]
<1>1. /\ log' = Append(log, e) /\ UNCHANGED <<rows, reached, reply>>
      /\ Recorded(op, Len(log)) = IF kind = "CallScheduled" THEN "unset" ELSE "pending"
  BY DEF Emit
<1>2. /\ Len(log) \in Nat /\ reached \in 0..Len(log) /\ log \in Seq([op : Operations, kind : Kinds])
  BY PlaceTyping DEF QueueInv, TimelockTypeOK
<1>3. /\ Len(log') = Len(log) + 1 /\ log'[Len(log) + 1] = e
      /\ \A i \in 1..Len(log) : log'[i] = log[i]
  <2>1. e \in [op : Operations, kind : Kinds]
    OBVIOUS
  <2> HIDE DEF e
  <2> QED BY <1>1, <1>2, <2>1
<1>4. ASSUME NEW t \in 0..Len(log), NEW o PROVE Recorded(o, t)' = Recorded(o, t)
  <2>1. t \in Nat /\ \A i \in 1..t : log'[i] = log[i]
    BY <1>2, <1>3
  <2>2. RecordedIn(log', o, t) = RecordedIn(log, o, t)
    BY <2>1, SameHistory
  <2> QED BY <2>2, RecordedNow
<1>5. LogInv'
  <2> SUFFICES ASSUME NEW i \in 1..Len(log')
               PROVE  (Recorded(log[i].op, i - 1) =
                          IF log[i].kind = "CallScheduled" THEN "unset" ELSE "pending")'
    BY DEF LogInv
  <2>1. CASE i \in 1..Len(log)
    <3>1. log'[i] = log[i] /\ i - 1 \in 0..Len(log)
      BY <1>2, <1>3, <2>1
    <3>2. Recorded(log[i].op, i - 1) = IF log[i].kind = "CallScheduled" THEN "unset" ELSE "pending"
      BY <2>1 DEF HistoryInv, LogInv
    <3>3. \A o : Recorded(o, i - 1)' = Recorded(o, i - 1)
      BY <1>4, <3>1
    <3> QED BY <3>1, <3>2, <3>3
  <2>2. CASE i = Len(log) + 1
    <3>1. log'[i].op = op /\ log'[i].kind = kind /\ i - 1 = Len(log) /\ i - 1 \in 0..Len(log)
      BY <1>2, <1>3, <2>2
    <3>2. \A o : Recorded(o, i - 1)' = Recorded(o, i - 1)
      BY <1>4, <3>1
    <3>3. Recorded(op, i - 1) = IF kind = "CallScheduled" THEN "unset" ELSE "pending"
      BY <1>1, <3>1
    <3> QED BY <3>1, <3>2, <3>3
  <2> QED BY <1>2, <1>3, <2>1, <2>2
<1>6. ASSUME NEW o \in Operations PROVE RowIs(o, reached, rows[o])'
  <2>1. RowIs(o, reached, rows[o]) /\ reached' = reached /\ rows' = rows
    BY <1>1 DEF HistoryInv
  <2>2. \A i \in 1..reached : log'[i] = log[i]
    BY <1>2, <1>3
  <2>3. \A n \in Nat : n # 0 /\ n <= reached => n \in 1..reached
    BY <1>2
  <2> QED BY <2>1, <2>2, <2>3 DEF RowIs, Is, RowType
<1>7. ReplyInv'
  <2>1. \A t \in reply.from..reply.at : \A o : Recorded(o, t)' = Recorded(o, t)
    BY <1>2, <1>4 DEF HistoryInv, ReplyInv
  <2>2. reply.at \in 0..Len(log')
    BY <1>2, <1>3 DEF HistoryInv, ReplyInv
  <2> QED BY <1>1, <2>1, <2>2 DEF HistoryInv, ReplyInv
<1> QED BY <1>1, <1>5, <1>6, <1>7 DEF HistoryInv

LEMMA SameRecord ==
  ASSUME log' = log
  PROVE  \A op, t : Recorded(op, t)' = Recorded(op, t)
BY RecordedNow

LEMMA WriteHistory ==
  ASSUME QueueInv, HistoryInv, NEW k \in Keepers, Write(k)
  PROVE  HistoryInv'
<1>1. /\ rows' = [op \in Operations |-> Written(rows[op], op, keeper[k].through + 1, keeper[k].to)]
      /\ reached' = IF keeper[k].to > reached THEN keeper[k].to ELSE reached
      /\ UNCHANGED <<log, reply>>
  BY DEF Write
<1>2. /\ keeper[k].through \in Nat /\ keeper[k].to \in 0..Len(log) /\ reached \in 0..Len(log)
      /\ keeper[k].through <= reached /\ keeper[k].through <= keeper[k].to
  BY Places
<1>3. TimelockTypeOK /\ LogInv
  BY DEF QueueInv, HistoryInv
<1>4. ASSUME NEW op \in Operations PROVE RowIs(op, reached', rows'[op])
  <2>1. RowIs(op, reached, rows[op])
    BY DEF HistoryInv
  <2>2. RowIs(op, IF keeper[k].to > reached THEN keeper[k].to ELSE reached,
                  Written(rows[op], op, keeper[k].through + 1, keeper[k].to))
    BY <1>2, <1>3, <2>1, WrittenMoves
  <2> QED BY <1>1, <2>2
<1>5. rows' \in [Operations -> RowType]
  <2>1. \A op \in Operations : rows'[op] \in RowType
    BY <1>4 DEF RowIs
  <2> QED BY <1>1, <2>1
<1>6. \A op \in Operations : RowIs(op, reached, rows[op])'
  BY <1>1, <1>4 DEF RowIs, Is
<1>7. LogInv' /\ ReplyInv'
  BY <1>1, SameRecord DEF HistoryInv, LogInv, ReplyInv
<1> QED BY <1>5, <1>6, <1>7 DEF HistoryInv

\* What a row says is pending is what the timelock held after the same block.
LEMMA RowRecords ==
  ASSUME TimelockTypeOK, LogInv, NEW op, NEW t \in 0..Len(log), NEW row, RowIs(op, t, row)
  PROVE  /\ (Recorded(op, t) = "pending") <=> (StateOf(row) = "pending")
         /\ (Recorded(op, t) = "done") <=> (StateOf(row) = "executed")
         /\ Recorded(op, t) = "pending" =>
               /\ row.scheduled \in 1..t /\ Is(row.scheduled, op, "CallScheduled")
               /\ \A i \in (row.scheduled + 1)..t : log[i].op # op
<1>0. /\ Len(log) \in Nat /\ t \in Nat /\ t <= Len(log)
      /\ row.scheduled \in Nat /\ row.executed \in Nat /\ row.cancelled \in Nat
      /\ row.scheduled <= t /\ row.executed <= t /\ row.cancelled <= t
  BY DEF TimelockTypeOK, RowIs, RowType
<1>1. CASE \A j \in 1..t : log[j].op # op
  <2>1. Recorded(op, t) = "unset"
    BY <1>1, NothingRecorded
  <2>2. row.scheduled = 0 /\ row.executed = 0 /\ row.cancelled = 0
    BY <1>0, <1>1 DEF RowIs, Is
  <2>3. StateOf(row) = "unset"
    BY <2>2 DEF StateOf, None
  <2> QED BY <2>1, <2>3
<1>2. CASE \E j \in 1..t : log[j].op = op
  <2>1. PICK l \in 1..t : log[l].op = op /\ \A j \in 1..t : log[j].op = op => j <= l
    BY <1>0, <1>2, LastEvent
  <2>2. log[l].kind \in Kinds /\ l \in Nat /\ l \in 1..Len(log)
    BY <1>0, LogTyping
  <2>3. /\ log[l].kind = "CallScheduled" => Recorded(op, t) = "pending"
        /\ log[l].kind = "Cancelled" => Recorded(op, t) = "unset"
        /\ log[l].kind = "CallExecuted" => Recorded(op, t) = "done"
    BY <2>1, RecordedByLast
  <2>4. /\ row.scheduled # 0 => row.scheduled <= l
        /\ row.executed # 0 => row.executed <= l
        /\ row.cancelled # 0 => row.cancelled <= l
    BY <1>0, <2>1 DEF RowIs, Is
  <2>5. CASE log[l].kind = "CallScheduled"
    <3>1. row.scheduled = l
      BY <1>0, <2>1, <2>2, <2>4, <2>5 DEF RowIs, Is
    <3>2. row.executed = 0 /\ row.cancelled = 0
      BY <1>0, <2>2, <2>4, <3>1 DEF RowIs
    <3>3. StateOf(row) = "pending"
      BY <2>2, <3>1, <3>2 DEF StateOf, None
    <3>4. \A i \in (l + 1)..t : log[i].op # op
      BY <1>0, <2>1, <2>2
    <3> QED BY <2>1, <2>3, <2>5, <3>1, <3>3, <3>4 DEF Is
  <2>6. CASE log[l].kind = "CallExecuted"
    <3>1. row.scheduled < l
      BY <1>0, <2>1, <2>2, <2>4, <2>6 DEF RowIs, Is
    <3>2. row.executed = l
      BY <1>0, <2>1, <2>2, <2>4, <2>6, <3>1 DEF RowIs, Is
    <3>3. row.scheduled # 0
      BY <2>1, <3>2 DEF RowIs
    <3>4. StateOf(row) = "executed"
      BY <2>2, <3>2, <3>3 DEF StateOf, None
    <3> QED BY <2>3, <2>6, <3>4
  <2>7. CASE log[l].kind = "Cancelled"
    <3>1. row.scheduled < l
      BY <1>0, <2>1, <2>2, <2>4, <2>7 DEF RowIs, Is
    <3>2. row.cancelled = l
      BY <1>0, <2>1, <2>2, <2>4, <2>7, <3>1 DEF RowIs, Is
    <3>3. row.scheduled # 0
      BY <2>1, <3>2 DEF RowIs
    <3>4. row.executed = 0
      <4> SUFFICES ASSUME row.executed # 0 PROVE FALSE
        OBVIOUS
      <4>1. Is(row.executed, op, "CallExecuted") /\ row.executed \in 1..Len(log) /\ row.executed <= l
        BY <1>0, <2>4 DEF RowIs
      <4>2. l <= row.executed
        BY <2>1, <2>2, <4>1, ExecutionIsLast
      <4>3. row.executed = l
        BY <1>0, <2>2, <4>1, <4>2
      <4> QED BY <2>7, <4>1, <4>3 DEF Is
    <3>5. StateOf(row) = "cancelled"
      BY <2>2, <3>2, <3>3, <3>4 DEF StateOf, None
    <3> QED BY <2>3, <2>7, <3>5
  <2> QED BY <2>2, <2>5, <2>6, <2>7 DEF Kinds
<1> QED BY <1>1, <1>2

\* A list is read off the rows, which are where some keeper was, not behind the cursor.
LEMMA ReadHistory ==
  ASSUME QueueInv, HistoryInv, ReadOperations
  PROVE  HistoryInv'
<1> DEFINE listed == {op \in Operations : StateOf(rows[op]) = "pending"}
<1>1. /\ reply' = [reply EXCEPT !.ops = "read", !.from = cursor, !.at = Len(log), !.listed = listed]
      /\ UNCHANGED <<log, rows, reached>>
  BY DEF ReadOperations
<1>2. reached \in cursor..Len(log) /\ reached \in 0..Len(log) /\ cursor \in Nat /\ Len(log) \in Nat
  BY PlaceTyping
<1>3. \A op \in Operations : op \in listed <=> Recorded(op, reached) = "pending"
  <2> TAKE op \in Operations
  <2>1. TimelockTypeOK /\ LogInv /\ RowIs(op, reached, rows[op])
    BY DEF QueueInv, HistoryInv
  <2>2. (Recorded(op, reached) = "pending") <=> (StateOf(rows[op]) = "pending")
    BY <1>2, <2>1, RowRecords
  <2> QED BY <2>2
<1>4. listed \subseteq Operations
  OBVIOUS
<1> HIDE DEF listed
<1>5. ReplyInv'
  <2> DEFINE new == [reply EXCEPT !.ops = "read", !.from = cursor, !.at = Len(log), !.listed = listed]
  <2>1. reply \in [ops : {"unread", "read"}, listed : SUBSET Operations, block : {-1} \cup Nat,
                   from : Nat, at : 0..Len(log)]
    BY DEF HistoryInv, ReplyInv
  <2>2. new.ops = "read" /\ new.from = cursor /\ new.at = Len(log) /\ new.listed = listed
    BY <2>1
  <2>3. new \in [ops : {"unread", "read"}, listed : SUBSET Operations, block : {-1} \cup Nat,
                 from : Nat, at : 0..Len(log)]
    <3>1. cursor \in Nat /\ Len(log) \in 0..Len(log) /\ listed \in SUBSET Operations
      BY <1>2, <1>4
    <3>2. \A n, c, l : /\ n \in 0..Len(log) /\ c \in Nat /\ l \in SUBSET Operations
                       => [reply EXCEPT !.ops = "read", !.from = c, !.at = n, !.listed = l]
                             \in [ops : {"unread", "read"}, listed : SUBSET Operations, block : {-1} \cup Nat,
                                  from : Nat, at : 0..Len(log)]
      <4> TAKE n, c, l
      <4> HAVE n \in 0..Len(log) /\ c \in Nat /\ l \in SUBSET Operations
      <4> DEFINE Block == {-1} \cup Nat
                 At == 0..Len(log)
                 Lists == SUBSET Operations
      <4>1. reply \in [ops : {"unread", "read"}, listed : Lists, block : Block, from : Nat, at : At]
        BY <2>1
      <4>2. n \in At /\ l \in Lists
        OBVIOUS
      <4> HIDE DEF Block, At, Lists
      <4>3. [reply EXCEPT !.ops = "read", !.from = c, !.at = n, !.listed = l]
               \in [ops : {"unread", "read"}, listed : Lists, block : Block, from : Nat, at : At]
        BY <4>1, <4>2
      <4> QED BY <4>3 DEF Block, At, Lists
    <3> QED BY <3>1, <3>2
  <2> HIDE DEF new
  <2>4. reply' = new /\ log' = log /\ \A op : Recorded(op, reached)' = Recorded(op, reached)
    BY <1>1, SameRecord DEF new
  <2>6. \A t : \A op : Recorded(op, t)' = Recorded(op, t)
    BY <2>4, SameRecord
  <2>7. \E t \in reply'.from..reply'.at : \A op \in Operations : op \in reply'.listed <=> Recorded(op, t) = "pending"
    BY <1>2, <1>3, <2>2, <2>4
  <2> QED BY <2>2, <2>3, <2>4, <2>6, <2>7 DEF ReplyInv
<1>6. LogInv' /\ \A op \in Operations : RowIs(op, reached, rows[op])'
  <2>1. LogInv'
    BY <1>1, SameRecord DEF HistoryInv, LogInv
  <2>2. \A op \in Operations : RowIs(op, reached, rows[op])'
    BY <1>1 DEF HistoryInv, RowIs, Is
  <2> QED BY <2>1, <2>2
<1> QED BY <1>1, <1>5, <1>6 DEF HistoryInv

LEMMA HistoryStep ==
  ASSUME QueueInv, HistoryInv, [TimelockNext]_timelockVars
  PROVE  HistoryInv'
<1>1. ASSUME UNCHANGED <<log, rows, reached, reply>> PROVE HistoryInv'
  <2>1. LogInv' /\ ReplyInv'
    BY <1>1, SameRecord DEF HistoryInv, LogInv, ReplyInv
  <2>2. \A op \in Operations : RowIs(op, reached, rows[op])'
    BY <1>1 DEF HistoryInv, RowIs, Is
  <2> QED BY <1>1, <2>1, <2>2 DEF HistoryInv
<1>2. ASSUME NEW k \in Keepers, Verify(k) \/ NextRange(k) \/ SetCursor(k) \/ ScanFail(k) \/ ForgetPlace(k)
      PROVE  UNCHANGED <<log, rows, reached, reply>>
  BY <1>2 DEF Verify, NextRange, SetCursor, ScanFail, ForgetPlace
<1>3. CASE ReadCoverage \/ NextReply
  <2>1. UNCHANGED <<log, rows, reached>>
    BY <1>3 DEF ReadCoverage, NextReply
  <2>2. LogInv' /\ \A op \in Operations : RowIs(op, reached, rows[op])'
    <3>1. LogInv'
      BY <2>1, SameRecord DEF HistoryInv, LogInv
    <3>2. \A op \in Operations : RowIs(op, reached, rows[op])'
      BY <2>1 DEF HistoryInv, RowIs, Is
    <3> QED BY <3>1, <3>2
  <2>3. cursor \in Nat /\ Len(log) \in Nat
    BY PlaceTyping
  <2>4. ReplyInv'
    <3>1. CASE NextReply
      <4>1. reply' = NoReply
        BY <3>1 DEF NextReply
      <4>2. NoReply \in [ops : {"unread", "read"}, listed : SUBSET Operations, block : {-1} \cup Nat,
                         from : Nat, at : 0..Len(log)]
        BY <2>3 DEF NoReply
      <4>3. NoReply.ops = "unread" /\ NoReply.listed = {}
        BY DEF NoReply
      <4> QED BY <2>1, <4>1, <4>2, <4>3 DEF ReplyInv
    <3>2. CASE ReadCoverage
      <4>1. reply' = [reply EXCEPT !.block = cursor] /\ ReplyInv
        BY <3>2 DEF ReadCoverage, HistoryInv
      <4>2. /\ reply' \in [ops : {"unread", "read"}, listed : SUBSET Operations, block : {-1} \cup Nat,
                           from : Nat, at : 0..Len(log)]
            /\ reply'.ops = reply.ops /\ reply'.listed = reply.listed
            /\ reply'.from = reply.from /\ reply'.at = reply.at
        BY <2>3, <4>1 DEF ReplyInv
      <4> QED BY <2>1, <4>1, <4>2, SameRecord DEF ReplyInv
    <3> QED BY <1>3, <3>1, <3>2
  <2> QED BY <2>1, <2>2, <2>4 DEF HistoryInv
<1>4. CASE UNCHANGED timelockVars
  BY <1>1, <1>4 DEF timelockVars
<1> QED BY <1>1, <1>2, <1>3, <1>4, EmitHistory, WriteHistory, ReadHistory DEF TimelockNext

LEMMA HistoryInductive == TimelockSpec => [](QueueInv /\ HistoryInv)
<1>1. QueueInv /\ HistoryInv /\ [TimelockNext]_timelockVars => (QueueInv /\ HistoryInv)'
  BY QueueStep, HistoryStep
<1> QED BY <1>1, QueueInit, HistoryInit, PTL DEF TimelockSpec

\* Whichever keepers write which ranges again, and however far behind, the row of an
\* operation is what the timelock held of it after the furthest block anybody has written
\* (writeGovernanceTimelockEvents).
THEOREM RowsTellTheTimelock == TimelockSpec => []RowsAreTheTimelock
<1>1. QueueInv /\ HistoryInv => RowsAreTheTimelock
  <2> SUFFICES ASSUME QueueInv, HistoryInv, NEW op \in Operations
               PROVE  /\ Recorded(op, reached) = "pending" <=> StateOf(rows[op]) = "pending"
                      /\ Recorded(op, reached) = "done" <=> StateOf(rows[op]) = "executed"
                      /\ Recorded(op, reached) = "pending" =>
                            /\ log[rows[op].scheduled] = [op |-> op, kind |-> "CallScheduled"]
                            /\ \A i \in (rows[op].scheduled + 1)..reached : log[i].op # op
    BY DEF RowsAreTheTimelock
  <2> DEFINE row == rows[op]
  <2>1. TimelockTypeOK /\ LogInv /\ RowIs(op, reached, row) /\ reached \in 0..Len(log) /\ Len(log) \in Nat
    BY PlaceTyping DEF QueueInv, HistoryInv
  <2> HIDE DEF row
  <2>2. /\ (Recorded(op, reached) = "pending") <=> (StateOf(row) = "pending")
        /\ (Recorded(op, reached) = "done") <=> (StateOf(row) = "executed")
        /\ Recorded(op, reached) = "pending" =>
               /\ row.scheduled \in 1..reached /\ Is(row.scheduled, op, "CallScheduled")
               /\ \A i \in (row.scheduled + 1)..reached : log[i].op # op
    BY <2>1, RowRecords
  <2>3. ASSUME row.scheduled \in 1..reached, Is(row.scheduled, op, "CallScheduled")
        PROVE  log[row.scheduled] = [op |-> op, kind |-> "CallScheduled"]
    <3>1. log[row.scheduled] \in [op : Operations, kind : Kinds]
      BY <2>1, <2>3, LogTyping
    <3> QED BY <2>3, <3>1 DEF Is
  <2> QED BY <2>2, <2>3 DEF row
<1> QED BY <1>1, HistoryInductive, PTL

\* An answer of queryGovernanceQueue lists what was pending at one moment between the cursor
\* it could have read and the head, and all that waited through, if its coverage is no newer.
THEOREM AnswersAreHonest == TimelockSpec => []AnswerIsHonest
<1>1. QueueInv /\ HistoryInv => AnswerIsHonest
  <2> SUFFICES ASSUME QueueInv, HistoryInv PROVE AnswerIsHonest
    OBVIOUS
  <2>1. ReplyInv /\ reply.ops \in {"unread", "read"} /\ reply.listed \subseteq Operations
        /\ reply.from \in Nat /\ reply.at \in Int /\ reply.block \in Int
    BY PlaceTyping DEF HistoryInv, ReplyInv
  <2>2. CASE reply.ops = "unread"
    BY <2>1, <2>2 DEF ReplyInv, AnswerIsHonest, Answered
  <2>3. CASE reply.ops = "read"
    <3>1. PICK t \in reply.from..reply.at : \A op \in Operations : op \in reply.listed <=> Recorded(op, t) = "pending"
      BY <2>1, <2>3 DEF ReplyInv
    <3>2. \A op \in reply.listed : Recorded(op, t) = "pending"
      BY <2>1, <3>1
    <3>3. ASSUME reply.block <= reply.from, NEW op \in Operations,
                 \A s \in reply.block..reply.at : Recorded(op, s) = "pending"
          PROVE  op \in reply.listed
      <4>1. t \in reply.block..reply.at
        BY <2>1, <3>1, <3>3
      <4> QED BY <3>1, <3>3, <4>1
    <3> QED BY <3>1, <3>2, <3>3 DEF AnswerIsHonest, Answered
  <2> QED BY <2>1, <2>2, <2>3
<1> QED BY <1>1, HistoryInductive, PTL
=============================================================================
