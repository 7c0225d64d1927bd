---------------------------- MODULE BetIndex_proofs ----------------------------
(***************************************************************************)
(* Theorems about BetIndex, for any set of bets and of processes, any      *)
(* chain and any number of starts.                                         *)
(*                                                                         *)
(* A process knows nothing of the others, so what makes a shared cursor    *)
(* safe is a fact about each one: whatever it has left behind is stored as *)
(* far as the cursor stands for it, and what is still missing of its range *)
(* is among the names it has yet to write.                                 *)
(*                                                                         *)
(* What makes the rows converge is a rank: a result outranks a placement,  *)
(* an end outranks both, a bet has one event of each rank, and whichever   *)
(* way a row is written, it keeps the greater rank and joins the fields.   *)
(***************************************************************************)
EXTENDS BetIndex, SetInduction, TLAPS

\* Every event with a name of N up to block k is stored.
Stored(N, k) == \A b \in Bets, n \in N : chain[b][n] \in 1..k => n \in events[b]

\* The names for which the cursor of a scan stands.
CursorNames(w) == Covered(Source(w))

\* What is missing of the range of a scan is yet to be written.
RangeInHand(w) ==
    /\ scan[w].last <= scan[w].to
    /\ "late" \notin kind[w] => scan[w].from = scan[w].last + 1
    /\ Stored(CursorNames(w), scan[w].last)
    /\ \A b \in Bets, n \in CursorNames(w) :
          chain[b][n] \in (scan[w].last + 1)..scan[w].to => n \in events[b] \cup scan[w].todo

IndexInv ==
    /\ TypeOK
    /\ \A s \in Sources : Stored(Covered(s), cursor[s])
    /\ \A w \in Writers : RangeInHand(w)

-----------------------------------------------------------------------------
\* A cursor stands for nothing that a scan which moves it does not read, and for nothing at
\* all if one of them begins late.
LEMMA CoveredFacts ==
  /\ \A s : Covered(s) \subseteq Names
  /\ \A w \in Writers : /\ Source(w) \in Sources /\ Read(w) \subseteq Names
                        /\ CursorNames(w) \subseteq Read(w) /\ ("late" \in kind[w] => CursorNames(w) = {})
<1>1. \A s : Covered(s) \subseteq Names
  BY DEF Covered
<1>2. ASSUME NEW w \in Writers
      PROVE  /\ Source(w) \in Sources /\ Read(w) \subseteq Names
             /\ CursorNames(w) \subseteq Read(w) /\ ("late" \in kind[w] => CursorNames(w) = {})
  <2>1. Source(w) \in Sources /\ Read(w) \subseteq Names
    BY DEF Source, Sources, Read, Names
  <2>2. \A n \in CursorNames(w) : n \in Guaranteed(w)
    BY <1>2 DEF CursorNames, Covered
  <2>3. Guaranteed(w) \subseteq Read(w) /\ ("late" \in kind[w] => Guaranteed(w) = {})
    BY DEF Guaranteed
  <2> QED BY <2>1, <2>2, <2>3
<1> QED BY <1>1, <1>2

\* Who moves which cursor, and what it stands for, is configured.
LEMMA SameKinds ==
  ASSUME kind' = kind
  PROVE  /\ \A s : Covered(s)' = Covered(s)
         /\ \A w : CursorNames(w)' = CursorNames(w) /\ Source(w)' = Source(w) /\ Read(w)' = Read(w)
<1>1. \A w : Source(w)' = Source(w) /\ Read(w)' = Read(w) /\ Guaranteed(w)' = Guaranteed(w)
  BY DEF Source, Read, Guaranteed
<1>2. \A s : Covered(s)' = Covered(s)
  BY <1>1 DEF Covered
<1>3. \A w : CursorNames(w)' = CursorNames(w)
  BY <1>1, <1>2 DEF CursorNames
<1> QED BY <1>1, <1>2, <1>3

LEMMA IndexTyping ==
  ASSUME TypeOK
  PROVE  /\ head \in Nat
         /\ \A s \in Sources : cursor[s] \in Nat /\ cursor[s] <= head
         /\ \A b \in Bets, n \in Names : chain[b][n] \in Nat /\ chain[b][n] <= head
         /\ \A w \in Writers : /\ scan[w].last \in Nat /\ scan[w].to \in Nat /\ scan[w].from \in Nat \ {0}
                               /\ scan[w].last <= head /\ scan[w].to <= head
BY BoundsAssumption DEF TypeOK

LEMMA IndexInit == Init => IndexInv
<1> SUFFICES ASSUME Init PROVE IndexInv
  OBVIOUS
<1>1. TypeOK
  BY BoundsAssumption DEF Init, TypeOK, NoChain, Idle
<1>2. \A b \in Bets, n \in Names : chain[b][n] = 0
  BY DEF Init, NoChain
<1>3. /\ \A s \in Sources : cursor[s] = 0
      /\ \A w \in Writers : scan[w].last = 0 /\ scan[w].to = 0 /\ scan[w].from = scan[w].last + 1
  BY DEF Init, Idle
<1> QED BY <1>1, <1>2, <1>3, CoveredFacts DEF IndexInv, Stored, RangeInHand

\* A block: its events lie ahead of every scan and of the cursors.
LEMMA BlockKeeps ==
  ASSUME IndexInv, head < MaxBlock, head' = head + 1, UNCHANGED <<events, cursor, scan, starts, kind>>,
         chain' \in [Bets -> [Names -> 0..head']],
         \A a \in Bets, n \in Names : chain'[a][n] = chain[a][n] \/ chain'[a][n] = head + 1
  PROVE  IndexInv'
<1>1. TypeOK'
  <2>1. /\ head \in Nat /\ 0..head \subseteq 0..head' /\ 1..(head + 1) \subseteq 1..(head' + 1)
        /\ head' \in 0..MaxBlock
    BY IndexTyping, BoundsAssumption DEF IndexInv
  <2> QED BY <2>1 DEF IndexInv, TypeOK
<1>2. ASSUME NEW N \in SUBSET Names, NEW k \in Nat, k <= head, Stored(N, k) PROVE Stored(N, k)'
  BY <1>2, IndexTyping DEF Stored, IndexInv
<1>3. ASSUME NEW w \in Writers PROVE RangeInHand(w)'
  <2>1. /\ RangeInHand(w) /\ scan[w].last \in Nat /\ scan[w].to \in Nat
        /\ scan[w].last <= head /\ scan[w].to <= head
    BY IndexTyping DEF IndexInv
  <2>2. CursorNames(w) \in SUBSET Names
    BY CoveredFacts DEF CursorNames
  <2>3. Stored(CursorNames(w), scan[w].last)'
    <3>1. Stored(CursorNames(w), scan[w].last)
      BY <2>1 DEF RangeInHand
    <3> QED BY SameKinds, <1>2, <2>1, <2>2, <3>1 DEF Stored
  <2>4. ASSUME NEW a \in Bets, NEW n \in CursorNames(w), chain'[a][n] \in (scan[w].last + 1)..scan[w].to
        PROVE  n \in events[a] \cup scan[w].todo
    <3>1. chain'[a][n] # head + 1
      BY <2>1, <2>4, IndexTyping DEF IndexInv
    <3>2. chain'[a][n] = chain[a][n]
      BY <2>2, <3>1
    <3> QED BY <2>1, <2>4, <3>2 DEF RangeInHand
  <2> QED BY SameKinds, <2>1, <2>3, <2>4 DEF RangeInHand
<1>4. ASSUME NEW s \in Sources PROVE Stored(Covered(s), cursor[s])'
  <2>1. Covered(s) \in SUBSET Names /\ cursor[s] \in Nat /\ cursor[s] <= head /\ Stored(Covered(s), cursor[s])
    BY CoveredFacts, IndexTyping DEF IndexInv
  <2> QED BY SameKinds, <1>2, <2>1 DEF Stored
<1> QED BY <1>1, <1>3, <1>4 DEF IndexInv

LEMMA MineKeeps ==
  ASSUME IndexInv, NEW b \in Bets, Mine(b)
  PROVE  IndexInv'
<1>1. head' = head + 1 /\ head < MaxBlock /\ UNCHANGED <<events, cursor, scan, starts, kind>>
  BY DEF Mine
<1>2. PICK S : chain' = [chain EXCEPT ![b] = [n \in Names |-> IF n \in S THEN head' ELSE @[n]]]
  BY DEF Mine
<1>3. chain \in [Bets -> [Names -> 0..head]] /\ head \in Nat
  BY BoundsAssumption DEF IndexInv, TypeOK
<1>4. chain' \in [Bets -> [Names -> 0..head']]
  BY <1>1, <1>2, <1>3
<1>5. \A a \in Bets, n \in Names : chain'[a][n] = chain[a][n] \/ chain'[a][n] = head + 1
  BY <1>1, <1>2, <1>3
<1> QED BY <1>1, <1>4, <1>5, BlockKeeps

LEMMA MineEmptyKeeps ==
  ASSUME IndexInv, MineEmpty
  PROVE  IndexInv'
<1>1. /\ head' = head + 1 /\ head < MaxBlock /\ chain' = chain /\ UNCHANGED <<events, cursor, scan, starts, kind>>
      /\ chain \in [Bets -> [Names -> 0..head]] /\ head \in Nat
  BY BoundsAssumption DEF MineEmpty, IndexInv, TypeOK
<1>2. chain' \in [Bets -> [Names -> 0..head']]
  BY <1>1
<1> QED BY <1>1, <1>2, BlockKeeps

\* A writer that only adds events.
LEMMA MoreEvents ==
  ASSUME IndexInv, UNCHANGED <<head, chain, cursor, scan, starts, kind>>, events' \in [Bets -> SUBSET Names],
         \A b \in Bets : events[b] \subseteq events'[b]
  PROVE  IndexInv'
<1>1. TypeOK'
  BY DEF IndexInv, TypeOK
<1>2. \A s \in Sources : Stored(Covered(s), cursor[s])'
  BY SameKinds DEF IndexInv, Stored
<1>3. \A w \in Writers : RangeInHand(w)'
  BY SameKinds DEF IndexInv, RangeInHand, Stored
<1> QED BY <1>1, <1>2, <1>3 DEF IndexInv

LEMMA ReportKeeps ==
  ASSUME IndexInv, NEW b \in Bets, Report(b)
  PROVE  IndexInv'
<1>1. UNCHANGED <<head, chain, cursor, scan, starts, kind>>
  BY DEF Report
<1>2. PICK batch \in SUBSET Names : events' = [events EXCEPT ![b] = @ \cup batch]
  BY DEF Report, Emitted
<1>3. events' \in [Bets -> SUBSET Names] /\ \A a \in Bets : events[a] \subseteq events'[a]
  BY <1>2 DEF IndexInv, TypeOK
<1> QED BY <1>1, <1>3, MoreEvents

ScanType == [last : 0..head, from : 1..(head + 1), to : 0..head, todo : SUBSET Names]

\* One scan moves; the others see at most more events.
LEMMA OneMoves ==
  ASSUME IndexInv, UNCHANGED <<head, chain, kind>>, NEW w \in Writers, scan' \in [Writers -> ScanType],
         \A v \in Writers \ {w} : scan'[v] = scan[v],
         events' \in [Bets -> SUBSET Names], \A b \in Bets : events[b] \subseteq events'[b],
         RangeInHand(w)', cursor' \in [Sources -> 0..head],
         \A s \in Sources : Stored(Covered(s), cursor[s])', starts' \in 0..MaxStarts
  PROVE  IndexInv'
<1>1. TypeOK'
  BY DEF IndexInv, TypeOK, ScanType
<1>2. ASSUME NEW v \in Writers \ {w} PROVE RangeInHand(v)'
  BY SameKinds, <1>2 DEF RangeInHand, Stored, IndexInv
<1> QED BY <1>1, <1>2 DEF IndexInv

LEMMA ScanFacts ==
  ASSUME IndexInv, NEW w \in Writers
  PROVE  /\ scan[w].last \in Nat /\ scan[w].to \in Nat /\ scan[w].todo \in SUBSET Names
         /\ scan[w].last <= scan[w].to /\ scan[w].to <= head /\ head \in Nat
         /\ cursor \in [Sources -> 0..head] /\ starts \in 0..MaxStarts
BY BoundsAssumption DEF IndexInv, TypeOK, RangeInHand

LEMMA ScanTyping ==
  ASSUME IndexInv
  PROVE  /\ scan \in [Writers -> ScanType]
         /\ events \in [Bets -> SUBSET Names]
BY DEF IndexInv, TypeOK, ScanType

LEMMA ScanStored ==
  ASSUME IndexInv, NEW w \in Writers
  PROVE  /\ \A s \in Sources : Stored(Covered(s), cursor[s])
         /\ Stored(CursorNames(w), scan[w].last)
         /\ Stored(CursorNames(w), cursor[Source(w)])
BY CoveredFacts DEF IndexInv, RangeInHand, CursorNames

LEMMA ScanBeginKeeps ==
  ASSUME IndexInv, NEW w \in Writers, ScanBegin(w)
  PROVE  IndexInv'
<1> DEFINE from == RangeStart(w)
           to == RangeEnd(from)
           found == {n \in Read(w) : \E b \in Bets : chain[b][n] \in from..to}
<1>1. /\ from \in 1..(head + 1) /\ scan[w].last < from /\ from <= head
      /\ "late" \notin kind[w] => from = scan[w].last + 1
  BY ScanFacts DEF ScanBegin, RangeStart
<1> HIDE DEF from
<1>2. to \in 0..head /\ from <= to
  BY <1>1, ScanFacts, BoundsAssumption DEF RangeEnd
<1>3. \A b \in Bets, n \in Read(w) : chain[b][n] \in from..to => n \in found
  OBVIOUS
<1>4. found \in SUBSET Names
  BY CoveredFacts
<1>5. /\ scan' = [scan EXCEPT ![w].from = from, ![w].to = to, ![w].todo = found]
      /\ UNCHANGED <<head, chain, events, cursor, starts, kind>>
  BY DEF ScanBegin, from
<1> HIDE DEF to, found
<1>6. /\ scan' \in [Writers -> ScanType] /\ \A v \in Writers \ {w} : scan'[v] = scan[v]
      /\ scan'[w].last = scan[w].last /\ scan'[w].from = from
      /\ scan'[w].to = to /\ scan'[w].todo = found
  BY <1>1, <1>2, <1>4, <1>5, ScanTyping DEF ScanType
<1>7. Stored(CursorNames(w), scan[w].last)' /\ \A s \in Sources : Stored(Covered(s), cursor[s])'
  BY SameKinds, <1>5, <1>6, ScanStored DEF Stored
<1>8. ASSUME NEW b \in Bets, NEW n \in CursorNames(w), chain[b][n] \in (scan[w].last + 1)..to
      PROVE  n \in found
  <2>1. "late" \notin kind[w] /\ n \in Read(w)
    BY CoveredFacts
  <2> QED BY <1>1, <1>3, <1>8, <2>1
<1>9. RangeInHand(w)'
  <2>1. scan[w].last <= to
    BY <1>1, <1>2, ScanFacts
  <2> QED BY SameKinds, <1>1, <1>5, <1>6, <1>7, <1>8, <2>1 DEF RangeInHand
<1> QED BY <1>5, <1>6, <1>7, <1>9, ScanFacts, ScanTyping, OneMoves

LEMMA ScanWriteKeeps ==
  ASSUME IndexInv, NEW w \in Writers, NEW n \in Names, ScanWrite(w, n)
  PROVE  IndexInv'
<1>1. /\ scan' = [scan EXCEPT ![w].todo = @ \ {n}]
      /\ UNCHANGED <<head, chain, cursor, starts, kind>>
  BY DEF ScanWrite
<1>2. /\ scan' \in [Writers -> ScanType] /\ \A v \in Writers \ {w} : scan'[v] = scan[v]
      /\ scan'[w].last = scan[w].last /\ scan'[w].from = scan[w].from /\ scan'[w].to = scan[w].to
      /\ scan'[w].todo = scan[w].todo \ {n}
  BY <1>1, ScanTyping DEF ScanType
<1>3. /\ events' \in [Bets -> SUBSET Names]
      /\ \A b \in Bets : events[b] \subseteq events'[b]
      /\ \A b \in Ranged(w, n) : n \in events'[b]
  BY ScanTyping DEF ScanWrite, Ranged
<1>4. ASSUME NEW b \in Bets, NEW m \in CursorNames(w), chain[b][m] \in (scan[w].last + 1)..scan[w].to
      PROVE  m \in events'[b] \cup (scan[w].todo \ {n})
  <2>1. m \in events[b] \cup scan[w].todo
    BY <1>4 DEF IndexInv, RangeInHand
  <2>2. scan[w].from = scan[w].last + 1
    BY CoveredFacts DEF IndexInv, RangeInHand
  <2>3. m = n => b \in Ranged(w, n)
    BY <1>4, <2>2 DEF Ranged
  <2> QED BY <1>3, <2>1, <2>3
<1>5. Stored(CursorNames(w), scan[w].last)' /\ \A s \in Sources : Stored(Covered(s), cursor[s])'
  BY SameKinds, <1>1, <1>2, <1>3, ScanStored DEF Stored
<1>6. RangeInHand(w)'
  <2>1. scan[w].last <= scan[w].to /\ ("late" \notin kind[w] => scan[w].from = scan[w].last + 1)
    BY DEF IndexInv, RangeInHand
  <2> QED BY SameKinds, <1>1, <1>2, <1>4, <1>5, <2>1 DEF RangeInHand
<1> QED BY <1>1, <1>2, <1>3, <1>5, <1>6, ScanFacts, OneMoves

\* A scan that holds no range and rests at a block up to which all is stored that its cursor
\* stands for.
LEMMA RestKeeps ==
  ASSUME IndexInv, NEW w \in Writers, NEW k \in Nat, k <= head, Stored(CursorNames(w), k),
         scan' = [scan EXCEPT ![w] = Idle(k)], UNCHANGED <<head, chain, events, kind>>,
         cursor' = cursor \/ cursor' = [cursor EXCEPT ![Source(w)] = k], starts' \in 0..MaxStarts
  PROVE  IndexInv'
<1>1. /\ scan' \in [Writers -> ScanType] /\ \A v \in Writers \ {w} : scan'[v] = scan[v]
      /\ scan'[w].last = k /\ scan'[w].from = k + 1 /\ scan'[w].to = k
  BY ScanTyping, ScanFacts DEF ScanType, Idle
<1>2. cursor' \in [Sources -> 0..head]
  BY ScanFacts
<1>3. \A s \in Sources : cursor'[s] = cursor[s] \/ (cursor'[s] = k /\ s = Source(w))
  BY ScanFacts, CoveredFacts
<1>4. ASSUME NEW s \in Sources PROVE Stored(Covered(s), cursor[s])'
  <2>1. CASE cursor'[s] = cursor[s]
    BY SameKinds, <2>1, ScanStored DEF Stored
  <2>2. CASE cursor'[s] = k /\ s = Source(w)
    BY SameKinds, <2>2 DEF Stored, CursorNames
  <2> QED BY <1>3, <2>1, <2>2
<1>5. Stored(CursorNames(w), scan[w].last)' /\ (k + 1)..k = {}
  BY SameKinds, <1>1 DEF Stored
<1>6. RangeInHand(w)'
  BY <1>1, <1>5 DEF RangeInHand
<1> QED BY <1>1, <1>2, <1>4, <1>6, ScanTyping, OneMoves

\* The whole range of the scan is stored when its cursor is saved.
LEMMA ScanCursorKeeps ==
  ASSUME IndexInv, NEW w \in Writers, ScanCursor(w)
  PROVE  IndexInv'
<1>1. Stored(CursorNames(w), scan[w].to)
  <2>1. ASSUME NEW b \in Bets, NEW n \in CursorNames(w), chain[b][n] \in 1..scan[w].to
        PROVE  n \in events[b]
    <3>1. chain[b][n] \in 1..scan[w].last \/ chain[b][n] \in (scan[w].last + 1)..scan[w].to
      BY <2>1, ScanFacts
    <3> QED BY <2>1, <3>1 DEF IndexInv, RangeInHand, Stored, ScanCursor
  <2> QED BY <2>1 DEF Stored
<1>2. /\ scan' = [scan EXCEPT ![w] = Idle(scan[w].to)]
      /\ UNCHANGED <<head, chain, events, starts, kind>>
  BY ScanTyping DEF ScanCursor
<1>3. cursor' = cursor \/ cursor' = [cursor EXCEPT ![Source(w)] = scan[w].to]
  BY ScanFacts, CoveredFacts DEF ScanCursor, Advanced, Greater
<1>4. scan[w].to \in Nat /\ scan[w].to <= head /\ starts' \in 0..MaxStarts
  BY <1>2, ScanFacts
<1> QED BY <1>1, <1>2, <1>3, <1>4, RestKeeps

LEMMA ScanFailKeeps ==
  ASSUME IndexInv, NEW w \in Writers, ScanFail(w)
  PROVE  IndexInv'
<1>1. /\ scan' = [scan EXCEPT ![w] = Idle(scan[w].last)]
      /\ UNCHANGED <<head, chain, events, cursor, starts, kind>>
  BY ScanTyping DEF ScanFail
<1>2. /\ scan[w].last \in Nat /\ scan[w].last <= head /\ Stored(CursorNames(w), scan[w].last)
      /\ starts' \in 0..MaxStarts
  BY <1>1, ScanFacts, ScanStored
<1> QED BY <1>1, <1>2, RestKeeps

LEMMA StartKeeps ==
  ASSUME IndexInv, NEW w \in Writers, Start(w)
  PROVE  IndexInv'
<1>1. PICK k \in {0, cursor[Source(w)]} \cup (IF "late" \in kind[w] THEN 0..head ELSE {}) :
         scan' = [scan EXCEPT ![w] = Idle(k)]
  BY DEF Start
<1>2. Stored(CursorNames(w), 0)
  BY DEF Stored
<1>3. cursor[Source(w)] \in 0..head /\ head \in Nat
  BY ScanFacts, CoveredFacts
<1>4. k \in Nat /\ k <= head
  BY <1>1, <1>3
<1>5. Stored(CursorNames(w), k)
  <2>1. CASE "late" \in kind[w]
    BY <2>1, CoveredFacts DEF Stored
  <2>2. CASE "late" \notin kind[w]
    BY <1>1, <1>2, <2>2, ScanStored
  <2> QED BY <2>1, <2>2
<1>6. starts' \in 0..MaxStarts
  BY ScanFacts, BoundsAssumption DEF Start
<1> QED BY <1>1, <1>4, <1>5, <1>6, RestKeeps DEF Start

LEMMA IndexStep ==
  ASSUME IndexInv, [Next]_vars
  PROVE  IndexInv'
<1>1. ASSUME NEW b \in Bets, Materialize(b) PROVE IndexInv'
  BY <1>1, MoreEvents DEF Materialize, IndexInv, TypeOK
<1>2. CASE UNCHANGED vars
  BY <1>2, MoreEvents DEF vars, IndexInv, TypeOK
<1> QED BY <1>1, <1>2, MineKeeps, MineEmptyKeeps, ReportKeeps, ScanBeginKeeps, ScanWriteKeeps, ScanCursorKeeps,
           ScanFailKeeps, StartKeeps DEF Next, Scan

LEMMA IndexInductive == Spec => []IndexInv
<1>1. IndexInv /\ [Next]_vars => IndexInv'
  BY IndexStep
<1> QED BY <1>1, IndexInit, PTL DEF Spec

\* No process and no cursor is ever ahead of the chain.
THEOREM IndexTypes == Spec => []TypeOK
<1>1. IndexInv => TypeOK
  BY DEF IndexInv
<1> QED BY <1>1, IndexInductive, PTL

\* Behind a cursor no event it stands for is missing, however many processes scan, fail and
\* start: all of them behind the cursor of the history, and behind `gamehub-events' those that
\* every process which moves it reads from the first bet on (writeBetIndexRange, setCursor).
THEOREM CursorSkipsNoEvent == Spec => []CursorCoversEvents
<1>1. IndexInv => CursorCoversEvents
  <2> SUFFICES ASSUME IndexInv, NEW s \in Sources, NEW b \in Bets, NEW n \in Emitted(b) \cap Covered(s),
                      chain[b][n] <= cursor[s]
               PROVE  n \in events[b]
    BY DEF CursorCoversEvents
  <2>1. n \in Names /\ chain[b][n] > 0 /\ chain[b][n] \in Nat
    BY IndexTyping DEF Emitted, IndexInv
  <2>2. chain[b][n] \in 1..cursor[s]
    BY <2>1, IndexTyping DEF IndexInv
  <2> QED BY <2>1, <2>2 DEF IndexInv, Stored
<1> QED BY <1>1, IndexInductive, PTL

-----------------------------------------------------------------------------
(* The rows.  A row tells the last of the events that were written: its    *)
(* name, its block and the state it leads to; events have ranks, by which  *)
(* every write keeps the greater of two.                                   *)

\* The last event of a set, in the order of block and log index.
Before(b, n, m) ==
    \/ chain[b][n] < chain[b][m]
    \/ chain[b][n] = chain[b][m] /\ Order(n) < Order(m)
LastOf(b, S) == CHOOSE n \in S : \A m \in S \ {n} : Before(b, m, n)

\* The recursive function of Fold.
IsFold(step, row, b, batch) ==
    step = [S \in SUBSET batch |->
              IF S = {} THEN row
              ELSE Applied(step[S \ {LastOf(b, S)}], LastOf(b, S), chain[b][LastOf(b, S)])]

Rank(n) == IF n = "BetPlaced" THEN 1 ELSE IF n = "BetRandomReady" THEN 2 ELSE 3

RowStates == {"none", "placed", "randomReady"} \cup TerminalStates
Known == {"stake", "placedBlock", "payout", "refund", "terminalTx"}
RowType == [state : RowStates, block : Nat, last : {"none"} \cup Names, known : SUBSET Known]

\* What the hub emits of a bet: its result after its placement, one end after both.
Shape(b) ==
    /\ chain[b] \in [Names -> Nat]
    /\ \A n \in Emitted(b) \ {"BetPlaced"} : chain[b]["BetPlaced"] \in 1..(chain[b][n] - 1)
    /\ \A n, m \in Emitted(b) \cap TerminalNames : n = m
    /\ \A n \in Emitted(b) \cap TerminalNames : chain[b]["BetRandomReady"] <= chain[b][n]

\* A row that tells an event of its bet.
Tells(b, row) ==
    /\ row \in RowType
    /\ row.last \in Emitted(b)
    /\ row.state = StateOf(row.last)
    /\ row.block = chain[b][row.last]

\* Events, row and row of the memory store of a bet: nothing stored outranks what is told.
RowOf(b, stored, row, mirror) ==
    /\ row = NoRow \/ Tells(b, row)
    /\ mirror = NoRow \/ Tells(b, mirror)
    /\ mirror.last = row.last
    /\ stored \subseteq Emitted(b)
    /\ \A n \in stored : row # NoRow /\ Rank(n) <= Rank(row.last)
    /\ UNION {Fields(n) : n \in stored} \subseteq row.known
    /\ row.known \subseteq UNION {Fields(n) : n \in Emitted(b)}

RowInv(b) == Shape(b) /\ RowOf(b, events[b], rows[b], twin[b])

RowsInv ==
    /\ rows \in [Bets -> RowType] /\ twin \in [Bets -> RowType]
    /\ \A b \in Bets : RowInv(b)

LEMMA NameTable ==
  ASSUME NEW n \in Names
  PROVE  /\ Rank(n) \in 1..3 /\ Order(n) \in 1..5 /\ Fields(n) \in SUBSET Known
         /\ StateOf(n) \in RowStates \ {"none"} /\ Reduced("placed", n) = StateOf(n)
         /\ (Rank(n) = 3) <=> (n \in TerminalNames)
         /\ (StateOf(n) \in TerminalStates) <=> (n \in TerminalNames)
         /\ n # "none"
<1>1. CASE n = "BetPlaced"
  BY <1>1 DEF TerminalNames, TerminalStates, Rank, Order, Fields, StateOf, Reduced, RowStates, Known
<1>2. CASE n = "BetRandomReady"
  BY <1>2 DEF TerminalNames, TerminalStates, Rank, Order, Fields, StateOf, Reduced, RowStates, Known
<1>3. CASE n = "BetFinalized"
  BY <1>3 DEF TerminalNames, TerminalStates, Rank, Order, Fields, StateOf, Reduced, RowStates, Known
<1>4. CASE n = "BetRefunded"
  BY <1>4 DEF TerminalNames, TerminalStates, Rank, Order, Fields, StateOf, Reduced, RowStates, Known
<1>5. CASE n = "BetVoided"
  BY <1>5 DEF TerminalNames, TerminalStates, Rank, Order, Fields, StateOf, Reduced, RowStates, Known
<1> QED BY <1>1, <1>2, <1>3, <1>4, <1>5 DEF Names

LEMMA RankTable ==
  ASSUME NEW n \in Names, NEW m \in Names
  PROVE  /\ Rank(n) < Rank(m) => Order(n) < Order(m)
         /\ Rank(n) = Rank(m) => n = m \/ {n, m} \subseteq TerminalNames
         /\ Order(n) = Order(m) => n = m
<1>1. n \in {"BetPlaced", "BetRandomReady", "BetFinalized", "BetRefunded", "BetVoided"}
      /\ m \in {"BetPlaced", "BetRandomReady", "BetFinalized", "BetRefunded", "BetVoided"}
  BY DEF Names
<1>2. Rank(n) < Rank(m) => Order(n) < Order(m)
  BY <1>1 DEF Rank, Order
<1>3. Rank(n) = Rank(m) => n = m \/ {n, m} \subseteq TerminalNames
  BY <1>1 DEF Rank, TerminalNames
<1>4. Order(n) = Order(m) => n = m
  BY <1>1 DEF Order
<1> QED BY <1>2, <1>3, <1>4

LEMMA ReducedTable ==
  ASSUME NEW l \in Names, NEW n \in Names
  PROVE  Reduced(StateOf(l), n) =
            IF n \in TerminalNames \/ (n = "BetRandomReady" /\ l \notin TerminalNames)
            THEN StateOf(n) ELSE StateOf(l)
BY DEF Names, TerminalNames, TerminalStates, StateOf, Reduced

\* Emitted events by their ranks.
LEMMA RanksOf ==
  ASSUME NEW b, Shape(b), NEW n \in Emitted(b), NEW m \in Emitted(b)
  PROVE  /\ n \in Names /\ m \in Names /\ chain[b][n] \in Nat /\ chain[b][m] \in Nat
         /\ Rank(n) = Rank(m) => n = m
         /\ Rank(n) < Rank(m) => /\ chain[b][n] <= chain[b][m] /\ Before(b, n, m) /\ ~Before(b, m, n)
                                 /\ m \notin TerminalNames => chain[b][n] < chain[b][m]
                                 /\ n = "BetPlaced" => chain[b][n] < chain[b][m]
                                 /\ n \notin TerminalNames
<1>1. n \in Names /\ m \in Names /\ chain[b][n] \in Nat /\ chain[b][m] \in Nat
  BY DEF Emitted, Shape
<1>2. Rank(n) = Rank(m) => n = m
  BY <1>1, RankTable DEF Shape
<1>3. ASSUME Rank(n) < Rank(m)
      PROVE  /\ chain[b][n] <= chain[b][m]
             /\ m \notin TerminalNames => chain[b][n] < chain[b][m]
             /\ n = "BetPlaced" => chain[b][n] < chain[b][m]
             /\ n \notin TerminalNames
  <2>1. n \in {"BetPlaced", "BetRandomReady"} /\ m # "BetPlaced"
    BY <1>1, <1>3 DEF Names, Rank
  <2>2. n = "BetPlaced" => chain[b][n] < chain[b][m]
    BY <1>1, <2>1 DEF Shape
  <2>3. n = "BetRandomReady" => m \in TerminalNames
    BY <1>1, <1>3 DEF Names, Rank, TerminalNames
  <2>4. n = "BetRandomReady" => chain[b][n] <= chain[b][m]
    BY <1>1, <2>3 DEF Shape
  <2>5. n \notin TerminalNames
    BY <2>1 DEF TerminalNames
  <2> QED BY <1>1, <2>1, <2>2, <2>3, <2>4, <2>5
<1>4. ASSUME Rank(n) < Rank(m) PROVE Before(b, n, m) /\ ~Before(b, m, n)
  BY <1>1, <1>3, <1>4, NameTable, RankTable DEF Before
<1> QED BY <1>1, <1>2, <1>3, <1>4

LEMMA LastOfEmitted ==
  ASSUME NEW b, Shape(b), NEW T \in SUBSET Emitted(b), T # {}
  PROVE  LastOf(b, T) \in T /\ \A m \in T : Rank(m) <= Rank(LastOf(b, T))
<1>1. T \subseteq Names
  BY DEF Emitted
<1>2. \E n \in T : \A m \in T : Rank(m) <= Rank(n)
  <2>1. CASE \E n \in T : Rank(n) = 3
    BY <1>1, <2>1, NameTable
  <2>2. CASE ~(\E n \in T : Rank(n) = 3) /\ \E n \in T : Rank(n) = 2
    BY <1>1, <2>2, NameTable DEF Rank
  <2>3. CASE \A n \in T : Rank(n) # 3 /\ Rank(n) # 2
    BY <1>1, <2>3, NameTable DEF Rank
  <2> QED BY <2>1, <2>2, <2>3
<1>3. PICK n \in T : \A m \in T : Rank(m) <= Rank(n)
  BY <1>2
<1>4. \A m \in T \ {n} : Before(b, m, n)
  <2> TAKE m \in T \ {n}
  <2>1. m \in Emitted(b) /\ n \in Emitted(b) /\ Rank(m) <= Rank(n) /\ m # n
    BY <1>3
  <2>2. Rank(m) # Rank(n)
    BY <2>1, RanksOf
  <2>3. Rank(m) < Rank(n)
    BY <1>1, <2>1, <2>2, NameTable
  <2> QED BY <2>1, <2>3, RanksOf
<1>5. LastOf(b, T) \in T /\ \A m \in T \ {LastOf(b, T)} : Before(b, m, LastOf(b, T))
  BY <1>4 DEF LastOf
<1> DEFINE x == LastOf(b, T)
<1> HIDE DEF x
<1>6. x \in T /\ \A m \in T \ {x} : Before(b, m, x)
  BY <1>5 DEF x
<1>7. ASSUME NEW m \in T PROVE Rank(m) <= Rank(x)
  <2>1. m \in Emitted(b) /\ x \in Emitted(b) /\ m \in Names /\ x \in Names
    BY <1>1, <1>6
  <2>2. ~(Rank(x) < Rank(m))
    BY <1>6, <2>1, RanksOf
  <2>3. Rank(m) \in Int /\ Rank(x) \in Int
    BY <2>1, NameTable
  <2> QED BY <2>2, <2>3
<1> QED BY <1>6, <1>7 DEF x

\* The row told of an event and a row that may tell another.
Told(b, row, n, r) ==
    /\ Tells(b, r)
    /\ r.last = IF row = NoRow \/ Rank(row.last) <= Rank(n) THEN n ELSE row.last

\* One event on a row: the greater rank is told, the fields add up.
LEMMA AppliedTells ==
  ASSUME NEW b, Shape(b), NEW row, row = NoRow \/ Tells(b, row), NEW n \in Emitted(b)
  PROVE  /\ Told(b, row, n, Applied(row, n, chain[b][n]))
         /\ Applied(row, n, chain[b][n]).known = row.known \cup Fields(n)
<1> DEFINE prev == IF row = NoRow THEN [NoRow EXCEPT !.state = "placed", !.block = chain[b][n]] ELSE row
           latest == chain[b][n] >= prev.block /\ (prev.state \in TerminalStates => n \in TerminalNames)
           r == Applied(row, n, chain[b][n])
<1>1. r = [state |-> Reduced(prev.state, n), block |-> Greater(prev.block, chain[b][n]),
           last |-> IF latest THEN n ELSE prev.last, known |-> prev.known \cup Fields(n)]
  BY DEF Applied
<1>2. n \in Names /\ chain[b][n] \in Nat /\ Fields(n) \in SUBSET Known
  BY NameTable DEF Emitted, Shape
<1>3. CASE row = NoRow
  <2>1. prev.state = "placed" /\ prev.block = chain[b][n] /\ prev.known = {} /\ row.known = {}
    BY <1>3 DEF NoRow
  <2>2. latest
    BY <1>2, <2>1 DEF TerminalStates
  <2> HIDE DEF prev, latest
  <2>3. r = [state |-> StateOf(n), block |-> chain[b][n], last |-> n, known |-> Fields(n)]
    BY <1>1, <1>2, <2>1, <2>2, NameTable DEF Greater
  <2>4. StateOf(n) \in RowStates
    BY <1>2, NameTable
  <2> HIDE DEF r
  <2>5. r \in RowType
    BY <1>2, <2>3, <2>4 DEF RowType
  <2>6. r.last = n /\ r.state = StateOf(n) /\ r.block = chain[b][n] /\ r.known = row.known \cup Fields(n)
    BY <2>1, <2>3
  <2>7. Tells(b, r)
    BY <2>5, <2>6 DEF Tells
  <2> QED BY <1>3, <2>6, <2>7 DEF r, Told
<1>4. CASE row # NoRow
  <2> DEFINE l == row.last
  <2>1. /\ Tells(b, row) /\ prev = row /\ l \in Emitted(b) /\ l \in Names
        /\ row.state = StateOf(l) /\ row.block = chain[b][l] /\ row.block \in Nat /\ row.known \in SUBSET Known
    BY <1>4 DEF Tells, RowType, Emitted
  <2>2. /\ Rank(l) \in 1..3 /\ Rank(n) \in 1..3
        /\ StateOf(l) \in TerminalStates <=> l \in TerminalNames
    BY <1>2, <2>1, NameTable
  <2> HIDE DEF prev, latest, l
  <2>3. CASE Rank(l) <= Rank(n)
    <3>1. chain[b][l] <= chain[b][n] /\ (l \in TerminalNames => n \in TerminalNames)
      <4>1. CASE Rank(l) = Rank(n)
        BY <2>1, <1>2, <4>1, RanksOf
      <4>2. CASE Rank(l) < Rank(n)
        BY <2>1, <1>2, <4>2, RanksOf
      <4> QED BY <2>2, <2>3, <4>1, <4>2
    <3>2. latest
      BY <1>2, <2>1, <2>2, <3>1 DEF latest
    <3>3. Reduced(StateOf(l), n) = StateOf(n)
      <4>1. CASE l = n
        BY <1>2, <4>1, ReducedTable
      <4>2. CASE l # n
        <5>1. Rank(l) < Rank(n)
          BY <2>1, <2>2, <2>3, <4>2, RanksOf
        <5>2. n \in TerminalNames \/ (n = "BetRandomReady" /\ l \notin TerminalNames)
          BY <1>2, <2>1, <5>1, RanksOf DEF Rank, Names, TerminalNames
        <5> QED BY <1>2, <2>1, <5>2, ReducedTable
      <4> QED BY <4>1, <4>2
    <3>4. r = [state |-> StateOf(n), block |-> chain[b][n], last |-> n, known |-> row.known \cup Fields(n)]
      BY <1>1, <1>2, <2>1, <3>1, <3>2, <3>3 DEF Greater
    <3>5. StateOf(n) \in RowStates
      BY <1>2, NameTable
    <3> HIDE DEF r
    <3>6. r \in RowType /\ r.last = n /\ r.state = StateOf(n) /\ r.block = chain[b][n]
          /\ r.known = row.known \cup Fields(n)
      BY <1>2, <2>1, <3>4, <3>5 DEF RowType
    <3> QED BY <1>4, <2>3, <3>6 DEF r, l, Tells, Told
  <2>4. CASE ~(Rank(l) <= Rank(n))
    <3>0. Rank(n) < Rank(l)
      BY <2>2, <2>4
    <3>1. /\ chain[b][n] <= chain[b][l] /\ n \notin TerminalNames
          /\ l \in TerminalNames \/ chain[b][n] < chain[b][l]
      BY <2>1, <3>0, RanksOf
    <3>2. ~latest
      BY <1>2, <2>1, <2>2, <3>1 DEF latest
    <3>3. Reduced(StateOf(l), n) = StateOf(l)
      <4>1. ~(n = "BetRandomReady" /\ l \notin TerminalNames)
        BY <2>1, <3>0 DEF Rank, Names, TerminalNames
      <4> QED BY <1>2, <2>1, <3>1, <4>1, ReducedTable
    <3>4. r = [state |-> StateOf(l), block |-> chain[b][l], last |-> l, known |-> row.known \cup Fields(n)]
      BY <1>1, <1>2, <2>1, <3>1, <3>2, <3>3 DEF Greater, l
    <3>5. StateOf(l) \in RowStates
      BY <2>1, NameTable
    <3> HIDE DEF r
    <3>6. r \in RowType /\ r.last = l /\ r.state = StateOf(l) /\ r.block = chain[b][l]
          /\ r.known = row.known \cup Fields(n)
      BY <1>2, <2>1, <3>4, <3>5 DEF RowType
    <3> QED BY <1>4, <2>1, <2>4, <3>6 DEF r, l, Tells, Told
  <2> QED BY <2>3, <2>4
<1> QED BY <1>3, <1>4

LEMMA NoRowFacts == /\ NoRow \in RowType /\ NoRow.state = "none" /\ NoRow.last = "none" /\ NoRow.known = {}
                    /\ \A b, row : Tells(b, row) => row # NoRow /\ row.last # "none" /\ row.last \in Names
<1>1. NoRow \in RowType /\ NoRow.state = "none" /\ NoRow.last = "none" /\ NoRow.known = {}
  BY DEF NoRow, RowType, RowStates
<1>2. \A b, row : Tells(b, row) => row.last \in Names
  BY DEF Tells, Emitted
<1> QED BY <1>1, <1>2 DEF Names

LEMMA AppliedTyped ==
  ASSUME NEW b, Shape(b), NEW row \in RowType, NEW n \in Emitted(b)
  PROVE  Applied(row, n, chain[b][n]) \in RowType
<1>1. n \in Names /\ chain[b][n] \in Nat /\ Fields(n) \in SUBSET Known
  BY NameTable DEF Emitted, Shape
<1> DEFINE prev == IF row = NoRow THEN [NoRow EXCEPT !.state = "placed", !.block = chain[b][n]] ELSE row
<1>2. prev.state \in RowStates /\ prev.block \in Nat /\ prev.last \in {"none"} \cup Names /\ prev.known \in SUBSET Known
  <2>1. CASE row = NoRow
    BY <1>1, <2>1 DEF NoRow, RowStates
  <2>2. CASE row # NoRow
    BY <2>2 DEF RowType
  <2> QED BY <2>1, <2>2
<1>3. Reduced(prev.state, n) \in RowStates
  <2> HIDE DEF prev
  <2> QED BY <1>1, <1>2 DEF Reduced, RowStates, TerminalStates, Names
<1>4. Greater(prev.block, chain[b][n]) \in Nat
  BY <1>1, <1>2 DEF Greater
<1> DEFINE latest == chain[b][n] >= prev.block /\ (prev.state \in TerminalStates => n \in TerminalNames)
<1>5. Applied(row, n, chain[b][n]) =
        [state |-> Reduced(prev.state, n), block |-> Greater(prev.block, chain[b][n]),
         last |-> IF latest THEN n ELSE prev.last, known |-> prev.known \cup Fields(n)]
  BY DEF Applied
<1> HIDE DEF prev, latest
<1> QED BY <1>1, <1>2, <1>3, <1>4, <1>5 DEF RowType

LEMMA EmittedFinite == \A b : \A batch \in SUBSET Emitted(b) : IsFiniteSet(batch)
<1>1. IsFiniteSet({}) /\ IsFiniteSet({} \cup {"BetPlaced"})
  BY FS_EmptySet, FS_AddElement
<1>2. IsFiniteSet({} \cup {"BetPlaced"} \cup {"BetRandomReady"})
  BY <1>1, FS_AddElement
<1>3. IsFiniteSet({} \cup {"BetPlaced"} \cup {"BetRandomReady"} \cup {"BetFinalized"})
  BY <1>2, FS_AddElement
<1>4. IsFiniteSet({} \cup {"BetPlaced"} \cup {"BetRandomReady"} \cup {"BetFinalized"} \cup {"BetRefunded"})
  BY <1>3, FS_AddElement
<1>5. IsFiniteSet({} \cup {"BetPlaced"} \cup {"BetRandomReady"} \cup {"BetFinalized"} \cup {"BetRefunded"}
                     \cup {"BetVoided"})
  BY <1>4, FS_AddElement
<1>6. {} \cup {"BetPlaced"} \cup {"BetRandomReady"} \cup {"BetFinalized"} \cup {"BetRefunded"} \cup {"BetVoided"}
      = Names
  BY DEF Names
<1> QED BY <1>5, <1>6, FS_Subset DEF Emitted

\* A fold is the value of a function that satisfies the equation of its recursion.
LEMMA FoldEquation ==
  ASSUME NEW b, Shape(b), NEW row \in RowType, NEW batch \in SUBSET Emitted(b)
  PROVE  \E step : IsFold(step, row, b, batch) /\ Fold(row, b, batch) = step[batch]
<1> DEFINE G == [n \in batch |-> [v \in RowType |-> Applied(v, n, chain[b][n])]]
           c == [T \in SUBSET batch |-> LastOf(b, T)]
<1>1. IsFiniteSet(batch)
  BY EmittedFinite
<1>2. G \in [batch -> [RowType -> RowType]]
  BY AppliedTyped
<1>3. \A T \in SUBSET batch : T # {} => c[T] \in T
  BY LastOfEmitted
<1>4. PICK g \in [SUBSET batch -> RowType] :
         \A T \in SUBSET batch : g[T] = IF T = {} THEN row ELSE G[c[T]][g[T \ {c[T]}]]
  <2> HIDE DEF G, c
  <2>1. FoldGiven(batch, RowType, row, G, c)
    BY <1>1, <1>2, <1>3 DEF FoldGiven
  <2>2. PICK g : IsFoldOf(g, batch, RowType, row, G, c)
    BY <2>1, FoldExists
  <2> QED BY <2>2 DEF IsFoldOf
<1>5. ASSUME NEW T \in SUBSET batch
      PROVE  g[T] = IF T = {} THEN row ELSE Applied(g[T \ {LastOf(b, T)}], LastOf(b, T), chain[b][LastOf(b, T)])
  <2>1. CASE T = {}
    BY <1>4, <2>1
  <2>2. CASE T # {}
    <3> DEFINE x == LastOf(b, T)
               U == T \ {x}
    <3>1. c[T] = x /\ x \in batch /\ U \in SUBSET batch
      BY <1>3, <2>2
    <3>2. g[T] = G[c[T]][g[T \ {c[T]}]]
      <4> HIDE DEF G, c, x, U
      <4> QED BY <1>4, <2>2
    <3>3. g[T] = G[x][g[U]]
      <4> HIDE DEF G, c, x
      <4> QED BY <3>1, <3>2
    <3>4. g[U] \in RowType
      BY <1>4, <3>1
    <3>5. G[x][g[U]] = Applied(g[U], x, chain[b][x])
      <4> HIDE DEF x, U
      <4> QED BY <3>1, <3>4
    <3> HIDE DEF G, c
    <3> QED BY <2>2, <3>3, <3>5
  <2> QED BY <2>1, <2>2
<1>6. IsFold(g, row, b, batch)
  <2>1. g = [T \in SUBSET batch |-> g[T]]
    BY <1>4
  <2> DEFINE h == [T \in SUBSET batch |->
              IF T = {} THEN row
              ELSE Applied(g[T \ {LastOf(b, T)}], LastOf(b, T), chain[b][LastOf(b, T)])]
  <2>2. g = h
    BY <1>5, <2>1
  <2> QED BY <2>2 DEF IsFold
<1>7. Fold(row, b, batch) = (CHOOSE step : IsFold(step, row, b, batch))[batch]
  BY DEF Fold, IsFold, LastOf, Before
<1> HIDE DEF G, c
<1>8. IsFold(CHOOSE step : IsFold(step, row, b, batch), row, b, batch)
  BY <1>6
<1> QED BY <1>7, <1>8

\* A batch on a row: its last event against the row's.
LEMMA FoldTells ==
  ASSUME NEW b, Shape(b), NEW row, row = NoRow \/ Tells(b, row),
         NEW batch \in SUBSET Emitted(b), batch # {}
  PROVE  /\ Told(b, row, LastOf(b, batch), Fold(row, b, batch))
         /\ Fold(row, b, batch).known = row.known \cup UNION {Fields(n) : n \in batch}
<1>0. row \in RowType
  BY NoRowFacts DEF Tells
<1>1. PICK step : IsFold(step, row, b, batch) /\ Fold(row, b, batch) = step[batch]
  BY <1>0, FoldEquation
<1>2. \A T \in SUBSET batch :
         step[T] = IF T = {} THEN row
                   ELSE Applied(step[T \ {LastOf(b, T)}], LastOf(b, T), chain[b][LastOf(b, T)])
  BY <1>1 DEF IsFold
<1> DEFINE Good(T) == /\ Told(b, row, LastOf(b, T), step[T])
                      /\ step[T].known = row.known \cup UNION {Fields(n) : n \in T}
           P == {T \in SUBSET batch : T # {} => Good(T)}
<1>3. ASSUME NEW T \in SUBSET batch, \A x \in T : T \ {x} \in P
      PROVE  T \in P
  <2> SUFFICES ASSUME T # {} PROVE Good(T)
    OBVIOUS
  <2> DEFINE x == LastOf(b, T)
             U == T \ {x}
             r == step[U]
  <2>1. /\ x \in T /\ x \in Emitted(b) /\ x \in Names /\ \A m \in T : Rank(m) <= Rank(x)
        /\ U \in SUBSET batch /\ U \in SUBSET Emitted(b)
    BY LastOfEmitted DEF Emitted
  <2>2. step[T] = Applied(r, x, chain[b][x])
    BY <1>2
  <2>3. /\ r = NoRow \/ Tells(b, r)
        /\ r.known = row.known \cup UNION {Fields(n) : n \in U}
        /\ U # {} => Told(b, row, LastOf(b, U), r)
    <3>1. CASE U = {}
      <4>1. r = row
        BY <1>2, <3>1
      <4>2. UNION {Fields(n) : n \in U} = {}
        BY <3>1
      <4> HIDE DEF x, U, r
      <4> QED BY <3>1, <4>1, <4>2
    <3>2. CASE U # {}
      <4>1. U \in P
        BY <1>3, <2>1
      <4>2. Good(U)
        <5> HIDE DEF Good, U
        <5> QED BY <3>2, <4>1
      <4> QED BY <4>2 DEF Told
    <3> QED BY <3>1, <3>2
  <2>a. U = {} => r = row
    BY <1>2
  <2>b. U # {} => LastOf(b, U) \in U /\ LastOf(b, U) \in T /\ LastOf(b, U) \in Names
    BY <2>1, LastOfEmitted DEF Emitted
  <2>c. UNION {Fields(n) : n \in T} = (UNION {Fields(n) : n \in U}) \cup Fields(x)
    BY <2>1
  <2> HIDE DEF x, U, r
  <2>4. /\ Tells(b, step[T])
        /\ step[T].last = IF r = NoRow \/ Rank(r.last) <= Rank(x) THEN x ELSE r.last
        /\ step[T].known = r.known \cup Fields(x)
    <3>1. /\ Told(b, r, x, Applied(r, x, chain[b][x]))
          /\ Applied(r, x, chain[b][x]).known = r.known \cup Fields(x)
      BY <2>1, <2>3, AppliedTells
    <3> QED BY <2>2, <3>1 DEF Told
  <2>5. step[T].known = row.known \cup UNION {Fields(n) : n \in T}
    BY <2>3, <2>4, <2>c
  <2>6. step[T].last = IF row = NoRow \/ Rank(row.last) <= Rank(x) THEN x ELSE row.last
    <3>1. CASE U = {}
      BY <2>4, <2>a, <3>1
    <3>2. CASE U # {}
      <4> DEFINE y == LastOf(b, U)
      <4>1. /\ y \in Names /\ Rank(y) <= Rank(x) /\ Tells(b, r)
            /\ r.last = IF row = NoRow \/ Rank(row.last) <= Rank(y) THEN y ELSE row.last
        BY <2>1, <2>3, <2>b, <3>2 DEF Told
      <4>2. Rank(y) \in Int /\ Rank(x) \in Int
        BY <2>1, <4>1, NameTable
      <4>3. row # NoRow => Rank(row.last) \in Int
        BY NoRowFacts, NameTable
      <4>4. r # NoRow
        BY <4>1, NoRowFacts
      <4> HIDE DEF y
      <4>5. CASE row = NoRow
        BY <2>4, <4>1, <4>5
      <4>6. CASE row # NoRow
        BY <2>4, <4>1, <4>2, <4>3, <4>4, <4>6
      <4> QED BY <4>5, <4>6
    <3> QED BY <3>1, <3>2
  <2> QED BY <2>4, <2>5, <2>6 DEF Told, x
<1>4. batch \in P
  <2>1. IsFiniteSet(batch)
    BY EmittedFinite
  <2> HIDE DEF P
  <2>2. SUBSET batch \subseteq P
    BY <1>3, <2>1, SubsetInduction
  <2> QED BY <2>2
<1> QED BY <1>1, <1>4


\* Two rows of a bet.
LEMMA UpsertedTells ==
  ASSUME NEW b, Shape(b), NEW old, old = NoRow \/ Tells(b, old), NEW new, Tells(b, new)
  PROVE  /\ Told(b, old, new.last, Upserted(old, new))
         /\ Upserted(old, new).known = old.known \cup new.known
<1> DEFINE r == Upserted(old, new)
           m == new.last
<1>1. /\ m \in Emitted(b) /\ m \in Names /\ new.state = StateOf(m) /\ new.block = chain[b][m]
      /\ new.block \in Nat /\ new.known \in SUBSET Known /\ new.state \in RowStates
      /\ new \in RowType /\ ((new.state \in TerminalStates) <=> (m \in TerminalNames))
      /\ Rank(m) \in 1..3
  BY NameTable, NoRowFacts DEF Tells, RowType
<1>2. CASE old = NoRow
  BY <1>2, NoRowFacts DEF Upserted, Told
<1>3. CASE old # NoRow
  <2> DEFINE l == old.last
             wins == new.block >= old.block /\ (old.state \in TerminalStates => new.state \in TerminalStates)
  <2>1. /\ l \in Emitted(b) /\ l \in Names /\ old.state = StateOf(l) /\ old.block = chain[b][l]
        /\ old.block \in Nat /\ old.known \in SUBSET Known /\ old.state \in RowStates
        /\ (old.state \in TerminalStates) <=> (l \in TerminalNames)
        /\ Rank(l) \in 1..3
    BY <1>3, NameTable, NoRowFacts DEF Tells, RowType
  <2>2. r = [state |-> IF wins THEN new.state ELSE old.state, block |-> Greater(old.block, new.block),
             last |-> IF wins THEN new.last ELSE old.last, known |-> old.known \cup new.known]
    BY <1>3 DEF Upserted
  <2> HIDE DEF r, m, l, wins
  <2>3. CASE Rank(l) <= Rank(m)
    <3>1. chain[b][l] <= chain[b][m] /\ (l \in TerminalNames => m \in TerminalNames)
      <4>1. CASE Rank(l) = Rank(m)
        BY <1>1, <2>1, <4>1, RanksOf
      <4>2. CASE Rank(l) < Rank(m)
        BY <1>1, <2>1, <4>2, RanksOf
      <4> QED BY <1>1, <2>1, <2>3, <4>1, <4>2
    <3>2. wins
      BY <1>1, <2>1, <3>1 DEF wins
    <3>3. r = [state |-> new.state, block |-> new.block, last |-> m, known |-> old.known \cup new.known]
      <4>1. Greater(old.block, new.block) = new.block
        BY <1>1, <2>1, <3>1 DEF Greater
      <4> QED BY <2>2, <3>2, <4>1 DEF m
    <3>4. r \in RowType /\ r.last = m /\ r.state = StateOf(m) /\ r.block = chain[b][m]
          /\ r.known = old.known \cup new.known
      BY <1>1, <2>1, <3>3 DEF RowType
    <3> QED BY <1>1, <2>3, <3>4 DEF r, m, l, Tells, Told
  <2>4. CASE ~(Rank(l) <= Rank(m))
    <3>0. Rank(m) < Rank(l)
      BY <1>1, <2>1, <2>4
    <3>1. /\ chain[b][m] <= chain[b][l] /\ m \notin TerminalNames
          /\ l \in TerminalNames \/ chain[b][m] < chain[b][l]
      BY <1>1, <2>1, <3>0, RanksOf
    <3>2. ~wins
      BY <1>1, <2>1, <3>1 DEF wins
    <3>3. r = [state |-> old.state, block |-> old.block, last |-> l, known |-> old.known \cup new.known]
      BY <1>1, <2>1, <2>2, <3>1, <3>2 DEF Greater, l
    <3>4. r \in RowType /\ r.last = l /\ r.state = StateOf(l) /\ r.block = chain[b][l]
          /\ r.known = old.known \cup new.known
      BY <1>1, <2>1, <3>3 DEF RowType
    <3> QED BY <1>3, <2>1, <2>4, <3>4 DEF r, m, l, Tells, Told
  <2> QED BY <2>3, <2>4
<1> QED BY <1>2, <1>3

\* The receipt tells the end of the bet.
LEMMA ReceiptTells ==
  ASSUME NEW b, Shape(b), Over(b)
  PROVE  /\ Tells(b, ReceiptRow(b)) /\ Rank(ReceiptRow(b).last) = 3
         /\ ReceiptRow(b).known \subseteq UNION {Fields(n) : n \in Emitted(b)}
<1> DEFINE n == CHOOSE n \in Emitted(b) : n \in TerminalNames
<1>1. n \in Emitted(b) /\ n \in TerminalNames /\ n \in Names /\ chain[b][n] \in Nat
  BY DEF Over, Emitted, Shape
<1>2. ReceiptRow(b) = [state |-> Reduced("placed", n), block |-> chain[b][n], last |-> n,
                       known |-> Fields(n) \cup {"stake"}]
  BY DEF ReceiptRow
<1> HIDE DEF n
<1>3. /\ Rank(n) = 3 /\ Reduced("placed", n) = StateOf(n) /\ StateOf(n) \in RowStates
      /\ Fields(n) \in SUBSET Known /\ n # "BetPlaced"
  BY <1>1, NameTable DEF TerminalNames
<1>4. "BetPlaced" \in Emitted(b)
  BY <1>1, <1>3 DEF Shape, Emitted, Names
<1>5. "stake" \in Fields("BetPlaced") /\ "stake" \in Known
  BY DEF Fields, Known
<1> QED BY <1>1, <1>2, <1>3, <1>4, <1>5 DEF Tells, RowType

\* A batch reaches both stores.
LEMMA MergeKeeps ==
  ASSUME NEW b, RowInv(b), NEW batch \in SUBSET Emitted(b), batch # {}
  PROVE  /\ RowOf(b, events[b] \cup batch, Merged(b, batch), Kept(b, batch))
         /\ \E n \in Emitted(b) : Told(b, rows[b], n, Merged(b, batch))
<1> DEFINE row == rows[b]
           mirror == twin[b]
           n == LastOf(b, batch)
           f == Fold(NoRow, b, batch)
           r == Merged(b, batch)
           t == Kept(b, batch)
<1>1. /\ Shape(b) /\ (row = NoRow \/ Tells(b, row))
      /\ mirror = NoRow \/ Tells(b, mirror)
      /\ mirror.last = row.last
      /\ events[b] \subseteq Emitted(b)
      /\ \A k \in events[b] : row # NoRow /\ Rank(k) <= Rank(row.last)
      /\ UNION {Fields(k) : k \in events[b]} \subseteq row.known
      /\ row.known \subseteq UNION {Fields(k) : k \in Emitted(b)}
  BY DEF RowInv, RowOf
<1>2. n \in batch /\ \A k \in batch : Rank(k) <= Rank(n)
  BY <1>1, LastOfEmitted
<1>3. Told(b, NoRow, n, f) /\ f.known = {} \cup UNION {Fields(k) : k \in batch}
  BY <1>1, FoldTells, NoRowFacts
<1>4. Tells(b, f) /\ f.last = n
  BY <1>3 DEF Told
<1>5. Told(b, row, n, r) /\ r.known = row.known \cup f.known
  BY <1>1, <1>4, UpsertedTells DEF Merged
<1>6. Told(b, mirror, n, t)
  BY <1>1, FoldTells DEF Kept
<1> HIDE DEF row, mirror, n, f, r, t
<1>7. (row = NoRow) <=> (mirror = NoRow)
  BY <1>1, NoRowFacts
<1>8. Tells(b, r) /\ Tells(b, t) /\ t.last = r.last /\ r # NoRow
  BY <1>1, <1>5, <1>6, <1>7, NoRowFacts DEF Told
<1>9. ASSUME NEW k \in events[b] \cup batch PROVE Rank(k) <= Rank(r.last)
  <2>1. k \in Names /\ n \in Names /\ (row # NoRow => row.last \in Names)
    BY <1>1, <1>2, NoRowFacts DEF Emitted
  <2>2. Rank(k) \in Int /\ Rank(n) \in Int /\ (row # NoRow => Rank(row.last) \in Int)
    BY <2>1, NameTable
  <2>3. r.last = IF row = NoRow \/ Rank(row.last) <= Rank(n) THEN n ELSE row.last
    BY <1>5 DEF Told
  <2>4. CASE k \in batch
    BY <1>2, <2>2, <2>3, <2>4
  <2>5. CASE k \in events[b]
    BY <1>1, <2>2, <2>3, <2>5
  <2> QED BY <2>4, <2>5
<1>10. UNION {Fields(k) : k \in events[b] \cup batch} \subseteq r.known
  BY <1>1, <1>3, <1>5
<1>11. r.known \subseteq UNION {Fields(k) : k \in Emitted(b)}
  BY <1>1, <1>3, <1>5
<1>12. RowOf(b, events[b] \cup batch, r, t)
  BY <1>1, <1>8, <1>9, <1>10, <1>11 DEF RowOf
<1>13. n \in Emitted(b) /\ Told(b, row, n, r)
  BY <1>2, <1>5
<1> QED BY <1>12, <1>13 DEF r, t, row

\* A receipt reaches both stores.
LEMMA ReceiptKeeps ==
  ASSUME NEW b, RowInv(b), Over(b)
  PROVE  /\ RowOf(b, events[b], Upserted(rows[b], ReceiptRow(b)), ReceiptRow(b))
         /\ \E n \in Emitted(b) : Told(b, rows[b], n, Upserted(rows[b], ReceiptRow(b)))
<1> DEFINE row == rows[b]
           t == ReceiptRow(b)
           n == t.last
           r == Upserted(row, t)
<1>1. /\ Shape(b) /\ (row = NoRow \/ Tells(b, row))
      /\ events[b] \subseteq Emitted(b)
      /\ \A k \in events[b] : row # NoRow /\ Rank(k) <= Rank(row.last)
      /\ UNION {Fields(k) : k \in events[b]} \subseteq row.known
      /\ row.known \subseteq UNION {Fields(k) : k \in Emitted(b)}
  BY DEF RowInv, RowOf
<1>2. Tells(b, t) /\ Rank(n) = 3 /\ t.known \subseteq UNION {Fields(k) : k \in Emitted(b)}
  BY <1>1, ReceiptTells
<1>3. Told(b, row, n, r) /\ r.known = row.known \cup t.known
  BY <1>1, <1>2, UpsertedTells
<1>4. n \in Emitted(b)
  BY <1>2 DEF Tells
<1> HIDE DEF row, t, r, n
<1>5. r.last = n /\ Tells(b, r) /\ r # NoRow
  <2>1. row # NoRow => Rank(row.last) \in 1..3
    BY <1>1, NoRowFacts, NameTable
  <2> QED BY <1>2, <1>3, <2>1, NoRowFacts DEF Told
<1>6. \A k \in events[b] : Rank(k) <= Rank(r.last)
  <2>1. \A k \in events[b] : Rank(k) \in 1..3
    BY <1>1, NameTable DEF Emitted
  <2> QED BY <1>2, <1>5, <2>1
<1>7. UNION {Fields(k) : k \in events[b]} \subseteq r.known
  BY <1>1, <1>3
<1>8. r.known \subseteq UNION {Fields(k) : k \in Emitted(b)}
  BY <1>1, <1>2, <1>3
<1>9. RowOf(b, events[b], r, t)
  BY <1>1, <1>2, <1>5, <1>6, <1>7, <1>8 DEF RowOf, n
<1> QED BY <1>3, <1>4, <1>9 DEF r, t, row


\* What a step does to the row of a bet: nothing, or it tells of one more event.
RowStep(b) == rows'[b] = rows[b] \/ \E n \in Emitted(b) : Told(b, rows[b], n, rows'[b])

\* A step that leaves the chain alone.
LEMMA SameChain ==
  ASSUME NEW b, chain' = chain, Shape(b), RowOf(b, events'[b], rows'[b], twin'[b])
  PROVE  RowInv(b)'
BY DEF RowInv, RowOf, Shape, Tells, Emitted

LEMMA RowTyped ==
  ASSUME NEW b, NEW stored, NEW row, NEW mirror, RowOf(b, stored, row, mirror)
  PROVE  row \in RowType /\ mirror \in RowType
BY NoRowFacts DEF RowOf, Tells

LEMMA ReportRows ==
  ASSUME IndexInv, RowsInv, NEW b \in Bets, Report(b)
  PROVE  RowsInv' /\ \A a \in Bets : RowStep(a)
<1>1. PICK batch \in (SUBSET Emitted(b)) \ {{}} :
         /\ events' = [events EXCEPT ![b] = @ \cup batch]
         /\ rows' = [rows EXCEPT ![b] = Merged(b, batch)]
         /\ twin' = [twin EXCEPT ![b] = Kept(b, batch)]
  BY DEF Report
<1>2. chain' = chain /\ RowInv(b) /\ Shape(b)
  BY DEF Report, RowsInv, RowInv
<1>3. /\ RowOf(b, events[b] \cup batch, Merged(b, batch), Kept(b, batch))
      /\ \E n \in Emitted(b) : Told(b, rows[b], n, Merged(b, batch))
  BY <1>2, MergeKeeps
<1>4. Merged(b, batch) \in RowType /\ Kept(b, batch) \in RowType
  BY <1>3, RowTyped
<1>5. /\ rows \in [Bets -> RowType] /\ twin \in [Bets -> RowType] /\ events \in [Bets -> SUBSET Names]
  BY ScanTyping DEF RowsInv
<1>6. /\ rows' \in [Bets -> RowType] /\ twin' \in [Bets -> RowType]
      /\ rows'[b] = Merged(b, batch) /\ twin'[b] = Kept(b, batch) /\ events'[b] = events[b] \cup batch
      /\ \A a \in Bets \ {b} : rows'[a] = rows[a] /\ twin'[a] = twin[a] /\ events'[a] = events[a]
  BY <1>1, <1>4, <1>5
<1>7. RowInv(b)'
  BY <1>2, <1>3, <1>6, SameChain
<1>8. \A a \in Bets \ {b} : RowInv(a)'
  BY <1>2, <1>6, SameChain DEF RowsInv, RowInv
<1> QED BY <1>3, <1>6, <1>7, <1>8 DEF RowsInv, RowStep

LEMMA MaterializeRows ==
  ASSUME IndexInv, RowsInv, NEW b \in Bets, Materialize(b)
  PROVE  RowsInv' /\ \A a \in Bets : RowStep(a)
<1> DEFINE r == Upserted(rows[b], ReceiptRow(b))
<1>1. /\ rows' = [rows EXCEPT ![b] = r] /\ twin' = [twin EXCEPT ![b] = ReceiptRow(b)]
      /\ events' = events /\ chain' = chain /\ Over(b)
  BY DEF Materialize, RowsInv
<1>2. RowInv(b) /\ Shape(b)
  BY DEF RowsInv, RowInv
<1>3. RowOf(b, events[b], r, ReceiptRow(b)) /\ \E n \in Emitted(b) : Told(b, rows[b], n, r)
  BY <1>1, <1>2, ReceiptKeeps
<1>4. r \in RowType /\ ReceiptRow(b) \in RowType
  BY <1>3, RowTyped
<1> HIDE DEF r
<1>5. /\ rows' \in [Bets -> RowType] /\ twin' \in [Bets -> RowType]
      /\ rows'[b] = r /\ twin'[b] = ReceiptRow(b) /\ events'[b] = events[b]
      /\ \A a \in Bets \ {b} : rows'[a] = rows[a] /\ twin'[a] = twin[a] /\ events'[a] = events[a]
  BY <1>1, <1>4 DEF RowsInv
<1>6. RowInv(b)'
  BY <1>1, <1>2, <1>3, <1>5, SameChain
<1>7. \A a \in Bets \ {b} : RowInv(a)'
  BY <1>1, <1>5, SameChain DEF RowsInv, RowInv
<1> QED BY <1>3, <1>5, <1>6, <1>7 DEF RowsInv, RowStep

LEMMA ScanWriteRows ==
  ASSUME IndexInv, RowsInv, NEW w \in Writers, NEW n \in Names, ScanWrite(w, n)
  PROVE  RowsInv' /\ \A a \in Bets : RowStep(a)
<1> DEFINE found == Ranged(w, n)
<1>1. /\ chain' = chain
      /\ events' = [b \in Bets |-> IF b \in found THEN events[b] \cup {n} ELSE events[b]]
      /\ rows' = [b \in Bets |-> IF b \in found THEN Merged(b, {n}) ELSE rows[b]]
      /\ twin' = [b \in Bets |-> IF b \in found THEN Kept(b, {n}) ELSE twin[b]]
  BY DEF ScanWrite
<1>2. \A b \in found : n \in Emitted(b)
  BY ScanFacts, IndexTyping DEF Ranged, Emitted, IndexInv
<1> HIDE DEF found
<1>3. ASSUME NEW b \in Bets
      PROVE  RowOf(b, events'[b], rows'[b], twin'[b]) /\ RowStep(b) /\ Shape(b)
  <2>1. RowInv(b) /\ Shape(b)
    BY DEF RowsInv, RowInv
  <2>2. CASE b \in found
    <3>1. /\ RowOf(b, events[b] \cup {n}, Merged(b, {n}), Kept(b, {n}))
          /\ \E m \in Emitted(b) : Told(b, rows[b], m, Merged(b, {n}))
      BY <1>2, <2>1, <2>2, MergeKeeps
    <3> QED BY <1>1, <2>1, <2>2, <3>1 DEF RowStep
  <2>3. CASE b \notin found
    BY <1>1, <2>1, <2>3 DEF RowInv, RowStep
  <2> QED BY <2>2, <2>3
<1>4. \A b \in Bets : RowInv(b)'
  BY <1>1, <1>3, SameChain
<1>5. rows' \in [Bets -> RowType] /\ twin' \in [Bets -> RowType]
  <2>1. \A b \in Bets : rows'[b] \in RowType /\ twin'[b] \in RowType
    BY <1>3, RowTyped
  <2>2. rows' = [b \in Bets |-> rows'[b]] /\ twin' = [b \in Bets |-> twin'[b]]
    BY <1>1
  <2> QED BY <2>1, <2>2
<1> QED BY <1>3, <1>4, <1>5 DEF RowsInv

\* A block: its events come after all that the bet has emitted.
LEMMA MineRows ==
  ASSUME IndexInv, RowsInv, NEW b \in Bets, Mine(b)
  PROVE  RowsInv' /\ \A a \in Bets : RowStep(a)
<1>1. head' = head + 1 /\ rows' = rows /\ twin' = twin /\ events' = events /\ head \in Nat
  BY IndexTyping DEF Mine, IndexInv
<1>2. PICK S \in NextEvents(b) :
         chain' = [chain EXCEPT ![b] = [n \in Names |-> IF n \in S THEN head' ELSE @[n]]]
  BY DEF Mine
<1>3. /\ \A a \in Bets \ {b} : chain'[a] = chain[a]
      /\ chain'[b] = [n \in Names |-> IF n \in S THEN head + 1 ELSE chain[b][n]]
      /\ \A n \in Names : chain[b][n] \in Nat /\ chain[b][n] <= head
  BY <1>1, <1>2, IndexTyping DEF IndexInv, TypeOK
<1>4. ASSUME NEW a \in Bets \ {b} PROVE RowInv(a)'
  <2>1. RowInv(a) /\ chain'[a] = chain[a]
    BY <1>3 DEF RowsInv
  <2> QED BY <1>1, <2>1 DEF RowInv, RowOf, Shape, Tells, Emitted
<1>5. RowInv(b) /\ Shape(b)
  BY DEF RowsInv, RowInv
<1>6. S \cap Emitted(b) = {} /\ S \subseteq Names
  BY <1>2 DEF NextEvents, Names
<1>7. /\ Emitted(b)' = Emitted(b) \cup S
      /\ \A n \in Emitted(b) : chain'[b][n] = chain[b][n]
      /\ \A n \in S : chain'[b][n] = head + 1
      /\ chain'[b] \in [Names -> Nat]
  BY <1>1, <1>3, <1>6 DEF Emitted
<1>8. Shape(b)'
  <2>1. \A n \in Names \ Emitted(b) : chain[b][n] = 0
    BY <1>3 DEF Emitted
  <2>2. CASE Emitted(b) = {} /\ S = {"BetPlaced"}
    <3>1. Emitted(b)' = {"BetPlaced"}
      BY <1>7, <2>2
    <3> QED BY <1>7, <3>1 DEF Shape, TerminalNames
  <2>3. CASE Emitted(b) = {"BetPlaced"} /\ S = {"BetRefunded"}
    <3>1. Emitted(b)' = {"BetPlaced", "BetRefunded"} /\ chain'[b]["BetRefunded"] = head + 1
          /\ chain'[b]["BetPlaced"] \in 1..head /\ chain'[b]["BetRandomReady"] = 0
      BY <1>1, <1>3, <1>7, <2>1, <2>3 DEF Names, Emitted
    <3> QED BY <1>1, <1>7, <3>1 DEF Shape, TerminalNames
  <2>4. CASE Emitted(b) = {"BetPlaced"} /\ S \in {{"BetRandomReady"}, {"BetRandomReady", "BetFinalized"},
                                                   {"BetRandomReady", "BetVoided"}}
    <3>1. /\ Emitted(b)' \in {{"BetPlaced", "BetRandomReady"}, {"BetPlaced", "BetRandomReady", "BetFinalized"},
                               {"BetPlaced", "BetRandomReady", "BetVoided"}}
          /\ chain'[b]["BetRandomReady"] = head + 1
          /\ "BetFinalized" \in Emitted(b)' => chain'[b]["BetFinalized"] = head + 1
          /\ "BetVoided" \in Emitted(b)' => chain'[b]["BetVoided"] = head + 1
          /\ chain'[b]["BetPlaced"] \in 1..head
      BY <1>1, <1>3, <1>7, <2>4 DEF Names, Emitted
    <3> QED BY <1>1, <1>7, <3>1 DEF Shape, TerminalNames
  <2>5. CASE Emitted(b) = {"BetPlaced", "BetRandomReady"} /\ S \in {{"BetFinalized"}, {"BetVoided"}}
    <3>1. /\ Emitted(b)' = {"BetPlaced", "BetRandomReady"} \cup S
          /\ \A n \in S : chain'[b][n] = head + 1
          /\ chain'[b]["BetPlaced"] \in 1..(chain'[b]["BetRandomReady"] - 1)
          /\ chain'[b]["BetRandomReady"] \in 1..head
      BY <1>1, <1>3, <1>5, <1>7, <2>5 DEF Names, Emitted, Shape
    <3> QED BY <1>1, <1>7, <2>5, <3>1 DEF Shape, TerminalNames
  <2> QED BY <1>2, <2>2, <2>3, <2>4, <2>5 DEF NextEvents
<1>9. RowInv(b)'
  <2>1. RowOf(b, events[b], rows[b], twin[b])
    BY <1>5 DEF RowInv
  <2>2. ASSUME NEW row, Tells(b, row) PROVE Tells(b, row)'
    BY <1>7, <2>2 DEF Tells
  <2>3. RowOf(b, events[b], rows[b], twin[b])'
    BY <1>1, <1>7, <2>1, <2>2 DEF RowOf
  <2> QED BY <1>8, <2>3 DEF RowInv
<1> QED BY <1>1, <1>4, <1>9 DEF RowsInv, RowStep

LEMMA RowsStep ==
  ASSUME IndexInv, RowsInv, [Next]_vars
  PROVE  RowsInv' /\ \A a \in Bets : RowStep(a)
<1>1. ASSUME UNCHANGED <<chain, events, rows, twin>>
      PROVE  RowsInv' /\ \A a \in Bets : RowStep(a)
  <2>1. \A b \in Bets : RowInv(b)'
    BY <1>1, SameChain DEF RowsInv, RowInv
  <2> QED BY <1>1, <2>1 DEF RowsInv, RowStep
<1>2. ASSUME NEW w \in Writers, ScanBegin(w) \/ ScanCursor(w) \/ ScanFail(w) \/ Start(w)
      PROVE  UNCHANGED <<chain, events, rows, twin>>
  BY <1>2 DEF ScanBegin, ScanCursor, ScanFail, Start
<1>3. CASE UNCHANGED vars
  BY <1>1, <1>3 DEF vars
<1>4. CASE MineEmpty
  BY <1>1, <1>4 DEF MineEmpty
<1> QED BY <1>1, <1>2, <1>3, <1>4, MineRows, ReportRows, MaterializeRows, ScanWriteRows DEF Next, Scan

LEMMA RowsInit == Init => RowsInv
<1> SUFFICES ASSUME Init PROVE RowsInv
  OBVIOUS
<1>1. /\ rows = [b \in Bets |-> NoRow] /\ twin = [b \in Bets |-> NoRow]
      /\ events = [b \in Bets |-> {}] /\ chain = [b \in Bets |-> [n \in Names |-> 0]]
  BY DEF Init, NoChain
<1>2. ASSUME NEW b \in Bets PROVE RowInv(b)
  <2>1. Emitted(b) = {} /\ chain[b] = [n \in Names |-> 0]
    BY <1>1 DEF Emitted
  <2>2. Shape(b)
    BY <2>1 DEF Shape
  <2> QED BY <1>1, <2>2, NoRowFacts DEF RowInv, RowOf
<1> QED BY <1>1, <1>2, NoRowFacts DEF RowsInv

LEMMA RowsInductive == Spec => [](IndexInv /\ RowsInv)
<1>1. IndexInv /\ RowsInv /\ [Next]_vars => (IndexInv /\ RowsInv)'
  BY IndexStep, RowsStep
<1>2. Init => IndexInv /\ RowsInv
  BY IndexInit, RowsInit
<1> QED BY <1>1, <1>2, PTL DEF Spec

\* However the writes of several processes are ordered, repeated and grouped, the row of a
\* bet whose events are all stored is the bet of the chain, a stored end is in the row, and
\* the memory store agrees (upsertBetRow over foldBetIndexEvents).
THEOREM RowsAreTheBets == Spec => []RowsConverge
<1>1. RowsInv => RowsConverge
  <2> SUFFICES ASSUME RowsInv, NEW b \in Bets
               PROVE  /\ events[b] # {} /\ events[b] = Emitted(b) =>
                            rows[b] = [state |-> StateOf(LastName(b)), block |-> chain[b][LastName(b)],
                                       last |-> LastName(b), known |-> UNION {Fields(n) : n \in Emitted(b)}]
                      /\ events[b] \cap TerminalNames # {} => rows[b].state \in TerminalStates
                      /\ <<twin[b].state, twin[b].block, twin[b].last>>
                         = <<rows[b].state, rows[b].block, rows[b].last>>
    BY DEF RowsConverge
  <2>1. Shape(b) /\ RowOf(b, events[b], rows[b], twin[b])
    BY DEF RowsInv, RowInv
  <2>2. ASSUME events[b] # {}, events[b] = Emitted(b)
        PROVE  rows[b] = [state |-> StateOf(LastName(b)), block |-> chain[b][LastName(b)],
                          last |-> LastName(b), known |-> UNION {Fields(n) : n \in Emitted(b)}]
    <3> DEFINE l == rows[b].last
    <3>1. /\ Tells(b, rows[b]) /\ l \in Emitted(b) /\ l \in Names
          /\ \A n \in Emitted(b) : Rank(n) <= Rank(l)
      BY <2>1, <2>2, NoRowFacts DEF RowOf, Tells
    <3> HIDE DEF l
    <3>2. l = LastName(b)
      <4> DEFINE m == CHOOSE n \in Emitted(b) : n \in TerminalNames
      <4>1. CASE Over(b)
        <5>1. m \in Emitted(b) /\ m \in TerminalNames /\ m \in Names /\ LastName(b) = m
          BY <4>1 DEF Over, Emitted, LastName
        <5> HIDE DEF m
        <5>2. Rank(m) = 3 /\ Rank(l) \in 1..3
          BY <3>1, <5>1, NameTable
        <5>3. Rank(m) = Rank(l)
          BY <3>1, <5>1, <5>2
        <5> QED BY <2>1, <3>1, <5>1, <5>3, RanksOf
      <4>2. CASE ~Over(b) /\ "BetRandomReady" \in Emitted(b)
        <5>1. l \notin TerminalNames /\ LastName(b) = "BetRandomReady"
          BY <3>1, <4>2 DEF Over, LastName
        <5>2. Rank("BetRandomReady") <= Rank(l)
          BY <3>1, <4>2
        <5> QED BY <3>1, <5>1, <5>2 DEF Rank, Names, TerminalNames
      <4>3. CASE ~Over(b) /\ "BetRandomReady" \notin Emitted(b)
        BY <3>1, <4>3 DEF Over, LastName, Names, TerminalNames
      <4> QED BY <4>1, <4>2, <4>3
    <3>3. rows[b].known = UNION {Fields(n) : n \in Emitted(b)}
      BY <2>1, <2>2 DEF RowOf
    <3> QED BY <3>1, <3>2, <3>3 DEF Tells, RowType, l
  <2>3. ASSUME NEW n \in events[b], n \in TerminalNames
        PROVE  rows[b].state \in TerminalStates
    <3>1. /\ Tells(b, rows[b]) /\ Rank(n) <= Rank(rows[b].last) /\ n \in Names
          /\ rows[b].last \in Names /\ rows[b].state = StateOf(rows[b].last)
      BY <2>1, NoRowFacts DEF RowOf, Tells, Emitted
    <3>2. Rank(n) = 3 /\ Rank(rows[b].last) \in 1..3
      BY <2>3, <3>1, NameTable
    <3>3. Rank(rows[b].last) = 3
      BY <3>1, <3>2
    <3> QED BY <3>1, <3>3, NameTable
  <2>4. <<twin[b].state, twin[b].block, twin[b].last>> = <<rows[b].state, rows[b].block, rows[b].last>>
    BY <2>1, NoRowFacts DEF RowOf, Tells
  <2> QED BY <2>2, <2>3, <2>4
<1> QED BY <1>1, RowsInductive, PTL

\* No late or repeated event of any writer reopens the row of a bet that ended, or renames
\* its last event (upsertBetRow).
THEOREM EndsStayInTheRows == Spec => EndStays
<1>1. IndexInv /\ RowsInv /\ [Next]_vars =>
         [\A b \in Bets : rows[b].state \in TerminalStates =>
             rows'[b].state = rows[b].state /\ rows'[b].last = rows[b].last]_vars
  <2> SUFFICES ASSUME IndexInv, RowsInv, [Next]_vars, NEW b \in Bets, rows[b].state \in TerminalStates
               PROVE  rows'[b].state = rows[b].state /\ rows'[b].last = rows[b].last
    OBVIOUS
  <2>1. Shape(b) /\ RowOf(b, events[b], rows[b], twin[b]) /\ RowStep(b)
    BY RowsStep DEF RowsInv, RowInv
  <2>2. Tells(b, rows[b])
    BY <2>1, NoRowFacts DEF RowOf, TerminalStates
  <2> DEFINE l == rows[b].last
  <2>3. l \in Emitted(b) /\ l \in Names /\ rows[b].state = StateOf(l) /\ rows[b] # NoRow
    BY <2>2, NoRowFacts DEF Tells
  <2>4. Rank(l) = 3
    BY <2>3, NameTable
  <2>5. CASE rows'[b] # rows[b]
    <3>1. PICK n \in Emitted(b) : Told(b, rows[b], n, rows'[b])
      BY <2>1, <2>5 DEF RowStep
    <3>2. n \in Names /\ Rank(n) \in 1..3
      BY NameTable DEF Emitted
    <3>3. Tells(b, rows'[b]) /\ rows'[b].last = IF Rank(l) <= Rank(n) THEN n ELSE l
      BY <2>3, <3>1 DEF Told
    <3>4. Rank(l) <= Rank(n) => n = l
      BY <2>1, <2>3, <2>4, <3>2, RanksOf
    <3>5. rows'[b].last = l
      BY <3>3, <3>4
    <3> QED BY <2>3, <3>3, <3>5 DEF Tells
  <2> QED BY <2>5
<1> QED BY <1>1, RowsInductive, PTL DEF Spec, EndStays

================================================================================
