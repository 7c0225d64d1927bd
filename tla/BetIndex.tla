------------------------------ MODULE BetIndex ------------------------------
(***************************************************************************)
(* The read model of the bets (packages/bet-index): one row per bet, folded*)
(* from the GameHub events, the events themselves, and the cursors of the  *)
(* scans.  Several processes write the same database and none of them      *)
(* knows of the others: keepers that scan ranges of blocks, sockets that   *)
(* report single events late, twice or never, the backfill, and whoever    *)
(* materialises the receipt of a terminal transaction.                     *)
(*                                                                         *)
(* A keeper scans twice: for missed events (scanMissedEvents) and, when it *)
(* recovers bets, through the history (scanUnresolvedHistory).  These are  *)
(* two writers here, with a cursor for each kind.                          *)
(*                                                                         *)
(* A write of the store is one transaction.  `twin' is the memory store    *)
(* (createMemoryBetIndexStore) given the same writes.                      *)
(*                                                                         *)
(* Of a row the model keeps the state, the block and name of its last      *)
(* event and which of its fields are filled in: each is filled with the    *)
(* same value by every writer.  The chain below does not reorganise.       *)
(***************************************************************************)
EXTENDS Integers, FiniteSets

CONSTANTS
    Bets,
    Writers,        \* scans, of all processes
    Steady,         \* those of the history that go on
    Configurations, \* how scans are configured
    MaxBlock,       \* bound: blocks
    EarlyEmpty,     \* bound: are there blocks without an event before the bets end?
    ChunkBlocks,    \* scanChunkBlocks
    MaxStarts       \* bound: how often a process starts (again), all together

\* A scan of the history reads every name from the release on.  One for missed events does so
\* too, unless scanIndexEventsEnabled is off ("light"), or it has no start block or one after
\* the release ("late").  A process that is configured anew is another one.
Kinds == {{"history"}} \cup SUBSET {"light", "late"}

ASSUME BoundsAssumption ==
    /\ Steady \subseteq Writers /\ Configurations \subseteq Kinds
    /\ EarlyEmpty \in BOOLEAN
    /\ MaxBlock \in Nat /\ ChunkBlocks \in Nat \ {0} /\ MaxStarts \in Nat

VARIABLES
    head,           \* the last block
    chain,          \* block in which an event of a bet was emitted, 0: it was not
    \* the database
    events,         \* names of the stored events of a bet
    rows,
    cursor,         \* of each kind of scan
    \* processes
    scan,           \* where every scan is, and the names of its range it has yet to write
    starts,
    kind,           \* how every scan is configured; never changes
    twin            \* the rows of the memory store

vars == <<head, chain, events, rows, cursor, scan, starts, kind, twin>>

Names == {"BetPlaced", "BetRandomReady", "BetFinalized", "BetRefunded", "BetVoided"}
TerminalNames == {"BetFinalized", "BetRefunded", "BetVoided"}
TerminalStates == {"finalized", "refunded", "voided"}
\* GAME_HUB_INDEX_EVENTS in the order of the writes
Order(name) ==
    CASE name = "BetPlaced" -> 1 [] name = "BetRandomReady" -> 2 [] name = "BetFinalized" -> 3
      [] name = "BetRefunded" -> 4 [] name = "BetVoided" -> 5

Emitted(b) == {n \in Names : chain[b][n] > 0}
Over(b) == Emitted(b) \cap TerminalNames # {}

\* The cursor a scan moves; that of the history is named after its first block as well.
Sources == {"gamehub-events", "casino-open-bets"}
Source_Shared(w) == "gamehub-events"  \* faulty: one cursor for both
Source(w) == IF "history" \in kind[w] THEN "casino-open-bets" ELSE "gamehub-events"

\* The names a scan asks for and writes: after fewer it sets its cursor the same way.
Read(w) == IF "light" \in kind[w] THEN {"BetPlaced", "BetRandomReady"} ELSE Names

NoRow == [state |-> "none", block |-> 0, last |-> "none", known |-> {}]

-----------------------------------------------------------------------------
(* The row of a bet.                                                       *)

\* The fields an event fills in.  BetFinalized is written with the refund read from the
\* terminal record (enrichFinalizedBetEvents); an event that cannot be enriched is not written.
Fields(name) ==
    CASE name = "BetPlaced" -> {"stake", "placedBlock"}
      [] name = "BetRandomReady" -> {}
      [] name = "BetFinalized" -> {"payout", "refund", "terminalTx"}
      [] name = "BetRefunded" -> {"payout", "refund", "terminalTx"}
      [] name = "BetVoided" -> {"stake", "payout", "refund", "terminalTx"}

\* reduceState
Reduced(state, name) ==
    CASE name = "BetFinalized" -> "finalized"
      [] name = "BetRefunded" -> "refunded"
      [] name = "BetVoided" -> "voided"
      [] name = "BetRandomReady" /\ state \notin TerminalStates -> "randomReady"
      [] OTHER -> state

Greater(a, b) == IF a > b THEN a ELSE b

\* applyEventToBet: an older event, or an open one after the end, is not the latest.
Applied(row, name, block) ==
    LET prev == IF row = NoRow THEN [NoRow EXCEPT !.state = "placed", !.block = block] ELSE row
        latest == block >= prev.block /\ (prev.state \in TerminalStates => name \in TerminalNames)
    IN  [state |-> Reduced(prev.state, name), block |-> Greater(prev.block, block),
         last |-> IF latest THEN name ELSE prev.last,
         known |-> prev.known \cup Fields(name)]

\* A batch of events of one bet is applied in the order of block and log index.
Fold(row, b, batch) ==
    LET before(n, m) == \/ chain[b][n] < chain[b][m]
                        \/ chain[b][n] = chain[b][m] /\ Order(n) < Order(m)
        step[S \in SUBSET batch] ==
            IF S = {} THEN row
            ELSE LET n == CHOOSE n \in S : \A m \in S \ {n} : before(m, n)
                 IN  Applied(step[S \ {n}], n, chain[b][n])
    IN  step[batch]

\* upsertBetRow: the newer write sets state and last event, except that a terminal row
\* never returns to an open state.
Upserted_Reopened(old, new) ==  \* faulty: the newest write wins
    IF old = NoRow THEN new
    ELSE LET wins == new.block >= old.block
         IN  [state |-> IF wins THEN new.state ELSE old.state,
              block |-> Greater(old.block, new.block),
              last |-> IF wins THEN new.last ELSE old.last,
              known |-> old.known \cup new.known]
Upserted_Newer(old, new) ==  \* faulty: a write of the same block loses
    IF old = NoRow THEN new
    ELSE LET wins == /\ new.block > old.block
                     /\ old.state \in TerminalStates => new.state \in TerminalStates
         IN  [state |-> IF wins THEN new.state ELSE old.state,
              block |-> Greater(old.block, new.block),
              last |-> IF wins THEN new.last ELSE old.last,
              known |-> old.known \cup new.known]
Upserted(old, new) ==
    IF old = NoRow THEN new
    ELSE LET wins == /\ new.block >= old.block
                     /\ old.state \in TerminalStates => new.state \in TerminalStates
         IN  [state |-> IF wins THEN new.state ELSE old.state,
              block |-> Greater(old.block, new.block),
              last |-> IF wins THEN new.last ELSE old.last,
              known |-> old.known \cup new.known]

\* buildTerminalBetRow: what the receipt and the bet in the hub tell, no block of the placement.
ReceiptRow(b) ==
    LET n == CHOOSE n \in Emitted(b) : n \in TerminalNames
    IN  [state |-> Reduced("placed", n), block |-> chain[b][n], last |-> n,
         known |-> Fields(n) \cup {"stake"}]

-----------------------------------------------------------------------------
NoChain == [n \in Names |-> 0]
\* A scan at rest, which has scanned up to `last' (lastScannedBlock).
Idle(last) == [last |-> last, from |-> last + 1, to |-> last, todo |-> {}]

Init ==
    /\ head = 0 /\ chain = [b \in Bets |-> NoChain]
    /\ events = [b \in Bets |-> {}] /\ rows = [b \in Bets |-> NoRow]
    /\ cursor = [s \in Sources |-> 0]
    /\ scan = [w \in Writers |-> Idle(0)] /\ starts = 0
    /\ twin = [b \in Bets |-> NoRow]
    /\ kind \in [Writers -> Configurations] /\ \A w \in Steady : "history" \in kind[w]

\* What may happen to a bet in one block: the result comes in a later block than the bet (a
\* request waits for confirmations), and may be settled in its own.  voidBet records a result
\* the hub has not taken yet before it voids: both in one transaction.
NextEvents(b) ==
    CASE Emitted(b) = {} -> {{"BetPlaced"}}
      [] Emitted(b) = {"BetPlaced"} ->
            {{"BetRefunded"}, {"BetRandomReady"}, {"BetRandomReady", "BetFinalized"},
             {"BetRandomReady", "BetVoided"}}
      [] Emitted(b) = {"BetPlaced", "BetRandomReady"} -> {{"BetFinalized"}, {"BetVoided"}}
      [] OTHER -> {}

\* A block with events of a bet.
Mine(b) ==
    /\ head < MaxBlock /\ head' = head + 1
    /\ \E S \in NextEvents(b) :
          chain' = [chain EXCEPT ![b] = [n \in Names |-> IF n \in S THEN head' ELSE @[n]]]
    /\ UNCHANGED <<events, rows, cursor, scan, starts, twin, kind>>

\* A block without any.
MineEmpty ==
    /\ EarlyEmpty \/ \A b \in Bets : Over(b)
    /\ head < MaxBlock /\ head' = head + 1
    /\ UNCHANGED <<chain, events, rows, cursor, scan, starts, twin, kind>>

\* writeGameHubEvents for the events of one bet: the batch is folded and merged ...
Merged(b, batch) == Upserted(rows[b], Fold(NoRow, b, batch))
\* ... where the memory store applies event after event.
Kept(b, batch) == Fold(twin[b], b, batch)

\* A socket, or any other writer: whatever it has seen of the bet.
Report(b) ==
    /\ \E batch \in (SUBSET Emitted(b)) \ {{}} :
          /\ events' = [events EXCEPT ![b] = @ \cup batch]
          /\ rows' = [rows EXCEPT ![b] = Merged(b, batch)]
          /\ twin' = [twin EXCEPT ![b] = Kept(b, batch)]
    /\ UNCHANGED <<head, chain, cursor, scan, starts, kind>>

\* writeBetRows of a terminal receipt: the memory store replaces the row.
Materialize(b) ==
    /\ Over(b)
    /\ rows' = [rows EXCEPT ![b] = Upserted(@, ReceiptRow(b))]
    /\ twin' = [twin EXCEPT ![b] = ReceiptRow(b)]
    /\ UNCHANGED <<head, chain, events, cursor, scan, starts, kind>>

-----------------------------------------------------------------------------
(* A scan: the events of a range name by name, then the cursor.            *)

Ranged(w, name) ==
    {b \in Bets : chain[b][name] \in scan[w].from..scan[w].to}

\* splitBlockRange
RangeEnd(from) == IF from + ChunkBlocks - 1 < head THEN from + ChunkBlocks - 1 ELSE head

\* No block scanned: at the release, or without a start block at the latest one.
RangeStart(w) == IF "late" \in kind[w] /\ scan[w].last = 0 THEN head ELSE scan[w].last + 1

\* The logs of a range, and the names that are among them.
ScanBegin(w) ==
    LET from == RangeStart(w)
        to == RangeEnd(from)
        found == {n \in Read(w) : \E b \in Bets : chain[b][n] \in from..to}
    IN
    /\ scan[w].to = scan[w].last /\ head > scan[w].last
    /\ scan' = [scan EXCEPT ![w].from = from, ![w].to = to, ![w].todo = found]
    /\ UNCHANGED <<head, chain, events, rows, cursor, starts, twin, kind>>

ScanWrite(w, n) ==
    LET found == Ranged(w, n) IN
    /\ n \in scan[w].todo /\ \A m \in scan[w].todo : Order(n) <= Order(m)
    /\ events' = [b \in Bets |-> IF b \in found THEN events[b] \cup {n} ELSE events[b]]
    /\ rows' = [b \in Bets |-> IF b \in found THEN Merged(b, {n}) ELSE rows[b]]
    /\ twin' = [b \in Bets |-> IF b \in found THEN Kept(b, {n}) ELSE twin[b]]
    /\ scan' = [scan EXCEPT ![w].todo = @ \ {n}]
    /\ UNCHANGED <<head, chain, cursor, starts, kind>>

\* setCursor keeps the greatest.
Advanced(w, to) == [cursor EXCEPT ![Source(w)] = Greater(@, to)]

ScanCursor_Early(w) ==  \* faulty: the cursor does not wait for the events
    /\ scan[w].to > scan[w].last
    /\ cursor' = Advanced(w, scan[w].to)
    /\ scan' = [scan EXCEPT ![w] = Idle(@.to)]
    /\ UNCHANGED <<head, chain, events, rows, starts, twin, kind>>
ScanCursor(w) ==
    /\ scan[w].to > scan[w].last /\ scan[w].todo = {}
    /\ cursor' = Advanced(w, scan[w].to)
    /\ scan' = [scan EXCEPT ![w] = Idle(@.to)]
    /\ UNCHANGED <<head, chain, events, rows, starts, twin, kind>>

\* A read or a write fails: the range is scanned again.
ScanFail(w) ==
    /\ scan[w].to > scan[w].last
    /\ scan' = [scan EXCEPT ![w] = Idle(@.last)]
    /\ UNCHANGED <<head, chain, events, rows, cursor, starts, twin, kind>>

\* The process stops anywhere.  A keeper resumes at the cursor, or at its first block when
\* it cannot read the cursor; the backfill starts at the first block.  A configured start
\* block may be any, and is taken when it is ahead of the cursor.
Start(w) ==
    /\ starts < MaxStarts /\ starts' = starts + 1
    /\ \E last \in {0, cursor[Source(w)]} \cup (IF "late" \in kind[w] THEN 0..head ELSE {}) :
          scan' = [scan EXCEPT ![w] = Idle(last)]
    /\ UNCHANGED <<head, chain, events, rows, cursor, twin, kind>>

Scan(w) == ScanBegin(w) \/ ScanCursor(w) \/ \E n \in Names : ScanWrite(w, n)

Next ==
    \/ MineEmpty
    \/ \E b \in Bets : Mine(b) \/ Report(b) \/ Materialize(b)
    \/ \E w \in Writers : Scan(w) \/ ScanFail(w) \/ Start(w)

Spec == Init /\ [][Next]_vars

\* A steady process goes on, and no call of its scans fails for ever.
FairSpec ==
    /\ Spec
    /\ \A w \in Steady : WF_vars(ScanBegin(w)) /\ SF_vars(ScanCursor(w))
    /\ \A w \in Steady, n \in Names : SF_vars(ScanWrite(w, n))

-----------------------------------------------------------------------------
\* Every variable but the rows has its type, and no process is ahead of the chain.
TypeOK ==
    /\ head \in 0..MaxBlock /\ chain \in [Bets -> [Names -> 0..head]]
    /\ events \in [Bets -> SUBSET Names]
    /\ cursor \in [Sources -> 0..head]
    /\ scan \in [Writers -> [last : 0..head, from : 1..(head + 1), to : 0..head, todo : SUBSET Names]]
    /\ starts \in 0..MaxStarts /\ kind \in [Writers -> Kinds]

\* The last event of a bet on the chain.
LastName(b) ==
    IF Over(b) THEN CHOOSE n \in Emitted(b) : n \in TerminalNames
    ELSE IF "BetRandomReady" \in Emitted(b) THEN "BetRandomReady" ELSE "BetPlaced"

StateOf(name) ==
    CASE name = "BetPlaced" -> "placed" [] name = "BetRandomReady" -> "randomReady"
      [] name = "BetFinalized" -> "finalized" [] name = "BetRefunded" -> "refunded"
      [] name = "BetVoided" -> "voided"

\* Whatever the order, repetition and grouping of the writes: when all events of a bet are
\* stored, its row is the bet of the chain (upsertBetRow over foldBetIndexEvents); a bet that
\* getUnresolvedBetIds leaves out, because its terminal event is stored, has a row that says
\* so; and the memory store, which "mirrors upsertBetRow", agrees on state and last event.
RowsConverge ==
    \A b \in Bets :
        /\ events[b] # {} /\ events[b] = Emitted(b) =>
               rows[b] = [state |-> StateOf(LastName(b)), block |-> chain[b][LastName(b)],
                          last |-> LastName(b), known |-> UNION {Fields(n) : n \in Emitted(b)}]
        /\ events[b] \cap TerminalNames # {} => rows[b].state \in TerminalStates
        /\ <<twin[b].state, twin[b].block, twin[b].last>> = <<rows[b].state, rows[b].block, rows[b].last>>

\* The end of a bet stays: no late or repeated event of any writer reopens its row or
\* renames its last event (the comment of upsertBetRow).
EndStays ==
    [][\A b \in Bets : rows[b].state \in TerminalStates =>
          rows'[b].state = rows[b].state /\ rows'[b].last = rows[b].last]_vars

\* What a scan that moves a cursor to a block has stored up to there: the names it reads, or
\* nothing, when it may have begun after the first bet.
Guaranteed(w) == IF "late" \in kind[w] THEN {} ELSE Read(w)
\* What a cursor stands for: no more than each of the scans that move it.
Covered(s) == {n \in Names : \A w \in Writers : Source(w) = s => n \in Guaranteed(w)}

\* Behind a cursor no event it stands for is missing: a scan that resumes there skips none,
\* however many processes scan, fail and start (writeBetIndexRange, setCursor).  The cursor of
\* the history stands for all names; `gamehub-events' does only if every process that moves it
\* has scanIndexEventsEnabled and began before the first bet, and for the open events alone if
\* one has it off.  Only behind a cursor that stands for ends does RowsConverge give
\* requireFinancialCoverage the stake, payout and refund of every bet that is over.
CursorCoversEvents ==
    \A s \in Sources, b \in Bets : \A n \in Emitted(b) \cap Covered(s) :
        chain[b][n] <= cursor[s] => n \in events[b]

\* The end of every bet reaches the read model, with nothing but the scans to bring it, and
\* also where the only scan that goes on and reads ends is that of the history.
EveryEndIsIndexed ==
    \A b \in Bets : Over(b) ~> rows[b].state \in TerminalStates

=============================================================================
