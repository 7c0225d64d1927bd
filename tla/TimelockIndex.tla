---------------------------- MODULE TimelockIndex ----------------------------
(***************************************************************************)
(* The queue of the GovernanceTimelock as liquidity providers read it:     *)
(* keepers replay the finalized events of the timelock into the rows of    *)
(* governance_timelock_operations (packages/bet-index/src/governance.ts),  *)
(* each from its own place, and the web server answers from the rows and   *)
(* the cursor (queryGovernanceQueue).                                      *)
(*                                                                         *)
(* `log' is the finalized history of the timelock, one transaction to a    *)
(* block; the position of an event is its block.  The calls of a batch are *)
(* scheduled, executed and cancelled in one transaction each, and written  *)
(* in one: they are one row here.  Block time is the number of the block.  *)
(***************************************************************************)
EXTENDS Integers, Sequences, FiniteSets

CONSTANTS
    Operations,     \* operation ids
    Keepers,
    Steady,         \* those among them that scan on
    MaxLog,         \* bound: transactions of the timelock
    ChunkBlocks,    \* scanChunkBlocks
    Reading,        \* does anybody read the queue?
    MaxLosses       \* bound: how often a keeper forgets its place

ASSUME BoundsAssumption ==
    /\ Steady \subseteq Keepers
    /\ MaxLog \in Nat /\ ChunkBlocks \in Nat \ {0}
    /\ MaxLosses \in Nat /\ Reading \in BOOLEAN

VARIABLES
    log,            \* sequence of [op, kind]
    rows, cursor,   \* the database
    keeper,         \* `governance' of every keeper, and the range it is writing
    reached,        \* the last block any keeper has written (history)
    losses,
    reply           \* the answer the web server is putting together

timelockVars == <<log, rows, cursor, keeper, reached, losses, reply>>

None == 0
NoRow == [scheduled |-> None, executed |-> None, cancelled |-> None]

\* verified is FALSE while governance is undefined.
Undefined == [verified |-> FALSE, through |-> 0, to |-> 0, written |-> FALSE]
\* `from' and `at' are the cursor and the head when the rows were read (history).
NoReply == [ops |-> "unread", listed |-> {}, block |-> -1, from |-> 0, at |-> 0]

TimelockInit ==
    /\ log = <<>>
    /\ rows = [op \in Operations |-> NoRow] /\ cursor = 0 /\ reached = 0
    /\ keeper = [k \in Keepers |-> Undefined] /\ losses = 0
    /\ reply = NoReply

-----------------------------------------------------------------------------
(* The timelock.                                                           *)

\* What the timelock holds of an operation after its first `through' transactions.
Recorded(op, through) ==
    LET mine == {i \in 1..through : log[i].op = op}
        latest == CHOOSE i \in mine : \A j \in mine : j <= i
    IN  IF mine = {} THEN "unset"
        ELSE CASE log[latest].kind = "CallScheduled" -> "pending"
               [] log[latest].kind = "Cancelled" -> "unset"
               [] log[latest].kind = "CallExecuted" -> "done"

Emit(op, kind) ==
    /\ Len(log) < MaxLog
    /\ Recorded(op, Len(log)) = IF kind = "CallScheduled" THEN "unset" ELSE "pending"
    /\ log' = Append(log, [op |-> op, kind |-> kind])
    /\ UNCHANGED <<rows, cursor, keeper, reached, losses, reply>>

-----------------------------------------------------------------------------
(* writeGovernanceTimelockEvents: each statement looks at positions.       *)

\* A newer schedule of the same id replaces the row; marks not after it are cleared.
Scheduled_Kept(row, pos) ==  \* faulty: an id that has a row is not inserted again
    IF row.scheduled = None THEN [row EXCEPT !.scheduled = pos] ELSE row
Scheduled(row, pos) ==
    LET kept(mark) == IF mark > pos THEN mark ELSE None IN
    IF pos > row.scheduled
    THEN [scheduled |-> pos, executed |-> kept(row.executed), cancelled |-> kept(row.cancelled)]
    ELSE row

Executed(row, pos) ==
    IF row.scheduled # None /\ pos > row.scheduled /\ pos > row.executed
    THEN [row EXCEPT !.executed = pos] ELSE row

Cancelled_Unguarded(row, pos) ==  \* faulty: marks the schedule that came after it
    IF row.scheduled # None /\ pos > row.cancelled THEN [row EXCEPT !.cancelled = pos] ELSE row
Cancelled(row, pos) ==
    IF row.scheduled # None /\ pos > row.scheduled /\ pos > row.cancelled
    THEN [row EXCEPT !.cancelled = pos] ELSE row

Applied(row, i) ==
    CASE log[i].kind = "CallScheduled" -> Scheduled(row, i)
      [] log[i].kind = "CallExecuted" -> Executed(row, i)
      [] log[i].kind = "Cancelled" -> Cancelled(row, i)

\* The events of the blocks from..to in chain order.
Written(row, op, from, to) ==
    LET step[i \in (from - 1)..to] ==
            IF i = from - 1 THEN row
            ELSE IF log[i].op = op THEN Applied(step[i - 1], i) ELSE step[i - 1]
    IN  step[to]

\* governanceTimelockOperationState without the clock.
StateOf(row) ==
    CASE row.scheduled = None -> "unset"
      [] row.executed # None -> "executed"
      [] row.executed = None /\ row.cancelled # None -> "cancelled"
      [] OTHER -> "pending"

-----------------------------------------------------------------------------
(* scanGovernanceTimelock.                                                 *)

\* The governance of the contracts is the timelock: begin at the cursor.
Verify(k) ==
    /\ ~keeper[k].verified
    /\ keeper' = [keeper EXCEPT ![k] = [verified |-> TRUE, through |-> cursor, to |-> cursor,
                                        written |-> FALSE]]
    /\ UNCHANGED <<log, rows, cursor, reached, losses, reply>>

\* A chunk up to the finalized block a node reports: none when the node is behind.
Ends(through) == {to \in (through + 1)..Len(log) : to <= through + ChunkBlocks}

NextRange(k) ==
    LET g == keeper[k] IN
    /\ g.verified /\ g.to = g.through
    /\ \E to \in Ends(g.through) : keeper' = [keeper EXCEPT ![k].to = to]
    /\ UNCHANGED <<log, rows, cursor, reached, losses, reply>>

Write(k) ==
    LET g == keeper[k] IN
    /\ g.to > g.through /\ ~g.written
    /\ rows' = [op \in Operations |-> Written(rows[op], op, g.through + 1, g.to)]
    /\ keeper' = [keeper EXCEPT ![k].written = TRUE]
    /\ reached' = IF g.to > reached THEN g.to ELSE reached
    /\ UNCHANGED <<log, cursor, losses, reply>>

SetCursor_First(k) ==  \* faulty: does not wait for the rows
    /\ keeper[k].to > keeper[k].through
    /\ cursor' = IF keeper[k].to > cursor THEN keeper[k].to ELSE cursor
    /\ keeper' = [keeper EXCEPT ![k].through = keeper[k].to, ![k].written = FALSE]
    /\ UNCHANGED <<log, rows, reached, losses, reply>>
SetCursor(k) ==
    /\ keeper[k].written
    /\ cursor' = IF keeper[k].to > cursor THEN keeper[k].to ELSE cursor
    /\ keeper' = [keeper EXCEPT ![k].through = keeper[k].to, ![k].written = FALSE]
    /\ UNCHANGED <<log, rows, reached, losses, reply>>

\* A read or a write fails before or after the rows are written: the range is retried whole.
ScanFail(k) ==
    /\ keeper[k].to > keeper[k].through
    /\ keeper' = [keeper EXCEPT ![k].to = keeper[k].through, ![k].written = FALSE]
    /\ UNCHANGED <<log, rows, cursor, reached, losses, reply>>

\* The process stops, or the contracts report another governance for a while.
ForgetPlace(k) ==
    /\ keeper[k].verified /\ losses < MaxLosses /\ losses' = losses + 1
    /\ keeper' = [keeper EXCEPT ![k] = Undefined]
    /\ UNCHANGED <<log, rows, cursor, reached, reply>>

-----------------------------------------------------------------------------
(* queryGovernanceQueue: two reads that run side by side.                  *)

Answered == reply.ops = "read" /\ reply.block >= 0

ReadOperations ==
    /\ Reading /\ reply.ops = "unread"
    /\ reply' = [reply EXCEPT !.ops = "read", !.from = cursor, !.at = Len(log),
                              !.listed = {op \in Operations : StateOf(rows[op]) = "pending"}]
    /\ UNCHANGED <<log, rows, cursor, keeper, reached, losses>>

ReadCoverage ==
    /\ Reading /\ reply.block = -1
    /\ reply' = [reply EXCEPT !.block = cursor]
    /\ UNCHANGED <<log, rows, cursor, keeper, reached, losses>>

NextReply ==
    /\ Answered /\ reply' = NoReply
    /\ UNCHANGED <<log, rows, cursor, keeper, reached, losses>>

-----------------------------------------------------------------------------
Kinds == {"CallScheduled", "CallExecuted", "Cancelled"}

TimelockNext ==
    \/ \E op \in Operations, kind \in Kinds : Emit(op, kind)
    \/ \E k \in Keepers : \/ Verify(k) \/ NextRange(k) \/ Write(k) \/ SetCursor(k)
                          \/ ScanFail(k) \/ ForgetPlace(k)
    \/ ReadOperations \/ ReadCoverage \/ NextReply

TimelockSpec == TimelockInit /\ [][TimelockNext]_timelockVars

\* Steady keepers scan on, and neither the write nor the cursor fails for ever.
FairTimelockSpec ==
    /\ TimelockSpec
    /\ \A k \in Steady : /\ WF_timelockVars(Verify(k)) /\ WF_timelockVars(NextRange(k))
                         /\ SF_timelockVars(Write(k)) /\ SF_timelockVars(SetCursor(k))

-----------------------------------------------------------------------------
\* Every variable but the rows has its type; the cursor is never ahead of the rows that were
\* written, no keeper ahead of the finalized block.
TimelockTypeOK ==
    /\ log \in Seq([op : Operations, kind : Kinds])
    /\ cursor \in 0..reached /\ reached \in 0..Len(log)
    /\ keeper \in [Keepers -> [verified : BOOLEAN, through : 0..reached, to : 0..Len(log), written : BOOLEAN]]
    /\ losses \in 0..MaxLosses

\* "A replayed range or a second writer leaves the same rows": whichever keepers write which
\* ranges again, and however far behind, a row is what the timelock held of the operation
\* after the last block anybody has written, and the delay a provider counts runs from the
\* schedule that is in force.
RowsAreTheTimelock ==
    \A op \in Operations :
        LET recorded == Recorded(op, reached) IN
        /\ recorded = "pending" <=> StateOf(rows[op]) = "pending"
        /\ recorded = "done" <=> StateOf(rows[op]) = "executed"
        /\ recorded = "pending" =>
               /\ log[rows[op].scheduled] = [op |-> op, kind |-> "CallScheduled"]
               /\ \A i \in (rows[op].scheduled + 1)..reached : log[i].op # op

\* Every schedule, execution and cancellation is shown in the end, by its own position in the
\* row of its operation or by that of a later change: of an id scheduled again the row of the
\* schedule that was cancelled does not count.
EveryChangeIsIndexed ==
    \A op \in Operations, i \in 1..MaxLog :
        (i <= Len(log) /\ log[i].op = op)
            ~> \E mark \in {"scheduled", "executed", "cancelled"} : rows[op][mark] >= i

\* An answer shows no operation that was over before the cursor it could have read; and if its
\* coverage is not newer than its list, it misses none that waited since the covered block.
AnswerIsHonest ==
    /\ \A op \in reply.listed : \E t \in reply.from..reply.at : Recorded(op, t) = "pending"
    /\ Answered /\ reply.block <= reply.from =>
        \A op \in Operations :
            (\A t \in reply.block..reply.at : Recorded(op, t) = "pending") => op \in reply.listed

=============================================================================
