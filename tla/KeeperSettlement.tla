-------------------------- MODULE KeeperSettlement --------------------------
(***************************************************************************)
(* The part of the keeper that ends casino bets: the queue of bets         *)
(* (FinalizeQueue), the loop that examines one bet at a time               *)
(* (drainQueue, finalizeIfReady), the void executor (voidEligibleCandidates*)
(* and attemptVoid), the recovery of the bets placed before a start        *)
(* (scanUnresolvedHistory, requeueIndexedBets, checkStartupRecovery) and   *)
(* the rows and cursor it keeps in the database.                           *)
(*                                                                         *)
(* The process is single-threaded, but every read of the chain, receipt    *)
(* and database write is awaited.  One action is the code between two      *)
(* awaits whose order matters.  Writers of transactions take turns through *)
(* the promise chain writeTail, here the sequence `turn' whose head runs.  *)
(*                                                                         *)
(* The chain is the state of every bet; bets are numbered in the order of  *)
(* their requests, belong to one Bank and are placed one to a block, so    *)
(* that a block has the number of its bet.  Anybody may end a bet: a       *)
(* transaction a stopped keeper left behind is one more such caller.  The  *)
(* role is primary.                                                        *)
(***************************************************************************)
EXTENDS Integers, Sequences, FiniteSets, SequencesExt

CONSTANTS
    MaxBet,          \* bound: bets ever placed
    HasIndex,        \* is there a database (betIndexStore)?
    ChunkBlocks,     \* scanChunkBlocks
    PageSize,        \* CASINO_RECOVERY_PAGE_SIZE, 50 in the code
    Pushed,          \* do sockets and scanMissedEvents report events too?
    CallsMayFail,    \* may a read, a receipt or a database write fail?
    Faulty,          \* bound: the bets whose settlement may revert
    MaxFlips,        \* bound: how often a settlement starts or stops reverting
    MaxStarts        \* bound: how often the process starts again

ASSUME BoundsAssumption ==
    /\ MaxBet \in Nat \ {0} /\ ChunkBlocks \in Nat \ {0} /\ PageSize \in Nat \ {0}
    /\ Faulty \subseteq Nat
    /\ HasIndex \in BOOLEAN /\ Pushed \in BOOLEAN /\ CallsMayFail \in BOOLEAN
    /\ MaxFlips \in Nat /\ MaxStarts \in Nat

VARIABLES
    \* the chain
    state,           \* of every bet
    blocked,         \* bets whose settlement reverts now
    due,             \* bets up to this one may be refunded while no result is in, and voided after
    flips,
    \* the database: has it events of the bet, and the terminal one; the saved cursor
    rows, cursor,
    \* the memory of the process
    queue,           \* `queue' of FinalizeQueue
    drain,           \* the examined bet: inFlight and the place in finalizeIfReady
    turn,            \* writeTail
    candidates,      \* voidCandidates
    pass,            \* the void pass
    boot,            \* what the process knows of the time before its start
    history,         \* the range scanUnresolvedHistory is writing
    starts

chainVars == <<state, blocked, due, flips>>
indexVars == <<rows, cursor>>
memoryVars == <<queue, drain, turn, candidates, pass, boot, history>>
vars == <<chainVars, indexVars, memoryVars, starts>>

Bets == 1..MaxBet
\* settled, refunded and voided are one to the keeper: "over" (isTerminalState)
Open == {b \in Bets : state[b] \in {"awaiting", "received"}}

\* The waiting items: those whose availableAt is over, in its order, those whose retry
\* delay runs, and those with attempts > 0 among them.
EmptyQueue == [ready |-> <<>>, asleep |-> {}, tried |-> {}]

NoBet == 0
Rested == [at |-> "idle", bet |-> NoBet, tried |-> FALSE]
Unknown == -1
NoPass == [at |-> "idle", requested |-> FALSE, todo |-> {}]

EmptyMemory(recovered) ==
    [head |-> Unknown, recovered |-> recovered, indexed |-> FALSE, after |-> NoBet,
     complete |-> FALSE]

Init ==
    /\ state = [b \in Bets |-> "none"] /\ blocked \in SUBSET (Faulty \cap Bets) /\ due = 0
    /\ flips = 0
    /\ rows = [b \in Bets |-> "absent"] /\ cursor = 0
    /\ queue = EmptyQueue /\ drain = Rested /\ turn = <<>>
    /\ candidates = {}
    /\ pass = NoPass
    /\ boot = EmptyMemory(0) /\ history = [at |-> "idle", through |-> 0]
    /\ starts = 0

-----------------------------------------------------------------------------
(* The chain.                                                              *)

Place(b) ==
    /\ state[b] = "none" /\ \A a \in 1..(b - 1) : state[a] # "none"
    /\ state' = [state EXCEPT ![b] = "awaiting"]
    /\ UNCHANGED <<blocked, due, flips, indexVars, memoryVars, starts>>

\* The result arrives; the delivery to the hub may have failed, the seed is stored anyway.
Receive(b) ==
    /\ state[b] = "awaiting"
    /\ state' = [state EXCEPT ![b] = "received"]
    /\ UNCHANGED <<blocked, due, flips, indexVars, memoryVars, starts>>

\* The settlement of b starts or stops reverting.
Flip(b) ==
    /\ b \in Faulty /\ state[b] # "none" /\ flips < MaxFlips
    /\ blocked' = IF b \in blocked THEN blocked \ {b} ELSE blocked \cup {b}
    /\ flips' = flips + 1
    /\ UNCHANGED <<state, due, indexVars, memoryVars, starts>>

\* Time passes: the refund deadline and the void delay of the next bet are over.
DelayOver ==
    /\ due < MaxBet /\ state[due + 1] # "none"
    /\ due' = due + 1
    /\ UNCHANGED <<state, blocked, flips, indexVars, memoryVars, starts>>

CanFinalize(b) == state[b] = "received" /\ b \notin blocked
CanRefund(b) == state[b] = "awaiting" /\ b <= due
CanVoid(b) == state[b] = "received" /\ b <= due

\* finalize, refund, or voidBet, which tries the settlement once more.
SomebodyElse(b) ==
    /\ CanFinalize(b) \/ CanRefund(b) \/ CanVoid(b)
    /\ state' = [state EXCEPT ![b] = "over"]
    /\ UNCHANGED <<blocked, due, flips, indexVars, memoryVars, starts>>

-----------------------------------------------------------------------------
(* FinalizeQueue.                                                          *)

Waiting(q) == ToSet(q.ready) \cup q.asleep

\* Bets are found in the order of their requests.
Ascending(S) ==
    CHOOSE f \in [1..Cardinality(S) -> S] :
        \A i, j \in 1..Cardinality(S) : i < j => f[i] < f[j]

\* enqueue, for each of S: an item that waits keeps its attempts and an earlier wakeup.
Enqueued(q, S) ==
    [ready |-> q.ready \o Ascending(S \ ToSet(q.ready)),
     asleep |-> q.asleep \ S,
     tried |-> q.tried]

\* retry: the item that was in flight merges with an event that came meanwhile.
Retried_Reinstated(q, b) ==  \* faulty: the item with its delay replaces the event
    [q EXCEPT !.ready = SelectSeq(@, LAMBDA a : a # b), !.asleep = @ \cup {b}, !.tried = @ \cup {b}]
Retried(q, b) ==
    [q EXCEPT !.asleep = IF b \in ToSet(q.ready) THEN @ ELSE @ \cup {b},
              !.tried = @ \cup {b}]

InFlight(b) == drain.bet = b
Has(b) == b \in Waiting(queue) \/ InFlight(b)

\* An attempt whose first read failed counts as an examination.
HasUnexaminedBefore_Queued(b) ==  \* faulty: the bet in flight is overlooked
    \E a \in 1..(b - 1) : a \in Waiting(queue) \ queue.tried
HasUnexaminedBefore(b) ==
    \E a \in 1..(b - 1) :
        \/ a \in Waiting(queue) \ queue.tried
        \/ InFlight(a) /\ ~drain.tried

\* The delay of a retry is over.
Wake(b) ==
    /\ b \in queue.asleep
    /\ queue' = Enqueued(queue, {b})
    /\ UNCHANGED <<chainVars, indexVars, drain, turn, candidates, pass, boot, history, starts>>

-----------------------------------------------------------------------------
(* Void passes on request.                                                 *)

\* requestVoidPass: a pass that runs sees the request when it ends.
Requested(p) ==
    [p EXCEPT !.requested = TRUE, !.at = IF p.at = "idle" THEN "begin" ELSE p.at]

\* The end of one turn of the loop of runVoidPass.
LoopEnded_Once(p) ==  \* faulty: the pass does not look for another request
    [p EXCEPT !.at = "idle", !.todo = {}]
LoopEnded(p) ==
    [p EXCEPT !.at = IF p.requested THEN "begin" ELSE "idle", !.todo = {}]

\* checkStartupRecovery on the memory it finds; it latches.
Recovered_SomePages(m) ==  \* faulty: the pages of the index are not awaited
    m.complete \/ (m.head # Unknown /\ m.recovered >= m.head)
Recovered_BeyondHead(m) ==  \* faulty: waits for a block after the head
    m.complete \/ (m.head # Unknown /\ m.recovered > m.head /\ (HasIndex => m.indexed))
Recovered(m) ==
    \/ m.complete
    \/ m.head # Unknown /\ m.recovered >= m.head /\ (HasIndex => m.indexed)
Checked(m) == [m EXCEPT !.complete = Recovered(m)]
WokenBy(m, p) ==
    IF Recovered(m) /\ ~m.complete /\ candidates # {} THEN Requested(p) ELSE p

-----------------------------------------------------------------------------
(* drainQueue and finalizeIfReady: one bet at a time.                      *)

\* The writer that runs is done: the next one in the chain runs.
Release == turn' = Tail(turn)
Runs(writer) == turn # <<>> /\ Head(turn) = writer

\* nextReady; the bet leaves the queue before the turn of its examination comes.
DrainTake(b) ==
    /\ drain.at = "idle" /\ queue.ready # <<>> /\ b = Head(queue.ready)
    /\ drain' = [at |-> "waiting", bet |-> b, tried |-> b \in queue.tried]
    /\ queue' = [queue EXCEPT !.ready = Tail(@), !.tried = @ \ {b}]
    /\ turn' = Append(turn, "drain")
    /\ UNCHANGED <<chainVars, indexVars, candidates, pass, boot, history, starts>>

\* queue.complete and closeVoidCandidate: the bet is over.
Complete_Silent(b) ==  \* faulty: the candidate stays
    drain' = Rested /\ UNCHANGED candidates /\ Release
Complete(b) == drain' = Rested /\ candidates' = candidates \ {b} /\ Release

\* queue.retry; what happens to the candidate depends on the outcome.
Retry(b) == drain' = Rested /\ queue' = Retried(queue, b) /\ Release

\* The first read of the bet: a bet that is over needs nothing.
DrainRead ==
    /\ Runs("drain") /\ drain.at = "waiting"
    /\ IF state[drain.bet] = "over"
       THEN Complete(drain.bet)
       ELSE drain' = [drain EXCEPT !.at = "judge"] /\ UNCHANGED <<candidates, turn>>
    /\ UNCHANGED <<chainVars, indexVars, queue, pass, boot, history, starts>>

\* The reads of the request and the clock and the simulation, at a later moment.
DrainJudge ==
    LET b == drain.bet IN
    /\ drain.at = "judge"
    /\ \/ /\ state[b] = "over"
          /\ Complete(b) /\ UNCHANGED <<queue, pass>>
       \/ /\ CanRefund(b) \/ CanFinalize(b)
          /\ drain' = [drain EXCEPT !.at = IF CanRefund(b) THEN "refund" ELSE "finalize"]
          /\ UNCHANGED <<candidates, turn, queue, pass>>
       \/ /\ state[b] = "awaiting" /\ ~CanRefund(b)
          /\ Retry(b) /\ candidates' = candidates \ {b} /\ UNCHANGED pass
       \/ /\ state[b] = "received" /\ ~CanFinalize(b)
          /\ Retry(b) /\ candidates' = candidates \cup {b}
          /\ pass' = IF CanVoid(b) THEN Requested(pass) ELSE pass
    /\ UNCHANGED <<chainVars, indexVars, boot, history, starts>>

\* The transaction is mined: it ends the bet, or reverts.
DrainMined ==
    LET b == drain.bet
        works == IF drain.at = "refund" THEN CanRefund(b) ELSE CanFinalize(b)
    IN
    /\ drain.at \in {"refund", "finalize"}
    /\ state' = IF works THEN [state EXCEPT ![b] = "over"] ELSE state
    /\ drain' = [drain EXCEPT !.at = "receipt"]
    /\ UNCHANGED <<blocked, due, flips, indexVars, queue, turn,
                   candidates, pass, boot, history, starts>>

\* A receipt of either status; the bet is read again and decides.
DrainReceipt ==
    LET b == drain.bet IN
    /\ drain.at = "receipt"
    /\ IF state[b] = "over"
       THEN Complete(b) /\ UNCHANGED queue
       ELSE Retry(b) /\ UNCHANGED candidates
    /\ UNCHANGED <<chainVars, indexVars, pass, boot, history, starts>>

\* A call fails, or a receipt does not come in time: failed, retryable.
DrainFail ==
    /\ CallsMayFail /\ Runs("drain")
    /\ Retry(drain.bet)
    /\ UNCHANGED <<chainVars, indexVars, candidates, pass, boot, history, starts>>

-----------------------------------------------------------------------------
(* runVoidPass and voidEligibleCandidates.                                 *)

\* The turn of the loop starts; it reads the void parameters, the clock and the cohorts.
PassBegin ==
    LET p == [pass EXCEPT !.requested = FALSE] IN
    /\ pass.at = "begin"
    /\ pass' = IF candidates = {} THEN LoopEnded(p) ELSE [p EXCEPT !.at = "list"]
    /\ UNCHANGED <<chainVars, indexVars, queue, drain, turn, candidates, boot, history, starts>>

\* The eligible candidates of this moment, listed before the pass waits for its turn.
PassList ==
    LET p == WokenBy(boot, pass)
        eligible == {b \in candidates : b <= due}
    IN
    /\ pass.at = "list"
    /\ boot' = Checked(boot)
    /\ IF Recovered(boot) /\ eligible # {}
       THEN /\ pass' = [p EXCEPT !.at = "waiting", !.todo = eligible]
            /\ turn' = Append(turn, "void")
       ELSE pass' = LoopEnded(p) /\ UNCHANGED turn
    /\ UNCHANGED <<chainVars, indexVars, queue, drain, candidates, history, starts>>

PassFail ==
    /\ CallsMayFail /\ pass.at = "list"
    /\ pass' = LoopEnded(pass)
    /\ UNCHANGED <<chainVars, indexVars, queue, drain, turn, candidates, boot, history, starts>>

Current == CHOOSE b \in pass.todo : \A a \in pass.todo : b <= a

\* The next candidate waits for its own turn, behind whoever waits already.
NextCandidate ==
    LET todo == pass.todo \ {Current} IN
    IF todo = {} THEN Release /\ pass' = LoopEnded(pass)
    ELSE turn' = Append(Tail(turn), "void") /\ pass' = [pass EXCEPT !.at = "waiting", !.todo = todo]

\* The turn of the candidate: it may have closed, or an earlier bet may be unexamined.
PassTurn_Unlocked ==  \* faulty: the pass does not wait for its turn
    /\ pass.at = "waiting"
    /\ IF Current \notin candidates THEN NextCandidate
       ELSE IF HasUnexaminedBefore(Current) THEN Release /\ pass' = LoopEnded(pass)
       ELSE pass' = [pass EXCEPT !.at = "attempt"] /\ UNCHANGED turn
    /\ UNCHANGED <<chainVars, indexVars, queue, drain, candidates, boot, history, starts>>
PassTurn ==
    /\ pass.at = "waiting" /\ Runs("void")
    /\ \/ Current \notin candidates /\ NextCandidate
       \/ /\ Current \in candidates /\ HasUnexaminedBefore(Current)
          /\ Release /\ pass' = LoopEnded(pass)
       \/ /\ Current \in candidates /\ ~HasUnexaminedBefore(Current)
          /\ pass' = [pass EXCEPT !.at = "attempt"] /\ UNCHANGED turn
    /\ UNCHANGED <<chainVars, indexVars, queue, drain, candidates, boot, history, starts>>

\* handleVoidOutcome for a bet that is over or back on the way to its settlement.
Reconcile(b) ==
    /\ candidates' = candidates \ {b}
    /\ queue' = Enqueued(queue, {b})
    /\ NextCandidate

\* attemptVoid up to the transaction: over, bookable, or to be voided.
VoidJudge ==
    LET b == Current IN
    /\ pass.at = "attempt"
    /\ IF state[b] = "received" /\ b \in blocked
       THEN pass' = [pass EXCEPT !.at = "sent"] /\ UNCHANGED <<candidates, queue, turn>>
       ELSE Reconcile(b)
    /\ UNCHANGED <<chainVars, indexVars, drain, boot, history, starts>>

VoidMined ==
    LET b == Current IN
    /\ pass.at = "sent"
    /\ state' = IF CanVoid(b) THEN [state EXCEPT ![b] = "over"] ELSE state
    /\ pass' = [pass EXCEPT !.at = "receipt"]
    /\ UNCHANGED <<blocked, due, flips, indexVars, queue, drain, turn,
                   candidates, boot, history, starts>>

VoidReceipt ==
    /\ pass.at = "receipt" /\ state[Current] = "over"
    /\ Reconcile(Current)
    /\ UNCHANGED <<chainVars, indexVars, drain, boot, history, starts>>

\* A failed attempt keeps the candidate; the pass goes on with the next one.
VoidFail ==
    /\ CallsMayFail /\ pass.at \in {"attempt", "sent", "receipt"}
    /\ NextCandidate
    /\ UNCHANGED <<chainVars, indexVars, queue, drain, candidates, boot, history, starts>>

-----------------------------------------------------------------------------
(* Finding the bets, and the rows of the database.                         *)

\* A socket or scanMissedEvents reports that b was placed, or its result: late, again, or
\* never.  (Of a bet that is over: the first read would end its examination.)
LiveEvent(b) ==
    /\ Pushed /\ b \in Open
    /\ queue' = Enqueued(queue, {b})
    /\ UNCHANGED <<chainVars, indexVars, drain, turn, candidates, pass, boot, history, starts>>

\* Any writer of the read model brings the events of b up to date.  (What the keeper itself
\* writes after a receipt leaves gamehub_events without the terminal event.)
IndexRow(b) ==
    /\ HasIndex /\ state[b] # "none"
    /\ rows' = [rows EXCEPT ![b] = IF state[b] = "over" THEN "closed" ELSE "open"]
    /\ UNCHANGED <<chainVars, cursor, memoryVars, starts>>

\* The last block.
Latest == Cardinality({b \in Bets : state[b] # "none"})
Lesser(a, b) == IF a < b THEN a ELSE b

\* scanUnresolvedHistory: the range after recoveryScannedThrough; one range to a pass.
HistoryRead ==
    LET head == IF boot.head = Unknown THEN Latest ELSE boot.head
        m == [boot EXCEPT !.head = head]
        through == Lesser(boot.recovered + ChunkBlocks, Latest)
        found == (boot.recovered + 1)..through
    IN
    /\ history.at = "idle"
    /\ IF boot.recovered >= Latest
       THEN /\ boot' = Checked(m) /\ pass' = WokenBy(m, pass)
            /\ UNCHANGED <<queue, history>>
       ELSE /\ queue' = Enqueued(queue, {b \in found : ~Has(b)})
            /\ history' = [at |-> "rows", through |-> through]
            /\ boot' = m /\ UNCHANGED pass
    /\ UNCHANGED <<chainVars, indexVars, drain, turn, candidates, starts>>

\* The rows of the range come first ...
HistoryRows_Swallowed ==  \* faulty: a failed write of the rows is logged and forgotten
    /\ history.at = "rows" /\ history' = [history EXCEPT !.at = "cursor"]
    /\ UNCHANGED <<chainVars, indexVars, queue, drain, turn, candidates, pass, boot, starts>>
HistoryRows ==
    LET found == (boot.recovered + 1)..history.through IN
    /\ history.at = "rows"
    /\ rows' = [b \in Bets |-> IF HasIndex /\ b \in found /\ rows[b] = "absent"
                               THEN "open" ELSE rows[b]]
    /\ history' = [history EXCEPT !.at = "cursor"]
    /\ UNCHANGED <<chainVars, cursor, queue, drain, turn, candidates, pass, boot, starts>>

\* ... and the cursor after them.
HistoryCursor ==
    LET m == [boot EXCEPT !.recovered = history.through] IN
    /\ history.at = "cursor"
    /\ cursor' = IF HasIndex THEN history.through ELSE cursor
    /\ boot' = Checked(m) /\ pass' = WokenBy(m, pass)
    /\ history' = [at |-> "idle", through |-> 0]
    /\ UNCHANGED <<chainVars, rows, queue, drain, turn, candidates, starts>>

HistoryFail ==
    /\ CallsMayFail /\ history.at # "idle"
    /\ history' = [at |-> "idle", through |-> 0]
    /\ UNCHANGED <<chainVars, indexVars, queue, drain, turn, candidates, pass, boot, starts>>

\* getUnresolvedBetIds: the lowest open rows above `after', a page of them.
Page(after) ==
    LET unresolved == {b \in Bets : b > after /\ rows[b] = "open"} IN
    {b \in unresolved : Cardinality({a \in unresolved : a < b}) < PageSize}

Paged(m) ==
    LET page == Page(m.after)
        short == Cardinality(page) < PageSize
    IN  [m EXCEPT !.after = IF short THEN NoBet ELSE CHOOSE b \in page : \A a \in page : a <= b,
                  !.indexed = m.indexed \/ short]

\* requeueIndexedBets
Requeue ==
    LET m == Paged(boot) IN
    /\ HasIndex
    /\ queue' = Enqueued(queue, {b \in Page(boot.after) : ~Has(b)})
    /\ boot' = IF m.indexed /\ ~boot.indexed THEN Checked(m) ELSE m
    /\ pass' = IF m.indexed /\ ~boot.indexed THEN WokenBy(m, pass) ELSE pass
    /\ UNCHANGED <<chainVars, indexVars, drain, turn, candidates, history, starts>>

\* The process stops anywhere and starts again.  initializeBetIndex requeues the first
\* page and then reads the cursor; when it fails the release history is read again.
Restart ==
    /\ starts < MaxStarts /\ starts' = starts + 1
    /\ \/ HasIndex /\ queue' = Enqueued(EmptyQueue, Page(NoBet)) /\ boot' = Paged(EmptyMemory(cursor))
       \/ HasIndex /\ queue' = Enqueued(EmptyQueue, Page(NoBet)) /\ boot' = Paged(EmptyMemory(0))
       \/ queue' = EmptyQueue /\ boot' = EmptyMemory(0)
    /\ drain' = Rested /\ turn' = <<>> /\ candidates' = {} /\ pass' = NoPass
    /\ history' = [at |-> "idle", through |-> 0]
    /\ UNCHANGED <<chainVars, indexVars>>

-----------------------------------------------------------------------------
Chain ==
    \/ \E b \in Bets : Place(b) \/ Receive(b) \/ Flip(b) \/ SomebodyElse(b)
    \/ DelayOver

Discover ==
    \/ \E b \in Bets : LiveEvent(b) \/ IndexRow(b)
    \/ HistoryRead \/ HistoryRows \/ HistoryCursor \/ HistoryFail \/ Requeue

Examine ==
    \/ \E b \in Bets : Wake(b) \/ DrainTake(b)
    \/ DrainRead \/ DrainJudge \/ DrainMined \/ DrainReceipt \/ DrainFail

Void ==
    \/ PassBegin \/ PassList \/ PassFail \/ PassTurn
    \/ VoidJudge \/ VoidMined \/ VoidReceipt \/ VoidFail

Next == Chain \/ Discover \/ Examine \/ Void \/ Restart

Spec == Init /\ [][Next]_vars

\* Every turn of the loops and every call comes to an end; a bet whose delay is over is
\* taken, though other bets are taken in between; the scans and the clock go on.
FairSpec ==
    /\ Spec
    /\ WF_vars(DelayOver)
    /\ WF_vars(HistoryRead) /\ WF_vars(HistoryRows) /\ WF_vars(HistoryCursor) /\ WF_vars(Requeue)
    /\ \A b \in Bets : WF_vars(Wake(b)) /\ SF_vars(DrainTake(b))
    /\ \A b \in Bets : SF_vars(drain.bet = b /\ (DrainRead \/ DrainJudge \/ DrainMined \/ DrainReceipt))
    /\ WF_vars(PassBegin \/ PassList \/ PassTurn \/ VoidJudge \/ VoidMined \/ VoidReceipt)

-----------------------------------------------------------------------------
(* What the keeper promises.                                               *)

\* The bets placed up to the head the process saw first.
EarlierBets == {b \in Bets : b <= boot.head}

\* Once the recovery of a start is complete, every open bet placed before it is at work:
\* no stop, no failed write and no page of the database has lost one
\* (checkStartupRecovery, scanUnresolvedHistory, requeueIndexedBets).
RecoveredBetsAreAtWork ==
    boot.complete => \A b \in EarlierBets \cap Open : Has(b)

\* The saved cursor never passes a bet the database has no row of: a start that resumes
\* at the cursor finds the bets before it among the rows (scanUnresolvedHistory).
CursorHasRows ==
    \A b \in 1..cursor : rows[b] # "absent"

\* An event of a bet wakes its next examination: neither the retry nor the end of the
\* examination that is on its way drops the event or puts it back to sleep
\* (FinalizeQueue.retry, complete and enqueue).
WakeupIsKept ==
    [][starts' = starts =>
         \A b \in ToSet(queue.ready) : b \in ToSet(queue'.ready) \/ drain'.bet = b]_vars

\* A void candidate is queued or examined: nothing else would find that it may be voided
\* or that its settlement works again (syncVoidCandidate, handleVoidOutcome).
CandidateIsAtWork ==
    \A b \in candidates : Has(b)

\* The examination and the void pass never have a transaction each on its way, so the
\* two do not compete for a nonce (withWriteLock).
OneTransaction ==
    ~(drain.at \in {"refund", "finalize"} /\ pass.at = "sent")

\* The request for a void pass is not lost when it comes while a pass runs or ends
\* (runVoidPass, requestVoidPass).
RequestIsServed ==
    pass.requested => pass.at # "idle"

Attempts(b) == pass.at # "attempt" /\ pass'.at = "attempt" /\ b = Current

\* When the keeper turns to voiding a bet, every earlier bet placed before its start is
\* over, or it has tried to end that bet itself since then (ADR-0037 rule 3, checkStartupRecovery
\* with hasUnexaminedBefore).
EarlierBetsWereTried ==
    [][\A b \in Bets : Attempts(b) =>
         \A a \in EarlierBets \cap Open : a < b =>
            \/ a \in Waiting(queue) \cap queue.tried
            \/ InFlight(a) /\ drain.tried]_vars

\* Every bet ends, whatever the VRF delivers, whichever settlement reverts and wherever
\* the process stops, with nobody else at work.
EveryBetEnds ==
    \A b \in Bets : state[b] = "awaiting" ~> state[b] = "over"

=============================================================================
