--------------------------- MODULE PayableClaimer ---------------------------
(***************************************************************************)
(* The part of the keeper that pays player payables of one Bank            *)
(* (createPayableClaimer).  A payout the asset refused is a debt of the    *)
(* Bank; the event of its creation nominates the player, the balance on    *)
(* chain decides whether a claim is sent.  Events are read from finalized  *)
(* blocks with a cursor that only moves forward, so a player dropped too   *)
(* early is not found again.                                               *)
(*                                                                         *)
(* The chain is the sequence of its events that matter, one to a block,    *)
(* numbered from the release origin.  Blocks after the finalized one may   *)
(* be replaced.  Every read goes to some node of a pool; each may know a   *)
(* different head.  A read pinned to a block answers for that block, or    *)
(* fails when the node does not have it.                                   *)
(*                                                                         *)
(* A pass reads the heads and scans (ReadChain), visits some players       *)
(* (Visit...), and saves (EndPass).  The scan is one step: it reads        *)
(* finalized blocks only, which never change.  The process may stop at any *)
(* point and start again from the file it saved.                           *)
(***************************************************************************)
EXTENDS Integers, Sequences, FiniteSets

CONSTANTS
    Players,
    Accepted,        \* players to whom a payment succeeds at last; the asset may refuse the others
    NoBlock, NoState,
    ScanBudget,      \* blocks a pass scans at most: chunkSize * maxChunks
    ClaimsPerPass,   \* CLAIMS_PER_PASS, 20 in the code
    ReadsMayFail,
    FinalizedReadsMayGoBack,  \* may a finalized read be older than the cursor?
    LatestReadsMayTrail,      \* may a latest read be older than the finalized block?
    MaxDebts,        \* bound: debts created on one chain
    MaxReorgs, MaxStops       \* bounds

ASSUME PlayersAssumption == IsFiniteSet(Players) /\ Accepted \subseteq Players
ASSUME NoValueAssumption == NoBlock \notin Int /\ NoState \notin [through : Nat, players : SUBSET Players]
ASSUME BoundAssumption ==
    /\ ScanBudget \in Nat \ {0} /\ ClaimsPerPass \in Nat \ {0}
    /\ ReadsMayFail \in BOOLEAN
    /\ FinalizedReadsMayGoBack \in BOOLEAN /\ LatestReadsMayTrail \in BOOLEAN
    /\ MaxDebts \in Nat /\ MaxReorgs \in Nat /\ MaxStops \in Nat

VARIABLES
    \* the chain
    chain, finalized, reorgs,
    \* the file of the state store
    saved,
    \* the claimer's memory
    phase,           \* "load", "idle" between passes, "visit" in a pass
    nextBlock,       \* scannedThrough is nextBlock - 1
    tracked,         \* the keys of `players' in the order of the Map
    zeroObservedAt,
    backoff,         \* players whose retryAt lies ahead
    head, finalizedBlock,  \* what this pass read
    visited,         \* players this pass has been to
    stops

chainVars == <<chain, finalized, reorgs>>
passVars == <<head, finalizedBlock, visited>>
vars == <<chainVars, saved, phase, nextBlock, tracked, zeroObservedAt, backoff, passVars, stops>>

-----------------------------------------------------------------------------
Events == [kind : {"created", "paid"}, player : Players]
Created(p) == [kind |-> "created", player |-> p]
Paid(p) == [kind |-> "paid", player |-> p]

PaidWithin(p, from, to) == \E j \in from..to : j \in DOMAIN chain /\ chain[j] = Paid(p)

\* Bank.playerPayable(p) > 0 at block n.
OwedAt(p, n) == \E i \in 1..n : /\ i \in DOMAIN chain /\ chain[i] = Created(p)
                                /\ ~PaidWithin(p, i + 1, n)

ScannedThrough == nextBlock - 1
Tracked == {tracked[i] : i \in DOMAIN tracked}

\* The heads that a read may report.
LatestReads == (IF LatestReadsMayTrail THEN 0 ELSE finalized)..Len(chain)
FinalizedReads == (IF FinalizedReadsMayGoBack THEN 0 ELSE ScannedThrough)..finalized
FailedRead == IF ReadsMayFail THEN {NoBlock} ELSE {}

Forget ==
    /\ nextBlock' = 1
    /\ tracked' = << >>
    /\ zeroObservedAt' = [p \in Players |-> NoBlock]
    /\ backoff' = {}
    /\ head' = NoBlock /\ finalizedBlock' = NoBlock
    /\ visited' = {}

Init ==
    /\ chain = << >> /\ finalized = 0 /\ reorgs = 0
    /\ saved = NoState
    /\ phase = "load"
    /\ nextBlock = 1
    /\ tracked = << >>
    /\ zeroObservedAt = [p \in Players |-> NoBlock]
    /\ backoff = {}
    /\ head = NoBlock /\ finalizedBlock = NoBlock
    /\ visited = {}
    /\ stops = 0

ListsOnce(s) == \A i, j \in DOMAIN s : s[i] = s[j] => i = j

\* The sequences that list a set, each member once.
Listings(S) == {s \in [1..Cardinality(S) -> S] :
                   ListsOnce(s) /\ \A p \in S : \E i \in DOMAIN s : s[i] = p}

-----------------------------------------------------------------------------
(***************************************************************************)
(* createPayableStateFile.load and the check of the saved hash, which a    *)
(* finalized block always passes.  Without a file, or with one that cannot *)
(* be used, discovery replays from the origin.                             *)
(***************************************************************************)
Load ==
    /\ phase = "load"
    /\ phase' = "idle"
    /\ \/ UNCHANGED <<nextBlock, tracked>>
       \/ /\ saved # NoState
          /\ nextBlock' = saved.through + 1
          /\ tracked' \in Listings(saved.players)
    /\ UNCHANGED <<chainVars, saved, zeroObservedAt, backoff, passVars, stops>>

\* How far a pass that read finalized block f may scan.
ScanTarget(f) ==
    IF f = NoBlock \/ f < nextBlock THEN ScannedThrough
    ELSE IF f <= ScannedThrough + ScanBudget THEN f ELSE ScannedThrough + ScanBudget

Nominated(through) ==
    {p \in Players : \E i \in nextBlock..through : chain[i] = Created(p)} \ Tracked

\* The cursor passes what was scanned, not what was planned.
CursorAfter_Planned(f, through) == ScanTarget(f) + 1  \* faulty: checkpoints a failed page
CursorAfter(f, through) == through + 1

(***************************************************************************)
(* The reads and the scan of a pass.  A scan that fails on its way keeps   *)
(* what it scanned; the pass then drops nobody, as after a failed read of  *)
(* the finalized block.                                                    *)
(***************************************************************************)
ReadChain(h, f, through) ==
    /\ phase = "idle"
    /\ h = NoBlock => f = NoBlock
    /\ through \in ScannedThrough..ScanTarget(f)
    /\ through # ScanTarget(f) => ReadsMayFail
    /\ phase' = "visit"
    /\ head' = h
    /\ finalizedBlock' = IF through = ScanTarget(f) THEN f ELSE NoBlock
    /\ nextBlock' = CursorAfter(f, through)
    /\ \E new \in Listings(Nominated(through)) : tracked' = tracked \o new
    /\ UNCHANGED <<chainVars, saved, zeroObservedAt, backoff, visited, stops>>

-----------------------------------------------------------------------------
\* The player the pass comes to next: the first in the Map that is due.
Waiting(p) == p \notin visited /\ p \notin backoff

Turn(i) ==
    /\ phase = "visit"
    /\ Cardinality(visited) < ClaimsPerPass
    /\ Waiting(tracked[i])
    /\ \A j \in 1..(i - 1) : ~Waiting(tracked[j])

Without(i) == SubSeq(tracked, 1, i - 1) \o SubSeq(tracked, i + 1, Len(tracked))

\* A visited player moves to the end of the Map.
Rotate_Stays(i) == UNCHANGED tracked  \* faulty
Rotate(i) == tracked' = Append(Without(i), tracked[i])

Drop(i) ==
    /\ tracked' = Without(i)
    /\ zeroObservedAt' = [zeroObservedAt EXCEPT ![tracked[i]] = NoBlock]

Watch(i, zero) ==
    /\ Rotate(i)
    /\ zeroObservedAt' = [zeroObservedAt EXCEPT ![tracked[i]] = zero]

(***************************************************************************)
(* After a zero was observed at block `zero', the player is dropped when   *)
(* its balance at this pass's finalized block is zero as well, provided    *)
(* that block is at or beyond the observation.  The read may fail.         *)
(***************************************************************************)
IsFinal(p, zero) ==
    /\ zero # NoBlock /\ finalizedBlock # NoBlock
    /\ zero <= finalizedBlock
    /\ ~OwedAt(p, finalizedBlock)

Confirm(i, zero) ==
    \/ IsFinal(tracked[i], zero) /\ Drop(i)
    \/ (IsFinal(tracked[i], zero) => ReadsMayFail) /\ Watch(i, zero)

EndVisit(i) ==
    /\ visited' = visited \cup {tracked[i]}
    /\ UNCHANGED <<finalized, reorgs, saved, phase, nextBlock, head, finalizedBlock, stops>>

\* The block of a balance read: the pass's head, or the latest one when that is not known.
BalanceBlocks == IF head = NoBlock THEN LatestReads ELSE {head} \cap (0..Len(chain))

VisitUnread(i) ==
    /\ Turn(i)
    /\ ReadsMayFail \/ BalanceBlocks = {}
    /\ Rotate(i)
    /\ EndVisit(i)
    /\ UNCHANGED <<chain, zeroObservedAt, backoff>>

VisitZero(i) ==
    LET p == tracked[i]
    IN  /\ Turn(i)
        /\ \E n \in BalanceBlocks : ~OwedAt(p, n)
        /\ Confirm(i, IF zeroObservedAt[p] = NoBlock THEN head ELSE zeroObservedAt[p])
        /\ EndVisit(i)
        /\ UNCHANGED <<chain, backoff>>

\* The claim is refused in simulation, or it fails before its receipt is known.
VisitRefused(i) ==
    LET p == tracked[i]
    IN  /\ Turn(i)
        /\ \E n \in BalanceBlocks : OwedAt(p, n)
        /\ Watch(i, NoBlock)
        /\ backoff' = backoff \cup {p}
        /\ EndVisit(i)
        /\ UNCHANGED chain

\* The claim is mined; it pays nothing when the debt is gone already.
VisitPaid(i) ==
    LET p == tracked[i]
    IN  /\ Turn(i)
        /\ \E n \in BalanceBlocks : OwedAt(p, n)
        /\ chain' = IF OwedAt(p, Len(chain)) THEN Append(chain, Paid(p)) ELSE chain
        /\ Confirm(i, Len(chain'))
        /\ EndVisit(i)
        /\ UNCHANGED backoff

\* Nobody is left to visit: the pass saves its cursor and players, or fails to.
EndPass ==
    /\ phase = "visit"
    /\ \A i \in DOMAIN tracked : ~Turn(i)
    /\ phase' = "idle"
    /\ \/ /\ ScannedThrough >= 1
          /\ saved' = [through |-> ScannedThrough, players |-> Tracked]
       \/ UNCHANGED saved
    /\ head' = NoBlock /\ finalizedBlock' = NoBlock /\ visited' = {}
    /\ UNCHANGED <<chainVars, nextBlock, tracked, zeroObservedAt, backoff, stops>>

\* retryAt is reached.  A pass looks at it once, when it chooses whom to visit.
BackoffEnds(p) ==
    /\ phase = "idle"
    /\ p \in backoff
    /\ backoff' = backoff \ {p}
    /\ UNCHANGED <<chainVars, saved, phase, nextBlock, tracked, zeroObservedAt, passVars, stops>>

\* The process stops and is started again: only the file is left.
Stop ==
    /\ stops < MaxStops
    /\ stops' = stops + 1
    /\ phase' = "load"
    /\ Forget
    /\ UNCHANGED <<chainVars, saved>>

-----------------------------------------------------------------------------
\* The chain goes on: a settlement books a debt, somebody claims for a player, blocks become
\* final, and blocks that are not final are replaced.
claimerVars == <<saved, phase, nextBlock, tracked, zeroObservedAt, backoff, passVars, stops>>

BookDebt(p) ==
    /\ Cardinality({i \in DOMAIN chain : chain[i].kind = "created"}) < MaxDebts
    /\ chain' = Append(chain, Created(p))
    /\ UNCHANGED <<finalized, reorgs, claimerVars>>

ClaimByOther(p) ==
    /\ OwedAt(p, Len(chain))
    /\ chain' = Append(chain, Paid(p))
    /\ UNCHANGED <<finalized, reorgs, claimerVars>>

Finalize ==
    /\ finalized < Len(chain)
    /\ finalized' = finalized + 1
    /\ UNCHANGED <<chain, reorgs, claimerVars>>

Reorg(n) ==
    /\ reorgs < MaxReorgs
    /\ reorgs' = reorgs + 1
    /\ n \in finalized..(Len(chain) - 1)
    /\ chain' = SubSeq(chain, 1, n)
    /\ UNCHANGED <<finalized, claimerVars>>

Pass ==
    \/ Load
    \/ \E h \in LatestReads \cup FailedRead, f \in FinalizedReads \cup FailedRead :
         \E t \in ScannedThrough..ScanTarget(f) : ReadChain(h, f, t)
    \/ \E i \in DOMAIN tracked : VisitUnread(i) \/ VisitZero(i) \/ VisitRefused(i) \/ VisitPaid(i)
    \/ EndPass

Next ==
    \/ Pass
    \/ \E p \in Players : BackoffEnds(p) \/ BookDebt(p) \/ ClaimByOther(p)
    \/ Stop
    \/ Finalize
    \/ \E n \in finalized..(Len(chain) - 1) : Reorg(n)

Spec == Init /\ [][Next]_vars

(***************************************************************************)
(* Passes go on (the runtime starts one per poll interval), blocks become  *)
(* final, and a delay ends.  A pass that runs again and again reads the    *)
(* finalized block of a node that has caught up, and scans all it may, at  *)
(* some time; a claim sent again and again to a player whom the asset      *)
(* accepts is mined at some time.  Nobody else is assumed to claim.        *)
(***************************************************************************)
FreshPass == ReadChain(Len(chain), finalized, ScanTarget(finalized))
PaysPlayer(p) == \E i \in DOMAIN tracked : tracked[i] = p /\ VisitPaid(i)

Fairness ==
    /\ WF_vars(Pass) /\ WF_vars(Finalize) /\ SF_vars(FreshPass)
    /\ \A p \in Players : SF_vars(BackoffEnds(p))
    /\ \A p \in Accepted : SF_vars(PaysPlayer(p))

FairSpec == Spec /\ Fairness

-----------------------------------------------------------------------------
(***************************************************************************)
(* Properties.                                                             *)
(***************************************************************************)
TypeOK ==
    /\ chain \in Seq(Events)
    /\ finalized \in 0..Len(chain)
    /\ reorgs \in Nat /\ stops \in Nat
    /\ saved = NoState \/ saved \in [through : Nat, players : SUBSET Players]
    /\ phase \in {"load", "idle", "visit"}
    /\ nextBlock \in Nat \ {0}
    /\ tracked \in Seq(Players) /\ ListsOnce(tracked)  \* the keys of a Map
    /\ zeroObservedAt \in [Players -> Nat \cup {NoBlock}]
    /\ backoff \subseteq Players
    /\ head \in Nat \cup {NoBlock} /\ finalizedBlock \in Nat \cup {NoBlock}
    /\ visited \subseteq Players

(***************************************************************************)
(* The comment of PayableState: every creation through `scannedThrough'    *)
(* nominated one of the players kept, or its player has since been paid in *)
(* a finalized block.  It is what makes the cursor safe: whoever is owed   *)
(* in a scanned block and not kept is never found again.  It must hold of  *)
(* the memory and of the file, whenever the process stops.                 *)
(***************************************************************************)
Covered(through, kept) ==
    \A i \in 1..through :
        /\ i \in DOMAIN chain
        /\ chain[i].kind = "created" =>
               chain[i].player \in kept \/ PaidWithin(chain[i].player, i + 1, finalized)

NothingForgotten ==
    /\ Covered(ScannedThrough, Tracked)
    /\ saved # NoState => Covered(saved.through, saved.players)

(***************************************************************************)
(* A debt that is final is paid in a final block, however many claims      *)
(* fail, blocks are replaced, and players whom the asset refuses compete   *)
(* for the places of a pass.                                               *)
(***************************************************************************)
EveryFinalDebtIsPaid ==
    \A p \in Accepted : OwedAt(p, finalized) ~> ~OwedAt(p, finalized)
=============================================================================
