----------------------------- MODULE CasinoRound -----------------------------
(***************************************************************************)
(* A casino room in the browser: the stepper that places a bet             *)
(* (usePlaceBetStepper over executePlan and the transaction pipeline), the *)
(* watcher that follows it (useCasinoRoundWatcher), the settlement and the *)
(* refund a player may send, and the page that reveals and shows the       *)
(* result once (useGameResolutionEffect) or leaves a received but unbooked *)
(* one to a notice.                                                        *)
(*                                                                         *)
(* One page that is not reloaded, one account and one pool.  Every read,   *)
(* wallet request and receipt is awaited; one action is the code between   *)
(* two awaits with the effects React runs after it.  Submission n of the   *)
(* page makes bet n, if the wallet sends it and the chain takes it.  Time  *)
(* is a choice: a bet becomes late, a result ripe for a manual settlement. *)
(***************************************************************************)
EXTENDS Integers, FiniteSets

CONSTANTS
    MaxBets,         \* bound: placements the wallet is asked for
    MaxManual,       \* bound: settlements and refunds the wallet holds at once
    Faulty           \* bets whose settlement the contracts revert

ASSUME BoundsAssumption == MaxBets \in Nat /\ MaxManual \in Nat /\ Faulty \subseteq Nat

VARIABLES
    chain, late,     \* every submission on the chain; bets past their refund deadline
    run, asked,      \* where executeGamePlaceBetAction is; the last placement asked for
    stepper,         \* BetStepperState
    checking,        \* `reconciling'
    watch,           \* the snapshot, knownRef and terminalBetIdRef of the watcher
    poll,            \* the poll in flight
    manual,          \* manualSettle and manualRefund in flight
    page,            \* the state of the page
    fate             \* what became of a bet: its notice, and what the player was told

stepVars == <<stepper, watch, poll>>
vars == <<chain, late, run, asked, stepper, checking, watch, poll, manual, page, fate>>

NoBet == 0
Bets == 1..MaxBets
Terminal == {"settled", "refunded", "voided"}
\* What getBet says: a stored result does not move a bet before it is booked.
Seen(b) == IF chain[b] = "received" THEN "placed" ELSE chain[b]

IdleStepper == [status |-> "idle", bet |-> NoBet, hash |-> NoBet, error |-> "none"]
Failed(error) == [stepper EXCEPT !.status = "failed", !.error = error]
Unread(b) == [bet |-> b, result |-> "unread", reverted |-> FALSE]
NoPoll == [at |-> "none", bet |-> NoBet, seen |-> "none"]
PollOf(b) == [at |-> "bet", bet |-> b, seen |-> "none"]
\* `terminal' outlives the round, so does `known', which is keyed by its bet
Idle(w) == [w EXCEPT !.phase = "idle", !.bet = NoBet, !.seen = "none", !.ripe = FALSE]
NoReveal == [bet |-> NoBet, phase |-> "none"]

Init ==
    /\ chain = [b \in Bets |-> "none"] /\ late = {}
    /\ run = "none" /\ asked = 0
    /\ stepper = IdleStepper /\ checking = FALSE
    /\ watch = [phase |-> "idle", bet |-> NoBet, seen |-> "none", ripe |-> FALSE,
                known |-> Unread(NoBet), stopped |-> FALSE, terminal |-> NoBet]
    /\ poll = NoPoll /\ manual = {}
    /\ page = [terminal |-> NoBet, latest |-> NoBet, displayed |-> NoBet, pending |-> FALSE,
               shown |-> FALSE, reveal |-> NoReveal, revealed |-> NoBet, outcome |-> NoBet]
    /\ fate = [b \in Bets |-> "unknown"]

-----------------------------------------------------------------------------
(* The chain: the placement is mined, the result arrives, somebody (the    *)
(* keeper, the callback) settles, refunds or voids the bet.                *)

Ends(b) == IF b \in Faulty THEN {"voided"} ELSE {"settled"}

After(b) ==
    CASE chain[b] = "pending" -> {"placed", "reverted"}
      [] chain[b] = "placed" -> {"received", "ready"} \cup (Ends(b) \ {"voided"})
                                \cup (IF b \in late THEN {"refunded"} ELSE {})
      [] chain[b] = "received" -> {"ready"} \cup Ends(b)
      [] chain[b] = "ready" -> Ends(b)
      [] OTHER -> {}

Advance(b) ==
    /\ \E s \in After(b) : chain' = [chain EXCEPT ![b] = s]
    /\ UNCHANGED <<late, run, asked, stepVars, checking, manual, page, fate>>

DeadlineOver(b) ==
    /\ chain[b] \in {"placed", "received"} /\ b \notin late
    /\ late' = late \cup {b}
    /\ UNCHANGED <<chain, run, asked, stepVars, checking, manual, page, fate>>

-----------------------------------------------------------------------------
(* The page.                                                               *)

RoundStart(p) ==
    [p EXCEPT !.terminal = NoBet, !.reveal = NoReveal, !.revealed = NoBet, !.outcome = NoBet]
RoundReset(p) == [RoundStart(p) EXCEPT !.shown = FALSE]
ResultClose(p) == [p EXCEPT !.shown = FALSE, !.reveal = NoReveal]

\* faulty: a bet whose reveal is over stays with the stage
Resolving_Revealed(p) == IF p.reveal.bet = p.terminal THEN NoBet ELSE p.terminal

\* The terminal bet useGameResolutionEffect is given: not while the stage reveals it.
Resolving(p) ==
    IF p.reveal = [bet |-> p.terminal, phase |-> "revealing"] THEN NoBet ELSE p.terminal
Arrives(p) == Resolving(p) \notin {NoBet, p.latest}

\* The watcher's effect runs when the stepper becomes reconciled or stops being so.
Dispatch(s) ==
    /\ stepper' = s
    /\ IF s.status = "reconciled"
       THEN watch' = [watch EXCEPT !.known = Unread(s.bet), !.stopped = FALSE] /\ poll' = PollOf(s.bet)
       ELSE IF stepper.status = "reconciled"
       THEN watch' = Idle(watch) /\ poll' = NoPoll
       ELSE UNCHANGED <<watch, poll>>

\* The effects after a handler left page p, snapshot w and poll q: an unbooked result goes
\* to the notice, a terminal bet resets the stepper and waits for its proof.
Commit(p, w, q) ==
    IF w.phase = "result_unbooked" /\ w.bet # NoBet
    THEN /\ fate' = [fate EXCEPT ![w.bet] = "noticed"]
         /\ page' = RoundReset(p)
         /\ stepper' = IdleStepper /\ watch' = Idle(w) /\ poll' = NoPoll
    ELSE IF Arrives(p)
    THEN /\ page' = [p EXCEPT !.latest = Resolving(p), !.displayed = NoBet, !.pending = TRUE]
         /\ stepper' = IdleStepper /\ watch' = Idle(w) /\ poll' = NoPoll
         /\ UNCHANGED fate
    ELSE page' = p /\ watch' = w /\ poll' = q /\ UNCHANGED <<stepper, fate>>

-----------------------------------------------------------------------------
(* Placing a bet.                                                          *)

Busy == stepper.status \in {"planning", "submitting", "mined"}
Unconfirmed == stepper.error = "unconfirmed"
SettleOffered == watch.phase = "manual_settle_offered"
RefundOffered == watch.phase = "refundable" /\ watch.seen = "placed"
Live == stepper.status = "reconciled"
        /\ watch.phase \in {"waiting_vrf", "settling", "manual_settle_offered"}

ButtonPlaces ==
    /\ ~SettleOffered /\ ~RefundOffered /\ ~Unconfirmed
    /\ \/ stepper.status = "failed"
       \/ ~Busy /\ ~Live /\ ~page.pending /\ ~page.shown /\ page.reveal = NoReveal

\* executeGamePlaceBetAction up to planNow, on page p.
PlaceBet(p) ==
    /\ run = "none" /\ ~Busy /\ ~Unconfirmed
    /\ UNCHANGED <<chain, late, asked, checking, manual>>
    /\ IF stepper.status = "reconciled"
       THEN /\ Dispatch(IdleStepper) /\ page' = RoundReset(p) /\ UNCHANGED run
            /\ fate' = [fate EXCEPT ![stepper.bet] = IF @ = "bound" THEN "left" ELSE @]
       ELSE /\ asked < MaxBets
            /\ Dispatch([IdleStepper EXCEPT !.status = "planning"]) /\ run' = "plan"
            /\ page' = IF stepper.status = "failed" THEN RoundReset(p) ELSE p
            /\ UNCHANGED fate

ClickPlace == ButtonPlaces /\ PlaceBet(page)
PlayAgain == page.shown /\ PlaceBet(RoundReset(page))

CloseResult ==
    /\ page.shown /\ page' = ResultClose(page)
    /\ UNCHANGED <<chain, late, run, asked, stepVars, checking, manual, fate>>

\* The placement ends with stepper state s.
EndRun(s) ==
    /\ Dispatch(s) /\ run' = "none"
    /\ fate' = IF s.status = "reconciled" THEN [fate EXCEPT ![s.bet] = "bound"] ELSE fate
    /\ UNCHANGED <<late, asked, checking, manual, page>>

\* A plan fails, is dropped because the settings changed, or is executed.
PlanAnswer ==
    /\ run = "plan" /\ UNCHANGED chain
    /\ \/ EndRun(Failed("other"))
       \/ EndRun(IdleStepper)
       \/ /\ Dispatch([stepper EXCEPT !.status = "submitting"]) /\ page' = RoundStart(page)
          /\ run' \in {"approve", "place"}
          /\ UNCHANGED <<late, asked, checking, manual, fate>>

\* The allowance: not approved, not known to be, approved but not observed, or observed.
ApproveAnswer ==
    /\ run = "approve" /\ UNCHANGED chain
    /\ \/ \E error \in {"other", "unconfirmed"} : EndRun(Failed(error))
       \/ run' = "place" /\ UNCHANGED <<late, asked, stepVars, checking, manual, page, fate>>

\* The simulation refuses or the settings changed; or the wallet is asked.
Simulate ==
    /\ run = "place" /\ UNCHANGED chain
    /\ \/ EndRun(Failed("other"))
       \/ /\ run' = "wallet" /\ asked' = asked + 1
          /\ UNCHANGED <<late, stepVars, checking, manual, page, fate>>

\* The wallet refuses, sends, or gives an answer that tells neither.
WalletAnswer ==
    /\ run = "wallet"
    /\ \/ UNCHANGED chain /\ EndRun(Failed("other"))
       \/ \E s \in {"none", "pending"} :
             chain' = [chain EXCEPT ![asked] = s] /\ EndRun(Failed("unconfirmed"))
       \/ /\ chain' = [chain EXCEPT ![asked] = "pending"] /\ run' = "receipt"
          /\ UNCHANGED <<late, asked, stepVars, checking, manual, page, fate>>

Bound(b) == [stepper EXCEPT !.status = "reconciled", !.bet = b, !.hash = b]

\* The receipt comes, with a readable event or not, or its wait ends without it.
ReceiptAnswer ==
    /\ run = "receipt" /\ UNCHANGED chain
    /\ \/ EndRun([Failed("unconfirmed") EXCEPT !.hash = asked])
       \/ chain[asked] = "reverted" /\ EndRun([Failed("reverted") EXCEPT !.hash = asked])
       \/ /\ chain[asked] \notin {"pending", "reverted"}
          /\ \/ EndRun(Bound(asked))
             \/ EndRun([stepper EXCEPT !.status = "mined", !.hash = asked])

\* reconcileNow: the player asks for the receipt of a submission again.
CheckTransaction ==
    /\ stepper.hash # NoBet /\ ~checking
    /\ stepper.status = "mined" \/ stepper.error \in {"unconfirmed", "reverted"}
    /\ checking' = TRUE
    /\ Dispatch([stepper EXCEPT !.status = "mined", !.error = "none"])
    /\ UNCHANGED <<chain, late, run, asked, manual, page, fate>>

\* faulty: any error of the check makes the bet placeable again
ReconcileError_Retryable(error) == [stepper EXCEPT !.status = "failed", !.error = error]

\* The reducer on RECONCILE_ERROR.
ReconcileError(error) ==
    [stepper EXCEPT !.status = IF error = "reverted" THEN "failed" ELSE "mined", !.error = error]

CheckAnswer ==
    /\ checking /\ checking' = FALSE
    /\ \/ Dispatch(ReconcileError("other")) /\ UNCHANGED fate
       \/ chain[stepper.hash] = "reverted" /\ Dispatch(ReconcileError("reverted")) /\ UNCHANGED fate
       \/ /\ chain[stepper.hash] \notin {"pending", "reverted"}
          /\ Dispatch(Bound(stepper.hash))
          /\ fate' = [fate EXCEPT ![stepper.hash] = "bound"]
    /\ UNCHANGED <<chain, late, run, asked, manual, page>>

-----------------------------------------------------------------------------
(* Watching the bet.                                                       *)

Phase(b, seen, known, ripe) ==
    CASE seen = "settled" -> "settled"
      [] seen = "refunded" -> "refundable"
      [] seen = "voided" -> "voided"
      [] seen = "ready" -> IF known.reverted THEN "result_unbooked"
                           ELSE IF ripe THEN "manual_settle_offered" ELSE "settling"
      [] seen = "placed" -> IF known.result = "received" THEN "result_unbooked"
                            ELSE IF known.result = "awaiting" /\ b \in late THEN "refundable"
                            ELSE "waiting_vrf"

PollStart ==
    /\ stepper.status = "reconciled" /\ ~watch.stopped /\ poll = NoPoll
    /\ poll' = PollOf(stepper.bet)
    /\ UNCHANGED <<chain, late, run, asked, stepper, checking, watch, manual, page, fate>>

\* The poll read state `seen' of its bet and knows `known': the snapshot, the first terminal
\* read, and the outcome the page reads of a result that is ready.
Snapshot(seen, known) ==
    LET b == poll.bet
        over == seen \in Terminal /\ watch.terminal # b
        p == [page EXCEPT
                !.terminal = IF over THEN b ELSE @,
                !.pending = @ /\ ~over,
                !.outcome = IF seen = "ready" /\ page.terminal = NoBet /\ page.revealed # b
                            THEN b ELSE @]
    IN  /\ \E ripe \in IF seen = "ready" THEN {watch.ripe, TRUE} ELSE {watch.ripe} :
              Commit(p, [watch EXCEPT !.phase = Phase(b, seen, known, ripe), !.bet = b, !.seen = seen,
                                      !.ripe = ripe, !.known = known, !.stopped = @ \/ over,
                                      !.terminal = IF over THEN b ELSE @],
                     NoPoll)
        /\ UNCHANGED <<chain, late, run, asked, checking, manual>>

\* getBet answers; a bet that waits for long has its request read too (checkVrfResult).
PollBet ==
    /\ poll.at = "bet"
    /\ \/ Snapshot(Seen(poll.bet), watch.known)
       \/ /\ Seen(poll.bet) = "placed" /\ watch.known.result # "received"
          /\ poll' = [poll EXCEPT !.at = "void", !.seen = "placed"]
          /\ UNCHANGED <<chain, late, run, asked, stepper, checking, watch, manual, page, fate>>

\* getVoidStatus answers, or fails and leaves the refund hidden.
PollVoid ==
    /\ poll.at = "void"
    /\ LET read == IF chain[poll.bet] \in {"received", "ready"} THEN "received" ELSE "awaiting"
           mine == watch.known.bet = poll.bet IN
       \E result \in IF mine THEN {watch.known.result, read} ELSE {"unread"} :
          Snapshot(poll.seen, IF mine THEN [watch.known EXCEPT !.result = result] ELSE watch.known)

\* A read fails, early ones silently.
PollFail ==
    /\ poll # NoPoll /\ poll' = NoPoll
    /\ \E deferred \in BOOLEAN :
          watch' = [watch EXCEPT !.phase =
                      IF watch.bet = NoBet /\ ~deferred THEN "failed"
                      ELSE IF @ \in {"idle", "failed"} THEN "waiting_vrf" ELSE @]
    /\ UNCHANGED <<chain, late, run, asked, stepper, checking, manual, page, fate>>

-----------------------------------------------------------------------------
(* The player settles or refunds the bet.                                  *)

Offer(kind, phase) ==
    LET m == [kind |-> kind, bet |-> stepper.bet] IN
    /\ stepper.bet # NoBet /\ m \notin manual /\ Cardinality(manual) < MaxManual
    /\ manual' = manual \cup {m} /\ watch' = [watch EXCEPT !.phase = phase]
    /\ UNCHANGED <<chain, late, run, asked, stepper, checking, poll, page, fate>>

ClickSettle == SettleOffered /\ ~RefundOffered /\ Offer("settle", "settling")
ClickRefund == RefundOffered /\ Offer("refund", "refundable")

Own(b) == IF watch.known.bet = b THEN watch.known ELSE Unread(b)

SettleAnswer(b) ==
    /\ [kind |-> "settle", bet |-> b] \in manual
    /\ manual' = manual \ {[kind |-> "settle", bet |-> b]}
    /\ \/ /\ chain[b] \in {"received", "ready"} /\ b \notin Faulty
          /\ chain' = [chain EXCEPT ![b] = "settled"]
          /\ Commit(page, [watch EXCEPT !.phase = "settling"], poll)
       \/ /\ chain[b] \notin {"received", "ready"} \/ b \in Faulty
          /\ UNCHANGED chain
          /\ Commit(page, [watch EXCEPT !.phase = "result_unbooked", !.known = [Own(b) EXCEPT !.reverted = TRUE]],
                    poll)
       \/ UNCHANGED chain /\ Commit(page, [watch EXCEPT !.phase = "manual_settle_offered"], poll)
    /\ UNCHANGED <<late, run, asked, checking>>

RefundAnswer(b) ==
    /\ [kind |-> "refund", bet |-> b] \in manual
    /\ manual' = manual \ {[kind |-> "refund", bet |-> b]}
    /\ \/ /\ chain[b] = "placed" /\ b \in late
          /\ chain' = [chain EXCEPT ![b] = "refunded"]
          /\ Commit(page, [watch EXCEPT !.phase = "refundable"], poll)
       \/ /\ chain[b] = "received"
          /\ UNCHANGED chain
          /\ Commit(page, [watch EXCEPT !.phase = "result_unbooked", !.known = [Own(b) EXCEPT !.result = "received"]],
                    poll)
       \/ UNCHANGED chain /\ Commit(page, [watch EXCEPT !.phase = "refundable"], poll)
    /\ UNCHANGED <<late, run, asked, checking>>

-----------------------------------------------------------------------------
(* Revealing and showing the result.                                       *)

\* readCasinoOutcome answers: the stage reveals the bet, for a while or at once.
OutcomeAnswer ==
    /\ page.outcome # NoBet
    /\ \/ Commit([page EXCEPT !.outcome = NoBet], watch, poll)
       \/ \E phase \in {"revealing", "revealed"} :
             Commit([page EXCEPT !.outcome = NoBet, !.revealed = page.outcome, !.pending = FALSE,
                                 !.reveal = [bet |-> page.outcome, phase |-> phase]], watch, poll)
    /\ UNCHANGED <<chain, late, run, asked, checking, manual>>

RevealEnds ==
    /\ page.reveal.phase = "revealing"
    /\ Commit([page EXCEPT !.reveal.phase = "revealed"], watch, poll)
    /\ UNCHANGED <<chain, late, run, asked, checking, manual>>

\* faulty: every run of the effect shows the bet
ShowResult_Again ==
    /\ Resolving(page) # NoBet /\ ~page.shown
    /\ page' = [page EXCEPT !.displayed = Resolving(page), !.pending = FALSE, !.shown = TRUE]
    /\ fate' = [fate EXCEPT ![Resolving(page)] = "told"]
    /\ UNCHANGED <<chain, late, run, asked, stepVars, checking, manual>>

\* A complete proof of the terminal bet is found: the result is shown.
ShowResult ==
    /\ Resolving(page) # NoBet /\ page.displayed # Resolving(page)
    /\ page' = [page EXCEPT !.displayed = Resolving(page), !.pending = FALSE, !.shown = TRUE]
    /\ fate' = [fate EXCEPT ![Resolving(page)] = "told"]
    /\ UNCHANGED <<chain, late, run, asked, stepVars, checking, manual>>

-----------------------------------------------------------------------------
Next ==
    \/ \E b \in Bets : Advance(b) \/ DeadlineOver(b) \/ SettleAnswer(b) \/ RefundAnswer(b)
    \/ ClickPlace \/ PlayAgain \/ CloseResult
    \/ PlanAnswer \/ ApproveAnswer \/ Simulate \/ WalletAnswer \/ ReceiptAnswer
    \/ CheckTransaction \/ CheckAnswer
    \/ PollStart \/ PollBet \/ PollVoid \/ PollFail
    \/ ClickSettle \/ ClickRefund
    \/ OutcomeAnswer \/ RevealEnds \/ ShowResult

Spec == Init /\ [][Next]_vars

\* The interval polls, a read succeeds in the end, timers fire, a proof is found, and the
\* keeper ends every bet.  Nothing is assumed of the player and the wallet.
FairSpec ==
    /\ Spec
    /\ \A b \in Bets : WF_vars(Advance(b))
    /\ WF_vars(PollStart) /\ SF_vars(PollBet) /\ SF_vars(PollVoid)
    /\ WF_vars(RevealEnds) /\ WF_vars(ShowResult)

-----------------------------------------------------------------------------
\* No stake is put at risk twice: while the wallet is asked to place a bet, the page knows
\* of every earlier submission that it did not happen, reverted, or which bet it made
\* ("Only a confirmed revert makes a fresh submission safe").
EverySubmissionIsAccounted ==
    run = "wallet" =>
        \A n \in 1..(asked - 1) : chain[n] \in {"none", "reverted"} \/ fate[n] # "unknown"

\* "It only ever opens for a fully settled round": a result is shown of a bet that is over, to
\* a player who still follows it, and once; no later answer turns it into a notice.
ResultIsShownOnce ==
    [][\A b \in Bets :
          /\ fate'[b] = "told" /\ fate[b] # "told" => fate[b] = "bound" /\ chain[b] \in Terminal
          /\ ~page.shown /\ page'.shown /\ page'.displayed = b => fate[b] # "told"
          /\ fate[b] = "told" => fate'[b] = "told"]_vars

\* Every bet the page follows ends for the player: its result is shown, it is left to a
\* notice, or the player starts another round before the first read of this one.
EveryRoundIsAnswered ==
    \A b \in Bets : fate[b] = "bound" ~> fate[b] # "bound"

=============================================================================
