---------------------------- MODULE BetLifecycle ----------------------------
(***************************************************************************)
(* The life of a casino bet across the four contracts that each keep a     *)
(* part of it:                                                             *)
(*                                                                         *)
(*   GameHub           the bet: hubState, requestId, deadlines, result     *)
(*   SettlementRouter  the position of the bet: position                   *)
(*   Bank              the hold that reserves its maximum cost: holdOpen   *)
(*   VRFHub            its randomness request and the number of results a  *)
(*                     Bank has received and not booked: requests,         *)
(*                     requestIdForPosition, unbookedResultCount           *)
(*                                                                         *)
(* One action is one Ethereum transaction.  Calls that the code makes      *)
(* inside a frame whose failure it swallows (the delivery of a result to   *)
(* the hub, the settlement attempted inside that delivery, the settlement  *)
(* attempted inside a void) are outcomes of the action: the inner frame    *)
(* rolls back and the outer one keeps its effects.  A transaction that     *)
(* reverts as a whole changes nothing and is no step.                      *)
(*                                                                         *)
(* An operator X_Y marked `faulty' is not part of the specification: it is *)
(* X with a plausible bug, which a property below must detect.             *)
(*                                                                         *)
(* Money is in the module BankVault.  Here `bookable' says whether the     *)
(* settlement of a bet would succeed when it is given enough gas; it       *)
(* changes arbitrarily (a broken game module, a frozen token, a repaired   *)
(* one).                                                                   *)
(***************************************************************************)
EXTENDS Integers, FiniteSets

CONSTANTS
    Bets,            \* position ids, each used for one bet
    Banks,
    RequestIds,      \* request ids the VRF wrapper may return
    Seeds,           \* random words the VRF wrapper may answer
    BankOf,          \* the Bank of the pool each bet is placed in
    NoBet, NoRequest, NoSeed,
    RefundTimeouts,  \* values governance may give refundTimeoutSeconds
    VoidDelay, PublicVoidDelay,
    LastBetTime,     \* bound: no bet is placed later
    MaxTime          \* bound: the clock stops here

ASSUME BankOfAssumption == BankOf \in [Bets -> Banks]
ASSUME NoValueAssumption ==
    NoBet \notin Bets /\ NoRequest \notin RequestIds /\ NoSeed \notin Seeds
ASSUME FiniteAssumption == IsFiniteSet(RequestIds)
ASSUME DelayAssumption ==
    /\ RefundTimeouts \subseteq Nat \ {0}
    /\ RefundTimeouts # {}
    /\ VoidDelay \in Nat /\ PublicVoidDelay \in Nat
    /\ VoidDelay < PublicVoidDelay
    /\ LastBetTime \in Nat /\ MaxTime \in Nat

VARIABLES
    now,                  \* block.timestamp
    \* GameHub
    hubState,             \* bets[b].state
    requestId,            \* bets[b].requestId
    vrfRequestedAt,       \* bets[b].vrfRequestedAt
    refundDeadline,       \* bets[b].refundDeadline
    randomHash,           \* bets[b].randomHash
    refundTimeout,        \* refundTimeoutSeconds
    voidCohortEnd,        \* voidCohortEnd[bank]
    \* SettlementRouter and Bank
    position,             \* _positions[b].state
    holdOpen,             \* holds[b].open
    riskInClosed,         \* a pool of the Bank is paused, inactive or not allowed
    \* VRFHub
    requests,             \* _requests[r]
    requestIdForPosition,
    unbookedResultCount,
    \* environment
    bookable              \* would a settlement with enough gas succeed?

hubVars == <<hubState, requestId, vrfRequestedAt, refundDeadline, randomHash>>
adminVars == <<refundTimeout, voidCohortEnd, riskInClosed>>
kernelVars == <<position, holdOpen>>
vrfVars == <<requests, requestIdForPosition, unbookedResultCount>>
vars == <<now, hubVars, adminVars, kernelVars, vrfVars, bookable>>

-----------------------------------------------------------------------------
BetStates == {"None", "PendingVRF", "RandomReady", "Settled", "Refunded", "Voided"}
PositionStates == {"None", "Held", "Settled", "Refunded", "Voided"}
RequestStates == {"None", "Awaiting", "Received", "Terminal", "Cancelled", "Voided"}
Live == {"PendingVRF", "RandomReady"}
TerminalStates == {"Settled", "Refunded", "Voided"}

(***************************************************************************)
(* Gas a caller or the wrapper leaves to a bounded inner call: too little  *)
(* to deliver the result to the hub, enough to record it but not to        *)
(* settle, or enough for both.                                             *)
(***************************************************************************)
Gas == {"starved", "recordOnly", "ample"}

NoRequestInfo == [state |-> "None", betId |-> NoBet, seed |-> NoSeed]

Init ==
    /\ now = 1
    /\ hubState = [b \in Bets |-> "None"]
    /\ requestId = [b \in Bets |-> NoRequest]
    /\ vrfRequestedAt = [b \in Bets |-> 0]
    /\ refundDeadline = [b \in Bets |-> 0]
    /\ randomHash = [b \in Bets |-> NoSeed]
    /\ refundTimeout \in RefundTimeouts
    /\ voidCohortEnd = [k \in Banks |-> 0]
    /\ position = [b \in Bets |-> "None"]
    /\ holdOpen = [b \in Bets |-> FALSE]
    /\ riskInClosed = [k \in Banks |-> FALSE]
    /\ requests = [r \in RequestIds |-> NoRequestInfo]
    /\ requestIdForPosition = [b \in Bets |-> NoRequest]
    /\ unbookedResultCount = [k \in Banks |-> 0]
    /\ bookable = [b \in Bets |-> TRUE]

-----------------------------------------------------------------------------
\* VRFHub.requestRandomWords refuses a request id it has already used.
UnusedRequest(r) == requests[r].state = "None"

(***************************************************************************)
(* GameHub.placeBet, with the Router's openPosition, the Bank's holdBet    *)
(* and the VRFHub's requestRandomWords it calls.  The wrapper chooses the  *)
(* request id; an id already used reverts the whole transaction.           *)
(***************************************************************************)
PlaceBet(b, r) ==
    /\ now <= LastBetTime
    /\ ~riskInClosed[BankOf[b]]
    /\ position[b] = "None"
    /\ requestIdForPosition[b] = NoRequest
    /\ UnusedRequest(r)
    /\ hubState' = [hubState EXCEPT ![b] = "PendingVRF"]
    /\ requestId' = [requestId EXCEPT ![b] = r]
    /\ vrfRequestedAt' = [vrfRequestedAt EXCEPT ![b] = now]
    /\ refundDeadline' = [refundDeadline EXCEPT ![b] = now + refundTimeout]
    /\ position' = [position EXCEPT ![b] = "Held"]
    /\ holdOpen' = [holdOpen EXCEPT ![b] = TRUE]
    /\ requests' = [requests EXCEPT ![r] =
                        [state |-> "Awaiting", betId |-> b, seed |-> NoSeed]]
    /\ requestIdForPosition' = [requestIdForPosition EXCEPT ![b] = r]
    /\ UNCHANGED <<now, randomHash, adminVars, unbookedResultCount, bookable>>

\* GameHub._boundRequest: the request the bet stores is the bet's own.
BoundRequest(b) ==
    /\ requestId[b] # NoRequest
    /\ requests[requestId[b]].betId = b

\* GameHub._receivedRequest.
ReceivedRequest(b) ==
    BoundRequest(b) /\ requests[requestId[b]].state = "Received"

\* GameHub._recordRandom accepts the result (it does nothing when RandomReady).
CanRecord(b) == hubState[b] \in Live

\* SettlementRouter._requireOwnerHeldPosition and the Bank's `open' check.
CanClose(b) == position[b] = "Held" /\ holdOpen[b]

\* finalizeFromCallback and _finalize succeed in a frame with this gas.
Settles(b, gas) == gas = "ample" /\ bookable[b] /\ CanRecord(b) /\ CanClose(b)

(***************************************************************************)
(* The terminal transition that the hub, the Router and the Bank make      *)
(* together.                                                               *)
(***************************************************************************)
Close_KeepsHold(b, terminal) ==  \* faulty: the Bank's hold stays open
    /\ hubState' = [hubState EXCEPT ![b] = terminal]
    /\ position' = [position EXCEPT ![b] = terminal]
    /\ UNCHANGED holdOpen

Close(b, terminal) ==
    /\ hubState' = [hubState EXCEPT ![b] = terminal]
    /\ position' = [position EXCEPT ![b] = terminal]
    /\ holdOpen' = [holdOpen EXCEPT ![b] = FALSE]

RecordRandom(b, seed) ==
    randomHash' = [randomHash EXCEPT ![b] = IF hubState[b] = "RandomReady" THEN @ ELSE seed]

(***************************************************************************)
(* VRFHub._deliver: GameHub.onRandomWords records the result and attempts  *)
(* to settle in a child frame whose failure leaves the record.             *)
(***************************************************************************)
Deliver(r, seed, gas) ==
    LET b == requests[r].betId
        delivered == gas # "starved" /\ requestId[b] = r /\ CanRecord(b)
    IN  \/ /\ delivered /\ Settles(b, gas)
           /\ RecordRandom(b, seed)
           /\ Close(b, "Settled")
           /\ requests' = [requests EXCEPT ![r].state = "Terminal", ![r].seed = seed]
        \/ /\ delivered /\ ~Settles(b, gas)
           /\ RecordRandom(b, seed)
           /\ hubState' = [hubState EXCEPT ![b] = "RandomReady"]
           /\ requests' = [requests EXCEPT ![r].state = "Received", ![r].seed = seed]
           /\ UNCHANGED kernelVars
        \/ /\ ~delivered
           /\ requests' = [requests EXCEPT ![r].state = "Received", ![r].seed = seed]
           /\ UNCHANGED <<hubState, randomHash, kernelVars>>

CountUnbooked(k, d) ==
    unbookedResultCount' = [unbookedResultCount EXCEPT ![k] = @ + d]

\* An answer to a request that is not Awaiting is ignored.
TakesAnswer(r) == requests[r].state = "Awaiting"

(***************************************************************************)
(* VRFHub.fulfillRandomWords.  The wrapper may answer any id with any      *)
(* word, late and more than once.                                          *)
(***************************************************************************)
Fulfill(r, seed, gas) ==
    /\ TakesAnswer(r)
    /\ Deliver(r, seed, gas)
    /\ CountUnbooked(BankOf[requests[r].betId],
                     IF requests'[r].state = "Terminal" THEN 0 ELSE 1)
    /\ UNCHANGED <<now, requestId, vrfRequestedAt, refundDeadline, adminVars,
                   requestIdForPosition, bookable>>

\* VRFHub.retry, by anyone with any gas.
Retry(r, gas) ==
    /\ requests[r].state = "Received"
    /\ Deliver(r, requests[r].seed, gas)
    /\ CountUnbooked(BankOf[requests[r].betId],
                     IF requests'[r].state = "Terminal" THEN -1 ELSE 0)
    /\ UNCHANGED <<now, requestId, vrfRequestedAt, refundDeadline, adminVars,
                   requestIdForPosition, bookable>>

(***************************************************************************)
(* VRFHub.acknowledge and acknowledgeVoid, called by the hub after the     *)
(* Router made the position terminal.                                      *)
(***************************************************************************)

Acknowledge_KeepsCount(r, terminal) ==  \* faulty: the result stays in the count
    /\ requests[r].state = "Received"
    /\ requests' = [requests EXCEPT ![r].state = terminal]
    /\ UNCHANGED unbookedResultCount

Acknowledge(r, terminal) ==
    /\ requests[r].state = "Received"
    /\ requests' = [requests EXCEPT ![r].state = terminal]
    /\ CountUnbooked(BankOf[requests[r].betId], -1)

\* GameHub.finalize, by anyone with enough gas.
Finalize(b) ==
    /\ ReceivedRequest(b)
    /\ Settles(b, "ample")
    /\ RecordRandom(b, requests[requestId[b]].seed)
    /\ Close(b, "Settled")
    /\ Acknowledge(requestId[b], "Terminal")
    /\ UNCHANGED <<now, requestId, vrfRequestedAt, refundDeadline, adminVars,
                   requestIdForPosition, bookable>>

RefundDue_WhenOpen(b) ==  \* faulty: a pause stops refunds
    now >= refundDeadline[b] /\ ~riskInClosed[BankOf[b]]
RefundDue(b) == now >= refundDeadline[b]

\* The refund's own check of the request, and the one VRFHub.cancel makes.
ResultUnknown_Unchecked(b) == requests[requestId[b]].state \in {"Awaiting", "Received"}  \* faulty
ResultUnknown(b) == requests[requestId[b]].state = "Awaiting"

\* GameHub.refund, by anyone; VRFHub.cancel ends the request.
Refund(b) ==
    /\ hubState[b] = "PendingVRF"
    /\ RefundDue(b)
    /\ ResultUnknown(b)
    /\ CanClose(b)
    /\ Close(b, "Refunded")
    /\ requests' = [requests EXCEPT ![requestId[b]].state = "Cancelled"]
    /\ UNCHANGED <<now, requestId, vrfRequestedAt, refundDeadline, randomHash, adminVars,
                   requestIdForPosition, unbookedResultCount, bookable>>

\* GameHub.openVoidWindow, by governance, the sentinel or the guardian.
OpenVoidWindow(k) ==
    /\ unbookedResultCount[k] > 0
    /\ voidCohortEnd' = [voidCohortEnd EXCEPT ![k] = now]
    /\ UNCHANGED <<now, hubVars, refundTimeout, riskInClosed, kernelVars, vrfVars, bookable>>

\* When a bet may be voided: early if it is of the cohort of its Bank's last window.
EligibleAt_AnyCohort(b) ==  \* faulty: a window covers later bets too
    vrfRequestedAt[b] + (IF voidCohortEnd[BankOf[b]] > 0 THEN VoidDelay ELSE PublicVoidDelay)

EligibleAt_WindowOnly(b) ==  \* faulty: no void without a window
    IF vrfRequestedAt[b] <= voidCohortEnd[BankOf[b]]
    THEN vrfRequestedAt[b] + VoidDelay ELSE MaxTime + 1

EligibleAt(b) ==
    vrfRequestedAt[b] + (IF vrfRequestedAt[b] <= voidCohortEnd[BankOf[b]]
                         THEN VoidDelay ELSE PublicVoidDelay)

\* The call leaves the settlement its fixed gas, and the void after it a reserve.
EnoughGas_Unchecked(gas) == TRUE  \* faulty: any gas will do
EnoughGas(gas) == gas = "ample"

(***************************************************************************)
(* GameHub.voidBet, by anyone.  A call that leaves less than the fixed     *)
(* settlement gas reverts; otherwise the bet settles if it can and is      *)
(* voided if it cannot.                                                    *)
(***************************************************************************)
VoidBet(b, gas) ==
    /\ CanRecord(b)
    /\ ReceivedRequest(b)
    /\ now >= EligibleAt(b)
    /\ EnoughGas(gas)
    /\ RecordRandom(b, requests[requestId[b]].seed)
    /\ CanClose(b)
    /\ \/ /\ Settles(b, gas)
          /\ Close(b, "Settled")
          /\ Acknowledge(requestId[b], "Terminal")
       \/ /\ ~Settles(b, gas)
          /\ Close(b, "Voided")
          /\ Acknowledge(requestId[b], "Voided")
    /\ UNCHANGED <<now, requestId, vrfRequestedAt, refundDeadline, adminVars,
                   requestIdForPosition, bookable>>

-----------------------------------------------------------------------------
\* GameHub.setRefundTimeout: accepted bets keep their deadline.
SetRefundTimeout(t) ==
    /\ refundTimeout' = t
    /\ UNCHANGED <<now, hubVars, voidCohortEnd, riskInClosed, kernelVars, vrfVars, bookable>>

\* A pause of the Bank, a deactivated pool or a withdrawn hub admission, and its end.
SetRiskIn(k, closed) ==
    /\ riskInClosed' = [riskInClosed EXCEPT ![k] = closed]
    /\ UNCHANGED <<now, hubVars, refundTimeout, voidCohortEnd, kernelVars, vrfVars, bookable>>

\* The environment breaks or repairs what the settlement of a live bet needs.
SetBookable(b, v) ==
    /\ hubState[b] \in Live
    /\ bookable' = [bookable EXCEPT ![b] = v]
    /\ UNCHANGED <<now, hubVars, adminVars, kernelVars, vrfVars>>

Tick ==
    /\ now < MaxTime
    /\ now' = now + 1
    /\ UNCHANGED <<hubVars, adminVars, kernelVars, vrfVars, bookable>>

Next ==
    \/ \E b \in Bets, r \in RequestIds : PlaceBet(b, r)
    \/ \E r \in RequestIds, s \in Seeds, g \in Gas : Fulfill(r, s, g)
    \/ \E r \in RequestIds, g \in Gas : Retry(r, g)
    \/ \E b \in Bets : Finalize(b) \/ Refund(b)
    \/ \E b \in Bets, g \in Gas : VoidBet(b, g)
    \/ \E k \in Banks : OpenVoidWindow(k)
    \/ \E t \in RefundTimeouts : SetRefundTimeout(t)
    \/ \E k \in Banks, v \in BOOLEAN : SetRiskIn(k, v)
    \/ \E b \in Bets, v \in BOOLEAN : SetBookable(b, v)
    \/ Tick

Spec == Init /\ [][Next]_vars

(***************************************************************************)
(* Time passes, and a keeper (anyone) sends refund and voidBet while they  *)
(* would succeed.  Nothing is assumed of the wrapper, of finalize or retry,*)
(* of governance or of the environment.                                    *)
(***************************************************************************)
Fairness ==
    /\ WF_vars(Tick)
    /\ \A b \in Bets : WF_vars(Refund(b)) /\ WF_vars(VoidBet(b, "ample"))

FairSpec == Spec /\ Fairness
-----------------------------------------------------------------------------
(***************************************************************************)
(* Properties.                                                             *)
(***************************************************************************)
TypeOK ==
    /\ now \in Nat
    /\ hubState \in [Bets -> BetStates]
    /\ requestId \in [Bets -> RequestIds \cup {NoRequest}]
    /\ vrfRequestedAt \in [Bets -> Nat]
    /\ refundDeadline \in [Bets -> Nat]
    /\ randomHash \in [Bets -> Seeds \cup {NoSeed}]
    /\ refundTimeout \in RefundTimeouts
    /\ voidCohortEnd \in [Banks -> Nat]
    /\ position \in [Bets -> PositionStates]
    /\ holdOpen \in [Bets -> BOOLEAN]
    /\ riskInClosed \in [Banks -> BOOLEAN]
    /\ requests \in [RequestIds -> [state : RequestStates, betId : Bets \cup {NoBet},
                                    seed : Seeds \cup {NoSeed}]]
    /\ requestIdForPosition \in [Bets -> RequestIds \cup {NoRequest}]
    /\ unbookedResultCount \in [Banks -> Int]
    /\ bookable \in [Bets -> BOOLEAN]

(***************************************************************************)
(* A bet and its randomness request point at each other, in the hub and in *)
(* the VRFHub alike, and no two bets share one: a result can never reach a *)
(* bet other than the one it was drawn for.                                *)
(* (GameHub._validateRequest, VRFHub.requestRandomWords)                   *)
(***************************************************************************)
RequestBinding ==
    /\ requestIdForPosition = requestId
    /\ \A b \in Bets, r \in RequestIds : requestId[b] = r <=> requests[r].betId = b
    /\ \A r \in RequestIds : requests[r].state = "None" <=> requests[r].betId = NoBet

(***************************************************************************)
(* The four contracts agree on every bet at the end of every transaction,  *)
(* whatever frame failed inside it: a live bet has a held position, an     *)
(* open hold and a request still to be ended; a terminal one has none of   *)
(* them open and each contract recorded the same terminal.                 *)
(***************************************************************************)
RequestStateFor(s) ==
    CASE s = "PendingVRF"  -> {"Awaiting", "Received"}
      [] s = "RandomReady" -> {"Received"}
      [] s = "Settled"     -> {"Terminal"}
      [] s = "Refunded"    -> {"Cancelled"}
      [] s = "Voided"      -> {"Voided"}

Agreement ==
    \A b \in Bets :
        /\ position[b] = IF hubState[b] \in Live THEN "Held" ELSE hubState[b]
        /\ holdOpen[b] <=> hubState[b] \in Live
        /\ requestId[b] = NoRequest <=> hubState[b] = "None"
        /\ hubState[b] # "None" =>
               requests[requestId[b]].state \in RequestStateFor(hubState[b])

(***************************************************************************)
(* The count that fences the liquidity providers of a Bank is exactly the  *)
(* number of its results that were received and are neither settled nor    *)
(* voided: it never goes negative, never sticks above zero and never opens *)
(* the fence while a result is known and unbooked.                         *)
(***************************************************************************)
UnbookedRequests(k) ==
    {r \in RequestIds : requests[r].state = "Received" /\ BankOf[requests[r].betId] = k}

FenceCountsUnbooked ==
    \A k \in Banks : unbookedResultCount[k] = Cardinality(UnbookedRequests(k))

(***************************************************************************)
(* The random word a bet is resolved with is the one its request stored,   *)
(* and a bet that was refunded never had one: no player is refunded on a   *)
(* result that was already known, and a late answer to a refunded bet is   *)
(* not stored.                                                             *)
(***************************************************************************)
ResultIsTheReceivedSeed ==
    /\ \A b \in Bets :
        /\ hubState[b] \in {"RandomReady", "Settled", "Voided"} =>
               randomHash[b] = requests[requestId[b]].seed
        /\ hubState[b] \in {"None", "PendingVRF", "Refunded"} => randomHash[b] = NoSeed
    /\ \A r \in RequestIds :
        requests[r].seed = NoSeed <=> requests[r].state \in {"None", "Awaiting", "Cancelled"}

(***************************************************************************)
(* A received word is never replaced, by a second answer of the wrapper or *)
(* by any retry, and a terminal bet never changes again in any of the four *)
(* contracts.                                                              *)
(***************************************************************************)
ReceivedSeedIsFinal ==
    [][\A r \in RequestIds :
            requests[r].seed # NoSeed => requests'[r].seed = requests[r].seed]_vars

TerminalIsFinal ==
    [][\A b \in Bets : hubState[b] \in TerminalStates =>
            /\ hubState'[b] = hubState[b] /\ position'[b] = position[b]
            /\ holdOpen'[b] = holdOpen[b] /\ requestId'[b] = requestId[b]
            /\ requests'[requestId[b]] = requests[requestId[b]]]_vars

(***************************************************************************)
(* Whoever sends a void, with whatever gas, cannot turn a result that can  *)
(* be booked into a void (the comment of GameHub.voidBet: `a call with too *)
(* little gas reverts and never voids').                                   *)
(***************************************************************************)
BookableIsNeverVoided ==
    [][\A b \in Bets : hubState[b] # "Voided" /\ hubState'[b] = "Voided" => ~bookable[b]]_vars

(***************************************************************************)
(* A bet placed after the last void window of its Bank was opened is not   *)
(* voided within seven days: a window is one decision about the bets that  *)
(* existed when it was opened, never about later ones.                     *)
(***************************************************************************)
WindowCoversItsCohortOnly ==
    [][/\ \A k \in Banks : voidCohortEnd'[k] >= voidCohortEnd[k] /\ voidCohortEnd'[k] <= now'
       /\ \A b \in Bets :
            /\ hubState[b] # "Voided" /\ hubState'[b] = "Voided"
            /\ now < vrfRequestedAt[b] + PublicVoidDelay
            => /\ now >= vrfRequestedAt[b] + VoidDelay
               /\ vrfRequestedAt[b] <= voidCohortEnd[BankOf[b]]]_vars

(***************************************************************************)
(* Every accepted bet ends, even when the wrapper never answers, answers   *)
(* late, the module is broken forever or risk-in stays closed: the player  *)
(* is paid, refunded or holds a payable.                                   *)
(***************************************************************************)
EveryBetEnds ==
    \A b \in Bets : hubState[b] \in Live ~> hubState[b] \in TerminalStates

(***************************************************************************)
(* Every received result leaves the fence: a result that can never be      *)
(* booked does not lock the liquidity providers of its Bank in for ever.   *)
(***************************************************************************)
EveryResultLeavesTheFence ==
    \A r \in RequestIds :
        requests[r].state = "Received" ~> requests[r].state \in {"Terminal", "Voided"}

-----------------------------------------------------------------------------
(***************************************************************************)
(* The lifecycle implements the promise.  A result is known as soon as the *)
(* VRFHub stored it, whether or not it reached the hub.                    *)
(***************************************************************************)
PhaseOf(b) ==
    CASE hubState[b] = "None"     -> "none"
      [] hubState[b] = "Settled"  -> "settled"
      [] hubState[b] = "Refunded" -> "refunded"
      [] hubState[b] = "Voided"   -> "voided"
      [] hubState[b] \in Live     -> IF requests[requestId[b]].state = "Awaiting"
                                     THEN "open" ELSE "known"

ResultOf(b) == IF requestId[b] = NoRequest THEN NoSeed ELSE requests[requestId[b]].seed

Promise == INSTANCE BetPromise
             WITH phase  <- [b \in Bets |-> PhaseOf(b)],
                  result <- [b \in Bets |-> ResultOf(b)],
                  fenced <- {k \in Banks : unbookedResultCount[k] > 0}

ImplementsPromise == Promise!Spec
=============================================================================
