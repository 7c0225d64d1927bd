------------------------- MODULE BetLifecycle_proofs -------------------------
(***************************************************************************)
(* Proofs about BetLifecycle, for every value of its constants.            *)
(*                                                                         *)
(* No conjunct of the inductive invariant is inductive alone: an answer    *)
(* reaches the bet its request names (RequestBinding), in the state that   *)
(* the state of the request implies (Agreement).                           *)
(***************************************************************************)
EXTENDS BetLifecycle, FiniteSetTheorems, TLAPS

Inv ==
    /\ TypeOK
    /\ RequestBinding
    /\ Agreement
    /\ ResultIsTheReceivedSeed

RequestRecords ==
    [state : RequestStates, betId : Bets \cup {NoBet}, seed : Seeds \cup {NoSeed}]

\* The guards that are a line each are read as what they stand for.
USE DEF UnusedRequest, TakesAnswer, RefundDue, ResultUnknown, EnoughGas

LEMMA InitInv == Init => Inv
<1> SUFFICES ASSUME Init PROVE Inv
  OBVIOUS
<1>1. NoRequestInfo \in RequestRecords
  BY DEF NoRequestInfo, RequestRecords, RequestStates
<1>2. TypeOK
  BY <1>1, BankOfAssumption, DelayAssumption
     DEF Init, TypeOK, RequestRecords, BetStates, PositionStates
<1>3. RequestBinding
  BY NoValueAssumption DEF Init, RequestBinding, NoRequestInfo
<1>4. Agreement
  BY DEF Init, Agreement, Live
<1>5. ResultIsTheReceivedSeed
  BY DEF Init, ResultIsTheReceivedSeed, NoRequestInfo
<1> QED BY <1>2, <1>3, <1>4, <1>5 DEF Inv

\* What the invariant says of one bet and its request.
LEMMA BoundFacts ==
    ASSUME Inv, NEW b \in Bets, requestId[b] # NoRequest
    PROVE  /\ requestId[b] \in RequestIds
           /\ requests[requestId[b]] \in RequestRecords
           /\ requests[requestId[b]].betId = b
           /\ requests[requestId[b]].state # "None"
           /\ hubState[b] # "None"
           /\ requests[requestId[b]].state \in RequestStateFor(hubState[b])
<1>1. requestId[b] \in RequestIds
  BY DEF Inv, TypeOK
<1>2. requests[requestId[b]] \in RequestRecords
  BY <1>1 DEF Inv, TypeOK, RequestRecords
<1>3. requests[requestId[b]].betId = b
  BY <1>1 DEF Inv, RequestBinding
<1>4. requests[requestId[b]].state # "None"
  BY <1>1, <1>3, NoValueAssumption DEF Inv, RequestBinding
<1>5. hubState[b] # "None" /\ requests[requestId[b]].state \in RequestStateFor(hubState[b])
  BY DEF Inv, Agreement
<1> QED BY <1>1, <1>2, <1>3, <1>4, <1>5

LEMMA RequestFacts ==
    ASSUME Inv, NEW r \in RequestIds, requests[r].state # "None"
    PROVE  /\ requests[r].betId \in Bets
           /\ requestId[requests[r].betId] = r
           /\ r # NoRequest
<1>1. requests[r] \in RequestRecords
  BY DEF Inv, TypeOK, RequestRecords
<1>2. requests[r].betId \in Bets
  BY <1>1 DEF Inv, RequestBinding, RequestRecords
<1>3. requestId[requests[r].betId] = r
  BY <1>2 DEF Inv, RequestBinding
<1> QED BY <1>2, <1>3, NoValueAssumption

LEMMA PlaceBetInv ==
    ASSUME Inv, NEW b \in Bets, NEW r \in RequestIds, PlaceBet(b, r)
    PROVE  Inv'
<1>1. hubState[b] = "None" /\ requestId[b] = NoRequest /\ requests[r].betId = NoBet
  <2>1. requestId[b] = NoRequest /\ requests[r].betId = NoBet
    BY DEF PlaceBet, Inv, RequestBinding
  <2> QED BY <2>1 DEF Inv, Agreement
<1>2. TypeOK'
  <2>1. now + refundTimeout \in Nat
    BY DelayAssumption DEF Inv, TypeOK
  <2>2. [state |-> "Awaiting", betId |-> b, seed |-> NoSeed] \in RequestRecords
    BY DEF RequestRecords, RequestStates
  <2>3. requests' \in [RequestIds -> RequestRecords]
    BY <2>2 DEF PlaceBet, Inv, TypeOK, RequestRecords
  <2> QED BY <2>1, <2>3
          DEF PlaceBet, Inv, TypeOK, adminVars, BetStates, PositionStates, RequestRecords
<1>3. /\ requestId' = [requestId EXCEPT ![b] = r]
      /\ requests' = [requests EXCEPT ![r] =
                          [state |-> "Awaiting", betId |-> b, seed |-> NoSeed]]
      /\ requestIdForPosition' = [requestIdForPosition EXCEPT ![b] = r]
      /\ hubState' = [hubState EXCEPT ![b] = "PendingVRF"]
      /\ position' = [position EXCEPT ![b] = "Held"]
      /\ holdOpen' = [holdOpen EXCEPT ![b] = TRUE]
      /\ randomHash' = randomHash
  BY DEF PlaceBet
<1>4. RequestBinding'
  <2>1. \A c \in Bets, q \in RequestIds : requestId[c] = q <=> requests[q].betId = c
    BY DEF Inv, RequestBinding
  <2>2. \A c \in Bets, q \in RequestIds : requestId'[c] = q <=> requests'[q].betId = c
    BY <1>1, <1>3, <2>1, NoValueAssumption DEF Inv, TypeOK
  <2>3. \A q \in RequestIds : requests'[q].state = "None" <=> requests'[q].betId = NoBet
    BY <1>3, NoValueAssumption DEF Inv, TypeOK, RequestBinding
  <2>4. requestIdForPosition' = requestId'
    BY <1>3 DEF Inv, RequestBinding
  <2> QED BY <2>2, <2>3, <2>4 DEF RequestBinding
<1>5. \A c \in Bets : c # b /\ requestId[c] # NoRequest => requestId[c] # r
  BY <1>1, NoValueAssumption DEF Inv, RequestBinding
<1>6. Agreement'
  <2> SUFFICES ASSUME NEW c \in Bets
               PROVE  /\ position'[c] = IF hubState'[c] \in Live THEN "Held" ELSE hubState'[c]
                      /\ holdOpen'[c] <=> hubState'[c] \in Live
                      /\ requestId'[c] = NoRequest <=> hubState'[c] = "None"
                      /\ hubState'[c] # "None" =>
                             requests'[requestId'[c]].state \in RequestStateFor(hubState'[c])
    BY DEF Agreement
  <2>1. CASE c = b
    <3>1. /\ hubState'[c] = "PendingVRF" /\ position'[c] = "Held" /\ holdOpen'[c]
          /\ requestId'[c] = r /\ requests'[r].state = "Awaiting"
      BY <1>3, <2>1 DEF Inv, TypeOK
    <3>2. "Awaiting" \in RequestStateFor("PendingVRF")
      BY DEF RequestStateFor
    <3> QED BY <3>1, <3>2, NoValueAssumption DEF Live
  <2>2. CASE c # b
    <3>1. /\ hubState'[c] = hubState[c] /\ position'[c] = position[c]
          /\ holdOpen'[c] = holdOpen[c] /\ requestId'[c] = requestId[c]
      BY <1>3, <2>2 DEF Inv, TypeOK
    <3>2. requestId[c] # NoRequest => requests'[requestId[c]] = requests[requestId[c]]
      BY <1>3, <1>5, <2>2 DEF Inv, TypeOK
    <3> QED BY <3>1, <3>2 DEF Inv, Agreement
  <2> QED BY <2>1, <2>2
<1>7. ResultIsTheReceivedSeed'
  <2>1. \A q \in RequestIds :
            requests'[q].seed = NoSeed <=> requests'[q].state \in {"None", "Awaiting", "Cancelled"}
    BY <1>3 DEF Inv, TypeOK, ResultIsTheReceivedSeed
  <2>2. randomHash[b] = NoSeed
    BY <1>1 DEF Inv, ResultIsTheReceivedSeed
  <2> SUFFICES ASSUME NEW c \in Bets
               PROVE  /\ hubState'[c] \in {"RandomReady", "Settled", "Voided"} =>
                             randomHash'[c] = requests'[requestId'[c]].seed
                      /\ hubState'[c] \in {"None", "PendingVRF", "Refunded"} =>
                             randomHash'[c] = NoSeed
    BY <2>1 DEF ResultIsTheReceivedSeed
  <2>3. CASE c = b
    BY <1>3, <2>2, <2>3 DEF Inv, TypeOK
  <2>4. CASE c # b
    <3>1. hubState'[c] = hubState[c] /\ requestId'[c] = requestId[c] /\ randomHash'[c] = randomHash[c]
      BY <1>3, <2>4 DEF Inv, TypeOK
    <3>2. hubState[c] # "None" => requests'[requestId[c]] = requests[requestId[c]]
      BY <1>3, <1>5, <2>4 DEF Inv, TypeOK, Agreement
    <3> QED BY <3>1, <3>2 DEF Inv, ResultIsTheReceivedSeed
  <2> QED BY <2>3, <2>4
<1> QED BY <1>2, <1>4, <1>6, <1>7 DEF Inv

(***************************************************************************)
(* A transaction that moves one accepted bet and its request keeps the     *)
(* invariant when it leaves the two, and the hash, in states that belong   *)
(* together.                                                               *)
(***************************************************************************)
Moves(b) ==
    /\ requestId' = requestId /\ requestIdForPosition' = requestIdForPosition
    /\ \A c \in Bets \ {b} : /\ hubState'[c] = hubState[c] /\ position'[c] = position[c]
                             /\ holdOpen'[c] = holdOpen[c] /\ randomHash'[c] = randomHash[c]
    /\ \A q \in RequestIds \ {requestId[b]} : requests'[q] = requests[q]
    /\ requests'[requestId[b]].betId = b

Consistent(b, hub, pos, open, hash, req) ==
    /\ hub # "None"
    /\ pos = IF hub \in Live THEN "Held" ELSE hub
    /\ open <=> hub \in Live
    /\ req.state \in RequestStateFor(hub)
    /\ req.state # "None"
    /\ hub \in {"RandomReady", "Settled", "Voided"} => hash = req.seed
    /\ hub \in {"PendingVRF", "Refunded"} => hash = NoSeed
    /\ req.seed = NoSeed <=> req.state \in {"None", "Awaiting", "Cancelled"}

LEMMA MoveInv ==
    ASSUME Inv, TypeOK', NEW b \in Bets, requestId[b] # NoRequest, Moves(b),
           Consistent(b, hubState'[b], position'[b], holdOpen'[b], randomHash'[b],
                      requests'[requestId[b]])
    PROVE  Inv'
<1>1. requestId[b] \in RequestIds /\ requests[requestId[b]].betId = b
  BY BoundFacts
<1>2. \A c \in Bets, q \in RequestIds : requestId[c] = q <=> requests[q].betId = c
  BY DEF Inv, RequestBinding
<1>3. RequestBinding'
  <2>1. \A q \in RequestIds : requests'[q].betId = requests[q].betId
    BY <1>1 DEF Moves
  <2>2. \A q \in RequestIds : requests'[q].state = "None" <=> requests'[q].betId = NoBet
    BY <1>1, NoValueAssumption DEF Moves, Consistent, Inv, RequestBinding
  <2>3. \A c \in Bets, q \in RequestIds : requestId'[c] = q <=> requests'[q].betId = c
    BY <1>2, <2>1 DEF Moves
  <2>4. requestIdForPosition' = requestId'
    BY DEF Moves, Inv, RequestBinding
  <2> QED BY <2>2, <2>3, <2>4 DEF RequestBinding
<1>4. \A c \in Bets \ {b} :
          requestId[c] # NoRequest => requests'[requestId[c]] = requests[requestId[c]]
  <2> SUFFICES ASSUME NEW c \in Bets \ {b}, requestId[c] # NoRequest
               PROVE  requests'[requestId[c]] = requests[requestId[c]]
    OBVIOUS
  <2>1. requestId[c] \in RequestIds /\ requestId[c] # requestId[b]
    BY <1>1, BoundFacts
  <2> QED BY <2>1 DEF Moves
<1>5. Agreement'
  <2> SUFFICES ASSUME NEW c \in Bets
               PROVE  /\ position'[c] = IF hubState'[c] \in Live THEN "Held" ELSE hubState'[c]
                      /\ holdOpen'[c] <=> hubState'[c] \in Live
                      /\ requestId'[c] = NoRequest <=> hubState'[c] = "None"
                      /\ hubState'[c] # "None" =>
                             requests'[requestId'[c]].state \in RequestStateFor(hubState'[c])
    BY DEF Agreement
  <2>1. CASE c = b
    BY <2>1 DEF Moves, Consistent
  <2>2. CASE c # b
    <3>1. /\ hubState'[c] = hubState[c] /\ position'[c] = position[c]
          /\ holdOpen'[c] = holdOpen[c] /\ requestId'[c] = requestId[c]
      BY <2>2 DEF Moves
    <3> QED BY <1>4, <2>2, <3>1 DEF Inv, Agreement
  <2> QED BY <2>1, <2>2
<1>6. ResultIsTheReceivedSeed'
  <2>1. \A q \in RequestIds :
            requests'[q].seed = NoSeed <=> requests'[q].state \in {"None", "Awaiting", "Cancelled"}
    BY <1>1 DEF Moves, Consistent, Inv, ResultIsTheReceivedSeed
  <2> SUFFICES ASSUME NEW c \in Bets
               PROVE  /\ hubState'[c] \in {"RandomReady", "Settled", "Voided"} =>
                             randomHash'[c] = requests'[requestId'[c]].seed
                      /\ hubState'[c] \in {"None", "PendingVRF", "Refunded"} =>
                             randomHash'[c] = NoSeed
    BY <2>1 DEF ResultIsTheReceivedSeed
  <2>2. CASE c = b
    BY <2>2 DEF Moves, Consistent
  <2>3. CASE c # b
    <3>1. hubState'[c] = hubState[c] /\ requestId'[c] = requestId[c] /\ randomHash'[c] = randomHash[c]
      BY <2>3 DEF Moves
    <3>2. hubState[c] # "None" => requests'[requestId[c]] = requests[requestId[c]]
      BY <1>4, <2>3 DEF Inv, Agreement
    <3> QED BY <3>1, <3>2 DEF Inv, ResultIsTheReceivedSeed
  <2> QED BY <2>2, <2>3
<1> QED BY <1>3, <1>5, <1>6 DEF Inv

\* The tables of requests of the hub's states, expanded once.
LEMMA StateTable ==
    /\ RequestStateFor("PendingVRF") = {"Awaiting", "Received"}
    /\ RequestStateFor("RandomReady") = {"Received"}
    /\ RequestStateFor("Settled") = {"Terminal"}
    /\ RequestStateFor("Refunded") = {"Cancelled"}
    /\ RequestStateFor("Voided") = {"Voided"}
  BY DEF RequestStateFor

\* A request that waits or holds a result belongs to a live bet.
LEMMA OpenRequestIsLive ==
    ASSUME Inv, NEW r \in RequestIds, requests[r].state \in {"Awaiting", "Received"}
    PROVE  /\ hubState[requests[r].betId] \in Live
           /\ requests[r].state = "Awaiting" => hubState[requests[r].betId] = "PendingVRF"
           /\ position[requests[r].betId] = "Held" /\ holdOpen[requests[r].betId]
<1> DEFINE b == requests[r].betId
<1>1. b \in Bets /\ requestId[b] = r /\ r # NoRequest
  BY RequestFacts
<1>2. hubState[b] # "None" /\ requests[r].state \in RequestStateFor(hubState[b])
  BY <1>1, BoundFacts
<1>3. hubState[b] \in BetStates
  BY <1>1 DEF Inv, TypeOK
<1>4. hubState[b] \in Live /\ (requests[r].state = "Awaiting" => hubState[b] = "PendingVRF")
  BY <1>2, <1>3, StateTable DEF BetStates, Live
<1> QED BY <1>1, <1>4 DEF Inv, Agreement

LEMMA DeliverInv ==
    ASSUME Inv, NEW r \in RequestIds, NEW seed \in Seeds, NEW gas \in Gas,
           requests[r].state \in {"Awaiting", "Received"},
           requests[r].state = "Received" => seed = requests[r].seed,
           Deliver(r, seed, gas),
           UNCHANGED <<now, requestId, vrfRequestedAt, refundDeadline, adminVars,
                       requestIdForPosition, bookable>>,
           unbookedResultCount' \in [Banks -> Int]
    PROVE  Inv'
<1> DEFINE b == requests[r].betId
<1>1. b \in Bets /\ requestId[b] = r /\ r # NoRequest
  BY RequestFacts
<1>2. /\ hubState[b] \in Live /\ position[b] = "Held" /\ holdOpen[b]
      /\ requests[r].state = "Awaiting" => hubState[b] = "PendingVRF"
  BY OpenRequestIsLive
<1>3. seed # NoSeed
  BY NoValueAssumption
<1>4. requests[r] \in RequestRecords
  BY DEF Inv, TypeOK, RequestRecords
<1>5. /\ hubState[b] = "RandomReady" => requests[r].state = "Received" /\ randomHash[b] = seed
      /\ hubState[b] = "PendingVRF" => randomHash[b] = NoSeed
  BY <1>1, <1>2 DEF Inv, ResultIsTheReceivedSeed, Live
<1> HIDE DEF b
<1>6. RecordRandom(b, seed) => randomHash' = [randomHash EXCEPT ![b] = seed]
  BY <1>1, <1>2, <1>5 DEF RecordRandom, Live, Inv, TypeOK
<1>7. PICK st \in {"Terminal", "Received"} :
        /\ requests' = [requests EXCEPT ![r].state = st, ![r].seed = seed]
        /\ \/ /\ st = "Terminal"
              /\ hubState' = [hubState EXCEPT ![b] = "Settled"]
              /\ position' = [position EXCEPT ![b] = "Settled"]
              /\ holdOpen' = [holdOpen EXCEPT ![b] = FALSE]
              /\ randomHash' = [randomHash EXCEPT ![b] = seed]
           \/ /\ st = "Received"
              /\ hubState' = [hubState EXCEPT ![b] = "RandomReady"]
              /\ randomHash' = [randomHash EXCEPT ![b] = seed]
              /\ position' = position /\ holdOpen' = holdOpen
           \/ /\ st = "Received"
              /\ UNCHANGED <<hubState, randomHash, position, holdOpen>>
  BY <1>6 DEF Deliver, Close, kernelVars, b
<1>8. /\ requests' \in [RequestIds -> RequestRecords]
      /\ requests'[r].betId = b /\ requests'[r].seed = seed /\ requests'[r].state = st
      /\ \A q \in RequestIds \ {r} : requests'[q] = requests[q]
  BY <1>4, <1>7 DEF Inv, TypeOK, RequestRecords, RequestStates, b
<1>9. TypeOK'
  <2>1. hubState' \in [Bets -> BetStates]
    BY <1>7 DEF Inv, TypeOK, BetStates
  <2>2. position' \in [Bets -> PositionStates] /\ holdOpen' \in [Bets -> BOOLEAN]
    BY <1>7 DEF Inv, TypeOK, PositionStates
  <2>3. randomHash' \in [Bets -> Seeds \cup {NoSeed}]
    BY <1>7 DEF Inv, TypeOK
  <2> QED BY <1>8, <2>1, <2>2, <2>3 DEF Inv, TypeOK, adminVars, RequestRecords
<1>10. Moves(b)
  BY <1>1, <1>7, <1>8 DEF Moves, Inv, TypeOK
<1>11. Consistent(b, hubState'[b], position'[b], holdOpen'[b], randomHash'[b], requests'[r])
  <2>1. CASE st = "Terminal"
    BY <1>1, <1>3, <1>7, <1>8, <2>1, StateTable DEF Consistent, Live, Inv, TypeOK
  <2>2. CASE st = "Received"
    BY <1>1, <1>2, <1>3, <1>5, <1>7, <1>8, <2>2, StateTable DEF Consistent, Live, Inv, TypeOK
  <2> QED BY <2>1, <2>2
<1> QED BY <1>1, <1>9, <1>10, <1>11, MoveInv

\* The transactions that end a bet whose result the hub has, or never will.
LEMMA CloseInv ==
    ASSUME Inv, NEW b \in Bets, requestId[b] # NoRequest, NEW hub \in TerminalStates,
           NEW st \in RequestStateFor(hub), Close(b, hub),
           requests' = [requests EXCEPT ![requestId[b]].state = st],
           hub = "Refunded" => requests[requestId[b]].seed = NoSeed /\ randomHash' = randomHash
                               /\ randomHash[b] = NoSeed,
           hub # "Refunded" => requests[requestId[b]].seed # NoSeed
                               /\ randomHash' = [randomHash EXCEPT ![b] = requests[requestId[b]].seed],
           UNCHANGED <<now, requestId, vrfRequestedAt, refundDeadline, adminVars,
                       requestIdForPosition, bookable>>,
           unbookedResultCount' \in [Banks -> Int]
    PROVE  Inv'
<1> DEFINE r == requestId[b]
<1>1. r \in RequestIds /\ requests[r] \in RequestRecords /\ requests[r].betId = b
  BY BoundFacts
<1>2. st \in {"Terminal", "Cancelled", "Voided"} /\ (st = "Cancelled" <=> hub = "Refunded")
  BY StateTable DEF TerminalStates
<1> HIDE DEF r
<1>3. requests' = [requests EXCEPT ![r].state = st]
  BY DEF r
<1>4. /\ requests' \in [RequestIds -> RequestRecords]
      /\ requests'[r].betId = b /\ requests'[r].seed = requests[r].seed /\ requests'[r].state = st
      /\ \A q \in RequestIds \ {r} : requests'[q] = requests[q]
  BY <1>1, <1>2, <1>3 DEF Inv, TypeOK, RequestRecords, RequestStates
<1>5. /\ hubState' = [hubState EXCEPT ![b] = hub]
      /\ position' = [position EXCEPT ![b] = hub]
      /\ holdOpen' = [holdOpen EXCEPT ![b] = FALSE]
  BY DEF Close
<1>6. \/ hub = "Refunded" /\ requests[r].seed = NoSeed /\ randomHash' = randomHash
         /\ randomHash[b] = NoSeed
      \/ hub # "Refunded" /\ requests[r].seed # NoSeed
         /\ randomHash' = [randomHash EXCEPT ![b] = requests[r].seed]
  BY DEF r
<1>7. TypeOK'
  <2>1. hubState' \in [Bets -> BetStates]
    BY <1>5 DEF Inv, TypeOK, BetStates, TerminalStates
  <2>2. position' \in [Bets -> PositionStates] /\ holdOpen' \in [Bets -> BOOLEAN]
    BY <1>5 DEF Inv, TypeOK, PositionStates, TerminalStates
  <2>3. randomHash' \in [Bets -> Seeds \cup {NoSeed}]
    BY <1>1, <1>6 DEF Inv, TypeOK, RequestRecords
  <2> QED BY <1>4, <2>1, <2>2, <2>3 DEF Inv, TypeOK, adminVars, RequestRecords
<1>8. Moves(b)
  BY <1>1, <1>4, <1>5, <1>6 DEF Moves, Inv, TypeOK, r
<1>9. /\ hubState'[b] = hub /\ position'[b] = hub /\ holdOpen'[b] = FALSE
      /\ hub = "Refunded" => randomHash'[b] = NoSeed
      /\ hub # "Refunded" => randomHash'[b] = requests[r].seed
  BY <1>5, <1>6 DEF Inv, TypeOK
<1>10. Consistent(b, hubState'[b], position'[b], holdOpen'[b], randomHash'[b], requests'[r])
  BY <1>2, <1>4, <1>6, <1>9 DEF Consistent, Live, TerminalStates
<1> QED BY <1>7, <1>8, <1>10, MoveInv DEF r

LEMMA CountType ==
    ASSUME Inv, NEW k, NEW d \in Int, CountUnbooked(k, d)
    PROVE  unbookedResultCount' \in [Banks -> Int]
<1>1. unbookedResultCount' = [unbookedResultCount EXCEPT ![k] = @ + d]
  BY DEF CountUnbooked
<1>2. CASE k \in Banks
  BY <1>1, <1>2 DEF Inv, TypeOK
<1>3. CASE k \notin Banks
  BY <1>1, <1>3 DEF Inv, TypeOK
<1> QED BY <1>2, <1>3

LEMMA FulfillInv ==
    ASSUME Inv, NEW r \in RequestIds, NEW s \in Seeds, NEW g \in Gas, Fulfill(r, s, g)
    PROVE  Inv'
<1>1. \E d \in Int : CountUnbooked(BankOf[requests[r].betId], d)
  BY DEF Fulfill
<1>2. unbookedResultCount' \in [Banks -> Int]
  BY <1>1, CountType
<1> QED BY <1>2, DeliverInv DEF Fulfill

LEMMA RetryInv ==
    ASSUME Inv, NEW r \in RequestIds, NEW g \in Gas, Retry(r, g)
    PROVE  Inv'
<1>1. \E d \in Int : CountUnbooked(BankOf[requests[r].betId], d)
  BY DEF Retry
<1>2. unbookedResultCount' \in [Banks -> Int]
  BY <1>1, CountType
<1>3. requests[r].seed \in Seeds
  <2>1. requests[r].state = "Received"
    BY DEF Retry
  <2>2. requests[r].seed # NoSeed
    BY <2>1 DEF Inv, ResultIsTheReceivedSeed
  <2> QED BY <2>2 DEF Inv, TypeOK
<1> QED BY <1>2, <1>3, DeliverInv DEF Retry

LEMMA ReceivedFacts ==
    ASSUME Inv, NEW b \in Bets, ReceivedRequest(b)
    PROVE  /\ requestId[b] # NoRequest
           /\ requests[requestId[b]].seed # NoSeed
           /\ RecordRandom(b, requests[requestId[b]].seed) =>
                  randomHash' = [randomHash EXCEPT ![b] = requests[requestId[b]].seed]
<1>1. requestId[b] # NoRequest /\ requests[requestId[b]].state = "Received"
  BY DEF ReceivedRequest, BoundRequest
<1>2. requestId[b] \in RequestIds
  BY <1>1, BoundFacts
<1>3. requests[requestId[b]].seed # NoSeed
  BY <1>1, <1>2 DEF Inv, ResultIsTheReceivedSeed
<1>4. hubState[b] = "RandomReady" => randomHash[b] = requests[requestId[b]].seed
  BY DEF Inv, ResultIsTheReceivedSeed
<1>5. ASSUME RecordRandom(b, requests[requestId[b]].seed)
      PROVE  randomHash' = [randomHash EXCEPT ![b] = requests[requestId[b]].seed]
  BY <1>4, <1>5 DEF RecordRandom, Inv, TypeOK
<1> QED BY <1>1, <1>3, <1>5

LEMMA AcknowledgeFacts ==
    ASSUME Inv, NEW r, NEW st, Acknowledge(r, st)
    PROVE  /\ requests' = [requests EXCEPT ![r].state = st]
           /\ unbookedResultCount' \in [Banks -> Int]
<1>1. CountUnbooked(BankOf[requests[r].betId], -1)
  BY DEF Acknowledge
<1>2. -1 \in Int
  OBVIOUS
<1> QED BY <1>1, <1>2, CountType DEF Acknowledge

LEMMA FinalizeInv ==
    ASSUME Inv, NEW b \in Bets, Finalize(b)
    PROVE  Inv'
<1>1. /\ ReceivedRequest(b) /\ RecordRandom(b, requests[requestId[b]].seed)
      /\ Close(b, "Settled") /\ Acknowledge(requestId[b], "Terminal")
      /\ UNCHANGED <<now, requestId, vrfRequestedAt, refundDeadline, adminVars,
                     requestIdForPosition, bookable>>
  BY DEF Finalize
<1>2. "Settled" \in TerminalStates /\ "Terminal" \in RequestStateFor("Settled")
  BY StateTable DEF TerminalStates
<1> QED BY <1>1, <1>2, ReceivedFacts, AcknowledgeFacts, CloseInv

LEMMA VoidBetInv ==
    ASSUME Inv, NEW b \in Bets, NEW g \in Gas, VoidBet(b, g)
    PROVE  Inv'
<1>1. /\ ReceivedRequest(b) /\ RecordRandom(b, requests[requestId[b]].seed)
      /\ \/ Close(b, "Settled") /\ Acknowledge(requestId[b], "Terminal")
         \/ Close(b, "Voided") /\ Acknowledge(requestId[b], "Voided")
      /\ UNCHANGED <<now, requestId, vrfRequestedAt, refundDeadline, adminVars,
                     requestIdForPosition, bookable>>
  BY DEF VoidBet
<1>2. /\ "Settled" \in TerminalStates /\ "Terminal" \in RequestStateFor("Settled")
      /\ "Voided" \in TerminalStates /\ "Voided" \in RequestStateFor("Voided")
  BY StateTable DEF TerminalStates
<1>3. CASE Close(b, "Settled") /\ Acknowledge(requestId[b], "Terminal")
  BY <1>1, <1>2, <1>3, ReceivedFacts, AcknowledgeFacts, CloseInv
<1>4. CASE Close(b, "Voided") /\ Acknowledge(requestId[b], "Voided")
  BY <1>1, <1>2, <1>4, ReceivedFacts, AcknowledgeFacts, CloseInv
<1> QED BY <1>1, <1>3, <1>4

LEMMA RefundInv ==
    ASSUME Inv, NEW b \in Bets, Refund(b)
    PROVE  Inv'
<1>1. requestId[b] # NoRequest
  BY DEF Refund, Inv, Agreement
<1>2. requestId[b] \in RequestIds
  BY <1>1, BoundFacts
<1>3. requests[requestId[b]].seed = NoSeed /\ randomHash[b] = NoSeed
  BY <1>2 DEF Refund, Inv, ResultIsTheReceivedSeed
<1>4. "Refunded" \in TerminalStates /\ "Cancelled" \in RequestStateFor("Refunded")
  BY StateTable DEF TerminalStates
<1>5. unbookedResultCount' \in [Banks -> Int]
  BY DEF Refund, Inv, TypeOK
<1> QED BY <1>1, <1>3, <1>4, <1>5, CloseInv DEF Refund

\* Administration, time and the environment touch no bet.
LEMMA OtherInv ==
    ASSUME Inv,
           \/ \E k \in Banks : OpenVoidWindow(k)
           \/ \E t \in RefundTimeouts : SetRefundTimeout(t)
           \/ \E k \in Banks, v \in BOOLEAN : SetRiskIn(k, v)
           \/ \E b \in Bets, v \in BOOLEAN : SetBookable(b, v)
           \/ Tick
           \/ UNCHANGED vars
    PROVE  Inv'
<1>1. UNCHANGED <<hubVars, kernelVars, vrfVars>>
  BY DEF OpenVoidWindow, SetRefundTimeout, SetRiskIn, SetBookable, Tick, vars
<1>2. TypeOK'
  BY <1>1 DEF Inv, TypeOK, OpenVoidWindow, SetRefundTimeout, SetRiskIn, SetBookable, Tick, vars,
              hubVars, kernelVars, vrfVars, adminVars
<1>3. RequestBinding'
  BY <1>1 DEF Inv, RequestBinding, hubVars, vrfVars
<1>4. Agreement'
  BY <1>1 DEF Inv, Agreement, hubVars, kernelVars, vrfVars
<1>5. ResultIsTheReceivedSeed'
  BY <1>1 DEF Inv, ResultIsTheReceivedSeed, hubVars, vrfVars
<1> QED BY <1>2, <1>3, <1>4, <1>5 DEF Inv

LEMMA NextInv == Inv /\ [Next]_vars => Inv'
<1> SUFFICES ASSUME Inv, [Next]_vars PROVE Inv'
  OBVIOUS
<1> QED BY PlaceBetInv, FulfillInv, RetryInv, FinalizeInv, RefundInv, VoidBetInv, OtherInv DEF Next

LEMMA Invariance == Spec => []Inv
  BY InitInv, NextInv, PTL DEF Spec

(***************************************************************************)
(* Every variable keeps its type.                                          *)
(***************************************************************************)
THEOREM TypeCorrect == Spec => []TypeOK
<1>1. Inv => TypeOK
  BY DEF Inv
<1> QED BY <1>1, Invariance, PTL

(***************************************************************************)
(* A bet and its randomness request point at each other and no two bets    *)
(* share a request.                                                        *)
(***************************************************************************)
THEOREM BoundForEver == Spec => []RequestBinding
<1>1. Inv => RequestBinding
  BY DEF Inv
<1> QED BY <1>1, Invariance, PTL

(***************************************************************************)
(* Hub, Router, Bank and VRFHub agree on the state of every bet after      *)
(* every transaction, whatever frame failed inside it.                     *)
(***************************************************************************)
THEOREM ContractsAgree == Spec => []Agreement
<1>1. Inv => Agreement
  BY DEF Inv
<1> QED BY <1>1, Invariance, PTL

(***************************************************************************)
(* A bet is resolved with the word its request stored, and no refunded bet *)
(* had one.                                                                *)
(***************************************************************************)
THEOREM ResolvedWithItsWord == Spec => []ResultIsTheReceivedSeed
<1>1. Inv => ResultIsTheReceivedSeed
  BY DEF Inv
<1> QED BY <1>1, Invariance, PTL

-----------------------------------------------------------------------------
(***************************************************************************)
(* The fence.  Its count follows the set of received requests, which one   *)
(* transaction changes by at most one element.                             *)
(***************************************************************************)
FenceInv == Inv /\ FenceCountsUnbooked

LEMMA UnbookedFinite ==
    ASSUME NEW k PROVE IsFiniteSet(UnbookedRequests(k))
  BY FiniteAssumption, FS_Subset DEF UnbookedRequests

LEMMA SameUnbooked ==
    ASSUME FenceCountsUnbooked, UNCHANGED unbookedResultCount,
           \A k \in Banks : UnbookedRequests(k)' = UnbookedRequests(k)
    PROVE  FenceCountsUnbooked'
  BY DEF FenceCountsUnbooked

\* One request r, of the Bank kr, changes; `was' and `is' say whether it is unbooked.
LEMMA CountMoves ==
    ASSUME FenceInv, NEW r \in RequestIds, requests[r].state # "None",
           requests'[r].betId = requests[r].betId,
           \A q \in RequestIds \ {r} : requests'[q] = requests[q],
           CountUnbooked(BankOf[requests[r].betId],
               IF requests'[r].state = "Received"
               THEN IF requests[r].state = "Received" THEN 0 ELSE 1
               ELSE IF requests[r].state = "Received" THEN -1 ELSE 0)
    PROVE  FenceCountsUnbooked'
<1> DEFINE kr == BankOf[requests[r].betId]
<1>1. kr \in Banks
  BY RequestFacts, BankOfAssumption DEF FenceInv
<1> SUFFICES ASSUME NEW k \in Banks
             PROVE  unbookedResultCount'[k] = Cardinality(UnbookedRequests(k)')
  BY DEF FenceCountsUnbooked
<1>2. unbookedResultCount[k] = Cardinality(UnbookedRequests(k)) /\ unbookedResultCount[k] \in Int
  BY DEF FenceInv, FenceCountsUnbooked, Inv, TypeOK
<1>3. \A q \in RequestIds \ {r} : q \in UnbookedRequests(k)' <=> q \in UnbookedRequests(k)
  BY DEF UnbookedRequests
<1>4. /\ r \in UnbookedRequests(k) <=> requests[r].state = "Received" /\ kr = k
      /\ r \in UnbookedRequests(k)' <=> requests'[r].state = "Received" /\ kr = k
  BY DEF UnbookedRequests
<1>5. UnbookedRequests(k) \subseteq RequestIds /\ UnbookedRequests(k)' \subseteq RequestIds
  BY DEF UnbookedRequests
<1>6. unbookedResultCount'[k] =
          IF k # kr THEN unbookedResultCount[k]
          ELSE IF requests'[r].state = "Received"
               THEN IF requests[r].state = "Received" THEN unbookedResultCount[k]
                    ELSE unbookedResultCount[k] + 1
               ELSE IF requests[r].state = "Received" THEN unbookedResultCount[k] - 1
                    ELSE unbookedResultCount[k]
  BY <1>1, <1>2 DEF CountUnbooked, FenceInv, Inv, TypeOK
<1> HIDE DEF kr
<1>7. CASE k # kr \/ (requests'[r].state = "Received" <=> requests[r].state = "Received")
  <2>1. UnbookedRequests(k)' = UnbookedRequests(k)
    BY <1>3, <1>4, <1>5, <1>7
  <2> QED BY <1>2, <1>6, <1>7, <2>1
<1>8. CASE k = kr /\ requests'[r].state = "Received" /\ requests[r].state # "Received"
  <2>1. UnbookedRequests(k)' = UnbookedRequests(k) \cup {r} /\ r \notin UnbookedRequests(k)
    BY <1>3, <1>4, <1>5, <1>8
  <2>2. Cardinality(UnbookedRequests(k) \cup {r}) = Cardinality(UnbookedRequests(k)) + 1
    BY <2>1, UnbookedFinite, FS_AddElement
  <2> QED BY <1>2, <1>6, <1>8, <2>1, <2>2
<1>9. CASE k = kr /\ requests'[r].state # "Received" /\ requests[r].state = "Received"
  <2>1. UnbookedRequests(k)' = UnbookedRequests(k) \ {r} /\ r \in UnbookedRequests(k)
    BY <1>3, <1>4, <1>5, <1>9
  <2>2. Cardinality(UnbookedRequests(k) \ {r}) = Cardinality(UnbookedRequests(k)) - 1
    BY <2>1, UnbookedFinite, FS_RemoveElement
  <2> QED BY <1>2, <1>6, <1>9, <2>1, <2>2
<1> QED BY <1>7, <1>8, <1>9

\* What a delivery does to the request, whatever its gas.
LEMMA DeliverRequest ==
    ASSUME Inv, NEW r \in RequestIds, NEW seed, NEW gas, Deliver(r, seed, gas)
    PROVE  /\ requests'[r].state \in {"Received", "Terminal"}
           /\ requests'[r].betId = requests[r].betId /\ requests'[r].seed = seed
           /\ \A q \in RequestIds \ {r} : requests'[q] = requests[q]
<1>1. requests[r] \in RequestRecords
  BY DEF Inv, TypeOK, RequestRecords
<1>2. PICK st \in {"Terminal", "Received"} :
          requests' = [requests EXCEPT ![r].state = st, ![r].seed = seed]
  BY DEF Deliver
<1> QED BY <1>1, <1>2 DEF Inv, TypeOK, RequestRecords

LEMMA AcknowledgeRequest ==
    ASSUME Inv, NEW r \in RequestIds, NEW st, Acknowledge(r, st)
    PROVE  /\ requests[r].state = "Received" /\ requests'[r].state = st
           /\ requests'[r].betId = requests[r].betId /\ requests'[r].seed = requests[r].seed
           /\ \A q \in RequestIds \ {r} : requests'[q] = requests[q]
           /\ CountUnbooked(BankOf[requests[r].betId], -1)
<1>1. requests[r] \in RequestRecords
  BY DEF Inv, TypeOK, RequestRecords
<1>2. requests' = [requests EXCEPT ![r].state = st]
  BY DEF Acknowledge
<1> QED BY <1>1, <1>2 DEF Acknowledge, Inv, TypeOK, RequestRecords

LEMMA AcknowledgeFence ==
    ASSUME FenceInv, NEW b \in Bets, ReceivedRequest(b), NEW st \in {"Terminal", "Voided"},
           Acknowledge(requestId[b], st)
    PROVE  FenceCountsUnbooked'
<1>1. requestId[b] \in RequestIds
  BY BoundFacts DEF FenceInv, ReceivedRequest, BoundRequest
<1> QED BY <1>1, AcknowledgeRequest, CountMoves DEF FenceInv

LEMMA FenceNext == FenceInv /\ [Next]_vars => FenceCountsUnbooked'
<1> SUFFICES ASSUME FenceInv, [Next]_vars PROVE FenceCountsUnbooked'
  OBVIOUS
<1> USE DEF FenceInv
<1>1. ASSUME NEW b \in Bets, NEW r \in RequestIds, PlaceBet(b, r) PROVE FenceCountsUnbooked'
  <2>1. \A k \in Banks : UnbookedRequests(k)' = UnbookedRequests(k)
    BY <1>1 DEF PlaceBet, UnbookedRequests, Inv, TypeOK
  <2> QED BY <1>1, <2>1, SameUnbooked DEF PlaceBet
<1>2. ASSUME NEW r \in RequestIds, NEW s \in Seeds, NEW g \in Gas, Fulfill(r, s, g)
      PROVE  FenceCountsUnbooked'
  BY <1>2, DeliverRequest, CountMoves DEF Fulfill
<1>3. ASSUME NEW r \in RequestIds, NEW g \in Gas, Retry(r, g) PROVE FenceCountsUnbooked'
  BY <1>3, DeliverRequest, CountMoves DEF Retry
<1>4. ASSUME NEW b \in Bets, Finalize(b) PROVE FenceCountsUnbooked'
  BY <1>4, AcknowledgeFence DEF Finalize
<1>5. ASSUME NEW b \in Bets, NEW g \in Gas, VoidBet(b, g) PROVE FenceCountsUnbooked'
  BY <1>5, AcknowledgeFence DEF VoidBet
<1>6. ASSUME NEW b \in Bets, Refund(b) PROVE FenceCountsUnbooked'
  <2>1. requestId[b] \in RequestIds
    BY <1>6, BoundFacts DEF Refund, Inv, Agreement
  <2>2. \A k \in Banks : UnbookedRequests(k)' = UnbookedRequests(k)
    BY <1>6, <2>1 DEF Refund, UnbookedRequests, Inv, TypeOK
  <2> QED BY <1>6, <2>2, SameUnbooked DEF Refund
<1>7. ASSUME UNCHANGED vrfVars PROVE FenceCountsUnbooked'
  BY <1>7 DEF vrfVars, FenceCountsUnbooked, UnbookedRequests
<1>8. ASSUME \/ \E k \in Banks : OpenVoidWindow(k)
             \/ \E t \in RefundTimeouts : SetRefundTimeout(t)
             \/ \E k \in Banks, v \in BOOLEAN : SetRiskIn(k, v)
             \/ \E b \in Bets, v \in BOOLEAN : SetBookable(b, v)
             \/ Tick
             \/ UNCHANGED vars
      PROVE  UNCHANGED vrfVars
  BY <1>8 DEF OpenVoidWindow, SetRefundTimeout, SetRiskIn, SetBookable, Tick, vars
<1> QED BY <1>1, <1>2, <1>3, <1>4, <1>5, <1>6, <1>7, <1>8 DEF Next

LEMMA FenceInvariance == Spec => []FenceInv
<1>1. Init => FenceInv
  <2>1. Init => FenceCountsUnbooked
    <3> SUFFICES ASSUME Init, NEW k \in Banks
                 PROVE  unbookedResultCount[k] = Cardinality(UnbookedRequests(k))
      BY DEF FenceCountsUnbooked
    <3>1. UnbookedRequests(k) = {}
      BY DEF Init, UnbookedRequests, NoRequestInfo
    <3> QED BY <3>1, FS_EmptySet DEF Init
  <2> QED BY <2>1, InitInv DEF FenceInv
<1>2. FenceInv /\ [Next]_vars => FenceInv'
  BY NextInv, FenceNext DEF FenceInv
<1> QED BY <1>1, <1>2, PTL DEF Spec

(***************************************************************************)
(* The count that fences liquidity providers is the number of results that *)
(* are received and not booked: the fence never opens on a known result    *)
(* and never stays up without one.                                         *)
(***************************************************************************)
THEOREM FenceIsExact == Spec => []FenceCountsUnbooked
<1>1. FenceInv => FenceCountsUnbooked
  BY DEF FenceInv
<1> QED BY <1>1, FenceInvariance, PTL

-----------------------------------------------------------------------------
(***************************************************************************)
(* What a step may never do.                                               *)
(***************************************************************************)
LEMMA TerminalFacts ==
    ASSUME Inv, NEW b \in Bets, hubState[b] \in TerminalStates
    PROVE  /\ requestId[b] \in RequestIds
           /\ requests[requestId[b]].state \notin {"None", "Awaiting", "Received"}
<1>1. requestId[b] # NoRequest
  BY DEF Inv, Agreement, TerminalStates
<1>2. requests[requestId[b]].state \in RequestStateFor(hubState[b])
  BY <1>1, BoundFacts
<1> QED BY <1>1, <1>2, BoundFacts, StateTable DEF TerminalStates

\* A delivery touches the bet of its request only, which is live.
LEMMA DeliverElsewhere ==
    ASSUME Inv, NEW r \in RequestIds, NEW seed, NEW gas, Deliver(r, seed, gas),
           requests[r].state \in {"Awaiting", "Received"},
           NEW b \in Bets, requests[r].betId # b
    PROVE  hubState'[b] = hubState[b] /\ position'[b] = position[b] /\ holdOpen'[b] = holdOpen[b]
<1> QED BY DEF Deliver, Close, kernelVars, Inv, TypeOK

LEMMA TerminalStep ==
    ASSUME Inv, [Next]_vars, NEW b \in Bets, hubState[b] \in TerminalStates
    PROVE  /\ hubState'[b] = hubState[b] /\ position'[b] = position[b]
           /\ holdOpen'[b] = holdOpen[b] /\ requestId'[b] = requestId[b]
           /\ requests'[requestId[b]] = requests[requestId[b]]
<1> DEFINE Same == /\ hubState'[b] = hubState[b] /\ position'[b] = position[b]
                   /\ holdOpen'[b] = holdOpen[b] /\ requestId'[b] = requestId[b]
                   /\ requests'[requestId[b]] = requests[requestId[b]]
<1>1. /\ requestId[b] \in RequestIds
      /\ requests[requestId[b]].state \notin {"None", "Awaiting", "Received"}
  BY TerminalFacts
<1>2. ASSUME NEW c \in Bets, NEW r \in RequestIds, PlaceBet(c, r) PROVE Same
  <2>1. c # b /\ r # requestId[b]
    BY <1>1, <1>2, NoValueAssumption DEF PlaceBet, Inv, RequestBinding
  <2> QED BY <1>1, <1>2, <2>1 DEF PlaceBet, Inv, TypeOK
<1>3. ASSUME NEW r \in RequestIds, NEW seed, NEW gas, Deliver(r, seed, gas),
             requests[r].state \in {"Awaiting", "Received"}, UNCHANGED requestId
      PROVE  Same
  <2>1. r # requestId[b]
    BY <1>1, <1>3
  <2>2. requests[r].betId # b
    BY <1>3, <2>1, RequestFacts
  <2> QED BY <1>1, <1>3, <2>1, <2>2, DeliverElsewhere, DeliverRequest
<1>4. ASSUME NEW c \in Bets, NEW g, Finalize(c) \/ Refund(c) \/ VoidBet(c, g)
      PROVE  Same
  <2>1. c # b
    BY <1>4 DEF Finalize, Refund, VoidBet, Settles, CanRecord, Live, TerminalStates
  <2>2. requestId[c] # NoRequest
    BY <1>4 DEF Finalize, Refund, VoidBet, ReceivedRequest, BoundRequest, Inv, Agreement
  <2>3. requestId[c] # requestId[b] /\ requestId[c] \in RequestIds
    <3>1. requestId[b] # NoRequest
      BY <1>1, NoValueAssumption
    <3> QED BY <2>1, <2>2, <3>1, BoundFacts
  <2>4. \E terminal \in TerminalStates : Close(c, terminal)
    BY <1>4 DEF Finalize, Refund, VoidBet, TerminalStates
  <2>5. requestId' = requestId
    BY <1>4 DEF Finalize, Refund, VoidBet
  <2>6. \E st : requests' = [requests EXCEPT ![requestId[c]].state = st]
    BY <1>4 DEF Finalize, Refund, VoidBet, Acknowledge
  <2> QED BY <1>1, <2>1, <2>3, <2>4, <2>5, <2>6 DEF Close, Inv, TypeOK
<1>5. ASSUME \/ \E k \in Banks : OpenVoidWindow(k)
             \/ \E t \in RefundTimeouts : SetRefundTimeout(t)
             \/ \E k \in Banks, v \in BOOLEAN : SetRiskIn(k, v)
             \/ \E c \in Bets, v \in BOOLEAN : SetBookable(c, v)
             \/ Tick
             \/ UNCHANGED vars
      PROVE  Same
  BY <1>5 DEF OpenVoidWindow, SetRefundTimeout, SetRiskIn, SetBookable, Tick, vars, hubVars,
              kernelVars, vrfVars
<1>6. ASSUME NEW r \in RequestIds, NEW s \in Seeds, NEW g \in Gas, Fulfill(r, s, g) PROVE Same
  BY <1>3, <1>6 DEF Fulfill
<1>7. ASSUME NEW r \in RequestIds, NEW g \in Gas, Retry(r, g) PROVE Same
  BY <1>3, <1>7 DEF Retry
<1> HIDE DEF Same
<1>8. ASSUME Next PROVE Same
  BY <1>2, <1>4, <1>5, <1>6, <1>7, <1>8 DEF Next
<1>9. ASSUME UNCHANGED vars PROVE Same
  BY <1>5, <1>9
<1>10. Same
  BY <1>8, <1>9
<1> QED BY <1>10 DEF Same

(***************************************************************************)
(* A settled, refunded or voided bet never changes again, in any contract. *)
(***************************************************************************)
THEOREM TerminalForEver == Spec => TerminalIsFinal
<1>1. Inv /\ [Next]_vars =>
          \A b \in Bets : hubState[b] \in TerminalStates =>
            /\ hubState'[b] = hubState[b] /\ position'[b] = position[b]
            /\ holdOpen'[b] = holdOpen[b] /\ requestId'[b] = requestId[b]
            /\ requests'[requestId[b]] = requests[requestId[b]]
  BY TerminalStep
<1> QED BY <1>1, Invariance, PTL DEF Spec, TerminalIsFinal

(***************************************************************************)
(* A received word is never replaced.                                      *)
(***************************************************************************)
LEMMA SeedStep ==
    ASSUME Inv, [Next]_vars, NEW r \in RequestIds, requests[r].seed # NoSeed
    PROVE  requests'[r].seed = requests[r].seed
<1> DEFINE Same == requests'[r].seed = requests[r].seed
<1>1. requests[r].state \notin {"None", "Awaiting", "Cancelled"}
  BY DEF Inv, ResultIsTheReceivedSeed
<1>2. ASSUME NEW b \in Bets, NEW q \in RequestIds, PlaceBet(b, q) PROVE Same
  BY <1>1, <1>2 DEF PlaceBet, Inv, TypeOK
<1>3. ASSUME NEW q \in RequestIds, NEW s \in Seeds, NEW g \in Gas, Fulfill(q, s, g) PROVE Same
  <2>1. q # r
    BY <1>1, <1>3 DEF Fulfill
  <2> QED BY <1>3, <2>1, DeliverRequest DEF Fulfill
<1>4. ASSUME NEW q \in RequestIds, NEW g \in Gas, Retry(q, g) PROVE Same
  BY <1>4, DeliverRequest DEF Retry
<1>5. ASSUME NEW b \in Bets, NEW g, Finalize(b) \/ Refund(b) \/ VoidBet(b, g) PROVE Same
  <2>1. \E q, st : requests' = [requests EXCEPT ![q].state = st]
    BY <1>5 DEF Finalize, Refund, VoidBet, Acknowledge
  <2>2. requests[r] \in RequestRecords
    BY DEF Inv, TypeOK, RequestRecords
  <2> QED BY <2>1, <2>2 DEF Inv, TypeOK, RequestRecords
<1>6. ASSUME UNCHANGED requests PROVE Same
  BY <1>6
<1>7. ASSUME \/ \E k \in Banks : OpenVoidWindow(k)
             \/ \E t \in RefundTimeouts : SetRefundTimeout(t)
             \/ \E k \in Banks, v \in BOOLEAN : SetRiskIn(k, v)
             \/ \E c \in Bets, v \in BOOLEAN : SetBookable(c, v)
             \/ Tick
             \/ UNCHANGED vars
      PROVE  UNCHANGED requests
  BY <1>7 DEF OpenVoidWindow, SetRefundTimeout, SetRiskIn, SetBookable, Tick, vars, vrfVars
<1> HIDE DEF Same
<1>8. Same
  BY <1>2, <1>3, <1>4, <1>5, <1>6, <1>7 DEF Next
<1> QED BY <1>8 DEF Same

(***************************************************************************)
(* A received word is final, against later answers of the wrapper and      *)
(* every retry.                                                            *)
(***************************************************************************)
THEOREM SeedForEver == Spec => ReceivedSeedIsFinal
<1>1. Inv /\ [Next]_vars =>
          \A r \in RequestIds : requests[r].seed # NoSeed => requests'[r].seed = requests[r].seed
  BY SeedStep
<1> QED BY <1>1, Invariance, PTL DEF Spec, ReceivedSeedIsFinal

\* The only step that voids a bet is a void of that bet that could not settle it.
LEMMA OnlyVoidVoids ==
    ASSUME Inv, [Next]_vars, NEW b \in Bets, hubState[b] # "Voided", hubState'[b] = "Voided"
    PROVE  /\ ~bookable[b]
           /\ now >= EligibleAt(b)
           /\ UNCHANGED <<now, voidCohortEnd>>
<1> DEFINE Other == hubState'[b] # "Voided"
<1>1. ASSUME NEW c \in Bets, NEW q \in RequestIds, PlaceBet(c, q) PROVE Other
  BY <1>1 DEF PlaceBet, Inv, TypeOK
<1>2. ASSUME NEW q \in RequestIds, NEW s, NEW g, Deliver(q, s, g) PROVE Other
  BY <1>2 DEF Deliver, Close, Inv, TypeOK
<1>3. ASSUME NEW c \in Bets, Finalize(c) \/ Refund(c) PROVE Other
  BY <1>3 DEF Finalize, Refund, Close, Inv, TypeOK
<1>4. ASSUME \/ \E k \in Banks : OpenVoidWindow(k)
             \/ \E t \in RefundTimeouts : SetRefundTimeout(t)
             \/ \E k \in Banks, v \in BOOLEAN : SetRiskIn(k, v)
             \/ \E c \in Bets, v \in BOOLEAN : SetBookable(c, v)
             \/ Tick
             \/ UNCHANGED vars
      PROVE  Other
  BY <1>4 DEF OpenVoidWindow, SetRefundTimeout, SetRiskIn, SetBookable, Tick, vars, hubVars
<1>5. PICK c \in Bets, g \in Gas : VoidBet(c, g)
  BY <1>1, <1>2, <1>3, <1>4 DEF Next, Fulfill, Retry
<1>6. c = b /\ ~Settles(c, g)
  BY <1>5 DEF VoidBet, Close, Inv, TypeOK
<1> QED BY <1>5, <1>6 DEF VoidBet, Settles, adminVars

(***************************************************************************)
(* No caller, with whatever gas, voids a result that can be booked.        *)
(***************************************************************************)
THEOREM VoidIsLastResort == Spec => BookableIsNeverVoided
<1>1. Inv /\ [Next]_vars =>
          \A b \in Bets : hubState[b] # "Voided" /\ hubState'[b] = "Voided" => ~bookable[b]
  BY OnlyVoidVoids
<1> QED BY <1>1, Invariance, PTL DEF Spec, BookableIsNeverVoided

\* A void window ends no later than the present.
WindowPast == \A k \in Banks : voidCohortEnd[k] <= now

LEMMA WindowStep ==
    ASSUME Inv, WindowPast, [Next]_vars
    PROVE  /\ WindowPast'
           /\ \A k \in Banks : voidCohortEnd'[k] >= voidCohortEnd[k] /\ voidCohortEnd'[k] <= now'
<1>1. now \in Nat /\ voidCohortEnd \in [Banks -> Nat]
  BY DEF Inv, TypeOK
<1>2. \/ UNCHANGED <<now, voidCohortEnd>>
      \/ now' = now + 1 /\ UNCHANGED voidCohortEnd
      \/ \E k \in Banks : voidCohortEnd' = [voidCohortEnd EXCEPT ![k] = now] /\ UNCHANGED now
  BY DEF Next, PlaceBet, Fulfill, Retry, Finalize, Refund, VoidBet, OpenVoidWindow,
         SetRefundTimeout, SetRiskIn, SetBookable, Tick, vars, adminVars
<1>3. CASE UNCHANGED <<now, voidCohortEnd>>
  BY <1>1, <1>3 DEF WindowPast
<1>4. CASE now' = now + 1 /\ UNCHANGED voidCohortEnd
  BY <1>1, <1>4 DEF WindowPast
<1>5. CASE \E k \in Banks : voidCohortEnd' = [voidCohortEnd EXCEPT ![k] = now] /\ UNCHANGED now
  BY <1>1, <1>5 DEF WindowPast
<1> QED BY <1>2, <1>3, <1>4, <1>5

(***************************************************************************)
(* A void before the public delay is one of a bet that existed when the    *)
(* last window of its Bank was opened, and a window never moves back.      *)
(***************************************************************************)
THEOREM WindowIsBounded == Spec => WindowCoversItsCohortOnly
<1>1. ASSUME Inv, WindowPast, [Next]_vars
      PROVE  /\ \A k \in Banks : voidCohortEnd'[k] >= voidCohortEnd[k] /\ voidCohortEnd'[k] <= now'
             /\ \A b \in Bets :
                  /\ hubState[b] # "Voided" /\ hubState'[b] = "Voided"
                  /\ now < vrfRequestedAt[b] + PublicVoidDelay
                  => /\ now >= vrfRequestedAt[b] + VoidDelay
                     /\ vrfRequestedAt[b] <= voidCohortEnd[BankOf[b]]
  <2> SUFFICES ASSUME NEW b \in Bets, hubState[b] # "Voided", hubState'[b] = "Voided",
                      now < vrfRequestedAt[b] + PublicVoidDelay
               PROVE  /\ now >= vrfRequestedAt[b] + VoidDelay
                      /\ vrfRequestedAt[b] <= voidCohortEnd[BankOf[b]]
    BY <1>1, WindowStep
  <2>1. now >= EligibleAt(b)
    BY <1>1, OnlyVoidVoids
  <2>2. /\ now \in Nat /\ vrfRequestedAt[b] \in Nat
        /\ voidCohortEnd[BankOf[b]] \in Nat
        /\ VoidDelay \in Nat /\ PublicVoidDelay \in Nat
    BY <1>1, DelayAssumption, BankOfAssumption DEF Inv, TypeOK
  <2> QED BY <2>1, <2>2 DEF EligibleAt
<1>2. Init => WindowPast
  BY DEF Init, WindowPast
<1>3. Inv /\ WindowPast /\ [Next]_vars => WindowPast'
  BY WindowStep
<1> QED BY <1>1, <1>2, <1>3, Invariance, PTL DEF Spec, WindowCoversItsCohortOnly

-----------------------------------------------------------------------------
(***************************************************************************)
(* BetLifecycle implements BetPromise.  A transaction moves at most one    *)
(* bet from one phase to another; the fence after it is what the phases    *)
(* after it say, because the count of unbooked results is exact.           *)
(***************************************************************************)

phase == [b \in Bets |-> PhaseOf(b)]
result == [b \in Bets |-> ResultOf(b)]
fence == {k \in Banks : unbookedResultCount[k] > 0}
KnownIn(p) == {k \in Banks : \E c \in Bets : BankOf[c] = k /\ p[c] = "known"}
FenceMatches == fence = KnownIn(phase)

\* What the phase of a bet is, by the state of the hub.
LEMMA PhaseTable ==
    ASSUME NEW b \in Bets
    PROVE  /\ hubState[b] = "None" => PhaseOf(b) = "none"
           /\ hubState[b] = "Settled" => PhaseOf(b) = "settled"
           /\ hubState[b] = "Refunded" => PhaseOf(b) = "refunded"
           /\ hubState[b] = "Voided" => PhaseOf(b) = "voided"
           /\ hubState[b] \in Live /\ requests[requestId[b]].state = "Awaiting" => PhaseOf(b) = "open"
           /\ hubState[b] \in Live /\ requests[requestId[b]].state # "Awaiting" => PhaseOf(b) = "known"
  BY DEF PhaseOf, Live

\* The same table in the next state.
LEMMA NextPhaseTable ==
    ASSUME NEW b \in Bets
    PROVE  /\ hubState'[b] = "Settled" => PhaseOf(b)' = "settled"
           /\ hubState'[b] = "Refunded" => PhaseOf(b)' = "refunded"
           /\ hubState'[b] = "Voided" => PhaseOf(b)' = "voided"
           /\ hubState'[b] \in Live /\ requests'[requestId'[b]].state = "Awaiting" => PhaseOf(b)' = "open"
           /\ hubState'[b] \in Live /\ requests'[requestId'[b]].state # "Awaiting" => PhaseOf(b)' = "known"
  BY DEF PhaseOf, Live

\* A bet is known exactly when its request is received.
LEMMA KnownIsReceived ==
    ASSUME Inv, NEW b \in Bets
    PROVE  PhaseOf(b) = "known" <=> requestId[b] # NoRequest /\ requests[requestId[b]].state = "Received"
<1>1. CASE requestId[b] = NoRequest
  <2>1. hubState[b] = "None"
    BY <1>1 DEF Inv, Agreement
  <2> QED BY <1>1, <2>1, PhaseTable
<1>2. CASE requestId[b] # NoRequest
  <2>1. hubState[b] \in BetStates /\ hubState[b] # "None"
        /\ requests[requestId[b]].state \in RequestStateFor(hubState[b])
    BY <1>2, BoundFacts DEF Inv, TypeOK
  <2>2. CASE hubState[b] \in Live
    BY <1>2, <2>1, <2>2, StateTable, PhaseTable DEF Live
  <2>3. CASE hubState[b] \in TerminalStates
    BY <2>1, <2>3, StateTable, PhaseTable DEF TerminalStates
  <2> QED BY <2>1, <2>2, <2>3 DEF BetStates, Live, TerminalStates
<1> QED BY <1>1, <1>2

\* The fence is up exactly while some bet of the Bank is known.
LEMMA FenceIsKnown == FenceInv => FenceMatches
<1> SUFFICES ASSUME FenceInv PROVE FenceMatches
  OBVIOUS
<1>0. \A k \in Banks : unbookedResultCount[k] > 0 <=>
                           \E c \in Bets : BankOf[c] = k /\ phase[c] = "known"
  <2> SUFFICES ASSUME NEW k \in Banks
               PROVE  unbookedResultCount[k] > 0 <=> \E c \in Bets : BankOf[c] = k /\ phase[c] = "known"
    OBVIOUS
  <2>1. unbookedResultCount[k] = Cardinality(UnbookedRequests(k))
    BY DEF FenceInv, FenceCountsUnbooked
  <2>2. Cardinality(UnbookedRequests(k)) \in Nat
    BY UnbookedFinite, FS_CardinalityType
  <2>3. Cardinality(UnbookedRequests(k)) = 0 <=> UnbookedRequests(k) = {}
    BY UnbookedFinite, FS_EmptySet
  <2>4. ASSUME NEW r \in UnbookedRequests(k)
        PROVE  \E c \in Bets : BankOf[c] = k /\ phase[c] = "known"
    <3>1. r \in RequestIds /\ requests[r].state = "Received" /\ BankOf[requests[r].betId] = k
      BY DEF UnbookedRequests
    <3>2. requests[r].betId \in Bets /\ requestId[requests[r].betId] = r /\ r # NoRequest
      BY <3>1, RequestFacts DEF FenceInv
    <3> QED BY <3>1, <3>2, KnownIsReceived DEF FenceInv, phase
  <2>5. ASSUME NEW c \in Bets, BankOf[c] = k, phase[c] = "known"
        PROVE  UnbookedRequests(k) # {}
    <3>1. requestId[c] # NoRequest /\ requests[requestId[c]].state = "Received"
      BY <2>5, KnownIsReceived DEF FenceInv, phase
    <3>2. requestId[c] \in RequestIds /\ requests[requestId[c]].betId = c
      BY <3>1, BoundFacts DEF FenceInv
    <3> QED BY <2>5, <3>1, <3>2 DEF UnbookedRequests
  <2> QED BY <2>1, <2>2, <2>3, <2>4, <2>5
<1> QED BY <1>0 DEF FenceMatches, fence, KnownIn

-----------------------------------------------------------------------------
\* Every bet but b keeps its state and its request.
Elsewhere(b) ==
    \A c \in Bets \ {b} :
        /\ hubState'[c] = hubState[c] /\ requestId'[c] = requestId[c]
        /\ requestId[c] # NoRequest => requests'[requestId[c]] = requests[requestId[c]]

\* A transaction on the request of b leaves the other bets' requests alone.
LEMMA OwnRequestOnly ==
    ASSUME Inv, NEW b \in Bets, NEW r \in RequestIds, requests[r].betId = b,
           requestId' = requestId,
           \A c \in Bets \ {b} : hubState'[c] = hubState[c],
           \A q \in RequestIds \ {r} : requests'[q] = requests[q]
    PROVE  Elsewhere(b)
<1> SUFFICES ASSUME NEW c \in Bets \ {b}, requestId[c] # NoRequest
             PROVE  requests'[requestId[c]] = requests[requestId[c]]
  BY DEF Elsewhere
<1>1. requestId[c] \in RequestIds /\ requests[requestId[c]].betId = c
  BY BoundFacts
<1> QED BY <1>1

\* The transaction's effect on the abstract state.
LEMMA OneBetMoves ==
    ASSUME Inv, FenceMatches', NEW b \in Bets, Elsewhere(b), NEW to, PhaseOf(b)' = to
    PROVE  /\ phase' = [phase EXCEPT ![b] = to]
           /\ fence' = KnownIn(phase')
           /\ result' = [result EXCEPT ![b] = ResultOf(b)']
           /\ ResultOf(b)' = ResultOf(b) => result' = result
<1>1. \A c \in Bets \ {b} : PhaseOf(c)' = PhaseOf(c)
  <2> SUFFICES ASSUME NEW c \in Bets \ {b} PROVE PhaseOf(c)' = PhaseOf(c)
    OBVIOUS
  <2>1. CASE requestId[c] = NoRequest
    <3>1. hubState[c] = "None" /\ hubState'[c] = "None"
      BY <2>1 DEF Elsewhere, Inv, Agreement
    <3> QED BY <3>1 DEF PhaseOf
  <2>2. CASE requestId[c] # NoRequest
    BY <2>2 DEF Elsewhere, PhaseOf
  <2> QED BY <2>1, <2>2
<1>2. \A c \in Bets \ {b} : ResultOf(c)' = ResultOf(c)
  BY DEF Elsewhere, ResultOf
<1>3. phase' = [phase EXCEPT ![b] = to]
  BY <1>1 DEF phase
<1>4. fence' = KnownIn(phase')
  BY DEF FenceMatches, KnownIn
<1>5. result' = [result EXCEPT ![b] = ResultOf(b)']
  BY <1>2 DEF result
<1>6. ResultOf(b)' = ResultOf(b) => result' = result
  BY <1>2 DEF result
<1> QED BY <1>3, <1>4, <1>5, <1>6

\* An abstract transition, in the terms of the lemma above.
Mapped(b, from, to) ==
    /\ phase[b] \in from
    /\ phase' = [phase EXCEPT ![b] = to]
    /\ fence' = KnownIn(phase')

LEMMA MoveIs ==
    ASSUME NEW b \in Bets, NEW from, NEW to, Mapped(b, from, to)
    PROVE  Promise!Move(b, from, to)
  BY DEF Mapped, Promise!Move, phase, fence, KnownIn

\* Acceptance of a bet.
LEMMA PlaceBetMaps ==
    ASSUME FenceInv, Inv', FenceMatches', NEW b \in Bets, NEW r \in RequestIds, PlaceBet(b, r)
    PROVE  Promise!Accept(b)
<1> USE DEF FenceInv
<1>1. hubState[b] = "None" /\ requestId[b] = NoRequest
  BY DEF PlaceBet, Inv, RequestBinding, Agreement
<1>2. \A c \in Bets : requestId[c] # r
  BY NoValueAssumption DEF PlaceBet, Inv, RequestBinding
<1>3. Elsewhere(b)
  <2>1. \A c \in Bets : requestId[c] # NoRequest => requestId[c] \in RequestIds \ {r}
    BY <1>2 DEF Inv, TypeOK
  <2>2. \A c \in Bets \ {b} : hubState'[c] = hubState[c] /\ requestId'[c] = requestId[c]
    BY DEF PlaceBet, Inv, TypeOK
  <2>3. \A q \in RequestIds \ {r} : requests'[q] = requests[q]
    BY DEF PlaceBet, Inv, TypeOK
  <2> QED BY <2>1, <2>2, <2>3 DEF Elsewhere
<1>4. hubState'[b] = "PendingVRF" /\ requestId'[b] = r /\ requests'[r].state = "Awaiting"
      /\ requests'[r].seed = NoSeed
  BY DEF PlaceBet, Inv, TypeOK
<1>5. PhaseOf(b) = "none" /\ PhaseOf(b)' = "open"
  BY <1>1, <1>4, PhaseTable, NextPhaseTable DEF Live
<1>6. ResultOf(b)' = ResultOf(b)
  BY <1>1, <1>4, NoValueAssumption DEF ResultOf
<1>7. Mapped(b, {"none"}, "open") /\ result' = result
  BY <1>3, <1>5, <1>6, OneBetMoves DEF Mapped, phase
<1> QED BY <1>7, MoveIs DEF Promise!Accept, result

\* A bet of an open request, before it is moved.
LEMMA OpenBet ==
    ASSUME Inv, NEW r \in RequestIds, requests[r].state \in {"Awaiting", "Received"}
    PROVE  /\ requests[r].betId \in Bets
           /\ requestId[requests[r].betId] = r
           /\ r # NoRequest
           /\ PhaseOf(requests[r].betId) =
                  IF requests[r].state = "Awaiting" THEN "open" ELSE "known"
           /\ ResultOf(requests[r].betId) = requests[r].seed
<1>1. requests[r].betId \in Bets /\ requestId[requests[r].betId] = r /\ r # NoRequest
  BY RequestFacts
<1>2. hubState[requests[r].betId] \in Live
  BY OpenRequestIsLive
<1>3. PhaseOf(requests[r].betId) = IF requests[r].state = "Awaiting" THEN "open" ELSE "known"
  BY <1>1, <1>2, PhaseTable
<1> QED BY <1>1, <1>3 DEF ResultOf

\* A delivery settles the bet or leaves it known.
LEMMA DeliverMoves ==
    ASSUME Inv, FenceMatches', NEW r \in RequestIds, NEW seed \in Seeds, NEW gas \in Gas,
           requests[r].state \in {"Awaiting", "Received"},
           Deliver(r, seed, gas), requestId' = requestId,
           NEW b \in Bets, b = requests[r].betId
    PROVE  /\ phase' = [phase EXCEPT ![b] = "settled"] \/ phase' = [phase EXCEPT ![b] = "known"]
           /\ fence' = KnownIn(phase')
           /\ result' = [result EXCEPT ![b] = seed]
           /\ ResultOf(b) = seed => result' = result
<1>1. requestId[b] = r /\ r # NoRequest /\ hubState[b] \in Live
  BY OpenBet, OpenRequestIsLive
<1>2. /\ requests'[r].state \in {"Received", "Terminal"} /\ requests'[r].seed = seed
      /\ \A q \in RequestIds \ {r} : requests'[q] = requests[q]
  BY DeliverRequest
<1>3. \A c \in Bets \ {b} : hubState'[c] = hubState[c]
  BY DeliverElsewhere
<1>4. Elsewhere(b)
  BY <1>2, <1>3, OwnRequestOnly
<1>5. ResultOf(b)' = seed
  BY <1>1, <1>2 DEF ResultOf
<1>6. \/ hubState'[b] = "Settled"
      \/ hubState'[b] \in Live /\ requests'[r].state = "Received"
  BY <1>1 DEF Deliver, Close, Live, Inv, TypeOK
<1>7. PhaseOf(b)' = "settled" \/ PhaseOf(b)' = "known"
  BY <1>1, <1>6, NextPhaseTable
<1> QED BY <1>4, <1>5, <1>7, OneBetMoves

\* An answer of the wrapper reveals the result, and may settle the bet at once.
LEMMA FulfillMaps ==
    ASSUME Inv, FenceMatches', NEW r \in RequestIds, NEW s \in Seeds, NEW g \in Gas,
           Fulfill(r, s, g)
    PROVE  Promise!Next
<1>1. PICK b \in Bets : b = requests[r].betId
  BY OpenBet DEF Fulfill
<1>2. phase[b] = "open"
  BY <1>1, OpenBet DEF Fulfill, phase
<1>3. /\ phase' = [phase EXCEPT ![b] = "settled"] \/ phase' = [phase EXCEPT ![b] = "known"]
      /\ fence' = KnownIn(phase')
      /\ result' = [result EXCEPT ![b] = s]
  BY <1>1, DeliverMoves DEF Fulfill
<1>4. Mapped(b, {"open"}, "settled") \/ Mapped(b, {"open"}, "known")
  BY <1>2, <1>3 DEF Mapped
<1>5. Promise!Reveal(b, s) \/ Promise!RevealAndSettle(b, s)
  BY <1>3, <1>4, MoveIs DEF Promise!Reveal, Promise!RevealAndSettle, result
<1> QED BY <1>5 DEF Promise!Next

\* A retry settles the bet or changes nothing the promise sees.
LEMMA RetryMaps ==
    ASSUME Inv, FenceMatches, FenceMatches', NEW r \in RequestIds, NEW g \in Gas, Retry(r, g)
    PROVE  Promise!Next \/ (phase' = phase /\ result' = result /\ fence' = fence)
<1>1. PICK b \in Bets : b = requests[r].betId
  BY OpenBet DEF Retry
<1>2. phase[b] = "known" /\ ResultOf(b) = requests[r].seed
  BY <1>1, OpenBet DEF Retry, phase
<1>3. requests[r].seed \in Seeds
  BY DEF Retry, Inv, TypeOK, ResultIsTheReceivedSeed
<1>4. /\ phase' = [phase EXCEPT ![b] = "settled"] \/ phase' = [phase EXCEPT ![b] = "known"]
      /\ fence' = KnownIn(phase')
      /\ result' = result
  BY <1>1, <1>2, <1>3, DeliverMoves DEF Retry
<1>5. CASE phase' = [phase EXCEPT ![b] = "settled"]
  <2>1. Mapped(b, {"known"}, "settled")
    BY <1>2, <1>4, <1>5 DEF Mapped
  <2>2. Promise!Settle(b)
    BY <1>4, <2>1, MoveIs DEF Promise!Settle, result
  <2> QED BY <2>2 DEF Promise!Next
<1>6. CASE phase' = [phase EXCEPT ![b] = "known"]
  <2>1. phase' = phase
    BY <1>2, <1>6 DEF phase
  <2>2. fence' = fence
    BY <1>4, <2>1 DEF FenceMatches
  <2> QED BY <1>4, <2>1, <2>2
<1> QED BY <1>4, <1>5, <1>6

\* A received result is booked or voided by its bet's own transaction.
LEMMA BookedMaps ==
    ASSUME Inv, FenceMatches', NEW b \in Bets, ReceivedRequest(b), requestId' = requestId,
           NEW hub \in {"Settled", "Voided"}, Close(b, hub),
           NEW st, Acknowledge(requestId[b], st)
    PROVE  Promise!Next
<1>1. requestId[b] \in RequestIds /\ requests[requestId[b]].betId = b /\ requestId[b] # NoRequest
  BY BoundFacts DEF ReceivedRequest, BoundRequest
<1>2. phase[b] = "known"
  BY <1>1, OpenBet DEF ReceivedRequest, phase
<1>3. /\ requests'[requestId[b]].seed = requests[requestId[b]].seed
      /\ \A q \in RequestIds \ {requestId[b]} : requests'[q] = requests[q]
  BY <1>1, AcknowledgeRequest
<1>4. hubState'[b] = hub /\ \A c \in Bets \ {b} : hubState'[c] = hubState[c]
  BY DEF Close, Inv, TypeOK
<1>5. Elsewhere(b)
  BY <1>1, <1>3, <1>4, OwnRequestOnly
<1>6. ResultOf(b)' = ResultOf(b)
  BY <1>1, <1>3 DEF ResultOf
<1>7. CASE hub = "Settled"
  <2>1. PhaseOf(b)' = "settled"
    BY <1>4, <1>7, NextPhaseTable
  <2>2. Mapped(b, {"known"}, "settled") /\ result' = result
    BY <1>2, <1>5, <1>6, <2>1, OneBetMoves DEF Mapped
  <2>3. Promise!Settle(b)
    BY <2>2, MoveIs DEF Promise!Settle, result
  <2> QED BY <2>3 DEF Promise!Next
<1>8. CASE hub = "Voided"
  <2>1. PhaseOf(b)' = "voided"
    BY <1>4, <1>8, NextPhaseTable
  <2>2. Mapped(b, {"known"}, "voided") /\ result' = result
    BY <1>2, <1>5, <1>6, <2>1, OneBetMoves DEF Mapped
  <2>3. Promise!Void(b)
    BY <2>2, MoveIs DEF Promise!Void, result
  <2> QED BY <2>3 DEF Promise!Next
<1> QED BY <1>7, <1>8

\* A refund ends a bet whose result nobody knows.
LEMMA RefundMaps ==
    ASSUME Inv, FenceMatches', NEW b \in Bets, Refund(b)
    PROVE  Promise!Next
<1>1. requestId[b] # NoRequest
  BY DEF Refund, Inv, Agreement
<1>2. requestId[b] \in RequestIds /\ requests[requestId[b]].betId = b
  BY <1>1, BoundFacts
<1>3. phase[b] = "open"
  BY <1>2, OpenBet DEF Refund, phase
<1>4. /\ requests'[requestId[b]].seed = requests[requestId[b]].seed
      /\ \A q \in RequestIds \ {requestId[b]} : requests'[q] = requests[q]
  BY <1>2 DEF Refund, Inv, TypeOK
<1>5. hubState'[b] = "Refunded" /\ \A c \in Bets \ {b} : hubState'[c] = hubState[c]
  BY DEF Refund, Close, Inv, TypeOK
<1>6. requestId' = requestId
  BY DEF Refund
<1>7. Elsewhere(b)
  BY <1>2, <1>4, <1>5, <1>6, OwnRequestOnly
<1>8. ResultOf(b)' = ResultOf(b)
  BY <1>1, <1>4, <1>6 DEF ResultOf
<1>9. PhaseOf(b)' = "refunded"
  BY <1>5, NextPhaseTable
<1>10. Mapped(b, {"open"}, "refunded") /\ result' = result
  BY <1>3, <1>7, <1>8, <1>9, OneBetMoves DEF Mapped
<1>11. Promise!Refund(b)
  BY <1>10, MoveIs DEF Promise!Refund, result
<1> QED BY <1>11 DEF Promise!Next

\* Every transaction is a transition of the promise, or invisible to it.
LEMMA StepMaps ==
    ASSUME FenceInv, Inv', FenceMatches, FenceMatches', [Next]_vars
    PROVE  [Promise!Next]_Promise!vars
<1> DEFINE Same == phase' = phase /\ result' = result /\ fence' = fence
<1>1. Same => UNCHANGED Promise!vars
  BY DEF Promise!vars, phase, result, fence
<1>2. ASSUME NEW b \in Bets, NEW r \in RequestIds, PlaceBet(b, r) PROVE Promise!Next
  BY <1>2, PlaceBetMaps DEF Promise!Next
<1>3. ASSUME NEW r \in RequestIds, NEW s \in Seeds, NEW g \in Gas, Fulfill(r, s, g)
      PROVE  Promise!Next
  BY <1>3, FulfillMaps DEF FenceInv
<1>4. ASSUME NEW r \in RequestIds, NEW g \in Gas, Retry(r, g) PROVE Promise!Next \/ Same
  BY <1>4, RetryMaps DEF FenceInv
<1>5. ASSUME NEW b \in Bets, NEW g, Finalize(b) \/ VoidBet(b, g) PROVE Promise!Next
  <2>1. ReceivedRequest(b) /\ requestId' = requestId
    BY <1>5 DEF Finalize, VoidBet
  <2>2. \E hub \in {"Settled", "Voided"}, st \in RequestStates :
            Close(b, hub) /\ Acknowledge(requestId[b], st)
    BY <1>5 DEF Finalize, VoidBet, RequestStates
  <2> QED BY <2>1, <2>2, BookedMaps DEF FenceInv
<1>6. ASSUME NEW b \in Bets, Refund(b) PROVE Promise!Next
  BY <1>6, RefundMaps DEF FenceInv
<1>7. ASSUME \/ \E k \in Banks : OpenVoidWindow(k)
             \/ \E t \in RefundTimeouts : SetRefundTimeout(t)
             \/ \E k \in Banks, v \in BOOLEAN : SetRiskIn(k, v)
             \/ \E b \in Bets, v \in BOOLEAN : SetBookable(b, v)
             \/ Tick
             \/ UNCHANGED vars
      PROVE  Same
  <2>1. UNCHANGED <<hubState, requestId, requests, unbookedResultCount>>
    BY <1>7 DEF OpenVoidWindow, SetRefundTimeout, SetRiskIn, SetBookable, Tick, vars, hubVars,
                vrfVars
  <2> QED BY <2>1 DEF phase, result, fence, PhaseOf, ResultOf
<1> HIDE DEF Same
<1>8. Promise!Next \/ Same
  BY <1>2, <1>3, <1>4, <1>5, <1>6, <1>7 DEF Next
<1> QED BY <1>1, <1>8

(***************************************************************************)
(* The four contracts together keep the promise, whatever the wrapper      *)
(* answers and whichever inner call fails.                                 *)
(***************************************************************************)
THEOREM PromiseKept == Spec => ImplementsPromise
<1>1. Init => Promise!Init
  <2> SUFFICES ASSUME Init PROVE Promise!Init
    OBVIOUS
  <2>1. \A b \in Bets : PhaseOf(b) = "none" /\ ResultOf(b) = NoSeed
    BY PhaseTable DEF Init, ResultOf
  <2>2. \A k \in Banks : ~(unbookedResultCount[k] > 0)
    BY DEF Init
  <2> QED BY <2>1, <2>2 DEF Promise!Init
<1>2. FenceInv /\ Inv' /\ FenceMatches /\ FenceMatches' /\ [Next]_vars => [Promise!Next]_Promise!vars
  BY StepMaps
<1>3. FenceInv => FenceMatches
  BY FenceIsKnown
<1> QED BY <1>1, <1>2, <1>3, Invariance, FenceInvariance, PTL
        DEF Spec, ImplementsPromise, Promise!Spec
=============================================================================
