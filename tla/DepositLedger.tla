--------------------------- MODULE DepositLedger ---------------------------
(***************************************************************************)
(* What the vault promises its depositors, whatever the tree below it      *)
(* does: a deposit has a worth, which only its own withdrawals and the     *)
(* results of bets change; a result is booked to the unit, and shared by   *)
(* the deposits the bet was opened against when they can bear its greatest *)
(* loss, by all deposits otherwise; what open bets may lose stays.         *)
(***************************************************************************)
EXTENDS Integers, FiniteSetsExt

CONSTANTS Deposits, BetIds, NoBet

VARIABLES
    worth,   \* of each deposit
    made,    \* the deposits made so far
    bets     \* open bets: their backers (the deposits of their time), stake and lock

ledger == <<worth, made, bets>>

Total(W, D) == MapThenSumSet(LAMBDA d : W[d], D)

LocksStay ==
    MapThenSumSet(LAMBDA i : IF bets[i] = NoBet THEN 0 ELSE bets[i].lock, BetIds)
    <= Total(worth, made)

OnlyMoves(d) == \A e \in Deposits \ {d} : worth'[e] = worth[e]

Init ==
    /\ worth = [d \in Deposits |-> 0]
    /\ made = {}
    /\ bets = [i \in BetIds |-> NoBet]

Deposit(d) ==
    /\ made' = made \cup {d}
    /\ worth'[d] > 0
    /\ OnlyMoves(d)
    /\ UNCHANGED bets

Withdraw(d) ==
    /\ worth'[d] < worth[d]
    /\ OnlyMoves(d)
    /\ UNCHANGED <<made, bets>>

Open(i) ==
    /\ bets[i] = NoBet
    /\ bets'[i] # NoBet /\ bets'[i].backers = made
    /\ \A j \in BetIds \ {i} : bets'[j] = bets[j]
    /\ Total(worth, made) > 0
    /\ UNCHANGED <<worth, made>>

\* The deposits that share the result of bet b.
Sharers(b) ==
    IF Total(worth, b.backers) > 0 /\ Total(worth, b.backers) >= b.lock THEN b.backers ELSE made

\* Without any capital there is nobody to receive a profit.
Settle(i) ==
    LET result == Total(worth', made) - Total(worth, made)
    IN  /\ bets[i] # NoBet
        /\ bets' = [bets EXCEPT ![i] = NoBet]
        /\ UNCHANGED made
        /\ IF Total(worth, made) = 0 THEN result = 0
           ELSE result \in (0 - bets[i].lock)..bets[i].stake
        /\ \A d \in Deposits :
             IF d \notin Sharers(bets[i]) THEN worth'[d] = worth[d]
             ELSE IF result < 0 THEN worth'[d] <= worth[d]
             ELSE worth'[d] >= worth[d]

Next ==
    /\ \/ \E d \in Deposits \ made : Deposit(d)
       \/ \E d \in made : Withdraw(d)
       \/ \E i \in BetIds : Open(i) \/ Settle(i)
    /\ LocksStay'

Spec == Init /\ [][Next]_ledger
=============================================================================
