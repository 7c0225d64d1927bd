----------------------------- MODULE BetPromise -----------------------------
(***************************************************************************)
(* What the protocol promises a player about one bet, and liquidity        *)
(* providers about the results that are known but not booked.              *)
(*                                                                         *)
(* An accepted bet is open until its result is known; an open bet may be   *)
(* refunded, a known one may not.  A result, once known, never changes; it *)
(* is settled on that result or voided, exactly once.  A Bank is fenced    *)
(* (its liquidity providers may neither enter nor leave) exactly while one *)
(* of its bets has a known result that is not booked.                      *)
(***************************************************************************)
EXTENDS Naturals

CONSTANTS Bets, Banks, Seeds, BankOf, NoSeed

VARIABLES
    phase,   \* of each bet
    result,  \* the word each bet is resolved with
    fenced   \* the Banks whose liquidity providers may not move

vars == <<phase, result, fenced>>

Init ==
    /\ phase = [b \in Bets |-> "none"]
    /\ result = [b \in Bets |-> NoSeed]
    /\ fenced = {}

\* The phases after a step decide which Banks are fenced after it.
Move(b, from, to) ==
    /\ phase[b] \in from
    /\ phase' = [phase EXCEPT ![b] = to]
    /\ fenced' = {k \in Banks : \E c \in Bets : BankOf[c] = k /\ phase'[c] = "known"}

Accept(b) == Move(b, {"none"}, "open") /\ UNCHANGED result

Reveal(b, s) == Move(b, {"open"}, "known") /\ result' = [result EXCEPT ![b] = s]

\* A result may be booked in the transaction that reveals it.
RevealAndSettle(b, s) == Move(b, {"open"}, "settled") /\ result' = [result EXCEPT ![b] = s]

Settle(b) == Move(b, {"known"}, "settled") /\ UNCHANGED result

Void(b) == Move(b, {"known"}, "voided") /\ UNCHANGED result

Refund(b) == Move(b, {"open"}, "refunded") /\ UNCHANGED result

Next ==
    \E b \in Bets :
        \/ Accept(b) \/ Settle(b) \/ Void(b) \/ Refund(b)
        \/ \E s \in Seeds : Reveal(b, s) \/ RevealAndSettle(b, s)

Spec == Init /\ [][Next]_vars
=============================================================================
