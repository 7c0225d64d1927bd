------------------------------ MODULE PoolLedger ------------------------------
(***************************************************************************)
(* What one pool promises about its money, as a ledger of eight accounts.  *)
(* Value only moves between accounts, along the entries below:             *)
(*                                                                         *)
(*   - liquidity providers' capital (lp) comes from outside; it leaves to  *)
(*     its owners or pays the costs of a closing bet;                      *)
(*   - a closing bet spends its principal, and lp capital when it costs    *)
(*     more; it never pays lp and takes from lp at once;                   *)
(*   - what is owed (fees, xp, payable) never returns to lp: it is paid    *)
(*     out, or forgone into a surplus;                                     *)
(*   - a surplus is never spent.                                           *)
(*                                                                         *)
(* No account is ever overdrawn.                                           *)
(***************************************************************************)
EXTENDS Integers

CONSTANTS Supply

VARIABLES outside, lp, principal, fees, xp, payable, bankSurplus, vaultSurplus

vars == <<outside, lp, principal, fees, xp, payable, bankSurplus, vaultSurplus>>

Total ==
    outside + lp + principal + fees + xp + payable + bankSurplus + vaultSurplus

Covered ==
    /\ outside >= 0 /\ lp >= 0 /\ principal >= 0 /\ fees >= 0
    /\ xp >= 0 /\ payable >= 0 /\ bankSurplus >= 0 /\ vaultSurplus >= 0

Init ==
    /\ outside = Supply
    /\ lp = 0 /\ principal = 0 /\ fees = 0 /\ xp = 0 /\ payable = 0
    /\ bankSurplus = 0 /\ vaultSurplus = 0

\* Every entry conserves the total and overdraws nothing.
Balanced == Covered' /\ Total' = Total

InvestOrExit ==
    /\ Balanced
    /\ UNCHANGED <<principal, fees, xp, payable, bankSurplus, vaultSurplus>>

Stake ==
    /\ Balanced
    /\ principal' >= principal
    /\ UNCHANGED <<lp, fees, xp, payable, bankSurplus, vaultSurplus>>

\* The player is paid or owed, never partly both.
Close ==
    /\ Balanced
    /\ principal' <= principal
    /\ outside' >= outside /\ fees' >= fees /\ xp' >= xp /\ payable' >= payable
    /\ outside' = outside \/ payable' = payable
    /\ UNCHANGED <<bankSurplus, vaultSurplus>>

PayPlayer ==
    /\ Balanced
    /\ payable' <= payable
    /\ UNCHANGED <<lp, principal, fees, xp, bankSurplus, vaultSurplus>>

\* Fees or referral earnings leave, or their owner forgoes them into a surplus.
Claim ==
    /\ Balanced
    /\ fees' <= fees /\ xp' <= xp
    /\ fees' = fees \/ xp' = xp
    /\ outside' >= outside /\ bankSurplus' >= bankSurplus /\ vaultSurplus' >= vaultSurplus
    /\ UNCHANGED <<lp, principal, payable>>

Donate ==
    /\ Balanced
    /\ bankSurplus' >= bankSurplus /\ vaultSurplus' >= vaultSurplus
    /\ UNCHANGED <<lp, principal, fees, xp, payable>>

Next == InvestOrExit \/ Stake \/ Close \/ PayPlayer \/ Claim \/ Donate

Spec == Init /\ [][Next]_vars
=============================================================================
