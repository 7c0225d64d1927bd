--------------------------- MODULE MCBetLifecycle ---------------------------
EXTENDS BetLifecycle, TLC

CONSTANTS b1, b2, k1, r1, r2, s1, s2

\* Two bets in one Bank.
OneBank == b1 :> k1 @@ b2 :> k1
=============================================================================
