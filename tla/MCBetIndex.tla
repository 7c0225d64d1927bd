------------------------------ MODULE MCBetIndex ------------------------------
EXTENDS BetIndex, TLC

CONSTANTS b1, k1, h1
=============================================================================
