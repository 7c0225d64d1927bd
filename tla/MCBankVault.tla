----------------------------- MODULE MCBankVault -----------------------------
EXTENDS BankVault, TLC

CONSTANTS h1, h2, h3, p1, p2

\* Nothing in the specification tells two holds or two players apart.
PoolSymmetry == Permutations(HoldIds) \cup Permutations(Players)
=============================================================================
