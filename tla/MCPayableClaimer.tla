-------------------------- MODULE MCPayableClaimer --------------------------
EXTENDS PayableClaimer, TLC

CONSTANTS p1, p2

\* Nothing in the specification tells two players apart.
PlayerSymmetry == Permutations(Players)
=============================================================================
