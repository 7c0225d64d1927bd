--------------------------- MODULE MCTimelockIndex ---------------------------
EXTENDS TimelockIndex, TLC

CONSTANTS o1, k1, k2
=============================================================================
