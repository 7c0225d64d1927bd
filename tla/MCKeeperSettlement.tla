------------------------- MODULE MCKeeperSettlement -------------------------
EXTENDS KeeperSettlement
=============================================================================
