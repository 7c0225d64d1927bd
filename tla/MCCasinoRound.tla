---------------------------- MODULE MCCasinoRound ----------------------------
EXTENDS CasinoRound
=============================================================================
