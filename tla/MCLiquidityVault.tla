-------------------------- MODULE MCLiquidityVault --------------------------
(***************************************************************************)
(* Small instances of LiquidityVault for TLC.                              *)
(***************************************************************************)
EXTENDS LiquidityVault, TLC

Symmetry == Permutations(PositionIds)
=============================================================================
