---------------------------- MODULE MCAssetHooks ----------------------------
(***************************************************************************)
(* Model values for checking AssetHooks with TLC.                          *)
(***************************************************************************)
EXTENDS AssetHooks, TLC

CONSTANTS a, b

DenomSymmetry == Permutations(Denoms)
=============================================================================
