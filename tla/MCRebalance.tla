---------------------------- MODULE MCRebalance ----------------------------
(***************************************************************************)
(* Model values for checking Rebalance with TLC.                           *)
(***************************************************************************)
EXTENDS Rebalance

CONSTANTS v1, v2, a, b
=============================================================================
