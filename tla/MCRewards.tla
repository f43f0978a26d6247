------------------------------ MODULE MCRewards ------------------------------
(***************************************************************************)
(* Model values and constants for checking Rewards with TLC.               *)
(***************************************************************************)
EXTENDS Rewards

CONSTANTS d1, d2, v1, v2, v3, atom, luna

ThreeQuarters == {<<3, 4>>}
NoFractions == {}

PartySymmetry == Permutations(Delegators) \cup Permutations(Validators)
=============================================================================
