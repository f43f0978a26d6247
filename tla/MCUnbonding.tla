---------------------------- MODULE MCUnbonding ----------------------------
(***************************************************************************)
(* Model values and constants for checking Unbonding with TLC.             *)
(***************************************************************************)
EXTENDS Unbonding, TLC

CONSTANTS d1, d2, v1, v2, v3, a, b

HalfAndAll == {<<1, 2>>, <<1, 1>>}
Half == {<<1, 2>>}
NoFractions == {}

ValidatorSymmetry == Permutations(Validators)
PartySymmetry == Permutations(Delegators) \cup Permutations(Validators)
Symmetry ==
    Permutations(Delegators) \cup Permutations(Validators) \cup Permutations(Denoms)
=============================================================================
