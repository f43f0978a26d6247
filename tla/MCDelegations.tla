---------------------------- MODULE MCDelegations ----------------------------
(***************************************************************************)
(* Model values and constants for checking Delegations and Queries.        *)
(***************************************************************************)
EXTENDS Queries

CONSTANTS d1, d2, v1, v2, v3, a, b

Half == {<<1, 2>>}
All == {<<1, 1>>}

PartySymmetry == Permutations(Delegators) \cup Permutations(Validators)
=============================================================================
