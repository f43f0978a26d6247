----------------------------- MODULE MCGenesis -----------------------------
(***************************************************************************)
(* Model values and constants for checking Genesis with TLC.               *)
(***************************************************************************)
EXTENDS Genesis

CONSTANTS d1, d2, v1, v2, v3, a, b

HalfAndAll == {<<1, 2>>, <<1, 1>>}
Half == {<<1, 2>>}
NoFractions == {}

Symmetry ==
    Permutations(Delegators) \cup Permutations(Validators) \cup Permutations(Denoms)
=============================================================================
