\* Undelegations of two delegators in two denominations under slashing and restarts.
CONSTANTS
    d1 = d1
    d2 = d2
    v1 = v1
    v2 = v2
    v3 = v3
    a = a
    b = b
    Delegators = {d1, d2}
    Validators = {v1, v2}
    Denoms = {a, b}
    UnbondingTime = 1
    Fractions <- HalfAndAll
    Amounts = {3}
    InitialWallet = 3
    BlockGaps = {1}
    MaxTime = 2
    MaxRedels = 0
    MaxUndels = 2
SPECIFICATION GenesisSpec
INVARIANTS
    TypeOK
    Custody
    UndelegationIndexExact
PROPERTIES
    MaturedNotSlashed
SYMMETRY Symmetry
