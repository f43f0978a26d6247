\* Validator shares drift from the asset by a rounding error.
CONSTANTS
    d1 = d1
    d2 = d2
    v1 = v1
    v2 = v2
    v3 = v3
    a = a
    b = b
    Delegators = {d1, d2}
    Validators = {v1, v2}
    Denoms = {a}
    UnbondingTime = 1
    Fractions <- Half
    Scale = 1000
    Epsilon = 10
    Amounts = {1, 2}
    InitialWallet = 2
    BlockGaps = {1}
    RewardDelay = 2
    PoolMayBeShort = TRUE
    MaxTime = 1
    MaxRedels = 1
    MaxUndels = 1
    MaxSlashes = 1
SPECIFICATION Spec
INVARIANTS
    ValidatorSharesInvariant
SYMMETRY PartySymmetry
