\* A slash stops at a redelegation whose delegation is gone; no rewards wait.
CONSTANTS
    d1 = d1
    d2 = d2
    v1 = v1
    v2 = v2
    v3 = v3
    a = a
    b = b
    Delegators = {d1}
    Validators = {v1, v2}
    Denoms = {a}
    UnbondingTime = 1
    Fractions <- Half
    Scale = 1000
    Epsilon = 10
    Amounts = {2}
    InitialWallet = 4
    BlockGaps = {1}
    RewardDelay = 0
    PoolMayBeShort = FALSE
    MaxTime = 1
    MaxRedels = 1
    MaxUndels = 2
    MaxSlashes = 1
SPECIFICATION Spec
PROPERTIES
    SlashReachesUndelegations
