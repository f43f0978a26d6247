\* A second asset whose rewards start two blocks after it is listed.
CONSTANTS
    d1 = d1
    d2 = d2
    v1 = v1
    v2 = v2
    v3 = v3
    atom = atom
    luna = luna
    Delegators = {d1}
    Validators = {v1}
    Denoms = {atom, luna}
    UnbondingTime = 1
    Fractions <- ThreeQuarters
    Scale = 1000
    Epsilon = 10
    Amounts = {2}
    InitialWallet = 2
    BlockGaps = {1}
    RewardDelay = 2
    PoolMayBeShort = TRUE
    MaxTime = 3
    MaxRedels = 0
    MaxUndels = 0
    MaxSlashes = 0
    RewardWeights = {1000}
    RewardCoins = {6}
    MaxEvents = 1
    MaxChanges = 0
SPECIFICATION RewardsSpec
INVARIANTS
    WarmUpEarnsNothing
