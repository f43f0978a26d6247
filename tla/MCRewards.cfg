\* Two delegators and two validators earn, withdraw and are slashed while a weight changes.
CONSTANTS
    d1 = d1
    d2 = d2
    v1 = v1
    v2 = v2
    v3 = v3
    atom = atom
    luna = luna
    Delegators = {d1, d2}
    Validators = {v1, v2}
    Denoms = {atom}
    UnbondingTime = 1
    Fractions <- ThreeQuarters
    Scale = 1000
    Epsilon = 10
    Amounts = {2}
    InitialWallet = 2
    BlockGaps = {1}
    RewardDelay = 0
    PoolMayBeShort = TRUE
    MaxTime = 1
    MaxRedels = 1
    MaxUndels = 1
    MaxSlashes = 1
    RewardWeights = {1000, 2000}
    RewardCoins = {6}
    MaxEvents = 3
    MaxChanges = 1
SPECIFICATION RewardsSpec
INVARIANTS
    RewardsTypeOK
    PoolCovers
    HistoriesOrdered
PROPERTIES
    MessagesKeepEarnings
    WeightChangeKeepsEarnings
SYMMETRY PartySymmetry
