\* Redelegations of one delegator among three validators, restarts, and liveness of both queues.
CONSTANTS
    d1 = d1
    d2 = d2
    v1 = v1
    v2 = v2
    v3 = v3
    a = a
    b = b
    Delegators = {d1}
    Validators = {v1, v2, v3}
    Denoms = {a}
    UnbondingTime = 1
    Fractions <- NoFractions
    Amounts = {1}
    InitialWallet = 1
    BlockGaps = {1, 2}
    MaxTime = 1
    MaxRedels = 2
    MaxUndels = 1
SPECIFICATION GenesisFairSpec
INVARIANTS
    RedelegationStoresAgree
    ImportedBalance
    NoTransitiveRedelegation
PROPERTIES
    EverythingCompletes

