\* Two validators, which may stop to be bonded, be slashed or leave, and two assets.
CONSTANTS
    v1 = v1
    v2 = v2
    a = a
    b = b
    Validators = {v1, v2}
    Denoms = {a, b}
    Scale = 100
    Weights = {50, 150}
    RewardDelay = 1
    Amounts = {1}
    NativeAmounts = {1, 3}
    NativeSupply = 6
    Fractions = {50}
    MaxOps = 5
SPECIFICATION FairSpec
INVARIANTS
    RebalanceTypeOK
    QueuedWhenOff
PROPERTIES
    RebalanceReachesTarget
    SupplyHidesStake
    Settles
CHECK_DEADLOCK FALSE
