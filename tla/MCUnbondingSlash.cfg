\* A slash reaches into undelegations from other validators.
CONSTANTS
    d1 = d1
    d2 = d2
    v1 = v1
    v2 = v2
    v3 = v3
    a = a
    b = b
    Delegators = {d1}
    Validators = {v1, v2}
    Denoms = {a}
    UnbondingTime = 1
    Fractions <- Half
    Amounts = {2}
    InitialWallet = 4
    BlockGaps = {1}
    MaxTime = 1
    MaxRedels = 0
    MaxUndels = 2
SPECIFICATION Spec
PROPERTY SlashSparesOtherValidators
