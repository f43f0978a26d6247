\* A validator that leaves after a slash or a delegation has made a record for it.
CONSTANTS
    v1 = v1
    v2 = v2
    a = a
    b = b
    Validators = {v1, v2}
    Denoms = {a}
    Scale = 100
    Weights = {50, 150}
    RewardDelay = 1
    Amounts = {1}
    NativeAmounts = {1, 3}
    NativeSupply = 6
    Fractions = {50}
    MaxOps = 4
SPECIFICATION Spec
INVARIANTS
    NeverPanics
CHECK_DEADLOCK FALSE
