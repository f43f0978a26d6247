\* Two assets of up to three tokens under a take rate and a decay, five time units.
CONSTANTS
    a = a
    b = b
    Denoms = {a, b}
    Scale = 1000
    Amounts = {1, 3}
    TakeRates = {100}
    Weights = {1000}
    MinWeight = 400
    MaxWeight = 1000
    ChangeRates = {500, 1000}
    ChangeIntervals = {2}
    RewardDelay = 1
    ClaimIntervals = {1, 2}
    BlockGaps = {1, 3}
    MaxTokens = 3
    MaxUpdates = 3
    MaxTime = 5
SPECIFICATION Spec
INVARIANTS
    HooksTypeOK
    ChargedOnce
PROPERTIES
    CutsLeaveTokens
    ChargedInTime
    WeightFollowsSchedule
SYMMETRY DenomSymmetry
