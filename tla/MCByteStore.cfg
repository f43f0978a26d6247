\* Any three writes under fields whose bytes overlap, and the completions after them.
CONSTANTS
    Delegators <- DelegatorBytes
    Validators <- ValidatorBytes
    Denoms <- DenomBytes
    UnbondingTime = 1
    Fractions <- NoSlashes
    MaxTime = 1
    MaxWrites = 3
SPECIFICATION Spec
INVARIANTS
    StoreAgrees
    ScansAreExact
    KeysLeadBack
