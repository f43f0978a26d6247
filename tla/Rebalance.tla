------------------------------ MODULE Rebalance ------------------------------
(***************************************************************************)
(* The staking tokens that x/alliance mints to give its assets voting      *)
(* power (RebalanceHook and RebalanceBondTokenWeights of keeper/asset.go), *)
(* the hooks of keeper/hooks.go that ask for a rebalance, and what of it   *)
(* the supply query of custom/bank hides.                                  *)
(*                                                                         *)
(* x/staking is modelled from how the module uses it: a validator has      *)
(* tokens, some of them the module's; it is bonded, unbonding or removed;  *)
(* its hooks are called where x/staking calls them.  The alliance side is  *)
(* the validator shares of module Delegations, which add up to             *)
(* asset.TotalValidatorShares; the amount of a message is in whole shares. *)
(*                                                                         *)
(* A panic of the EndBlocker is no step: the block is never committed.     *)
(***************************************************************************)
EXTENDS Dec, FiniteSetsExt, Functions

CONSTANTS
    Validators,
    Denoms,
    Weights,       \* reward weights, Decs
    RewardDelay,   \* blocks until rewards of a new asset start
    Amounts,       \* amounts of alliance assets in messages
    NativeAmounts, \* amounts of the staking denomination in messages
    NativeSupply,  \* tokens of the staking denomination at genesis
    Fractions,     \* slash fractions below one, Decs
    MaxOps         \* bound: messages, proposals, slashes and changes of the bonded validators

ASSUME WeightsAssumption == Weights \subseteq Nat
ASSUME DelayAssumption == RewardDelay \in Nat
ASSUME RebalanceAmountsAssumption == Amounts \cup NativeAmounts \subseteq Nat \ {0}
\* Every validator of the genesis state has staked a token of its own.
ASSUME SupplyAssumption ==
    NativeSupply \in Nat /\ IsFiniteSet(Validators) /\ Cardinality(Validators) =< NativeSupply
ASSUME DenomsAssumption == IsFiniteSet(Denoms)
ASSUME RebalanceFractionsAssumption == Fractions \subseteq 1 .. Scale - 1

VARIABLES
    phase,    \* "committed" between blocks, "begin", "deliver", or "staked" once x/staking
              \* has ended the block
    status,   \* of each validator in x/staking
    tokens,   \* validator.Tokens
    stake,    \* what the delegation of the module is worth at each validator, a Dec
    wallet,   \* staking tokens that are not with a validator
    records,  \* validators with an AllianceValidatorInfo
    shares,   \* ValidatorShares of each validator and asset, Decs
    assets,   \* whitelisted denomination -> [weight, wait], wait in blocks
    queued,   \* AssetRebalanceQueueKey is set
    ops,      \* for MaxOps
    missed    \* history: a change that no hook reports, since the last rebalance

stakingVars == <<status, tokens, stake, wallet>>
allianceVars == <<records, shares, assets>>
rebalanceVars == <<phase, stakingVars, allianceVars, queued, ops, missed>>

Init ==
    /\ phase = "committed"
    /\ status = [v \in Validators |-> "bonded"]
    /\ tokens = [v \in Validators |-> 1]
    /\ stake = [v \in Validators |-> 0]
    /\ wallet = NativeSupply - Cardinality(Validators)
    /\ records = {}
    /\ shares = [v \in Validators |-> [n \in Denoms |-> 0]]
    /\ assets = [n \in {} |-> {}]
    /\ queued = FALSE
    /\ ops = 0
    /\ missed = FALSE

Bonded == {v \in Validators : status[v] = "bonded"}
Exists(v) == status[v] # "removed"

Counted == ops < MaxOps /\ ops' = ops + 1

\* A message or a proposal.
Message == phase # "staked" /\ phase' = "deliver" /\ Counted

-----------------------------------------------------------------------------
(* Messages to x/staking and x/slashing. *)

\* AfterDelegationModified.
NativeDelegate(v, amt) ==
    /\ Message
    /\ Exists(v)
    /\ amt =< wallet
    /\ tokens' = [tokens EXCEPT ![v] = @ + amt]
    /\ wallet' = wallet - amt
    /\ queued' = TRUE
    /\ UNCHANGED <<status, stake, allianceVars, missed>>

\* The tokens of v that are not the module's.
NativeAt(v) == tokens[v] - (stake[v] + Scale - 1) \div Scale

\* An undelegation of all a delegator has at v removes the delegation, for which x/staking
\* calls BeforeDelegationRemoved, which does nothing, instead of AfterDelegationModified.
NativeUndelegate(v, amt, removed) ==
    /\ Message
    /\ Exists(v)
    /\ amt =< NativeAt(v)
    /\ amt = NativeAt(v) => removed
    /\ tokens' = [tokens EXCEPT ![v] = @ - amt]
    /\ wallet' = wallet + amt
    /\ queued' = (queued \/ ~removed)
    /\ missed' = (missed \/ removed)
    /\ UNCHANGED <<status, stake, allianceVars>>

\* Slash of x/staking, after BeforeValidatorSlashed with the fraction that really burns.
\* SlashValidator changes the shares and may stop with an error (module Delegations), of
\* which x/staking takes no notice.  A slash that burns nothing is no step: x/staking leaves
\* out the hook or calls it with a fraction of zero, which is an error (slash.go:18-20).
SlashStake(v, f, failed) ==
    LET burned    == TruncateInt(MulInt(f, tokens[v]))
        left      == tokens[v] - burned
        effective == QuoRoundUp(FromInt(burned), FromInt(tokens[v]))
    IN  /\ phase \in {"committed", "begin"} /\ phase' = "begin" /\ Counted
        /\ Exists(v) /\ burned > 0
        /\ shares' = [shares EXCEPT ![v] = [n \in Denoms |-> @[n] - Mul(@[n], effective)]]
        /\ records' = records \cup {v}
        /\ tokens' = [tokens EXCEPT ![v] = left]
        /\ stake' = [stake EXCEPT ![v] = Quo(MulInt(@, left), FromInt(tokens[v]))]
        /\ queued' = (queued \/ ~failed)
        /\ missed' = (missed \/ failed)
        /\ UNCHANGED <<status, wallet, assets>>

\* The end of the block of x/staking: it chooses the validators that are bonded, calling
\* AfterValidatorBonded or AfterValidatorBeginUnbonding for those that change, and removes
\* some without tokens that had stopped to be bonded before, calling AfterValidatorRemoved.
\* Nobody is bonded only if nobody has tokens; a change that need not be is counted.
EndStaking(bonded, gone) ==
    /\ phase # "staked" /\ phase' = "staked"
    /\ bonded = {} => \A v \in Validators : ~Exists(v) \/ tokens[v] = 0
    /\ \A v \in bonded : Exists(v) /\ tokens[v] > 0
    /\ \A v \in gone : status[v] = "unbonding" /\ tokens[v] = 0
    /\ status' = [v \in Validators |->
                     IF v \in bonded THEN "bonded"
                     ELSE IF v \in gone \/ ~Exists(v) THEN "removed" ELSE "unbonding"]
    /\ queued' = (queued \/ status' # status)
    /\ IF {v \in Bonded : tokens[v] > 0} \in {bonded, {}} /\ gone = {} THEN UNCHANGED ops
       ELSE Counted
    /\ UNCHANGED <<tokens, stake, wallet, allianceVars, missed>>

-----------------------------------------------------------------------------
(* Messages and proposals to x/alliance. *)

CreateAlliance(n, w) ==
    /\ Message
    /\ n \notin DOMAIN assets
    /\ assets' = [m \in DOMAIN assets \cup {n} |->
                     IF m = n THEN [weight |-> w, wait |-> RewardDelay] ELSE assets[m]]
    /\ UNCHANGED <<stakingVars, records, shares, queued, missed>>

\* UpdateAllianceAsset; it fails on the record of a validator that is gone (asset.go:51).
UpdateAlliance(n, w) ==
    /\ Message
    /\ n \in DOMAIN assets
    /\ \A v \in records : Exists(v)
    /\ w # assets[n].weight
    /\ assets' = [assets EXCEPT ![n].weight = w]
    /\ queued' = TRUE
    /\ UNCHANGED <<stakingVars, records, shares, missed>>

\* DeleteAlliance, which refuses an asset that somebody still stakes.
DeleteAlliance(n) ==
    /\ Message
    /\ n \in DOMAIN assets
    /\ \A v \in Validators : shares[v][n] = 0
    /\ assets' = Restrict(assets, DOMAIN assets \ {n})
    /\ UNCHANGED <<stakingVars, records, shares, queued, missed>>

\* Mutation: no rebalance is asked for.
Delegate_Silent(v, n, amt) ==
    /\ Message
    /\ n \in DOMAIN assets
    /\ Exists(v)
    /\ records' = records \cup {v}
    /\ shares' = [shares EXCEPT ![v][n] = @ + FromInt(amt)]
    /\ UNCHANGED <<stakingVars, assets, queued, missed>>

Delegate(v, n, amt) ==
    /\ Message
    /\ n \in DOMAIN assets
    /\ Exists(v)
    /\ records' = records \cup {v}
    /\ shares' = [shares EXCEPT ![v][n] = @ + FromInt(amt)]
    /\ queued' = TRUE
    /\ UNCHANGED <<stakingVars, assets, missed>>

\* Undelegate, and with a destination Redelegate.
Leave(v, n, amt, to) ==
    /\ Message
    /\ n \in DOMAIN assets
    /\ \A u \in {v} \cup to : Exists(u)
    /\ v \notin to
    /\ FromInt(amt) =< shares[v][n]
    /\ records' = records \cup {v} \cup to
    /\ shares' = [u \in Validators |-> [shares[u] EXCEPT ![n] =
                     IF u = v THEN @ - FromInt(amt)
                     ELSE IF u \in to THEN @ + FromInt(amt) ELSE @]]
    /\ queued' = TRUE
    /\ UNCHANGED <<stakingVars, assets, missed>>

-----------------------------------------------------------------------------
(* The rebalance. *)

GetAllianceBondedAmount == TruncateInt(SumFunctionOnSet(stake, Bonded))

\* Mutation: what the module has staked itself counts as native.
NativeBondAmount_All == SumFunctionOnSet(tokens, Bonded)

NativeBondAmount == SumFunctionOnSet(tokens, Bonded) - GetAllianceBondedAmount

Started == {n \in DOMAIN assets : assets[n].wait = 0}

BondedShares(n) == SumFunctionOnSet([v \in Validators |-> shares[v][n]], Bonded)

ExpectedForAsset(v, n) ==
    IF n \in Started /\ shares[v][n] > 0
    THEN Mul(Quo(shares[v][n], BondedShares(n)), MulInt(assets[n].weight, NativeBondAmount))
    ELSE 0

ExpectedBondAmount(v) ==
    SumFunction([n \in Denoms |-> ExpectedForAsset(v, n)])

\* Mutation: small differences are rounded up.
Adjustment_RoundsUp(v) ==
    LET expected == ExpectedBondAmount(v)
    IN  IF expected >= stake[v] THEN TruncateInt(expected - stake[v] + Scale - 1)
        ELSE -TruncateInt(stake[v] - expected + Scale - 1)

\* Tokens to delegate (positive) or to take back (negative) at v.
Adjustment(v) ==
    LET expected == ExpectedBondAmount(v)
    IN  IF expected >= stake[v] THEN TruncateInt(expected - stake[v])
        ELSE -TruncateInt(stake[v] - expected)

\* The flag is set again by AfterDelegationModified, when the module's delegation changes
\* and is not removed, and as long as rewards of an asset have not started.
QueuedAgain ==
    \E v \in Bonded \cap records :
        \/ Started # DOMAIN assets
        \/ Adjustment(v) # 0 /\ stake[v] + FromInt(Adjustment(v)) > 0

\* RebalanceBondTokenWeights fails on the record of a validator that is gone.
Panics == phase = "staked" /\ queued /\ \E v \in records : ~Exists(v)

\* Mutation: what is taken back is not burned.
BondTokens_Unburned ==
    /\ tokens' = [v \in Validators |->
                     IF v \in Bonded THEN tokens[v] + Max({Adjustment(v), 0}) ELSE tokens[v]]
    /\ stake' = [v \in Validators |->
                    IF v \in Bonded THEN stake[v] + FromInt(Adjustment(v)) ELSE stake[v]]

BondTokens ==
    /\ tokens' = [v \in Validators |->
                     IF v \in Bonded THEN tokens[v] + Adjustment(v) ELSE tokens[v]]
    /\ stake' = [v \in Validators |->
                    IF v \in Bonded THEN stake[v] + FromInt(Adjustment(v)) ELSE stake[v]]

\* The EndBlocker as far as the rebalance goes, and the time until the next block.
EndBlock ==
    /\ phase = "staked" /\ phase' = "committed"
    /\ ~Panics
    /\ IF queued THEN BondTokens /\ queued' = QueuedAgain /\ missed' = FALSE
       ELSE UNCHANGED <<tokens, stake, queued, missed>>
    /\ assets' = [n \in DOMAIN assets |-> [assets[n] EXCEPT !.wait = Max({@ - 1, 0})]]
    /\ UNCHANGED <<status, wallet, records, shares, ops>>

\* Export and restart: the flag is not in the genesis state.
Restart ==
    /\ phase = "committed"
    /\ queued' = FALSE
    /\ missed' = (missed \/ queued)
    /\ UNCHANGED <<phase, stakingVars, allianceVars, ops>>

Next ==
    \/ \E v \in Validators, amt \in NativeAmounts :
          NativeDelegate(v, amt) \/ \E removed \in BOOLEAN : NativeUndelegate(v, amt, removed)
    \/ \E v \in Validators, f \in Fractions, failed \in BOOLEAN : SlashStake(v, f, failed)
    \/ \E bonded, gone \in SUBSET Validators : EndStaking(bonded, gone)
    \/ \E n \in Denoms, w \in Weights : CreateAlliance(n, w) \/ UpdateAlliance(n, w)
    \/ \E n \in Denoms : DeleteAlliance(n)
    \/ \E v \in Validators, n \in Denoms, amt \in Amounts :
          \/ Delegate(v, n, amt)
          \/ \E to \in {{}} \cup {{u} : u \in Validators} : Leave(v, n, amt, to)
    \/ EndBlock \/ Restart

Spec == Init /\ [][Next]_rebalanceVars

EndStakings == \E bonded, gone \in SUBSET Validators : EndStaking(bonded, gone)

\* Blocks go on, and both modules end each of them.
FairSpec == Spec /\ WF_rebalanceVars(EndStakings) /\ WF_rebalanceVars(EndBlock)

-----------------------------------------------------------------------------
AtTarget ==
    \A v \in Bonded :
        LET expected == ExpectedBondAmount(v)
        IN  expected - stake[v] < Scale /\ stake[v] - expected < Scale

\* SupplyOf of custom/bank for the staking denomination.
SupplyOf == wallet + SumFunction(tokens) - GetAllianceBondedAmount

\* The type invariant; the module never has more with a validator than the validator has.
RebalanceTypeOK ==
    /\ phase \in {"committed", "begin", "deliver", "staked"}
    /\ status \in [Validators -> {"bonded", "unbonding", "removed"}]
    /\ tokens \in [Validators -> Nat]
    /\ \A v \in Validators : stake[v] \in 0 .. FromInt(tokens[v])
    /\ wallet \in Nat
    /\ records \subseteq Validators
    /\ shares \in [Validators -> [Denoms -> Nat]]
    /\ \A n \in DOMAIN assets : assets[n] \in [weight : Weights, wait : 0 .. RewardDelay]
    /\ queued \in BOOLEAN

\* "maintain the right ratio" (asset.go:98-99): whenever no rebalance is asked for, the
\* module's stake at each bonded validator is within a token of what the weights and
\* shares ask for, unless a change went without a notice: a native delegation was removed
\* (hooks.go:45), a slash failed (hooks.go:54-57) or a restart lost it (genesis.go:61-114).
QueuedWhenOff == ~queued /\ ~missed => AtTarget

\* One rebalance is enough: it leaves every bonded validator within a token of its target,
\* although targets are computed before the stake changes (asset.go:104-106).
RebalanceReachesTarget ==
    [][EndBlock /\ queued /\ Started' = Started => AtTarget']_rebalanceVars

\* Minting and burning never show in the supply that the bank reports, which only slashes
\* and changes of the bonded validators move (custom/bank/keeper/keeper.go:67-75).
SupplyHidesStake ==
    [][EndBlock \/ phase' = "deliver" => SupplyOf' = SupplyOf]_rebalanceVars

\* A rebalance asks for the next one, since the module's own delegations call
\* AfterDelegationModified (hooks.go:49), but this ends: once nothing else changes, the
\* stake settles (asset.go:158-163), as long as blocks are committed.
Settles == <>[](~queued \/ Panics)

\* "Unbonded validators will be ignored when rebalancing" (asset.go:113): no validator that
\* left makes the EndBlocker panic.
NeverPanics == ~Panics

=============================================================================
