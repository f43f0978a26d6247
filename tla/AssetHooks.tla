----------------------------- MODULE AssetHooks -----------------------------
(***************************************************************************)
(* What the end of a block does to the assets themselves: the take rate    *)
(* deducts from asset.TotalTokens, and reward weights decay or grow by a   *)
(* schedule (DeductAssetsHook and RewardWeightChangeHook of                *)
(* keeper/asset.go), with the proposals that set rates and schedules.      *)
(*                                                                         *)
(* Both hooks make up for blocks that come late: they count the intervals  *)
(* since they last acted and compound the rate.  Each has a clock of its   *)
(* own, the parameter LastTakeRateClaimTime and asset.LastRewardChangeTime.*)
(*                                                                         *)
(* Delegations only change TotalTokens here; module Unbonding lets the end *)
(* of a block cut any part of it that leaves a token (CutsLeaveTokens).    *)
(***************************************************************************)
EXTENDS Dec, FiniteSetsExt, Functions

CONSTANTS
    Denoms,
    Amounts,          \* amounts that delegators stake and withdraw
    TakeRates,        \* Decs below one: ValidateBasic of the proposals
    Weights,          \* reward weights that proposals set, Decs
    MinWeight, MaxWeight,  \* RewardWeightRange, the same for every asset
    ChangeRates,      \* RewardChangeRate, positive Decs
    ChangeIntervals,  \* RewardChangeInterval; 0 is no schedule
    RewardDelay,      \* parameter RewardDelayTime
    ClaimIntervals,   \* parameter TakeRateClaimInterval
    BlockGaps,
    MaxTokens,        \* bound: tokens of an asset
    MaxUpdates,       \* bound: proposals that change an asset or the interval
    MaxTime           \* bound: block times stop here

ASSUME TakeRatesAssumption == TakeRates \subseteq 0 .. Scale - 1
ASSUME WeightsAssumption == Weights \subseteq Nat
ASSUME RangeAssumption == MinWeight \in Nat /\ MaxWeight \in Nat /\ MinWeight =< MaxWeight
ASSUME ChangeRatesAssumption == ChangeRates \subseteq Nat \ {0}
ASSUME ChangeIntervalsAssumption == ChangeIntervals \subseteq Nat
ASSUME ClaimIntervalsAssumption == ClaimIntervals \subseteq Nat \ {0}
ASSUME GapsAssumption == BlockGaps \subseteq Nat \ {0}
ASSUME HooksAmountsAssumption == Amounts \subseteq Nat \ {0}
ASSUME HooksDelayAssumption == RewardDelay \in Nat
ASSUME BoundsAssumption == MaxTokens \in Nat /\ MaxTime \in Nat

VARIABLES
    now,            \* time of the block
    assets,         \* AssetKey: denom -> [tokens, start, take, weight, rate, interval, last]
    claimInterval,  \* parameter TakeRateClaimInterval
    lastClaim,      \* parameter LastTakeRateClaimTime, or Unset
    updates,        \* proposals so far, for MaxUpdates
    since,          \* history: when an asset was last staked or updated, and lastClaim then
    charged,        \* history: the time for which it was charged since
    base            \* history: denom -> [weight, at], where its schedule started

hookVars == <<now, assets, claimInterval, lastClaim, updates, since, charged, base>>

\* time.Time{}: the parameter of a chain that has not claimed yet.
Unset == -1

Init ==
    /\ now = 0
    /\ assets = [n \in {} |-> {}]
    /\ claimInterval \in ClaimIntervals
    /\ lastClaim = Unset
    /\ updates = 0
    /\ since = [n \in Denoms |-> [time |-> 0, clock |-> 0]]
    /\ charged = [n \in Denoms |-> 0]
    /\ base = [n \in {} |-> {}]

RewardsStarted(n) == now >= assets[n].start

InRange(w) == MinWeight =< w /\ w =< MaxWeight

\* History: from now on charges count for what asset n has now.
Recount(n) ==
    /\ since' = [since EXCEPT ![n] = [time |-> now, clock |-> IF lastClaim = Unset THEN 0
                                                             ELSE lastClaim]]
    /\ charged' = [charged EXCEPT ![n] = 0]

Scheduled(asset) == asset.interval # 0 /\ asset.rate # Scale

-----------------------------------------------------------------------------
(* Messages and proposals. *)

\* Delegate as far as the asset goes.
Stake(n, amt) ==
    /\ n \in DOMAIN assets
    /\ assets[n].tokens + amt =< MaxTokens
    /\ assets' = [assets EXCEPT ![n].tokens = @ + amt]
    /\ Recount(n)
    /\ UNCHANGED <<now, claimInterval, lastClaim, updates, base>>

\* Undelegate as far as the asset goes.
Withdraw(n, amt) ==
    /\ n \in DOMAIN assets
    /\ amt =< assets[n].tokens
    /\ assets' = [assets EXCEPT ![n].tokens = @ - amt]
    /\ UNCHANGED <<now, claimInterval, lastClaim, updates, since, charged, base>>

Propose == updates < MaxUpdates /\ updates' = updates + 1

\* CreateAlliance; the proposal's ValidateBasic checks the range.
CreateAlliance(n, w, take, rate, interval) ==
    LET start == now + RewardDelay
    IN  /\ Propose
        /\ n \notin DOMAIN assets
        /\ InRange(w)
        /\ assets' = [m \in DOMAIN assets \cup {n} |->
                         IF m # n THEN assets[m]
                         ELSE [tokens |-> 0, start |-> start, take |-> take, weight |-> w,
                               rate |-> rate, interval |-> interval, last |-> start]]
        /\ base' = [m \in DOMAIN assets \cup {n} |->
                       IF m # n THEN base[m] ELSE [weight |-> w, at |-> start]]
        /\ Recount(n)
        /\ UNCHANGED <<now, claimInterval, lastClaim>>

\* Mutation: the time of the last change is left alone.
LastChange_Kept(asset, rate, interval) == asset.last

\* The counter starts from now if no change was scheduled before.
LastChange(asset, rate, interval) ==
    IF (rate # asset.rate \/ interval # asset.interval) /\ ~Scheduled(asset)
    THEN now ELSE asset.last

\* UpdateAlliance and UpdateAllianceAsset.
UpdateAlliance(n, w, take, rate, interval) ==
    /\ Propose
    /\ n \in DOMAIN assets
    /\ InRange(w)
    /\ LET last == LastChange(assets[n], rate, interval)
       IN  assets' = [assets EXCEPT ![n] =
                         [tokens |-> assets[n].tokens, start |-> assets[n].start,
                          take |-> take, weight |-> w, rate |-> rate,
                          interval |-> interval, last |-> last]]
    \* A schedule that runs goes on from its last change; a new one starts now.
    /\ base' = [base EXCEPT ![n] =
                   [weight |-> w,
                    at |-> IF Scheduled(assets[n]) THEN assets[n].last ELSE now]]
    /\ Recount(n)
    /\ UNCHANGED <<now, claimInterval, lastClaim>>

DeleteAlliance(n) ==
    /\ n \in DOMAIN assets
    /\ assets[n].tokens = 0
    /\ assets' = Restrict(assets, DOMAIN assets \ {n})
    /\ base' = Restrict(base, DOMAIN assets \ {n})
    /\ UNCHANGED <<now, claimInterval, lastClaim, updates, since, charged>>

\* A proposal of x/params.  validatePositiveDuration also lets 0 pass, by which
\* DeductAssetsWithTakeRate would divide.
ChangeClaimInterval(interval) ==
    /\ Propose
    /\ interval # claimInterval
    /\ claimInterval' = interval
    /\ UNCHANGED <<now, assets, lastClaim, since, charged, base>>

-----------------------------------------------------------------------------
(* The take rate. *)

\* Zero is the time of a chain that has never claimed: that block only sets the clock.
ClaimIsDue == lastClaim # Unset /\ now > lastClaim + claimInterval

\* Mutation: a late block makes up for one interval only.
ClaimIntervalsPassed_One == 1

ClaimIntervalsPassed == (now - lastClaim) \div claimInterval

Chargeable ==
    {n \in DOMAIN assets : assets[n].tokens > 0 /\ assets[n].take > 0 /\ RewardsStarted(n)}

\* What the take rate leaves of an asset after so many intervals, a Dec.
LeftAfter(asset, intervals) == MulInt(Power(Scale - asset.take, intervals), asset.tokens)

\* Mutation: the last token may go.
Deducted_All == IF ClaimIsDue THEN Chargeable ELSE {}

\* Assets that a deduction would leave with one token or less are not touched.
Deducted ==
    IF ClaimIsDue
    THEN {n \in Chargeable : LeftAfter(assets[n], ClaimIntervalsPassed) > Scale}
    ELSE {}

Left(n) ==
    IF n \in Deducted THEN TruncateInt(LeftAfter(assets[n], ClaimIntervalsPassed))
    ELSE assets[n].tokens

CoinsTaken == \E n \in Deducted : Left(n) < assets[n].tokens

\* Mutation: the clock advances by one interval.
LastClaimAfter_OneInterval ==
    IF lastClaim = Unset THEN now
    ELSE IF ClaimIsDue /\ CoinsTaken THEN lastClaim + claimInterval ELSE lastClaim

\* The first block sets the clock; later it advances by the intervals that were charged,
\* or to now if there is nothing to charge.
LastClaimAfter ==
    IF lastClaim = Unset \/ (ClaimIsDue /\ Chargeable = {}) THEN now
    ELSE IF ClaimIsDue /\ CoinsTaken
         THEN lastClaim + claimInterval * ClaimIntervalsPassed
         ELSE lastClaim

-----------------------------------------------------------------------------
(* The reward weight. *)

ChangeIsDue(asset) == Scheduled(asset) /\ asset.last + asset.interval =< now

ChangesPassed(asset) == (now - asset.last) \div asset.interval

Clamp(w) == IF w < MinWeight THEN MinWeight ELSE IF w > MaxWeight THEN MaxWeight ELSE w

\* Mutation: the weight is not kept in its range.
Reweighted_Unclamped(asset) ==
    [asset EXCEPT !.weight = Mul(asset.weight, Power(asset.rate, ChangesPassed(asset))),
                  !.last = asset.last + asset.interval * ChangesPassed(asset)]

Reweighted(asset) ==
    [asset EXCEPT !.weight = Clamp(Mul(asset.weight, Power(asset.rate, ChangesPassed(asset)))),
                  !.last = asset.last + asset.interval * ChangesPassed(asset)]

\* DeductAssetsHook and RewardWeightChangeHook for all assets, and the next block.
EndBlock(gap) ==
    /\ assets' = [n \in DOMAIN assets |->
                     LET asset == [assets[n] EXCEPT !.tokens = Left(n)]
                     IN  IF ChangeIsDue(asset) THEN Reweighted(asset) ELSE asset]
    /\ lastClaim' = LastClaimAfter
    /\ charged' = [n \in Denoms |->
                      IF n \in Deducted
                      THEN charged[n] + claimInterval * ClaimIntervalsPassed
                      ELSE charged[n]]
    /\ now' = Min({now + gap, MaxTime})
    /\ UNCHANGED <<claimInterval, updates, since, base>>

NextBlock == \E gap \in BlockGaps : EndBlock(gap)

Next ==
    \/ \E n \in Denoms, amt \in Amounts : Stake(n, amt) \/ Withdraw(n, amt)
    \/ \E n \in Denoms, w \in Weights, take \in TakeRates,
          rate \in ChangeRates, interval \in ChangeIntervals :
             CreateAlliance(n, w, take, rate, interval) \/ UpdateAlliance(n, w, take, rate, interval)
    \/ \E n \in Denoms : DeleteAlliance(n)
    \/ \E interval \in ClaimIntervals : ChangeClaimInterval(interval)
    \/ NextBlock

Spec == Init /\ [][Next]_hookVars

-----------------------------------------------------------------------------
\* The type invariant; a reward weight never leaves its range, outside of which
\* UpdateAllianceAsset would fail and panic the end blocker (asset.go:43-46, abci.go:25).
HooksTypeOK ==
    /\ now \in 0 .. MaxTime
    /\ lastClaim \in {Unset} \cup 0 .. now
    /\ claimInterval \in ClaimIntervals
    /\ DOMAIN assets \subseteq Denoms
    /\ \A n \in DOMAIN assets :
          /\ assets[n] \in [tokens : 0 .. MaxTokens, start : 0 .. MaxTime + RewardDelay,
                            take : TakeRates, weight : MinWeight .. MaxWeight,
                            rate : ChangeRates, interval : ChangeIntervals,
                            last : 0 .. MaxTime + RewardDelay]

\* No stretch of time is charged twice, whatever the gaps between blocks, the changes of
\* the interval and the deductions of other assets, which share one clock (asset.go:329).
ChargedOnce == \A n \in DOMAIN assets : charged[n] + since[n].clock =< lastClaim \/ charged[n] = 0

\* What module Unbonding assumes of the cut at the end of a block: an asset that is
\* staked keeps a token (asset.go:306-309), or its validator shares would be worth nothing.
CutsLeaveTokens ==
    [][now' # now =>
         \A n \in DOMAIN assets : assets[n].tokens > 0 =>
             assets'[n].tokens \in 1 .. assets[n].tokens]_hookVars

\* However many intervals are missed, the take rate does not spare the asset as dust.
FarFromDust(asset) == \A k \in 1 .. MaxTime : LeftAfter(asset, k) > Scale

\* Nor is any forgotten: the end of a block leaves at most one interval uncharged of the
\* time since an asset that is far from dust was staked or started to earn (asset.go:295).
ChargedInTime ==
    [][now' # now =>
         \A n \in Chargeable :
             FarFromDust(assets'[n]) =>
                 charged'[n] + claimInterval >= now - Max({since[n].time, assets[n].start})]_hookVars

\* The weight after a number of changes, one at a time.
WeightAfter(asset, weight, changes) ==
    LET after[k \in 0 .. changes] ==
            IF k = 0 THEN weight ELSE Clamp(Mul(after[k - 1], asset.rate))
    IN  after[changes]

\* The weight at the end of a block is what a change at every interval of the schedule
\* would have made it, however late the block, and however often proposals changed the
\* schedule (asset.go:69-78, 385-397).
WeightFollowsSchedule ==
    [][now' # now =>
         \A n \in DOMAIN assets :
             Scheduled(assets[n]) /\ now >= base[n].at =>
                 assets'[n].weight =
                     WeightAfter(assets[n], base[n].weight,
                                 (now - base[n].at) \div assets[n].interval)]_hookVars

=============================================================================
