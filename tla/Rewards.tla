------------------------------- MODULE Rewards -------------------------------
(***************************************************************************)
(* The rewards of keeper/reward.go and the weight snapshots of             *)
(* keeper/asset.go, on top of the share ledger: every action below is an   *)
(* action of Delegations with what it claims, so it is one step of both.   *)
(*                                                                         *)
(* x/distribution owes the module the rewards of its native stake at each  *)
(* validator.  Claiming them moves the coins to the reward pool and raises *)
(* the validator's index, the rewards per token and unit of weight.  A     *)
(* delegation is paid for the difference between that index and the one of *)
(* its last claim, in pieces if the weight changed between the two.        *)
(*                                                                         *)
(* Simplifications: one reward denomination, which no index ever lacks;    *)
(* every validator has an alliance record, since a record without history  *)
(* takes no part in a claim; block times stand for block heights, in the   *)
(* same order.  Coins that AddAssetsToRewardPool leaves in the module      *)
(* account, because nobody can earn them, are not followed further.        *)
(***************************************************************************)
EXTENDS Delegations

CONSTANTS
    RewardWeights,  \* weights of an asset, Decs
    RewardCoins,    \* amounts that x/distribution allocates
    MaxEvents,      \* bound: allocations and slashes in a behaviour
    MaxChanges      \* bound: weight changes of all assets in a block

ASSUME RewardWeightsAssumption == RewardWeights \subseteq Nat
ASSUME RewardCoinsAssumption == RewardCoins \subseteq Nat \ {0}

VARIABLES
    weights,      \* whitelisted denomination -> asset.RewardWeight
    initialized,  \* denominations whose asset.IsInitialized is set
    snapshots,    \* RewardWeightChangeSnapshotKey: [denom, val, at] -> [weight, index]
    pending,      \* what x/distribution owes the module at each validator
    index,        \* GlobalRewardHistory of each validator
    claims,       \* delegation -> [index, at]: RewardHistory, LastRewardClaimHeight
    pool,         \* bank balance of the reward pool account
    earned,       \* rewards each delegator has been paid
    rewards,      \* allocations so far, for MaxEvents
    changes       \* weight changes in this block, for MaxChanges

books == [pending |-> pending, index |-> index, claims |-> claims,
          pool |-> pool, earned |-> earned]
bookVars == <<pending, index, claims, pool, earned>>
weightVars == <<weights, initialized, snapshots, changes>>
allVars == <<vars, bookVars, weightVars, rewards>>

ledger == [dels |-> dels, positions |-> positions, assets |-> assets]

RewardsInit ==
    /\ Init
    /\ weights \in [DOMAIN assets -> RewardWeights]
    /\ initialized = {}
    /\ snapshots = NoEntry
    /\ pending = [v \in Validators |-> 0]
    /\ index = [v \in Validators |-> 0]
    /\ claims = NoEntry
    /\ pool = 0
    /\ earned = [d \in Delegators |-> 0]
    /\ rewards = 0
    /\ changes = 0

-----------------------------------------------------------------------------
(* Claims.  b is the books, l the ledger a handler has reached. *)

\* totalAssetWeight: every started asset that v has issued delegation shares of.
TotalAssetWeight(l, v) ==
    SumFunctionOnSet(
        [n \in DOMAIN l.assets |->
            Mul(weights[n], TotalTokensWithAsset(l.positions[v][n], l.assets[n]))],
        {n \in DOMAIN l.assets : l.positions[v][n].issued > 0 /\ RewardsStarted(n)})

\* AddAssetsToRewardPool: coins that no asset's weight can share stay out of the pool.
AddAssetsToRewardPool(b, l, v, coins) ==
    LET total == TotalAssetWeight(l, v)
    IN  IF total = 0 THEN b
        ELSE [b EXCEPT !.pool = @ + coins, !.index[v] = @ + Quo(FromInt(coins), total)]

\* ClaimValidatorRewards: what x/distribution owes the module account on v.
ClaimValidatorRewards(b, l, v) ==
    IF b.pending[v] = 0 THEN b
    ELSE AddAssetsToRewardPool([b EXCEPT !.pending[v] = 0], l, v, b.pending[v])

\* accumulateRewards: paid is [index, coins] so far, until the index `upTo`.
Accumulate(paid, upTo, weight, tokens) ==
    IF paid.index >= upTo THEN paid
    ELSE [index |-> upTo,
          coins |-> paid.coins
                    + TruncateInt(Mul(upTo - paid.index, Mul(FromInt(tokens), weight)))]

Latest(S) == CHOOSE s \in S : \A t \in S : t.at =< s.at

\* Mutation: all is paid at the weight of the day.
RewardsFor_CurrentWeight(b, key, tokens) ==
    Accumulate([index |-> b.claims[key].index, coins |-> 0],
               b.index[key.val], weights[key.denom], tokens).coins

\* CalculateDelegationRewards for so many tokens: the snapshots since the last claim in
\* order of height, at the weight before each, then the rest at the weight of now.
RewardsFor(b, key, tokens) ==
    LET since == {s \in DOMAIN snapshots :
                     s.denom = key.denom /\ s.val = key.val /\ s.at >= b.claims[key].at}
        past  == MapThenFoldSet(
                     LAMBDA s, paid :
                         Accumulate(paid, snapshots[s].index, snapshots[s].weight, tokens),
                     [index |-> b.claims[key].index, coins |-> 0],
                     LAMBDA s : s, Latest, since)
    IN  Accumulate(past, b.index[key.val], weights[key.denom], tokens).coins

Unclaimed(b, l, key) ==
    RewardsFor(b, key, GetDelegationTokensWithShares(l.dels[key],
                           l.positions[key.val][key.denom], l.assets[key.denom]))

\* ClaimDelegationRewards without its last step, the payment: nothing happens before
\* rewards start.
ClaimUnpaid(b, l, key) ==
    LET c == ClaimValidatorRewards(b, l, key.val)
    IN  [c EXCEPT !.claims[key] = [index |-> c.index[key.val], at |-> now]]

\* The payment fails when the pool is short, which is a negative pool here.
Claim(b, l, key) ==
    LET c     == ClaimValidatorRewards(b, l, key.val)
        coins == Unclaimed(c, l, key)
    IN  IF ~RewardsStarted(key.denom) THEN b
        ELSE [ClaimUnpaid(c, l, key) EXCEPT !.pool = @ - coins, !.earned[key.del] = @ + coins]

-----------------------------------------------------------------------------
(* The messages of Delegations, after their claims. *)

\* Mutation: the validator that was read before the claim is written back.
SetBooks_StaleValidator(b) ==
    /\ pending' = b.pending
    /\ UNCHANGED index
    /\ pool' = b.pool
    /\ earned' = b.earned

SetBooks(b) ==
    /\ pending' = b.pending
    /\ index' = b.index
    /\ pool' = b.pool
    /\ earned' = b.earned

\* Mutation: a new delegation starts without a history.
History_Empty(b, key) == IF key \in DOMAIN b.claims THEN b.claims[key]
                         ELSE [index |-> 0, at |-> now]

\* upsertDelegationWithNewTokens and NewDelegation: a new delegation starts with the
\* history that its validator has.
History(b, key) == IF key \in DOMAIN b.claims THEN b.claims[key]
                   ELSE [index |-> b.index[key.val], at |-> now]

\* A delegation and its history are one value: a handler that deletes the one or creates
\* it does so to the other.
SettleBooks(b) ==
    /\ SetBooks(b)
    /\ claims' = [key \in DOMAIN dels' |-> History(b, key)]

\* Mutation: the delegation changes without a claim.
ClaimIfFound_Never(b, key) == b

\* A handler that found a delegation under key claims its rewards first.
ClaimIfFound(b, key) == IF key \in DOMAIN dels THEN Claim(b, ledger, key) ELSE b

DelegateAndClaim(d, v, n, amt) ==
    LET b == ClaimIfFound(books, DelKey(d, v, n))
    IN  /\ Delegate(d, v, n, amt)
        /\ b.pool >= 0
        /\ SettleBooks(b)
        /\ UNCHANGED <<weightVars, rewards>>

RedelegateAndClaim(d, src, dst, n, amt) ==
    LET b == ClaimIfFound(books, DelKey(d, src, n))
        c == ClaimIfFound(b, DelKey(d, dst, n))
    IN  /\ Redelegate(d, src, dst, n, amt)
        /\ b.pool >= 0 /\ c.pool >= 0
        /\ SettleBooks(c)
        /\ UNCHANGED <<weightVars, rewards>>

\* Mutation: the error of the claim is ignored.
UndelegateAndClaim_Unchecked(d, v, n, amt) ==
    LET b == ClaimIfFound(books, DelKey(d, v, n))
    IN  /\ Undelegate(d, v, n, amt)
        /\ SettleBooks(b)
        /\ UNCHANGED <<weightVars, rewards>>

UndelegateAndClaim(d, v, n, amt) ==
    LET b == ClaimIfFound(books, DelKey(d, v, n))
    IN  /\ Undelegate(d, v, n, amt)
        /\ b.pool >= 0
        /\ SettleBooks(b)
        /\ UNCHANGED <<weightVars, rewards>>

\* MsgClaimDelegationRewards.
ClaimRewards(d, v, n) ==
    LET b == ClaimIfFound(books, DelKey(d, v, n))
    IN  /\ InMessages
        /\ n \in DOMAIN assets
        /\ DelKey(d, v, n) \in DOMAIN dels
        /\ b.pool >= 0
        /\ UNCHANGED <<now, redelVars, undelVars, ledgerVars, bankVars, slashes>>
        /\ SettleBooks(b)
        /\ UNCHANGED <<weightVars, rewards>>

-----------------------------------------------------------------------------
(* Slashes.  A claim that fails for a short pool has written its history already, and
   nothing rolls that back. *)

SlashRound(s, x, f) ==
    LET key  == DelKey(x.del, x.dst, x.denom)
        pays == /\ s.ledger.result = "ok"
                /\ x.denom \in DOMAIN assets
                /\ key \in DOMAIN s.ledger.dels
        b    == IF pays THEN Claim(s.books, s.ledger, key) ELSE s.books
    IN  IF b.pool < 0
        THEN [ledger |-> [s.ledger EXCEPT !.result = "error"],
              books |-> ClaimUnpaid(s.books, s.ledger, key)]
        ELSE [ledger |-> SlashRedelegation(s.ledger, x, f), books |-> b]

\* slashRedelegations, with the claim of each round.
ClaimingOutcome(v, f, order) ==
    LET after[i \in 0 .. Len(order)] ==
            IF i = 0
            THEN [ledger |-> [result |-> "ok", dels |-> dels,
                              positions |-> SlashedPositions(v, f),
                              assets |-> SlashedAssets(v, f)],
                  books |-> books]
            ELSE SlashRound(after[i - 1], order[i], f)
    IN  after[Len(order)]

SlashAndClaim(v, f) ==
    /\ rewards + slashes < MaxEvents
    /\ Slash(v, f)
    /\ \E order \in IterationOrders(RedelsToSlash(v)) :
          LET end == ClaimingOutcome(v, f, order)
          IN  ApplySlash(v, f, end.ledger) /\ SettleBooks(end.books)
    /\ UNCHANGED <<weightVars, rewards>>

-----------------------------------------------------------------------------
(* Proposals and the end of the block. *)

CreateAllianceWithWeight(n, w) ==
    /\ CreateAlliance(n)
    /\ weights' = Put(weights, n, w)
    /\ initialized' = initialized \ {n}
    /\ UNCHANGED <<snapshots, changes, bookVars, rewards>>

DeleteAllianceWithWeight(n) ==
    /\ DeleteAlliance(n)
    /\ weights' = Without(weights, {n})
    /\ UNCHANGED <<initialized, snapshots, changes, bookVars, rewards>>

ClaimAll(b, l, vals) ==
    FoldSet(LAMBDA v, c : ClaimValidatorRewards(c, l, v), b, vals)

\* setRewardWeightChangeSnapshot writes over a snapshot of the same height.
Written(new, old) ==
    [s \in DOMAIN new \cup DOMAIN old |-> IF s \in DOMAIN new THEN new[s] ELSE old[s]]

\* The snapshots of every validator, once its rewards are claimed.
WeightSnapshots(b, ns) ==
    [s \in [denom : ns, val : Validators, at : {now}] |->
        [weight |-> weights[s.denom], index |-> b.index[s.val]]]

\* UpdateAlliance as far as weights go: UpdateAllianceAsset.
UpdateAlliance(n, w) ==
    LET b == ClaimAll(books, ledger, Validators)
    IN  /\ InGov
        /\ n \in DOMAIN assets
        /\ weights[n] # w
        /\ changes < MaxChanges
        /\ changes' = changes + 1
        /\ weights' = [weights EXCEPT ![n] = w]
        /\ snapshots' = Written(WeightSnapshots(b, {n}), snapshots)
        /\ UNCHANGED <<now, redelVars, undelVars, ledgerVars, bankVars, slashes>>
        /\ SettleBooks(b)
        /\ UNCHANGED <<initialized, rewards>>

\* InitializeAllianceAssets: what a validator has earned until now is not for this asset.
Uninitialized == {n \in DOMAIN assets : n \notin initialized /\ RewardsStarted(n)}

InitialSnapshots ==
    [s \in [denom : Uninitialized, val : Validators, at : {now}] |->
        [weight |-> 0, index |-> index[s.val]]]

\* EndBlocker: assets are initialised, the take rate deducts, RewardWeightChangeHook
\* changes the weights of some denominations to w, and a rebalance changes the stake of
\* some validators, whose rewards it claims first.
EndBlockAndClaim(gap, cut, changed, w, rebalanced) ==
    LET after == [ledger EXCEPT !.assets =
                     [n \in DOMAIN assets |->
                         [assets[n] EXCEPT !.tokens = assets[n].tokens - cut[n]]]]
        b     == IF changed = {} THEN books ELSE ClaimAll(books, after, Validators)
    IN  /\ EndBlock(gap, cut)
        /\ changed \subseteq {n \in DOMAIN assets : weights[n] # w}
        /\ changed # {} => changes < MaxChanges /\ now =< MaxTime
        /\ initialized' = initialized \cup Uninitialized
        /\ snapshots' = Written(WeightSnapshots(b, changed), Written(InitialSnapshots, snapshots))
        /\ weights' = [n \in DOMAIN weights |-> IF n \in changed THEN w ELSE weights[n]]
        /\ SettleBooks(ClaimAll(b, after, rebalanced))
        /\ changes' = 0
        /\ UNCHANGED rewards

NextBlockAndClaim ==
    \E gap \in BlockGaps, cut \in [Denoms -> {0} \cup Amounts] :
        \E changed \in SUBSET Denoms, w \in RewardWeights :
            \E rebalanced \in SUBSET {v \in Validators : pending[v] > 0} :
                EndBlockAndClaim(gap, cut, changed, w, rebalanced)

\* x/distribution allocates rewards to validators in its BeginBlocker, and the module has
\* stake at one that holds shares of a started asset.
Allocate(v, coins) ==
    /\ InBegin
    /\ rewards + slashes < MaxEvents
    /\ \E n \in DOMAIN assets : RewardsStarted(n) /\ positions[v][n].held > 0
    /\ rewards' = rewards + 1
    /\ pending' = [pending EXCEPT ![v] = @ + coins]
    /\ UNCHANGED <<vars, weightVars, index, claims, pool, earned>>

RewardsNext ==
    \/ \E n \in Denoms :
          \/ DeleteAllianceWithWeight(n)
          \/ \E w \in RewardWeights : CreateAllianceWithWeight(n, w) \/ UpdateAlliance(n, w)
    \/ \E d \in Delegators, v \in Validators, n \in Denoms : ClaimRewards(d, v, n)
    \/ \E d \in Delegators, n \in Denoms, amt \in Amounts :
          \/ \E v \in Validators :
                DelegateAndClaim(d, v, n, amt) \/ UndelegateAndClaim(d, v, n, amt)
          \/ \E src, dst \in Validators : RedelegateAndClaim(d, src, dst, n, amt)
    \/ \E v \in Validators, f \in Fractions : SlashAndClaim(v, f)
    \/ \E v \in Validators, coins \in RewardCoins : Allocate(v, coins)
    \/ NextBlockAndClaim

RewardsSpec == RewardsInit /\ [][RewardsNext]_allVars

-----------------------------------------------------------------------------
\* What claims would pay now, once the rewards of all validators have been claimed.
Settled == ClaimAll(books, ledger, Validators)

Claimable(keys) ==
    LET b == Settled
    IN  SumFunction([key \in keys |-> Unclaimed(b, ledger, key)])

Earning == {key \in DOMAIN dels : key.denom \in DOMAIN assets /\ RewardsStarted(key.denom)}

EarningOf(d) == {key \in Earning : key.del = d}

\* What delegator d has been paid and can claim, and what the delegations of d would earn
\* with one token each: the value of the token that rounding may give or take.
Earnings(d) == earned[d] + Claimable(EarningOf(d))

OneToken(d) ==
    LET b == Settled
    IN  SumFunction([key \in EarningOf(d) |-> RewardsFor(b, key, 1) + 1])

\* The type invariant; the reward pool is never overdrawn.
RewardsTypeOK ==
    /\ DOMAIN weights = DOMAIN assets
    /\ \A n \in DOMAIN weights : weights[n] \in RewardWeights
    /\ initialized \subseteq Denoms
    /\ DOMAIN claims = DOMAIN dels
    /\ \A key \in DOMAIN claims : claims[key] \in [index : Nat, at : 0 .. Horizon]
    /\ \A s \in DOMAIN snapshots : snapshots[s] \in [weight : Nat, index : Nat]
    /\ pending \in [Validators -> Nat]
    /\ index \in [Validators -> Nat]
    /\ pool \in Nat
    /\ earned \in [Delegators -> Nat]

\* The pool covers the claims of all delegations at once, whatever was delegated, moved,
\* withdrawn, deducted and reweighted since the rewards came in: no claim fails, and with
\* it no message that claims first (reward.go:66).  Four things break this: a slash moves
\* tokens to validators whose old rewards are then claimed for more tokens than earned
\* them (reward.go:109), an asset may earn during its warm-up (WarmUpEarnsNothing), a
\* second change of a weight in a block pays what was earned before both at the weight
\* between them (asset.go:334, for MaxChanges above one), and tokens beyond Scale multiply
\* the rounding of an index to whole coins (reward.go:153).
PoolCovers ==
    slashes = 0 /\ RewardDelay = 0 => Claimable(Earning) =< Settled.pool

\* No handler writes back a validator or a delegation it read before a claim ("re-query
\* delegation since it was updated", delegation.go:89): a validator's index is never
\* behind its snapshots and delegations, and a snapshot made after a claim is not behind
\* that claim.
HistoriesOrdered ==
    /\ \A key \in DOMAIN claims : claims[key].index =< index[key.val]
    /\ \A s \in DOMAIN snapshots :
          /\ snapshots[s].index =< index[s.val]
          /\ \A key \in DOMAIN claims :
                s.val = key.val /\ s.denom = key.denom /\ s.at > claims[key].at =>
                    claims[key].index =< snapshots[s].index

\* A message of one delegator changes what nobody has earned by more than the rewards of
\* the token that rounding may move, unless it opens a delegation at a validator whose
\* rewards wait to be claimed: the newcomer shares in those (delegation.go:43).
MessagesKeepEarnings ==
    [][phase' = "deliver" /\ (\A key \in DOMAIN dels' \ DOMAIN dels : pending[key.val] = 0) =>
         \A d \in Delegators :
             Earnings(d)' \in Earnings(d) - OneToken(d) .. Earnings(d) + OneToken(d)]_allVars

\* A change of a reward weight is not retroactive: what delegators have earned until then
\* stays exactly the same (asset.go:33-35), and so it does when an asset is whitelisted or
\* deleted.  Only a second change in a block is retroactive: it writes over the snapshots of
\* the first one (asset.go:334).
WeightChangeKeepsEarnings ==
    [][weights' # weights /\ phase' = "gov" /\ changes' =< 1 =>
         \A d \in Delegators : Earnings(d)' = Earnings(d)]_allVars

\* "the asset did not accrue any rewards during the warm up period" (asset.go:17-18): when
\* a block begins in which rewards of an asset have started, a delegation of the asset has
\* nothing to claim for the blocks before.
WarmUpEarnsNothing ==
    phase = "begin" =>
        \A key \in Earning : key.denom \notin initialized => Unclaimed(books, ledger, key) = 0
=============================================================================
