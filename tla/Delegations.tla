----------------------------- MODULE Delegations -----------------------------
(***************************************************************************)
(* The share ledger of x/alliance: how the messages of keeper/delegation.go*)
(* and the slashes of keeper/slash.go move the tokens of an asset between  *)
(* validators and delegations.  Together with the queues of module Queues  *)
(* this is every store the messages change, but for the reward histories.  *)
(*                                                                         *)
(* ClaimDelegationRewards, which every handler calls first, appears only   *)
(* by the errors it can return: it does not change shares.                 *)
(***************************************************************************)
EXTENDS Queues, Shares, SequencesExt

CONSTANTS
    Amounts,        \* amounts that messages carry
    InitialWallet,  \* tokens of each denomination that each delegator starts with
    BlockGaps,      \* possible distances between two block times
    RewardDelay,    \* RewardDelayTime: from CreateAlliance to the start of rewards
    PoolMayBeShort, \* whether rewards wait that the reward pool may not cover
    MaxTime,        \* bound: no message, proposal or slash after this time
    MaxRedels,      \* bound: entries in one bucket of the redelegation queue
    MaxUndels,      \* bound: entries in one bucket of the undelegation queue
    MaxSlashes      \* bound: slashes in a behaviour

\* MsgDelegate and its siblings refuse an amount that is not positive (types/msg.go:80).
ASSUME AmountsAssumption == Amounts \subseteq Nat \ {0}

ASSUME TimesAssumption ==
    BlockGaps \subseteq Nat /\ MaxTime \in Nat /\ RewardDelay \in Nat

ASSUME PoolAssumption == PoolMayBeShort \in BOOLEAN

\* Slash fractions are Decs too.
ASSUME FractionsAreDecs == \A f \in Fractions : (f[1] * Scale) % f[2] = 0

VARIABLES
    phase,      \* the part of the block that last took a step, as in Unbonding
    assets,     \* AssetKey: denom -> [tokens, shares, start]
    positions,  \* ValidatorInfoKey: [Validators -> [Denoms -> [held, issued]]]
    dels,       \* DelegationKey: [del, val, denom] -> shares
    wallet,     \* bank balance of each delegator
    escrow,     \* bank balance of the alliance module account
    collected,  \* what the module sent to the fee collector
    slashes     \* slashes so far, for MaxSlashes

bankVars == <<wallet, escrow, collected>>
ledgerVars == <<assets, positions, dels>>
vars == <<now, phase, redelVars, undelVars, ledgerVars, bankVars, slashes>>

Horizon == MaxTime + UnbondingTime + 1

Room(queue, key, max) == Len(GetOr(queue, key, <<>>)) < max

InMessages == phase \in {"begin", "deliver"} /\ phase' = "deliver" /\ now =< MaxTime
InGov      == phase' = "gov" /\ now =< MaxTime
InBegin    == phase = "begin" /\ phase' = "begin" /\ now =< MaxTime

DelKey(d, v, n) == [del |-> d, val |-> v, denom |-> n]

RewardsStarted(n) == now >= assets[n].start

NoPosition == [held |-> 0, issued |-> 0]

Init ==
    /\ now = 0
    /\ phase = "begin"
    /\ QueuesInit
    /\ \E listed \in SUBSET Denoms :
          assets = [n \in listed |-> [tokens |-> 0, shares |-> 0, start |-> 0]]
    /\ positions = [v \in Validators |-> [n \in Denoms |-> NoPosition]]
    /\ dels = NoEntry
    /\ wallet = [d \in Delegators |-> [n \in Denoms |-> InitialWallet]]
    /\ escrow = [n \in Denoms |-> 0]
    /\ collected = [n \in Denoms |-> 0]
    /\ slashes = 0

-----------------------------------------------------------------------------
CreateAlliance(n) ==
    /\ InGov
    /\ n \notin DOMAIN assets
    /\ assets' = Put(assets, n, [tokens |-> 0, shares |-> 0, start |-> now + RewardDelay])
    /\ UNCHANGED <<now, redelVars, undelVars, positions, dels, bankVars, slashes>>

DeleteAlliance(n) ==
    /\ InGov
    /\ n \in DOMAIN assets
    /\ assets[n].tokens = 0
    /\ assets' = Without(assets, {n})
    /\ UNCHANGED <<now, redelVars, undelVars, positions, dels, bankVars, slashes>>

\* A negative amount of shares panics in NewDecCoinFromDec.
Delegate(d, v, n, amt) ==
    /\ InMessages
    /\ n \in DOMAIN assets
    /\ amt =< wallet[d][n]
    /\ ~DividesByZero(positions[v][n], assets[n])
    /\ LET issued == GetDelegationSharesFromTokens(positions[v][n], assets[n], amt)
           held   == GetValidatorShares(assets[n], amt)
           key    == DelKey(d, v, n)
       IN  /\ issued \in Nat /\ held \in Nat
           /\ dels' = Put(dels, key, GetOr(dels, key, 0) + issued)
           /\ positions' = [positions EXCEPT ![v][n] = AddShares(@, issued, held)]
           /\ assets' = [assets EXCEPT ![n].tokens = @ + amt, ![n].shares = @ + held]
    /\ wallet' = [wallet EXCEPT ![d][n] = @ - amt]
    /\ escrow' = [escrow EXCEPT ![n] = @ + amt]
    /\ UNCHANGED <<now, redelVars, undelVars, collected, slashes>>

-----------------------------------------------------------------------------
(* Withdrawing amt from a delegation, which Redelegate and Undelegate share. *)

SharesFor(d, v, n, amt) ==
    SharesToUpdate(dels[DelKey(d, v, n)],
                   GetDelegationSharesFromTokens(positions[v][n], assets[n], amt))

\* The delegation exists, ValidateDelegatedAmount finds enough shares, and these are
\* worth no less than amt.
CanWithdraw(d, v, n, amt) ==
    /\ n \in DOMAIN assets
    /\ DelKey(d, v, n) \in DOMAIN dels
    /\ ~DividesByZero(positions[v][n], assets[n])
    /\ EnoughShares(dels[DelKey(d, v, n)],
                    GetDelegationSharesFromTokens(positions[v][n], assets[n], amt))
    /\ amt =< GetDelegationTokensWithShares(SharesFor(d, v, n, amt),
                                            positions[v][n], assets[n])
    /\ CanReduceShares(positions[v][n], SharesFor(d, v, n, amt),
                       GetValidatorShares(assets[n], amt))

\* The asset once amt has been undelegated.
\* Mutation: TotalTokens is left to the payout.
AssetAfter_KeepsTokens(n, amt) ==
    [assets[n] EXCEPT !.shares = @ - GetValidatorShares(assets[n], amt)]

AssetAfter(n, amt) ==
    [assets[n] EXCEPT !.tokens = @ - amt, !.shares = @ - GetValidatorShares(assets[n], amt)]

\* reduceDelegationShares and updateValidatorShares.
Reduced(d, v, n, amt) ==
    LET removed == SharesFor(d, v, n, amt)
        held    == GetValidatorShares(assets[n], amt)
    IN  [own |-> dels[DelKey(d, v, n)] - removed,
         position |-> ReduceShares(positions[v][n], removed, held)]

\* ClearDustDelegation takes away a delegation that is worth no token, and the
\* validator shares of a validator that is worth nothing.
\* Mutation: the dust of a delegation stays in the validator's total.
ClearDust_KeepsTotal(reduced, asset) ==
    LET position == reduced.position
        isDust   == GetDelegationTokensWithShares(reduced.own, position, asset) = 0
        deadHeld == IF TotalTokensWithAsset(position, asset) = 0 THEN position.held ELSE 0
    IN  [own |-> IF isDust THEN 0 ELSE reduced.own,
         position |-> ReduceShares(position, 0, deadHeld)]

\* Mutation: the last dust of a delegation takes the validator's shares with it.
ClearDust_TakesAll(reduced, asset) ==
    LET position == reduced.position
        isDust   == GetDelegationTokensWithShares(reduced.own, position, asset) = 0
    IN  IF ~isDust THEN reduced
        ELSE [own |-> 0, position |-> ReduceShares(position, reduced.own, position.held)]

ClearDust(reduced, asset) ==
    LET position == reduced.position
        isDust   == GetDelegationTokensWithShares(reduced.own, position, asset) = 0
        deadHeld == IF TotalTokensWithAsset(position, asset) = 0 THEN position.held ELSE 0
    IN  [own |-> IF isDust THEN 0 ELSE reduced.own,
         position |-> ReduceShares(position, IF isDust THEN reduced.own ELSE 0, deadHeld)]

\* A delegation left without shares is deleted.
SetOrDelete(f, key, shares) ==
    IF shares = 0 THEN Without(f, {key}) ELSE Put(f, key, shares)

\* ResetAssetAndValidators: with the last token of an asset go all shares in it.
\* Mutation: only the shares of the asset go.
PositionsWithout_Kept(ps, n) == ps

PositionsWithout(ps, n) == [v \in Validators |-> [ps[v] EXCEPT ![n].held = 0]]

\* TotalTokens does not change, so it is positive and nothing is reset.
Redelegate(d, src, dst, n, amt) ==
    /\ InMessages
    /\ src # dst
    /\ CanWithdraw(d, src, n, amt)
    /\ ~HasRedelegation(d, src, n)
    /\ ~DividesByZero(positions[dst][n], assets[n])
    /\ Room(redelQueue, CompletionTime, MaxRedels)
    /\ LET left   == ClearDust(Reduced(d, src, n, amt), assets[n])
           issued == GetDelegationSharesFromTokens(positions[dst][n], assets[n], amt)
           held   == GetValidatorShares(assets[n], amt)
           key    == DelKey(d, dst, n)
       IN  /\ issued \in Nat
           /\ dels' = Put(SetOrDelete(dels, DelKey(d, src, n), left.own),
                          key, GetOr(dels, key, 0) + issued)
           /\ positions' = [positions EXCEPT ![src][n] = left.position,
                                             ![dst][n] = AddShares(@, issued, held)]
    /\ AddRedelegation([del |-> d, src |-> src, dst |-> dst, denom |-> n, amt |-> amt])
    /\ UNCHANGED <<now, undelVars, assets, bankVars, slashes>>

Undelegate(d, v, n, amt) ==
    /\ InMessages
    /\ CanWithdraw(d, v, n, amt)
    /\ Room(undelQueue, [ct |-> CompletionTime, del |-> d], MaxUndels)
    /\ LET asset  == AssetAfter(n, amt)
           left   == ClearDust(Reduced(d, v, n, amt), asset)
           after  == [positions EXCEPT ![v][n] = left.position]
           isLast == asset.tokens = 0
       IN  /\ dels' = SetOrDelete(dels, DelKey(d, v, n), left.own)
           /\ positions' = IF isLast THEN PositionsWithout(after, n) ELSE after
           /\ assets' = [assets EXCEPT ![n] =
                              IF isLast THEN [asset EXCEPT !.shares = 0] ELSE asset]
    /\ QueueUndelegation(d, [val |-> v, denom |-> n, amt |-> amt])
    /\ UNCHANGED <<now, redelVars, bankVars, slashes>>

-----------------------------------------------------------------------------
(* SlashValidator. *)

FractionDec(f) == (f[1] * Scale) \div f[2]

HeldToSlash(v, f, n) == Mul(positions[v][n].held, FractionDec(f))

SlashedPositions(v, f) ==
    LET slashed(n) == [positions[v][n] EXCEPT !.held = @ - HeldToSlash(v, f, n)]
    IN  [positions EXCEPT ![v] = [n \in Denoms |-> slashed(n)]]

\* Mutation: the slashed shares stay in the asset's total.
SlashedAssets_Unchanged(v, f) == assets

SlashedAssets(v, f) ==
    [n \in DOMAIN assets |-> [assets[n] EXCEPT !.shares = @ - HeldToSlash(v, f, n)]]

\* The index entries of source v that are not mature, in an order the store may have:
\* by completion time, then by the bytes of the denomination and the addresses.
RedelsToSlash(v) == {x \in redelIndex : x.src = v /\ x.ct >= now}

IterationOrders(entries) ==
    {order \in SetToSeqs(entries) :
        \A i, j \in DOMAIN order : i < j => order[i].ct =< order[j].ct}

\* One round of the loop of slashRedelegations.  ClaimDelegationRewards returns an error
\* for an unknown asset and, once rewards have started, for a missing delegation; so
\* does ValidateDelegatedAmount for too few shares.  An error ends the loop.  A negative
\* amount of shares, or total of them, panics in NewDecCoinFromDec or DecCoins.Sub.
SlashRedelegation(state, x, f) ==
    LET n        == x.denom
        key      == DelKey(x.del, x.dst, n)
        record   == redels[[del |-> x.del, denom |-> n, dst |-> x.dst, ct |-> x.ct]]
        own      == state.dels[key]
        position == state.positions[x.dst][n]
        asset    == state.assets[n]
        tokens   == (f[1] * record.amt) \div f[2]
        wanted   == GetDelegationSharesFromTokens(position, asset, tokens)
        removed  == SharesToUpdate(own, wanted)
        missing  == key \notin DOMAIN state.dels
        refused  == n \notin DOMAIN assets \/ (missing /\ RewardsStarted(n))
    IN  CASE state.result # "ok" \/ (missing /\ ~refused) -> state
          [] state.result = "ok" /\ refused -> [state EXCEPT !.result = "error"]
          [] OTHER ->
                 IF Worthless(position, asset) THEN [state EXCEPT !.result = "panic"]
                 ELSE IF ~EnoughShares(own, wanted) THEN [state EXCEPT !.result = "error"]
                 ELSE IF removed \notin 0 .. position.issued
                 THEN [state EXCEPT !.result = "panic"]
                 ELSE [state EXCEPT !.dels[key] = own - removed,
                                    !.positions[x.dst][n].issued = @ - removed]

SlashOutcome(v, f, order) ==
    LET after[i \in 0 .. Len(order)] ==
            IF i = 0
            THEN [result |-> "ok", dels |-> dels, positions |-> SlashedPositions(v, f),
                  assets |-> SlashedAssets(v, f)]
            ELSE SlashRedelegation(after[i - 1], order[i], f)
    IN  after[Len(order)]

\* The claim of a round that has rewards to pay also fails when the reward pool is short of
\* them; the rounds before it stay.  What is earned and what the pool holds is in module
\* Rewards: here, if it may happen at all, it may in any round whose rewards have started.
SlashOutcomes(v, f, order) ==
    LET paying == {i \in DOMAIN order :
                      /\ PoolMayBeShort
                      /\ order[i].denom \in DOMAIN assets
                      /\ RewardsStarted(order[i].denom)}
        before(i) == SlashOutcome(v, f, SubSeq(order, 1, i - 1))
    IN  {SlashOutcome(v, f, order)} \cup
        {[before(i) EXCEPT !.result = IF @ = "ok" THEN "error" ELSE @] : i \in paying}

\* x/staking logs an error and slashes its own stake all the same, so what was written
\* before the error stays; a panic stops the chain.
ApplySlash(v, f, outcome) ==
    /\ InBegin
    /\ slashes < MaxSlashes
    /\ slashes' = slashes + 1
    /\ dels' = outcome.dels
    /\ positions' = outcome.positions
    /\ assets' = outcome.assets
    /\ \/ /\ outcome.result = "ok"
          /\ SlashUndelegations(v, f)
          /\ escrow' = [n \in Denoms |-> escrow[n] - SlashTaken(v, f, n)]
          /\ collected' = [n \in Denoms |-> collected[n] + SlashTaken(v, f, n)]
       \/ /\ outcome.result = "error"
          /\ UNCHANGED <<undelVars, escrow, collected>>
    /\ UNCHANGED <<now, redelVars, wallet>>

\* BeforeValidatorSlashed.  An asset that a validator holds is known (HeldIsWhitelisted),
\* so the first loop of SlashValidator never returns ErrUnknownAsset.
Slash(v, f) ==
    /\ \A n \in Denoms : positions[v][n].held # 0 => n \in DOMAIN assets
    /\ \E order \in IterationOrders(RedelsToSlash(v)) :
          \E outcome \in SlashOutcomes(v, f, order) : ApplySlash(v, f, outcome)

\* EndBlocker.  DeductAssetsWithTakeRate takes cut[n] tokens of an asset whose rewards
\* have started and leaves at least one; module AssetHooks has when and how many.
EndBlock(gap, cut) ==
    /\ \A n \in Denoms :
          \/ cut[n] = 0
          \/ n \in DOMAIN assets /\ RewardsStarted(n) /\ cut[n] < assets[n].tokens
    /\ CompleteRedelegations
    /\ CompleteUndelegations
    /\ wallet' = [d \in Delegators |-> [n \in Denoms |-> wallet[d][n] + Payout(d, n)]]
    /\ escrow' = [n \in Denoms |->
                     escrow[n] - SumFunction([d \in Delegators |-> Payout(d, n)]) - cut[n]]
    /\ assets' = [n \in DOMAIN assets |-> [assets[n] EXCEPT !.tokens = @ - cut[n]]]
    /\ collected' = [n \in Denoms |-> collected[n] + cut[n]]
    /\ now' = IF now + gap < Horizon THEN now + gap ELSE Horizon
    /\ phase' = "begin"
    /\ UNCHANGED <<positions, dels, slashes>>

NextBlock ==
    \E gap \in BlockGaps, cut \in [Denoms -> {0} \cup Amounts] : EndBlock(gap, cut)

Next ==
    \/ \E n \in Denoms : CreateAlliance(n) \/ DeleteAlliance(n)
    \/ \E d \in Delegators, n \in Denoms, amt \in Amounts :
          \/ \E v \in Validators : Delegate(d, v, n, amt) \/ Undelegate(d, v, n, amt)
          \/ \E src, dst \in Validators : Redelegate(d, src, dst, n, amt)
    \/ \E v \in Validators, f \in Fractions : Slash(v, f)
    \/ NextBlock

Spec == Init /\ [][Next]_vars

-----------------------------------------------------------------------------
\* What GetDelegationTokens reports for a delegation.
TokensOf(key) ==
    GetDelegationTokensWithShares(dels[key], positions[key.val][key.denom],
                                  assets[key.denom])

LiveDels == {key \in DOMAIN dels : key.denom \in DOMAIN assets}

TokensIn(keys) == SumFunctionOnSet([key \in LiveDels |-> TokensOf(key)], keys)

\* The validator has issued a whole delegation share, so it prices new ones by its tokens.
Priced(v, n) == positions[v][n].issued >= Scale

\* The type invariant: shares and tokens are never negative.
TypeOK ==
    /\ \A n \in DOMAIN assets : assets[n] \in [tokens : Nat, shares : Nat, start : Nat]
    /\ positions \in [Validators -> [Denoms -> [held : Nat, issued : Nat]]]
    /\ DOMAIN dels \subseteq [del : Delegators, val : Validators, denom : Denoms]
    /\ \A key \in DOMAIN dels : dels[key] \in Nat

\* The delegation shares a validator has issued are exactly those of its delegations,
\* through roundings, dust clearing and slashes of redelegations (invariants.go:61; the
\* code compares only validators that have a delegation).
DelegatorSharesInvariant ==
    \A v \in Validators, n \in Denoms :
        positions[v][n].issued =
            SumFunctionOnSet(dels, {key \in DOMAIN dels : key.val = v /\ key.denom = n})

\* The validator shares of an asset are exactly those the validators hold: what
\* invariants.go:50 asserts.
ValidatorSharesInvariant ==
    \A n \in DOMAIN assets :
        assets[n].shares = SumFunction([v \in Validators |-> positions[v][n].held])

\* The tokens reported for all delegations of an asset, each rounded up by Epsilon
\* (asset.go:50), are never more than the tokens there are.
Solvent ==
    \A n \in DOMAIN assets :
        TokensIn({key \in LiveDels : key.denom = n}) =< assets[n].tokens

\* A delegator can withdraw all that is reported for a delegation, in spite of the
\* roundings between tokens and shares (delegation.go:419-441), at any validator that
\* has issued a whole share.
Redeemable ==
    \A key \in LiveDels :
        Priced(key.val, key.denom) /\ dels[key] > 0 /\ TokensOf(key) > 0 =>
            CanWithdraw(key.del, key.val, key.denom, TokensOf(key))

\* No validator has delegation shares of an asset but no tokens of it, which would make
\* every later Delegate to it panic, and a slash of a redelegation into it stop the
\* chain (the division in asset.go:33); for fractions below one.
NeverWorthless ==
    \A v \in Validators : \A n \in DOMAIN assets : ~Worthless(positions[v][n], assets[n])

\* A validator holds shares of whitelisted assets only, so that SlashValidator never
\* returns ErrUnknownAsset half way (slash.go:33), even after DeleteAlliance.
HeldIsWhitelisted ==
    \A v \in Validators, n \in Denoms : positions[v][n].held # 0 => n \in DOMAIN assets

\* What a delegator has of a denomination: in the wallet, delegated and on its way back.
Wealth(d, n) ==
    wallet[d][n]
    + TokensIn({key \in LiveDels : key.del = d /\ key.denom = n})
    + SumFunctionOnSet([key \in DOMAIN undelQueue |-> AmountIn(undelQueue[key], n)],
                       {key \in DOMAIN undelQueue : key.del = d})

\* A message of one delegator makes nobody richer or poorer by more than the token that
\* rounding may move, as long as every validator that holds some of the asset prices
\* its shares (delegation.go:20-229).
MessagesKeepWealth ==
    [][phase' = "deliver" =>
         \A d \in Delegators, n \in Denoms :
            (\A v \in Validators : Priced(v, n) \/ positions[v][n].held = 0) =>
                Wealth(d, n)' \in Wealth(d, n) - 1 .. Wealth(d, n) + 1]_vars

Worth(v, n) == TotalTokensWithAsset(positions[v][n], assets[n])

\* A slash "reallocates tokens from slashed validators to good validators"
\* (slash.go:12-13): the slashed validator's share of no asset grows, no other
\* validator's shrinks, and what the one loses the others gain, up to less than a token.
SlashReallocates ==
    [][slashes' # slashes =>
         \E v \in Validators : \A n \in DOMAIN assets :
            /\ \A w \in Validators \ {v} : Worth(w, n)' >= Worth(w, n)
            /\ Worth(v, n)' =< Worth(v, n)
            /\ SumFunction([w \in Validators |-> Worth(w, n)])'
                 > SumFunction([w \in Validators |-> Worth(w, n)]) - FromInt(1)]_vars

\* A slash reaches every undelegation from its validator that is still unbonding
\* (slash.go:14-15).
SlashReachesUndelegations ==
    [][\A v \in Validators, f \in Fractions :
          Slash(v, f) =>
              \A key \in DOMAIN undelQueue : \A i \in DOMAIN undelQueue[key] :
                  LET e == undelQueue[key][i]
                  IN  e.val = v /\ key.ct >= now /\ (f[1] * e.amt) \div f[2] > 0 =>
                          undelQueue'[key][i].amt < e.amt]_vars

\* No delegation can withdraw more than the asset has, although GetDelegationTokens rounds
\* up by Epsilon and subtracted shares are clipped at zero (asset.go:50, validator.go:35):
\* TotalTokens.Sub of Undelegate (delegation.go:197) checks nothing and would go negative.
NoOverdraw ==
    \A d \in Delegators, v \in Validators, n \in Denoms, amt \in Amounts :
        CanWithdraw(d, v, n, amt) => amt =< assets[n].tokens

\* Whatever the shares do, tokens behave as module Unbonding promises: no withdrawal
\* takes more than the asset has, and all that its theorems say holds here.
Tokens == INSTANCE Unbonding WITH
    totalTokens <- [n \in DOMAIN assets |-> assets[n].tokens]

ImplementsUnbonding == Tokens!Spec
=============================================================================
