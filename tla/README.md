# A TLA+ model of x/alliance

This directory specifies the `x/alliance` module of the repository: the Cosmos SDK 0.46 module
that lets users delegate whitelisted foreign tokens ("alliance assets") to the validators of the
native chain. TLC checks the modules on small instances and TLAPS proves theorems about them for
every value of their constants. Paths below are relative to `src/x/alliance/` unless they name
another directory.

## 1. The system

All code runs inside the deterministic state machine of the chain, one step after another. A block is

1. `BeginBlock`: `x/slashing` and `x/evidence` slash validators, which calls the hook
   `BeforeValidatorSlashed` of `keeper/hooks.go`;
2. the messages of the users (`keeper/msg_server.go`), each in a transaction that an error or a panic rolls back;
3. the end blocker of `x/gov`, which runs proposals (`keeper/proposal.go`);
4. the end blocker of `x/alliance` (`abci.go`), where an error is a panic and stops the chain.

The order of modules is set in `src/app/app.go`. What is hard here is therefore not concurrency of
threads but the interleaving of many users' messages, slashes and completions over blocks, on five
stores that must agree, in fixed-point arithmetic that rounds at each step. The hook is the
exception to the rollback: `x/staking` logs an error of it and slashes its own stake all the same,
so what `SlashValidator` wrote before an error stays written.

### Components

| Component | State | Operations | Correct when | Status |
|---|---|---|---|---|
| Unbonding queues (`keeper/delegation.go`, `types/keys.go`) | redelegation record, index by source, queue; undelegation queue, index by validator | `addRedelegation`, `queueUndelegation`, `CompleteRedelegations`, `CompleteUndelegations` | the stores of one kind agree, everything matures exactly once, the module can pay | modelled, proved |
| Share ledger (`keeper/delegation.go`, `types/asset.go`, `types/validator.go`) | assets, alliance validator infos, delegations | `Delegate`, `Redelegate`, `Undelegate`, with `ValidateDelegatedAmount`, `ClearDustDelegation`, `ResetAssetAndValidators` | shares add up at both levels, reports are covered and can be withdrawn, nobody gains by another's message | modelled, partly proved |
| Slashing (`keeper/slash.go`) | none of its own | `SlashValidator`, `slashRedelegations`, `slashUndelegations` | takes from all that backed the validator, and from nothing else | modelled |
| Staking hooks (`keeper/hooks.go`) | the rebalance flag | seven callbacks of `x/staking` | the flag is set whenever bonded amounts may have changed | modelled |
| Governance (`keeper/proposal.go`) | assets | `CreateAlliance`, `UpdateAlliance`, `DeleteAlliance` | an asset is deleted only when nothing depends on it, weights stay in their range | modelled |
| Invariants (`invariants.go`) | none | two registered invariants | they hold | both are properties |
| End of block (`abci.go`) | none | five steps in order | never panics | modelled, each step in the module of its state |
| Rewards (`keeper/reward.go`, `keeper/asset.go:19-89, 334-373`) | reward pool, histories of validators and delegations, weight snapshots | claims, `AddAssetsToRewardPool`, snapshots | claims never exceed the pool, history is not rewritten | modelled, partly proved |
| Take rate and weight changes (`keeper/asset.go:272-332, 375-405`) | `LastTakeRateClaimTime`, reward weights and their schedules | `DeductAssetsHook`, `RewardWeightChangeHook` | each elapsed interval is charged once and in time, weights follow the schedule and stay in range | modelled, all but the schedule proved |
| Rebalance (`keeper/asset.go:91-202`, `src/custom/bank`) | the rebalance flag, the module's native stake | `RebalanceBondTokenWeights`, `SupplyOf` | voting power follows weights, amounts settle, supply excludes minted stake | modelled, safety proved |
| Genesis (`keeper/genesis.go`) | all stores | import, export | a restart loses no promise and adds none | modelled, proved |
| Message server (`keeper/msg_server.go`, `types/msg.go`) | none | decoding, calls of the keeper | | as the keeper's actions |
| Store keys (`types/keys.go`) | one map of bytes | building, scanning and parsing keys | keys are distinct, scans find their entries and no others, parsing gives the fields back | modelled, proved |
| Queries (`keeper/grpc_query.go`) | none | views of assets, validators, delegations, rewards | they answer, and their answers add up | delegations and validators modelled |
| Command line, application wiring, generated code | none | parsing of input, construction, encoding | | not modelled, section 7 |

They interact as follows. Messages and slashes call `ClaimDelegationRewards` first, then change the
ledger, then append to the queues. The end blocker completes the queues, lets the take rate lower
`TotalTokens`, changes weights and rebalances. Every message and most hooks set the rebalance flag.
Native stake minted by a rebalance earns the rewards that claims hand out.

### Hard behaviours

`PROJECT.json` lists them at their lines under `hazards`. The main ones:

* *Buckets.* Undelegations of one delegator in one block share a queue key, redelegations into one
  destination in one block share a record, whatever validator they come from; index entries do not.
* *Time.* Completion and slash decide separately what is mature: `t < block time`, strictly.
* *Errors in the middle of a slash*, since nothing rolls them back.
* *Rounding.* Tokens become shares by a division and a product, each rounded half to even, and shares
  become tokens by another pair, an epsilon and a truncation; differences are capped, clipped or
  cleared as dust at five places. A slash leaves delegations of zero shares behind.
* *Par price.* A validator with less than one issued share prices at par, and one with shares but no
  tokens divides by zero.
* *Lazy accounts.* A delegation is paid when it claims, from an index that moved since, for the tokens it
  has then: whatever changes those tokens or a weight must claim or take a snapshot first, and a claim
  writes what its caller has already read.
* *Clocks.* The take rate, each weight schedule and the start of rewards have clocks of their own, which
  blocks hit late and proposals change.
* *The flag.* The rebalance happens at the end of a block only if something has asked for it, and it asks
  for itself again.
* *Bytes.* All stores are one map, whose keys join addresses, denominations and times of different
  lengths; completions are ranges of bytes, and slashes cut keys apart to build others.
* *Restarts.* Queues and indexes are not exported but rebuilt, and the flag is lost.

## 2. Modules

| Module | Models |
|---|---|
| `Queues` | the five unbonding stores as variables, and every store-changing helper as an action fragment |
| `Unbonding` | what the module promises about tokens: an abstract specification over `Queues` without shares |
| `Dec` | `sdk.Dec` with a parameter `Scale` for its 10^18 |
| `Shares` | the conversions of `types/asset.go`, `types/validator.go` and `ValidateDelegatedAmount` |
| `Delegations` | the whole handlers over `Queues` and `Shares`; implements `Unbonding` |
| `Rewards` | claims, the pool, histories, weight snapshots: each action is an action of `Delegations` together with what it claims |
| `AssetHooks` | the take rate and the weight schedule at the end of a block, and the proposals that set them |
| `Rebalance` | the module's native stake, the flag and the hooks of `x/staking` that set it, the bank's supply query |
| `Genesis` | `Unbonding` with an export and restart between two blocks |
| `Queries` | the query server as functions of the state of `Delegations` |
| `Keys` | the keys of the store as byte strings, and the functions that parse them |
| `ByteStore` | the store as one map of bytes, beside the stores of `Queues` |
| `SumTheorems`, `DecTheorems` | lemmas about finite sums, recursion and induction; bounds of the decimal operators |
| `UnbondingProofs` | theorems about the queues, without and with restarts |
| `ByteStoreProofs` | theorems about keys and the map of bytes |
| `DelegationsProofs`, `RewardsProofs` | theorems about the share ledger, and about the same ledger with its rewards |
| `AssetHooksProofs`, `RebalanceProofs` | theorems about the take rate and weights, and about the native stake |
| `MCUnbonding`, `MCGenesis`, `MCDelegations`, `MCRewards`, `MCAssetHooks`, `MCRebalance`, `MCByteStore` | model values for TLC |

**Stores.** A prefix of the key-value store is a partial function from the fields of its key to its
value, an index is the set of its keys, and key order is kept only where the code iterates with
effect: `Slash` visits the redelegations in every order that respects completion times, since the
bytes of denominations and addresses decide the rest. `ByteStore` checks that the stores may be seen
so: its actions write each store twice, by fields and by the bytes of `types/keys.go`, and read the bytes
as the handlers do. There fields are byte strings of different lengths, times have a fixed width of two
bytes, values are not encoded and all amounts are one. Delegators, validators and denominations are
model values. `now` is the block time in ticks; a tick between two blocks may pass without a block.

**Actions.** There is one action for each message, proposal and slash and one for the end of a block.
`phase` keeps the order of section 1 within a block. A message that fails leaves no trace and has no
step: its error conditions are the guard. A slash that fails has a step, with the ledger changes made
before the error and without those after it. Panics in messages are guards too (division by zero,
negative shares in `NewDecCoinFromDec`); a panic in a slash or end blocker would stop the chain.
`SlashOutcome` follows `slashRedelegations` round by round, the result of each being `ok`, `error` or
`panic`; `Slash` has no step for `panic`.

**Data.** An asset is `[tokens, shares, start]`, a validator's position in it `[held, issued]` for
`ValidatorShares` and `TotalDelegatorShares`, a delegation its shares. `Dec` rounds as the SDK does:
`Mul` and `Quo` half to even, the latter after a truncation of the double-precision quotient.
`Delegations` leaves out weights, histories and rewards; of `ClaimDelegationRewards` its errors remain,
since they decide what a handler does. The reward pool and what is earned are not there, so a claim that
the pool cannot cover is a possibility that `PoolMayBeShort` opens or closes: in a message it is a step
less, in a slash `SlashOutcomes` lets it end any round whose rewards have started. `Rewards` has the pool
and with it the rounds in which that happens. `EndBlock` may deduct any
amount from any asset whose rewards have started as long as a token is left, which is what
`DeductAssetsWithTakeRate` guarantees (`CutsLeaveTokens` of `AssetHooks`).

**Rewards.** The handlers of `Delegations` are one step each; `Rewards` conjoins to each the claims that
the code makes on the way, in the code's order, on the ledger the code has reached at that point: `books`
is what claims change, `ledger` what shares are. The pool's error is a guard of the claiming message,
and ends a slash. Weight snapshots are keyed by the block, so that a second change in a block overwrites
the first. `x/distribution` is one action that owes the module coins at a validator.

**Queries.** A query has no step; `Queries` defines its result in any state, all pages at once.

**Hooks.** `AssetHooks` keeps of the ledger the total of each asset, which delegations change at will. The
histories `since`, `charged` and `base` record for how long an asset was charged and what its schedule
should have made of its weight; no action reads them.

**Stake.** `Rebalance` keeps of the ledger the validators' shares, which messages change at will, and
models `x/staking` by what the module sees of it: tokens, the module's delegation, whether a validator is
bonded, unbonding or gone, and its hooks. `phase` "staked" is the point between the end blocker of
`x/staking`, which chooses the bonded validators, and that of `x/alliance`. The history `missed` records
that something changed without a hook to say so. A slash passes to its hook the part of the tokens that it
really burns, rounded up; one that burns nothing changes nothing, since `SlashValidator` refuses a fraction
of zero (`slash.go:18-20`) before it writes, and is no step.

**Restarts.** An export sees a committed state; `committed` in `Genesis` and a phase of `Rebalance` allow
`Restart` only there. `InitGenesis` rebuilds the queues in the order of the exported keys, which is any
order here.

**Refinement.** `Delegations` contains `Tokens == INSTANCE Unbonding WITH totalTokens <- ...`, and the
run `delegations` checks `Tokens!Spec`: shares never let a message take tokens an asset does not have,
so what holds of `Unbonding` holds of the ledger. A slash that ends with an error is a stuttering
step there. `LedgerImplementsUnbonding` proves the same step by step for all constants, from one
hypothesis that the run checks as the invariant `NoOverdraw` (section 5). `tlapm` cannot cite the theorems of
an instantiated module, so that the theorems of `UnbondingProofs` hold of `Delegations` is an inference of
the reader.

**Assumptions about the rest of the chain.** The staking denomination is not whitelisted
(`CompleteUndelegations` burns it, `delegation.go:281-289`), the module account receives no direct
transfers (`src/app/app.go` blocks it), the unbonding time is constant, and except in `Rebalance`
validators are not removed. Fractions are in (0, 1] as `SlashValidator` demands; take-rate intervals are
positive. Native stake and rewards that pass through the module account are not counted in `escrow`.
`Rewards` has one reward denomination.

## 3. Runs

| Run | Instance | Shows |
|---|---|---|
| `unbonding_undelegate` | 2 delegators, 2 validators, 2 denominations, slashes by a half and all, 3 block times with messages, restarts | `TypeOK`, `Custody`, `UndelegationIndexExact`, `MaturedNotSlashed` |
| `unbonding_redelegate` | 1 delegator, 3 validators, buckets of two, gaps of 1 and 2 ticks, restarts, no slash | `RedelegationStoresAgree`, `ImportedBalance`, `NoTransitiveRedelegation`, and `EverythingCompletes` under fairness |
| `unbonding_slash` | 1 delegator, 2 validators | `SlashSparesOtherValidators` is violated |
| `delegations` | 2 delegators, 2 validators, up to two slashes by a half, take-rate cuts of 1 or 2 | `TypeOK`, `Solvent`, `DelegatorSharesInvariant`, `Redeemable`, `NeverWorthless`, `HeldIsWhitelisted`, `NoOverdraw`, `MessagesKeepWealth`, `SlashReallocates`, `ImplementsUnbonding`; of the queries `QueriesAnswer`, `ReportsAddUp` |
| `delegations_aborted_slash` | rewards start at once, none wait | `SlashReachesUndelegations` is violated |
| `delegations_validator_shares` | 2 redelegations and undelegations | `ValidatorSharesInvariant` is violated |
| `rewards` | 2 delegators, 2 validators, two weights, three allocations of 6 coins or slashes by three quarters | `RewardsTypeOK`, `PoolCovers`, `HistoriesOrdered`, `MessagesKeepEarnings`, `WeightChangeKeepsEarnings` |
| `rewards_warm_up` | a second asset that starts two blocks late | `WarmUpEarnsNothing` is violated |
| `asset_hooks` | 2 assets of up to 3 tokens, take rate 0.1, decay by a half within 0.4 to 1, intervals of 1 and 2 ticks, gaps of 1 and 3, 3 proposals, 5 ticks | `HooksTypeOK`, `ChargedOnce`, `CutsLeaveTokens`, `ChargedInTime`, `WeightFollowsSchedule` |
| `rebalance` | 2 validators, 2 assets with weights 0.5 and 1.5, up to 6 staking tokens, any 5 messages, proposals, slashes or changes of the bonded validators, restarts | `RebalanceTypeOK`, `QueuedWhenOff`, `RebalanceReachesTarget`, `SupplyHidesStake`, and `Settles` under fairness |
| `rebalance_removed_validator` | the same with one asset | `NeverPanics` is violated |
| `byte_store` | 2 delegators, 2 validators, 2 denominations whose bytes overlap, any three writes and the completions after them | `StoreAgrees`, `ScansAreExact`, `KeysLeadBack` |

**Bounds.** `MaxTime` ends messages and proposals, and `Horizon` is the time by which everything
queued before has completed; the clock stays there, so behaviours go on for ever and nothing
deadlocks. `MaxRedels` and `MaxUndels` bound the entries of a bucket: two are what it takes to merge
and to visit a bucket twice; `Custody` and the other invariants of the queues are proved for all bounds.
`MaxSlashes` bounds the slashes of the ledger, because shares of halves of halves never repeat;
`PoolMayBeShort` is off where a property must not be violated by an error that no reward has caused.
`MaxEvents` bounds slashes and allocations together, `MaxChanges` weight changes in a block, `MaxUpdates`
proposals, `MaxTokens` the tokens of an asset, and `MaxOps` everything in `Rebalance` but blocks and
restarts. `Scale = 1000` and `Epsilon = 10` keep all products within TLC's 32 bits with
amounts of one and two; thirds, which arise from deposits after a slash or a cut, already round in all
directions. `Epsilon / Scale` is far larger than the 10^-6 of the code, because the rounding errors of
a Scale of 1000 are larger as well: what matters is that the margin exceeds an error of
amount / Scale. With `Epsilon = 1`, `Redeemable` fails. A slash by three quarters and two weights suffice
to move the price of a token and of a unit of weight apart. Five ticks with gaps of 1 and 3 contain late
blocks of up to three missed intervals, before and after a change of the schedule. In `rebalance`, five
changes are enough to list an asset, delegate to it, and unbond, slash or undelegate on either side of a
rebalance; the third weight or four changes with more tokens gave nothing new. That run turns the
deadlock check off because a panic of the end blocker, which is no step, really stops the chain.
In `byte_store`, two of the `MaxWrites` of three make
entries that might collide and the third one is merged with them or scanned past them.
Symmetry is used for delegators, validators and denominations where the configuration says so, and never
with a liveness property.

**Fairness.** `FairSpec` of `Unbonding` and `GenesisFairSpec` have weak fairness of the end of a block:
consensus keeps producing blocks, and the application calls the end blocker in every one of them.
`FairSpec` of `Rebalance` says the same of its two end blockers. No message, proposal, slash or restart
is fair.

**Mutants.** Beside a definition stands, where a property needs one, a mutated form of it whose comment
begins with `Mutation`: a bug the code might have. `PROJECT.json` names the property each one breaks.

## 4. What the violated properties show

* `SlashSparesOtherValidators`: `slashUndelegations` follows an index entry of the slashed validator to
  a bucket and slashes all entries in it, also those from other validators, once for each index entry.
* `SlashReachesUndelegations`: a redelegation whose delegation has been withdrawn makes
  `ClaimDelegationRewards` fail once rewards have started (`slash.go:84`), before the check meant to
  skip it (`slash.go:90`), and the slash ends before it reaches undelegations.
* `ValidatorSharesInvariant`: the registered invariant of that name. Clipping in `ReduceShares` takes
  less from the source of a redelegation than the destination is given. The registered check does not
  notice, since `GetAllAllianceValidatorInfo` decodes the infos with a call that fails and ignores the
  error (`keeper/validator.go:70`).
* `WarmUpEarnsNothing`: rewards of an asset start with the messages of a block, the snapshot that ends
  the warm-up comes at its end, and a claim between them is paid for the warm-up.
* `NeverPanics`: records of validators are never deleted, and a rebalance fails on one whose validator
  `x/staking` has removed, which is just when a rebalance is asked for.

Known limits of properties that hold, each stated in the property itself. `NeverWorthless` and
thereby the absence of divisions by zero depend on fractions below one, as does `QueriesAnswer`,
which exempts queries that list a delegation without shares: `slashRedelegations` stores one instead
of deleting it (`slash.go:109`), `DeleteAlliance` asks only for tokens (`proposal.go:69`), and
afterwards the list of all delegations ends with `ErrUnknownAsset`. `MessagesKeepWealth` and
`Redeemable` say nothing of a validator that has issued less than one share, since a deposit there
is priced at par. `ImportedBalance` describes the stores after a restart as they are, which is not
as they were: `InitGenesis` queues each redelegation twice (`genesis.go:37-38`), which is harmless
at completion, and finds only the first source of a merged record, so a slash of the others misses
it. The test that should see it compares a store with itself
(`keeper/tests/genesis_test.go:129-139`). Before a restart a slash of one source of a merged record takes
its fraction of the whole sum, what came from other validators included; no property says otherwise.
`PoolCovers` ends with the first slash, which moves tokens
to validators whose old rewards they did not earn, and holds only while tokens are few compared with `Scale`
(section 5) and weights change at most once in a block: a second change, say a proposal and the decay, writes over
the snapshots of the first (`asset.go:334`), and what was earned before both is paid at the weight between
them. With `MaxChanges` at 2 TLC finds the pool short. `MessagesKeepEarnings` exempts a message that
opens a delegation where rewards wait: the newcomer shares in them. `WeightChangeKeepsEarnings`
exempts the second change in a block for the same reason as `PoolCovers`. `QueuedWhenOff` exempts a removed native delegation, a failed
slash and a restart. `WeightFollowsSchedule` takes it as intended that a proposal which shortens a
running interval counts the time since the last change in new intervals.

## 5. Proofs

All are checked with `tlapm` (Z3, Zenon, LS4) from the assumptions named in the modules, which TLC
evaluates in the runs. No constant has a fixed value: sets of delegators, validators and denominations
are any finite sets, `UnbondingTime`, `Scale` and amounts any positive numbers, slash fractions any p/q with
0 < p <= q (a `Dec` where the ledger is concerned), bounds any naturals.

### Queues: `UnbondingProofs`

* `RedelInvariant`: one inductive invariant of the typing of the queue, the agreement of records, index
  and queue, the ban on transitive redelegations, and the fact that nothing is queued beyond
  `CompletionTime`. The bound is what makes the ban inductive: a redelegation into a validator is queued
  no earlier than those already pending out of it. `StoresAgreeHolds` and
  `BanHolds` are parts of it.
* `CustodyInvariant`: types, the index and `escrow = totalTokens + queued` together. Custody needs types
  because a slash takes between zero and the whole of each entry (`SlashedAmountBounds`, by induction on
  the number of visits), and types need custody, because the account must not become negative. The
  arithmetic of a slash (`SlashBooks`) and a payout (`PayoutBooks`) are sums over the queue, regrouped by
  delegator with `SumByLabel`. From it follow `TypeCorrect`, `CustodyHolds`, `IndexHolds`.
* `MaturedNotSlashedHolds`: a mature key has no index entry that a slash visits.

### Restarts: `UnbondingProofs`, second part

The same theorems under `GenesisSpec`, with exports and imports between any two blocks: `GenesisTypeCorrect`,
`GenesisCustody`, `GenesisIndex`, `GenesisStoresAgree`, `GenesisBan`, `GenesisMatured`, and `GenesisBalance`
for what the queue holds of each record. `GenesisInv` has four parts:

* `RecordInv` is `RedelInv` and the fact that the source a record names is the source of one of the
  entries merged into it, so that what an import queues was pending before;
* `ImportInv` says how the queue and a record's balance correspond: each record is queued once, or
  twice if it has been imported (`genesis.go:37-38`), and a record's balance is the sum of its bucket's
  entries. It has to be carried along although only `ImportedBalance` speaks of it, since an import builds
  the queue from the balances;
* `CustodyInv` as above, which an import keeps because it rebuilds the index of undelegations exactly;
* `PhaseOK`, the type of the phase.

`BalanceHolds` is the form without restarts: a record's balance is exactly what is queued for it, so a
completion that deletes the record loses nothing.

### Share ledger: `DelegationsProofs`

* `LedgerInvariant` and `DelegatorSharesHolds`: a validator's issued shares are the sum of its
  delegations' shares. The invariant adds what the step needs: delegations are natural amounts under
  well-formed keys, finitely many, and positions keep their shape; finitely many redelegations are
  indexed, so that a slash has an order to visit them in. Since no delegation exceeds the sum
  (`OwnAtMostIssued`) and `SharesToUpdate` never exceeds the delegation, the clip in `ReduceShares`
  never applies to issued shares and both sides change alike (`WithdrawBalances`). The rounds of a slash
  go by induction (`OutcomeKeepsLedger`). No property of the rounding is used, so the theorem covers the
  real scale of 10^18, which TLC cannot.
* `LedgerImplementsUnbonding`: `Spec /\ []NoOverdraw => Tokens!Spec`. Each handler maps to the action of
  `Unbonding` that takes or queues the same tokens, a slash to `Tokens!Slash` with the same visits to every
  bucket if it is not aborted and to a stutter if it is.
* `SlashFindsAssets`: `Spec /\ []NoOverdraw => []HeldIsWhitelisted`. A slash ends with an error at a
  position whose asset has been deleted; the invariant (`WhitelistInv`) says that an asset which a
  validator or a queued redelegation names is listed and cannot be deleted with tokens.

`NoOverdraw`, that an asset's total never goes below zero, is a hypothesis because it does not hold for all
constants. `ValidateDelegatedAmount` admits a withdrawal up to the delegation's worth plus `Epsilon`, and the
clips at zero in `ReduceShares` let the positions of validators sum to more than the asset's shares, so only
the sizes of `Epsilon`, `Scale` and amounts relative to each other keep withdrawals below the total. The
run `delegations` checks it.

* `HeldNeverNegative`: no position is ever negative, without a hypothesis. A subtraction is either clipped at zero
  or a slash, which by `SlashTakesHeld` takes no more than is held.
* `LedgerTypeCorrect`: `Spec /\ []NoOverdraw /\ []SharesLeft => []TypeOK`. Everything in `TypeOK` is proved
  but the two totals of an asset, which `Undelegate` and `SlashValidator` subtract from without a check
  (`delegation.go:197-198`, `slash.go:36`). `SharesLeft` says that the total of shares is a natural number, which the
  clips put in doubt for the same reason as above: a validator that holds all but what has been clipped, slashed
  wholly, would leave a total below zero. TLC finds no such state in the run's instance, nor with slashes of the
  whole added to it.

### Rewards: `RewardsProofs`

* `RewardsKeepShares`: `DelegatorSharesInvariant` again, now of `RewardsSpec`, without hypotheses.
* `RewardsInvariant`, `HistoriesOrderedHolds`, `RewardsTypeCorrect`: no delegation's history is ahead of its
  validator's, no snapshot ahead of the index, the pool is never negative. The invariant
  (`RewardsInv`) joins `LedgerInv` with the types of the books, the order of histories, indexes and
  snapshots, and the fact that histories and delegations have the same keys. `RewardsFor` and `ClaimAll` are
  recursive functions over subsets of assets and validators; what holds of them is proved by
  `SubsetRecursion` of `SumTheorems`, the rounds of a slash by induction on their number.
  A claim divides by the weight of a validator's tokens and adds the quotient to an index, which grows only if no
  amount is negative. Hence the hypotheses `NoOverdraw` and `SharesLeft`, from which `RewardsLedgerTypes`
  derives `TypeOK` also under claims. A message that only claims changes nothing of the ledger, but is a step
  of its own, so the theorems of `DelegationsProofs` are not inherited but proved again of `RewardsNext`.
* `WeightChangeKeepsEarningsHolds`: the first change of a weight in a block leaves every delegator exactly what
  was earned before, and so does the creation or deletion of an asset, from the same hypotheses and two more on
  constants: `Epsilon < Scale` (10^12 and 10^18 in the code), without which a delegation of an asset with no tokens
  would be worth one, and no `BlockGaps` of zero, since the code keys snapshots by height. The fold over the snapshots of a
  delegation ends with the new one, which carries the old weight and the index of now, so that nothing is
  left for the new weight (`EarnedInTwo`). This needs all older snapshots to be earlier than now, which
  `FreshSnapshots` says of every block until a weight changes in it. An asset without tokens has no
  weight at any validator, so the claims from all validators come to the same with and without it (`ClaimsAgree`).

### Take rate and weights: `AssetHooksProofs`

* `HooksInvariant` with `HooksTypeCorrect`, `ChargedOnceHolds`, `CutsLeaveTokensHolds`. Its core is
  `charged[n] + since[n].clock =< lastClaim`: what an asset has paid for lies between its start and the
  clock of the take rate. A cut leaves a token since the multiplier is a power of a rate below one, which
  `PowerBound` of `DecTheorems` keeps in 0 .. `Scale`; weights stay in range since each change is clipped
  however many intervals a late block compounds.
* `InTimeInvariant` with `ChargedInTimeHolds`: the same clock the other way. It is shared, so it also moves
  when only other assets are charged, or, with nothing to charge, straight to now; the invariant (`InTimeInv`)
  is that it never moves past what an asset that earns has been charged for since it counts (`PaidUp`). A due
  claim charges each such asset (`DeductsAll`), and a clock that moves without it is still before its
  start. `FarFromDust` speaks of every number of intervals, not of the largest only: that a rounded `Power`
  never grows with its exponent is true of all instances tried, but not proved.

### Native stake: `RebalanceProofs`

* `RebalanceInvariant`: `Books`, where the module's stake is covered by its validators' tokens; `Idle`, that
  no shares are held of assets that are not listed or by validators without a record, at which the module
  has no stake; and `OnTarget`: when no rebalance is queued and nothing went unannounced, the stake with each
  bonded validator is its target, and will be when the rewards of further assets start, since nobody bonded holds
  shares of those. From it `RebalanceTypeCorrect`, `QueuedWhenOffHolds`.
* `RebalanceReachesHolds`: a rebalance ends with every bonded validator at its target, although the targets
  are computed before the first delegation changes: unbonding and bonding together keep
  `NativeBondAmount`, on which targets depend.
* `SupplyHolds`: neither a rebalance nor a message changes the supply that the bank reports, although both
  mint and burn.

### Store keys: `ByteStoreProofs`

`StoreAgreesHolds`, `ScansAreExactHolds` and `KeysLeadBackHolds` hold for any addresses and denominations
that are strings of bytes, of whatever lengths, with no zero in a denomination (`FieldsAreBytes`), and so
justify that the other modules take a prefix of the store for a function of fields.

* Two joins of a length-prefixed field and a rest are equal, or one is a prefix of the other, only if the
  fields are equal; applied field by field this makes the keys of each store an injective function of its fields
  (the lemmas that end in `Entry`). Keys of two stores differ in their first byte.
* The order of a KVStore looks at the first byte that differs (`BeforeMeans`). It passes over a common
  prefix (`BeforeJoin`), and for times of a fixed width it is the order of numbers (`FixedWidthOrder`), so a
  range of bytes is a range of times.
* The inductive invariant `StoreInv` says store by store that the key of an entry is in the map exactly when the
  entry is in the store, with its value, and that the map has no key besides. `StoreAgrees` alone is too weak
  to be kept: it leaves open which entries might be, so that a step that writes one key says nothing about
  the keys of other entries, and it needs the types by which `now` and the queued times are numbers of
  fixed width. The number of keys then is the sum of the sizes of the stores, since keys are injective
  (`InvStoreAgrees`).
* Each message writes a known set of keys. `EndBlockKeeps` is where the work is: the keys that the code
  finds by range, and the further keys it derives from the values it finds there and parses, must be those
  of the entries that the stores of `Queues` drop by time (`RedelegationsDone`, `UndelegationsDone`).

### Lemmas

`SumTheorems` proves what the library lacks about `SumFunctionOnSet` of the community modules: empty
sums, taking any element out, pointwise equality, sums of sums, disjoint unions and regrouping by label;
and that a function defined by recursion over the subsets of a finite set satisfies its equation.
`DecTheorems` bounds `Mul`, `Quo`, `QuoRoundUp` and `Power`: naturals in, naturals out, no larger than an operand whose
partner is at most one.

### Only model-checked

* Liveness, outside the prover's reach: `EverythingCompletes`, `Settles`.
* What bounds rounding errors and is not true for all constants, so that no theorem without a ratio between
  `Epsilon`, `Scale` and amounts can state it: `Solvent`, `Redeemable`, `NeverWorthless`,
  `MessagesKeepWealth`, `SlashReallocates`, `QueriesAnswer` and `ReportsAddUp`. With a `Scale` of 10, amounts of
  7 and 30 and the rest of the run `delegations`, TLC violates each of them. The code has a `Scale` of 10^18;
  amounts of several times that many base units are a few tokens of an asset with 18 decimals.
* `PoolCovers` and `MessagesKeepEarnings`, for the same reason: an index is rounded to a
  unit, which so many tokens multiply to coins. With one delegation of 30 tokens and a `Scale` of 10, an
  allocation of 2 coins makes an index of one unit and a claim of 3.
* `NoOverdraw` and the total of shares in `TypeOK` of `Delegations`, for the reason above. TLC finds no
  violation of `NoOverdraw` with those constants within five minutes, but no invariant is known that implies it.
* `WeightFollowsSchedule`: a power is rounded in another order than one product after the other, so the two
  agree only where rounding does not matter, as in the run.

## 6. Plan

All modules of the plan are written, and the safety properties that are known to hold for all constants are
proved. What would extend the proofs:

1. `NoOverdraw`, on which `LedgerImplementsUnbonding` and the types of the ledger rest: an invariant that bounds
   by how much the clips let the positions of validators exceed the shares of an asset;
2. the properties about rounding under assumptions on the ratio of `Epsilon`, `Scale` and amounts, first of
   all `PoolCovers` between slashes;
3. that `Power` does not grow with its exponent.

## 7. Not modelled

* `types/*.pb.go`, `types/*.pb.gw.go` and the code under `tests/` are generated or test code; most of the
  lines of the repository are there.
* Of `keeper/grpc_query.go`, `Params`, `Alliances`, `Alliance`, the rewards of a delegation, the aliases for
  IBC denominations and pages: all but the rewards return what is stored.
* `client/` and the command in `src/cmd` parse input; they change nothing. The keys of the weight decay
  queue (`types/keys.go:267-288`) are used nowhere.
* `src/app` builds the application. An export for height zero (`src/app/export.go:53`) resets heights that
  the module's snapshots still use; heights are block times here and never go back.
* `keeper/migrations` and simulation code; events and their attributes; addresses and their encodings.
* More than one reward denomination, validators that join, an interval of zero for the take rate, and the
  overflow of `sdk.Dec`, which hazards name.

## 8. Running

    tlc -workers 2 -config MCDelegations.cfg MCDelegations.tla
    tlapm DelegationsProofs.tla

Each passing run ends within two minutes on two cores.
