------------------------------ MODULE Unbonding ------------------------------
(***************************************************************************)
(* What x/alliance promises about the tokens it holds, without its share   *)
(* arithmetic: tokens enter the module account on Delegate, are recorded   *)
(* in asset.TotalTokens, move from there to the undelegation queue, and    *)
(* leave on payout, on a slash or through the take rate.  The share ledger *)
(* that decides who may withdraw how much is module Delegations, which     *)
(* implements this specification.                                          *)
(*                                                                         *)
(* A block is: BeginBlock, where x/slashing and x/evidence slash; the      *)
(* messages; the gov EndBlocker, which runs proposals; and the alliance    *)
(* EndBlocker.  Variable phase is the latest of the first three that took  *)
(* a step.                                                                 *)
(***************************************************************************)
EXTENDS Queues

CONSTANTS
    Amounts,     \* amounts that messages carry
    InitialWallet,   \* tokens of each denomination that each delegator starts with
    BlockGaps,   \* possible distances between two block times
    MaxTime,     \* bound: no message or proposal after this time
    MaxRedels,   \* bound: entries in one bucket of the redelegation queue
    MaxUndels    \* bound: entries in one bucket of the undelegation queue

ASSUME AmountsAssumption == Amounts \subseteq Nat \ {0}
ASSUME InitialWalletAssumption == InitialWallet \in Nat
ASSUME BlockGapsAssumption == BlockGaps \subseteq Nat \ {0}
ASSUME MaxTimeAssumption == MaxTime \in Nat

VARIABLES
    phase,        \* "begin", "deliver" or "gov"
    totalTokens,  \* AssetKey: whitelisted denomination -> asset.TotalTokens
    wallet,       \* bank balance of each delegator
    escrow,       \* bank balance of the alliance module account
    collected     \* what the module sent to the fee collector

bankVars == <<wallet, escrow, collected>>
vars == <<now, phase, redelVars, undelVars, totalTokens, bankVars>>

\* Bound: by this time everything queued until MaxTime has been completed.
Horizon == MaxTime + UnbondingTime + 1

Room(queue, key, max) == Len(GetOr(queue, key, <<>>)) < max

Min2(a, b) == IF a < b THEN a ELSE b

-----------------------------------------------------------------------------
InMessages == phase \in {"begin", "deliver"} /\ phase' = "deliver" /\ now =< MaxTime
InGov      == phase' = "gov" /\ now =< MaxTime
InBegin    == phase = "begin" /\ phase' = "begin"

Init ==
    /\ now = 0
    /\ phase = "begin"
    /\ QueuesInit
    /\ \E listed \in SUBSET Denoms : totalTokens = [n \in listed |-> 0]
    /\ wallet = [d \in Delegators |-> [n \in Denoms |-> InitialWallet]]
    /\ escrow = [n \in Denoms |-> 0]
    /\ collected = [n \in Denoms |-> 0]

CreateAlliance(n) ==
    /\ InGov
    /\ n \notin DOMAIN totalTokens
    /\ totalTokens' = Put(totalTokens, n, 0)
    /\ UNCHANGED <<now, redelVars, undelVars, bankVars>>

DeleteAlliance(n) ==
    /\ InGov
    /\ n \in DOMAIN totalTokens
    /\ totalTokens[n] = 0
    /\ totalTokens' = Without(totalTokens, {n})
    /\ UNCHANGED <<now, redelVars, undelVars, bankVars>>

Delegate(d, n, amt) ==
    /\ InMessages
    /\ n \in DOMAIN totalTokens
    /\ amt =< wallet[d][n]
    /\ wallet' = [wallet EXCEPT ![d][n] = @ - amt]
    /\ escrow' = [escrow EXCEPT ![n] = @ + amt]
    /\ totalTokens' = [totalTokens EXCEPT ![n] = @ + amt]
    /\ UNCHANGED <<now, redelVars, undelVars, collected>>

\* Mutation: no look at what is staked.
Withdrawable_Any(n, amt) == n \in DOMAIN totalTokens

\* The delegation's shares bound amt in the code; at most all of the asset moves.
Withdrawable(n, amt) == n \in DOMAIN totalTokens /\ amt =< totalTokens[n]

Redelegate(d, src, dst, n, amt) ==
    /\ InMessages
    /\ src # dst
    /\ Withdrawable(n, amt)
    /\ ~HasRedelegation(d, src, n)
    /\ Room(redelQueue, CompletionTime, MaxRedels)
    /\ AddRedelegation([del |-> d, src |-> src, dst |-> dst, denom |-> n, amt |-> amt])
    /\ UNCHANGED <<now, undelVars, totalTokens, bankVars>>

Undelegate(d, v, n, amt) ==
    /\ InMessages
    /\ Withdrawable(n, amt)
    /\ Room(undelQueue, [ct |-> CompletionTime, del |-> d], MaxUndels)
    /\ totalTokens' = [totalTokens EXCEPT ![n] = @ - amt]
    /\ QueueUndelegation(d, [val |-> v, denom |-> n, amt |-> amt])
    /\ UNCHANGED <<now, redelVars, bankVars>>

\* SlashValidator as far as tokens go.  It may also stop early with an error, which
\* x/staking logs: then no token moves, which is a stuttering step here.
Slash(v, f) ==
    /\ InBegin
    /\ SlashUndelegations(v, f)
    /\ escrow' = [n \in Denoms |-> escrow[n] - SlashTaken(v, f, n)]
    /\ collected' = [n \in Denoms |-> collected[n] + SlashTaken(v, f, n)]
    /\ UNCHANGED <<now, redelVars, totalTokens, wallet>>

\* EndBlocker: redelegations and undelegations complete, the take rate moves cut[n]
\* tokens to the fee collector (DeductAssetsWithTakeRate never takes the last one),
\* and the next block begins.
EndBlock(gap, cut) ==
    /\ \A n \in DOMAIN totalTokens : cut[n] = 0 \/ cut[n] < totalTokens[n]
    /\ \A n \in Denoms \ DOMAIN totalTokens : cut[n] = 0
    /\ CompleteRedelegations
    /\ CompleteUndelegations
    /\ wallet' = [d \in Delegators |-> [n \in Denoms |-> wallet[d][n] + Payout(d, n)]]
    /\ escrow' = [n \in Denoms |->
                     escrow[n] - SumFunction([d \in Delegators |-> Payout(d, n)]) - cut[n]]
    /\ totalTokens' = [n \in DOMAIN totalTokens |-> totalTokens[n] - cut[n]]
    /\ collected' = [n \in Denoms |-> collected[n] + cut[n]]
    /\ now' = Min2(now + gap, Horizon)
    /\ phase' = "begin"

NextBlock ==
    \E gap \in BlockGaps, cut \in [Denoms -> {0} \cup Amounts] : EndBlock(gap, cut)

Next ==
    \/ \E n \in Denoms : CreateAlliance(n) \/ DeleteAlliance(n)
    \/ \E d \in Delegators, n \in Denoms, amt \in Amounts :
          \/ Delegate(d, n, amt)
          \/ \E src, dst \in Validators : Redelegate(d, src, dst, n, amt)
          \/ \E v \in Validators : Undelegate(d, v, n, amt)
    \/ \E v \in Validators, f \in Fractions : Slash(v, f)
    \/ NextBlock

Spec == Init /\ [][Next]_vars

\* Consensus keeps producing blocks, and every block ends with the EndBlocker.
FairSpec == Spec /\ WF_vars(NextBlock)

-----------------------------------------------------------------------------
Times == 0 .. Horizon + UnbondingTime

RedelEntries ==
    [del : Delegators, src : Validators, dst : Validators, denom : Denoms, amt : Nat]
RedelKeys == [del : Delegators, denom : Denoms, dst : Validators, ct : Nat]
RedelIndexKeys ==
    [src : Validators, ct : Nat, denom : Denoms, dst : Validators, del : Delegators]
UndelEntries == [val : Validators, denom : Denoms, amt : Nat]
UndelKeys == [ct : Nat, del : Delegators]
UndelIndexKeys == [val : Validators, ct : Nat, denom : Denoms, del : Delegators]

QueueOf(queue, entries) == \A key \in DOMAIN queue : queue[key] \in Seq(entries)

RedelStoresTyped ==
    /\ DOMAIN redels \subseteq RedelKeys
    /\ \A key \in DOMAIN redels : redels[key] \in [src : Validators, amt : Nat]
    /\ redelIndex \subseteq RedelIndexKeys
    /\ DOMAIN redelQueue \subseteq Nat
    /\ QueueOf(redelQueue, RedelEntries)

UndelStoresTyped ==
    /\ DOMAIN undelQueue \subseteq UndelKeys
    /\ QueueOf(undelQueue, UndelEntries)
    /\ undelIndex \subseteq UndelIndexKeys

BalancesTyped ==
    /\ DOMAIN totalTokens \subseteq Denoms
    /\ \A n \in DOMAIN totalTokens : totalTokens[n] \in Nat
    /\ wallet \in [Delegators -> [Denoms -> Nat]]
    /\ escrow \in [Denoms -> Nat]
    /\ collected \in [Denoms -> Nat]

\* The type invariant: every store holds keys and values of its own shape, and no
\* balance, total or queued amount is ever negative.
TypeOK ==
    /\ now \in 0 .. Horizon
    /\ phase \in {"begin", "deliver", "gov"}
    /\ RedelStoresTyped
    /\ UndelStoresTyped
    /\ BalancesTyped

\* The module account holds, of every denomination, exactly the tokens of the live
\* delegations plus all that the undelegation queue still owes, so no sequence of
\* slashes (slash.go:114), take-rate cuts (asset.go:284) and payouts
\* (delegation.go:251) leaves a payout of CompleteUndelegations short; that
\* payout's failure is a panic in the EndBlocker (abci.go:16).
Custody ==
    \A n \in Denoms : escrow[n] = GetOr(totalTokens, n, 0) + QueuedAmount(n)

\* The three redelegation stores name the same pending redelegations: a record and
\* an index key exist exactly for the queue entries, so that slashRedelegations
\* (slash.go:57) never follows an index key to a missing record and the ban of
\* HasRedelegation (delegation.go:342) is neither lost nor left behind when
\* addRedelegation merges records or DeleteRedelegation deletes one twice.
RedelegationStoresAgree ==
    /\ DOMAIN redels = {RedelKey(p[1], p[2]) : p \in PendingRedels}
    /\ redelIndex = {RedelIndexKey(p[1], p[2]) : p \in PendingRedels}

\* The amounts queued for a redelegation record.
QueuedFor(key) ==
    SumFunction([i \in DOMAIN redelQueue[key.ct] |->
        IF RedelKey(redelQueue[key.ct][i], key.ct) = key THEN redelQueue[key.ct][i].amt ELSE 0])

\* The balance of a redelegation record is the sum of the queue entries merged into
\* it (addRedelegation, delegation.go:444), over every source.
RedelegationBalance ==
    \A key \in DOMAIN redels : redels[key].amt = QueuedFor(key)

\* The by-validator index of undelegations has exactly the keys of the entries that
\* are queued, so a slash reaches every bucket of its validator (slash.go:117) and
\* never recreates a bucket that was paid out.
UndelegationIndexExact ==
    undelIndex = {UndelIndexKey(p[1], p[2]) : p \in PendingUndels}

\* Stake that arrived by a pending redelegation does not move on: of two pending
\* redelegations A -> B and B -> C of one delegator and denomination, B -> C was
\* made no later (delegation.go:108-113).
NoTransitiveRedelegation ==
    \A p, q \in PendingRedels :
        p[1].del = q[1].del /\ p[1].denom = q[1].denom /\ p[1].dst = q[1].src =>
            q[2] =< p[2]

\* An undelegation whose completion time has passed is out of a slash's reach even
\* though the EndBlocker that pays it comes after the slash (slash.go:124-127).
MaturedNotSlashed ==
    [][\A key \in DueUndels :
          key \in DOMAIN undelQueue' => undelQueue'[key] = undelQueue[key]]_vars

\* A slash of validator v takes tokens from undelegations from v only ("we also slash
\* re-delegations and un-delegations that are still in the progress of unbonding",
\* slash.go:14-15), not from those the delegator made from other validators.
SlashSparesOtherValidators ==
    [][\A v \in Validators, f \in Fractions :
          Slash(v, f) =>
              \A key \in DOMAIN undelQueue : \A i \in DOMAIN undelQueue[key] :
                  undelQueue[key][i].val # v =>
                      undelQueue'[key][i] = undelQueue[key][i]]_vars

\* Every undelegation is eventually paid out and every redelegation lock released,
\* because the EndBlocker empties both queues (abci.go:14-18).
EverythingCompletes ==
    /\ \A d \in Delegators, ct \in Times :
          [ct |-> ct, del |-> d] \in DOMAIN undelQueue ~>
              [ct |-> ct, del |-> d] \notin DOMAIN undelQueue
    /\ \A d \in Delegators, v \in Validators, n \in Denoms :
          HasRedelegation(d, v, n) ~> ~HasRedelegation(d, v, n)
=============================================================================
