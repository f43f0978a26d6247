------------------------------- MODULE Queues -------------------------------
(***************************************************************************)
(* The unbonding stores of the x/alliance keeper (keeper/delegation.go,    *)
(* keeper/slash.go, types/keys.go): what is pending between a Redelegate   *)
(* or an Undelegate message and the end of the unbonding period.           *)
(*                                                                         *)
(* A KV-store prefix is a partial function from the fields of its key to   *)
(* its value; an index whose values are empty is the set of its keys.      *)
(* Each operator below is one store-changing helper of the keeper, written *)
(* as an action fragment that the modules extending this one conjoin into  *)
(* whole handlers.                                                         *)
(***************************************************************************)
EXTENDS Integers, Sequences, FiniteSets, Functions

CONSTANTS
    Delegators,
    Validators,
    Denoms,         \* denominations that may be whitelisted; never the bond denom
    UnbondingTime,  \* parameter of x/staking, constant while the chain runs
    Fractions       \* slash fractions, pairs <<p, q>> that stand for p / q

ASSUME UnbondingTimeAssumption == UnbondingTime \in Nat \ {0}

ASSUME DelegatorsAssumption == IsFiniteSet(Delegators)

ASSUME KeysAssumption == IsFiniteSet(Validators) /\ IsFiniteSet(Denoms)

ASSUME FractionsAssumption ==
    \A f \in Fractions :
        /\ f \in (Nat \ {0}) \X (Nat \ {0})
        /\ f[1] =< f[2]

VARIABLES
    now,         \* time of the current block
    redels,      \* RedelegationKey: [del, denom, dst, ct] -> [src, amt]
    redelIndex,  \* RedelegationByValidatorIndexKey: keys [src, ct, denom, dst, del]
    redelQueue,  \* RedelegationQueueKey: ct -> sequence of [del, src, dst, denom, amt]
    undelQueue,  \* UndelegationQueueKey: [ct, del] -> sequence of [val, denom, amt]
    undelIndex   \* UndelegationByValidatorIndexKey: keys [val, ct, denom, del]

redelVars == <<redels, redelIndex, redelQueue>>
undelVars == <<undelQueue, undelIndex>>

NoEntry == [x \in {} |-> {}]

Put(f, key, value) ==
    [x \in DOMAIN f \cup {key} |-> IF x = key THEN value ELSE f[x]]

GetOr(f, key, default) == IF key \in DOMAIN f THEN f[key] ELSE default

\* The bucket under key, one entry longer.
Enqueue(queue, key, e) == Put(queue, key, Append(GetOr(queue, key, <<>>), e))

Without(f, keys) == Restrict(f, DOMAIN f \ keys)

\* A queue as a set: the pairs of an entry and the key it is queued under.
Queued(queue) == UNION {Range(queue[key]) \X {key} : key \in DOMAIN queue}

CompletionTime == now + UnbondingTime

-----------------------------------------------------------------------------
(* Redelegations: a record, an index by source, and a queue by completion. *)

RedelKey(e, ct) == [del |-> e.del, denom |-> e.denom, dst |-> e.dst, ct |-> ct]

RedelIndexKey(e, ct) ==
    [src |-> e.src, ct |-> ct, denom |-> e.denom, dst |-> e.dst, del |-> e.del]

\* Mutation: the ban looks only at redelegations of the current block.
HasRedelegation_ThisBlock(d, v, n) ==
    [del |-> d, denom |-> n, dst |-> v, ct |-> CompletionTime] \in DOMAIN redels

\* HasRedelegation: some record whose destination is v, whatever its completion.
HasRedelegation(d, v, n) ==
    \E key \in DOMAIN redels : key.del = d /\ key.dst = v /\ key.denom = n

\* Mutation: a second redelegation replaces the record's balance.
AddRedelegation_Overwrites(e) ==
    LET ct == CompletionTime
    IN  /\ redels' = Put(redels, RedelKey(e, ct), [src |-> e.src, amt |-> e.amt])
        /\ redelIndex' = redelIndex \cup {RedelIndexKey(e, ct)}
        /\ redelQueue' = Enqueue(redelQueue, ct, e)

\* addRedelegation and queueRedelegation. A second redelegation into the same
\* destination in the same block adds to the record, which keeps its first source.
AddRedelegation(e) ==
    LET ct  == CompletionTime
        key == RedelKey(e, ct)
        old == GetOr(redels, key, [src |-> e.src, amt |-> 0])
    IN  /\ redels' = Put(redels, key, [src |-> old.src, amt |-> old.amt + e.amt])
        /\ redelIndex' = redelIndex \cup {RedelIndexKey(e, ct)}
        /\ redelQueue' = Enqueue(redelQueue, ct, e)

\* The queued redelegations, each with its completion time.
PendingRedels == Queued(redelQueue)

\* Mutation: only the key of the current block time is visited.
DueRedels_ExactTime == {ct \in DOMAIN redelQueue : ct = now}

DueRedels == {ct \in DOMAIN redelQueue : ct < now}

CompletedRedels == {p \in PendingRedels : p[2] \in DueRedels}

\* Mutation: the index entry is computed from the record, which names one source.
CompleteRedelegations_IndexOfRecord ==
    LET done == {RedelKey(p[1], p[2]) : p \in CompletedRedels}
    IN  /\ redels' = Without(redels, done)
        /\ redelIndex' = redelIndex \
               {[src |-> redels[key].src, ct |-> key.ct, denom |-> key.denom,
                 dst |-> key.dst, del |-> key.del] : key \in done}
        /\ redelQueue' = Without(redelQueue, DueRedels)

\* CompleteRedelegations: for every due queue key, DeleteRedelegation of each entry.
CompleteRedelegations ==
    /\ redels' = Without(redels, {RedelKey(p[1], p[2]) : p \in CompletedRedels})
    /\ redelIndex' = redelIndex \ {RedelIndexKey(p[1], p[2]) : p \in CompletedRedels}
    /\ redelQueue' = Without(redelQueue, DueRedels)

-----------------------------------------------------------------------------
(* Undelegations: a queue by completion and delegator, an index by validator. *)

UndelIndexKey(e, key) ==
    [val |-> e.val, ct |-> key.ct, denom |-> e.denom, del |-> key.del]

\* queueUndelegation, setQueuedUndelegations and setUnbondingIndexByVal.
QueueUndelegation(d, e) ==
    LET key == [ct |-> CompletionTime, del |-> d]
    IN  /\ undelQueue' = Enqueue(undelQueue, key, e)
        /\ undelIndex' = undelIndex \cup {UndelIndexKey(e, key)}

\* The queued undelegations, each with the key of its bucket.
PendingUndels == Queued(undelQueue)

DueUndels == {key \in DOMAIN undelQueue : key.ct < now}

CompletedUndels == {p \in PendingUndels : p[2] \in DueUndels}

\* What a bucket holds of denomination n, what CompleteUndelegations sends to d, and
\* what the queue owes in all.
AmountIn(bucket, n) ==
    SumFunction([i \in DOMAIN bucket |-> IF bucket[i].denom = n THEN bucket[i].amt ELSE 0])

Payout(d, n) ==
    SumFunctionOnSet([key \in DueUndels |-> AmountIn(undelQueue[key], n)],
                     {key \in DueUndels : key.del = d})

QueuedAmount(n) ==
    SumFunction([key \in DOMAIN undelQueue |-> AmountIn(undelQueue[key], n)])

\* Mutation: the bucket is paid but its queue key is not deleted.
CompleteUndelegations_KeepsQueue ==
    /\ undelIndex' = undelIndex \ {UndelIndexKey(p[1], p[2]) : p \in CompletedUndels}
    /\ UNCHANGED undelQueue

\* CompleteUndelegations, its effect on the stores: due buckets and their index go.
CompleteUndelegations ==
    /\ undelQueue' = Without(undelQueue, DueUndels)
    /\ undelIndex' = undelIndex \ {UndelIndexKey(p[1], p[2]) : p \in CompletedUndels}

\* Mutation: mature entries are not skipped.
Visits_Mature(v, key) ==
    {x \in undelIndex : x.val = v /\ x.ct = key.ct /\ x.del = key.del}

\* slashUndelegations scans the index entries of validator v that are not mature;
\* each leads to its whole bucket, which may be visited once per denomination.
Visits(v, key) ==
    {x \in undelIndex : x.val = v /\ x.ct = key.ct /\ x.del = key.del /\ x.ct >= now}

\* tokensToSlash is fraction * amount truncated, taken again at every visit.
SlashedAmount(amt, f, visits) ==
    LET left[k \in 0 .. visits] ==
            IF k = 0 THEN amt ELSE left[k - 1] - (f[1] * left[k - 1]) \div f[2]
    IN  left[visits]

\* slashUndelegations: every entry of a visited bucket shrinks, and what each lost
\* is sent to the fee collector.
SlashedEntry(e, v, f, key) ==
    [e EXCEPT !.amt = SlashedAmount(e.amt, f, Cardinality(Visits(v, key)))]

SlashUndelegations(v, f) ==
    /\ undelQueue' =
           [key \in DOMAIN undelQueue |->
               [i \in DOMAIN undelQueue[key] |-> SlashedEntry(undelQueue[key][i], v, f, key)]]
    /\ UNCHANGED undelIndex

SlashTaken(v, f, n) ==
    SumFunction([key \in DOMAIN undelQueue |->
        SumFunction([i \in DOMAIN undelQueue[key] |->
            LET e == undelQueue[key][i]
            IN  IF e.denom = n THEN e.amt - SlashedEntry(e, v, f, key).amt ELSE 0])])

-----------------------------------------------------------------------------
QueuesInit ==
    /\ redels = NoEntry
    /\ redelIndex = {}
    /\ redelQueue = NoEntry
    /\ undelQueue = NoEntry
    /\ undelIndex = {}
=============================================================================
