----------------------------- MODULE ByteStore ------------------------------
(***************************************************************************)
(* The store of x/alliance as it is, one map from byte strings to values,  *)
(* beside the stores of module Queues and two more, which are what it      *)
(* stands for.  Each action writes both: the stores by their fields, the   *)
(* map by the keys that the handler builds, scans and parses.  Values are  *)
(* not encoded, and all amounts are one.                                   *)
(***************************************************************************)
EXTENDS Queues, Keys, SequencesExt

CONSTANTS
    MaxTime,    \* bound: no message after this time
    MaxWrites   \* bound: messages and weight changes in a behaviour

ASSUME BoundsAssumption == MaxTime \in Nat /\ MaxWrites \in Nat

\* Fields are byte strings; a denomination has no zero byte in it.
ASSUME FieldsAreBytes ==
    /\ Delegators \cup Validators \cup Denoms \subseteq Seq(Nat)
    /\ \A n \in Denoms : 0 \notin Range(n)

VARIABLES
    store,      \* the KVStore of the module
    dels,       \* the delegations, as [del, val, denom]
    infos,      \* validators with an AllianceValidatorInfo
    snapshots,  \* weight snapshots, as [denom, val, height]
    writes      \* for MaxWrites

ledgerVars == <<dels, infos, snapshots>>
vars == <<now, redelVars, undelVars, ledgerVars, store, writes>>

Horizon == MaxTime + UnbondingTime + 1

\* The map with nothing under each of the keys.
PutEmpty(f, keys) ==
    [k \in DOMAIN f \cup keys |-> IF k \in keys THEN {} ELSE f[k]]

\* What a height is never: math.MaxUint64.
MaxHeight == Horizon + 1

\* Iteration order of a KVStore.
Before(s, t) ==
    \/ IsStrictPrefix(s, t)
    \/ \E i \in 1 .. Min({Len(s), Len(t)}) :
          s[i] < t[i] /\ SubSeq(s, 1, i - 1) = SubSeq(t, 1, i - 1)

\* store.Iterator(first, end), without the end, and sdk.KVStorePrefixIterator.
Iterator(first, end) == {k \in DOMAIN store : ~Before(k, first) /\ Before(k, end)}

PrefixIterator(prefix) == {k \in DOMAIN store : IsPrefix(prefix, k)}

Init ==
    /\ now = 0
    /\ QueuesInit
    /\ store = NoEntry
    /\ dels = {} /\ infos = {} /\ snapshots = {}
    /\ writes = 0

-----------------------------------------------------------------------------
Write == now =< MaxTime /\ writes < MaxWrites /\ writes' = writes + 1

\* Delegate: SetDelegation and SetValidator.
Delegate(d, v, n) ==
    LET e == [del |-> d, val |-> v, denom |-> n]
    IN  /\ Write
        /\ dels' = dels \cup {e}
        /\ infos' = infos \cup {v}
        /\ store' = Put(Put(store, GetDelegationKey(d, v, n), e),
                        GetAllianceValidatorInfoKey(v), {})
        /\ UNCHANGED <<now, redelVars, undelVars, snapshots>>

\* reduceDelegationShares with the last share.
RemoveDelegation(d, v, n) ==
    LET e == [del |-> d, val |-> v, denom |-> n]
    IN  /\ Write
        /\ e \in dels
        /\ dels' = dels \ {e}
        /\ store' = Without(store, {GetDelegationKey(d, v, n)})
        /\ UNCHANGED <<now, redelVars, undelVars, infos, snapshots>>

\* addRedelegation and queueRedelegation.
Redelegate(d, src, dst, n) ==
    LET e      == [del |-> d, src |-> src, dst |-> dst, denom |-> n, amt |-> 1]
        ct     == CompletionTime
        record == GetRedelegationKey(d, n, dst, ct)
        queue  == GetRedelegationQueueKey(ct)
        old    == GetOr(store, record, [src |-> src, amt |-> 0])
    IN  /\ Write
        /\ src # dst
        /\ AddRedelegation(e)
        /\ store' = Enqueue(Put(Put(store, record, [old EXCEPT !.amt = @ + 1]),
                                GetRedelegationIndexKey(src, ct, n, dst, d), {}), queue, e)
        /\ UNCHANGED <<now, undelVars, ledgerVars>>

\* queueUndelegation, setQueuedUndelegations and setUnbondingIndexByVal.
Undelegate(d, v, n) ==
    LET e     == [val |-> v, denom |-> n, amt |-> 1]
        queue == GetUndelegationQueueKey(CompletionTime, d)
    IN  /\ Write
        /\ QueueUndelegation(d, e)
        /\ store' = Put(Enqueue(store, queue, e),
                        GetUnbondingIndexKey(v, CompletionTime, n, d), {})
        /\ UNCHANGED <<now, redelVars, ledgerVars>>

\* The loop of UpdateAllianceAsset over the validators whose infos it finds.
ChangeWeight(n) ==
    LET found == {ParseAllianceValidatorKey(k) : k \in PrefixIterator(ValidatorInfoKey)}
    IN  /\ Write
        /\ snapshots' = snapshots \cup {[denom |-> n, val |-> v, height |-> now] : v \in infos}
        /\ store' = PutEmpty(store, {GetRewardWeightChangeSnapshotKey(n, v, now) : v \in found})
        /\ UNCHANGED <<now, redelVars, undelVars, dels, infos>>

\* CompleteRedelegations: the keys DeleteRedelegation deletes of a queued entry.
RedelegationKeysOf(queueKey) ==
    LET ct == ParseRedelegationQueueKey(queueKey)
    IN  UNION {{GetRedelegationKey(e.del, e.denom, e.dst, ct),
                GetRedelegationIndexKey(e.src, ct, e.denom, e.dst, e.del)} :
               e \in Range(store[queueKey])}

\* CompleteUndelegations: an entry names its delegator too.
IndexKeysOf(queueKey) ==
    LET ct == ParseUndelegationQueueKeyForCompletionTime(queueKey)
    IN  {GetUnbondingIndexKey(e.val, ct, e.denom, Field(queueKey, 2)) :
         e \in Range(store[queueKey])}

EndBlock ==
    LET redelegations == Iterator(RedelegationQueueKey, GetRedelegationQueueKey(now))
        undelegations == Iterator(UndelegationQueueKey, GetUndelegationQueueKeyByTime(now))
    IN  /\ CompleteRedelegations
        /\ CompleteUndelegations
        /\ store' = Without(store, redelegations \cup undelegations
                                   \cup (UNION {RedelegationKeysOf(k) : k \in redelegations})
                                   \cup (UNION {IndexKeysOf(k) : k \in undelegations}))
        /\ now' = Min({now + 1, Horizon})
        /\ UNCHANGED <<ledgerVars, writes>>

Next ==
    \/ \E d \in Delegators, v \in Validators, n \in Denoms :
          \/ Delegate(d, v, n) \/ RemoveDelegation(d, v, n) \/ Undelegate(d, v, n)
          \/ \E src \in Validators : Redelegate(d, src, v, n)
    \/ \E n \in Denoms : ChangeWeight(n)
    \/ EndBlock

Spec == Init /\ [][Next]_vars

-----------------------------------------------------------------------------
(* The keys of each store of fields, as bytes. *)

RedelegationBytes(k) == GetRedelegationKey(k.del, k.denom, k.dst, k.ct)

RedelegationIndexBytes(k) == GetRedelegationIndexKey(k.src, k.ct, k.denom, k.dst, k.del)

UndelegationBytes(k) == GetUndelegationQueueKey(k.ct, k.del)

UnbondingIndexBytes(k) == GetUnbondingIndexKey(k.val, k.ct, k.denom, k.del)

DelegationBytes(k) == GetDelegationKey(k.del, k.val, k.denom)

SnapshotBytes(k) == GetRewardWeightChangeSnapshotKey(k.denom, k.val, k.height)

\* The map of bytes holds the stores of fields and nothing else: no two of their keys
\* are the same bytes, each value is under its key, and completions by ranges of bytes
\* delete what has completed by time, no more and no less.
StoreAgrees ==
    /\ DOMAIN store =
           {RedelegationBytes(k) : k \in DOMAIN redels}
           \cup {RedelegationIndexBytes(k) : k \in redelIndex}
           \cup {GetRedelegationQueueKey(ct) : ct \in DOMAIN redelQueue}
           \cup {UndelegationBytes(k) : k \in DOMAIN undelQueue}
           \cup {UnbondingIndexBytes(k) : k \in undelIndex}
           \cup {DelegationBytes(k) : k \in dels}
           \cup {GetAllianceValidatorInfoKey(v) : v \in infos}
           \cup {SnapshotBytes(k) : k \in snapshots}
    /\ Cardinality(DOMAIN store) =
           Cardinality(DOMAIN redels) + Cardinality(redelIndex)
           + Cardinality(DOMAIN redelQueue) + Cardinality(DOMAIN undelQueue)
           + Cardinality(undelIndex) + Cardinality(dels) + Cardinality(infos)
           + Cardinality(snapshots)
    /\ \A k \in DOMAIN redels : store[RedelegationBytes(k)] = redels[k]
    /\ \A ct \in DOMAIN redelQueue : store[GetRedelegationQueueKey(ct)] = redelQueue[ct]
    /\ \A k \in DOMAIN undelQueue : store[UndelegationBytes(k)] = undelQueue[k]
    /\ \A k \in dels : store[DelegationBytes(k)] = k

\* A scan of a prefix or a range finds the entries whose fields it asks for, and never
\* those of an address, denomination or time that begins with or follows the same bytes.
ScansAreExact ==
    /\ \A d \in Delegators, v \in Validators, n \in Denoms :
          /\ PrefixIterator(GetRedelegationsKey(d, n, v)) # {} <=> HasRedelegation(d, v, n)
          /\ PrefixIterator(GetDelegationsKey(d)) =
                 {DelegationBytes(k) : k \in {x \in dels : x.del = d}}
          /\ PrefixIterator(GetDelegationsKeyForAllDenoms(d, v)) =
                 {DelegationBytes(k) : k \in {x \in dels : x.del = d /\ x.val = v}}
    /\ \A v \in Validators, n \in Denoms, h \in 0 .. Horizon :
          Iterator(GetRewardWeightChangeSnapshotKey(n, v, h),
                   GetRewardWeightChangeSnapshotKey(n, v, MaxHeight)) =
             {SnapshotBytes(k) :
                 k \in {x \in snapshots : x.denom = n /\ x.val = v /\ x.height >= h}}

\* What a slash of a validator finds through an index leads to the stored redelegations
\* and buckets and to their times, and the keys an export reads give back their fields.
KeysLeadBack ==
    /\ \A v \in Validators :
          /\ {ParseRedelegationIndexForRedelegationKey(k) :
                 k \in PrefixIterator(GetRedelegationsIndexOrderedByValidatorKey(v))} =
             {[key |-> RedelegationBytes(x), completion |-> x.ct] :
                 x \in {y \in redelIndex : y.src = v}}
          /\ {ParseUnbondingIndexKeyToUndelegationKey(k) :
                 k \in PrefixIterator(GetUndelegationsIndexOrderedByValidatorKey(v))} =
             {[key |-> UndelegationBytes(x), completion |-> x.ct] :
                 x \in {y \in undelIndex : y.val = v}}
    /\ \A k \in DOMAIN redels :
          ParseRedelegationKeyForCompletionTime(RedelegationBytes(k)) = k.ct
    /\ {ParseRewardWeightChangeSnapshotKey(k) :
           k \in PrefixIterator(RewardWeightChangeSnapshotKey)} = snapshots
=============================================================================
