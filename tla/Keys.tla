-------------------------------- MODULE Keys --------------------------------
(***************************************************************************)
(* The keys of the x/alliance store as the bytes they are (types/keys.go). *)
(* The other modules take a prefix of the store for a function of fields.  *)
(* Here fields are byte strings, of different lengths as addresses and     *)
(* denominations are, which keys concatenate and handlers cut apart again. *)
(***************************************************************************)
EXTENDS Naturals, Sequences

ValidatorInfoKey                == <<18>>
RewardWeightChangeSnapshotKey   == <<20>>
DelegationKey                   == <<33>>
RedelegationKey                 == <<34>>
RedelegationQueueKey            == <<35>>
UndelegationQueueKey            == <<36>>
RedelegationByValidatorIndexKey == <<49>>
UndelegationByValidatorIndexKey == <<50>>

\* address.MustLengthPrefix.
LengthPrefix(bytes) == <<Len(bytes)>> \o bytes

\* Mutation: the least significant byte comes first.
FixedWidth_LittleEndian(t) == <<t % 2, t \div 2>>

\* sdk.FormatTimeBytes and Uint64ToBigEndian: all of one length, in the order of numbers.
FixedWidth(t) == <<t \div 2, t % 2>>

ParseFixedWidth(bytes) == 2 * bytes[1] + bytes[2]

CreateDenomAddressPrefix(denom) == Append(denom, 0)

-----------------------------------------------------------------------------
GetAllianceValidatorInfoKey(v) == ValidatorInfoKey \o LengthPrefix(v)

\* Mutation: the height comes before the validator.
GetRewardWeightChangeSnapshotKey_HeightFirst(n, v, h) ==
    RewardWeightChangeSnapshotKey \o LengthPrefix(CreateDenomAddressPrefix(n))
    \o FixedWidth(h) \o LengthPrefix(v)

GetRewardWeightChangeSnapshotKey(n, v, h) ==
    RewardWeightChangeSnapshotKey \o LengthPrefix(CreateDenomAddressPrefix(n))
    \o LengthPrefix(v) \o FixedWidth(h)

GetDelegationsKey(d) == DelegationKey \o LengthPrefix(d)

GetDelegationsKeyForAllDenoms(d, v) == GetDelegationsKey(d) \o LengthPrefix(v)

\* Mutation: the fields follow each other without their lengths.
GetDelegationKey_Joined(d, v, n) == DelegationKey \o d \o v \o n

GetDelegationKey(d, v, n) ==
    GetDelegationsKeyForAllDenoms(d, v) \o LengthPrefix(CreateDenomAddressPrefix(n))

GetRedelegationsKey(d, n, dst) ==
    RedelegationKey \o LengthPrefix(d) \o LengthPrefix(CreateDenomAddressPrefix(n))
    \o LengthPrefix(dst)

GetRedelegationKey(d, n, dst, ct) == GetRedelegationsKey(d, n, dst) \o FixedWidth(ct)

GetRedelegationQueueKey(ct) == RedelegationQueueKey \o FixedWidth(ct)

GetRedelegationsIndexOrderedByValidatorKey(src) ==
    RedelegationByValidatorIndexKey \o LengthPrefix(src)

GetRedelegationIndexKey(src, ct, n, dst, d) ==
    GetRedelegationsIndexOrderedByValidatorKey(src) \o LengthPrefix(FixedWidth(ct))
    \o LengthPrefix(CreateDenomAddressPrefix(n)) \o LengthPrefix(dst) \o LengthPrefix(d)

GetUndelegationsIndexOrderedByValidatorKey(v) ==
    UndelegationByValidatorIndexKey \o LengthPrefix(v)

GetUnbondingIndexKey(v, ct, n, d) ==
    GetUndelegationsIndexOrderedByValidatorKey(v) \o LengthPrefix(FixedWidth(ct))
    \o LengthPrefix(CreateDenomAddressPrefix(n)) \o LengthPrefix(d)

GetUndelegationQueueKeyByTime(ct) == UndelegationQueueKey \o LengthPrefix(FixedWidth(ct))

GetUndelegationQueueKey(ct, d) == GetUndelegationQueueKeyByTime(ct) \o LengthPrefix(d)

-----------------------------------------------------------------------------
(* Parsing: an offset that jumps from one length to the next. *)

\* Where the length of the i-th field is, behind the byte of the kind.
Offset(key, i) ==
    LET offset[j \in 1 .. i] ==
            IF j = 1 THEN 2 ELSE offset[j - 1] + 1 + key[offset[j - 1]]
    IN  offset[i]

Field(key, i) == SubSeq(key, Offset(key, i) + 1, Offset(key, i) + key[Offset(key, i)])

\* All that follows the first i fields.
After(key, i) == SubSeq(key, Offset(key, i + 1), Len(key))

ParseRedelegationIndexForRedelegationKey(key) ==
    [key |-> RedelegationKey \o LengthPrefix(Field(key, 5)) \o LengthPrefix(Field(key, 3))
             \o LengthPrefix(Field(key, 4)) \o Field(key, 2),
     completion |-> ParseFixedWidth(Field(key, 2))]

\* Mutation: the delegator is looked for where the denomination is.
ParseUnbondingIndexKeyToUndelegationKey_WrongField(key) ==
    [key |-> UndelegationQueueKey \o LengthPrefix(Field(key, 2)) \o LengthPrefix(Field(key, 3)),
     completion |-> ParseFixedWidth(Field(key, 2))]

ParseUnbondingIndexKeyToUndelegationKey(key) ==
    [key |-> UndelegationQueueKey \o LengthPrefix(Field(key, 2)) \o LengthPrefix(Field(key, 4)),
     completion |-> ParseFixedWidth(Field(key, 2))]

ParseRedelegationQueueKey(key) == ParseFixedWidth(After(key, 0))

ParseRedelegationKeyForCompletionTime(key) == ParseFixedWidth(After(key, 3))

ParseUndelegationQueueKeyForCompletionTime(key) == ParseFixedWidth(Field(key, 1))

\* The bytes behind the kind and one length.
ParseAllianceValidatorKey(key) == SubSeq(key, 3, Len(key))

ParseRewardWeightChangeSnapshotKey(key) ==
    LET denom == Field(key, 1)
    IN  [denom |-> SubSeq(denom, 1, Len(denom) - 1), val |-> Field(key, 2),
         height |-> ParseFixedWidth(After(key, 2))]
=============================================================================
