------------------------- MODULE DelegationsProofs -------------------------
(***************************************************************************)
(* Theorems about Delegations, for every value of its constants.           *)
(***************************************************************************)
EXTENDS Delegations, DecTheorems, SequenceTheorems

(* Issued shares: the sum of a validator's delegations of a denomination.  *)

DelKeys == [del : Delegators, val : Validators, denom : Denoms]

\* A store of delegations: finitely many, each of a natural amount of shares.
DelStore(f) ==
    /\ f = [key \in DOMAIN f |-> f[key]]
    /\ IsFiniteSet(DOMAIN f)
    /\ DOMAIN f \subseteq DelKeys
    /\ \A key \in DOMAIN f : f[key] \in Nat

At(f, v, n) == {key \in DOMAIN f : key.val = v /\ key.denom = n}

Issued(f, v, n) == SumFunctionOnSet(f, At(f, v, n))

\* The delegations to a validator are finitely many keys of the store.
LEMMA AtPart ==
    ASSUME NEW f, DelStore(f), NEW v, NEW n, NEW S \in SUBSET At(f, v, n)
    PROVE  IsFiniteSet(S) /\ \A k \in S : k \in DOMAIN f /\ f[k] \in Nat
<1>1. S \subseteq DOMAIN f
    BY DEF At
<1>2. IsFiniteSet(S)
    BY <1>1, FS_Subset DEF DelStore
<1> QED
    BY <1>1, <1>2 DEF DelStore

\* What a validator has issued, summed over its delegations, is a natural.
LEMMA IssuedNat ==
    ASSUME NEW f, DelStore(f), NEW v, NEW n
    PROVE  Issued(f, v, n) \in Nat
<1> DEFINE S == At(f, v, n)
<1>1. IsFiniteSet(S) /\ \A k \in S : f[k] \in Nat
    BY AtPart
<1>2. SumFunctionOnSet(f, S) \in Nat
  <2> HIDE DEF S
  <2> QED BY <1>1, SumNat
<1> QED
    BY <1>2 DEF Issued

\* No delegation has more shares than its validator has issued.
LEMMA OwnAtMostIssued ==
    ASSUME NEW f, DelStore(f), NEW key \in DOMAIN f
    PROVE  f[key] \in 0 .. Issued(f, key.val, key.denom)
<1> DEFINE S == At(f, key.val, key.denom)
<1>0. S \ {key} \in SUBSET S
    OBVIOUS
<1>1. key \in S /\ IsFiniteSet(S) /\ IsFiniteSet(S \ {key})
  <2>1. key \in S
      BY DEF At
  <2> QED
      BY <1>0, <2>1, AtPart
<1>2. \A k \in S : f[k] \in Nat
    BY AtPart
<1>3. SumFunctionOnSet(f, S) = f[key] + SumFunctionOnSet(f, S \ {key})
  <2> HIDE DEF S
  <2>1. \A k \in S : f[k] \in Int
      BY <1>2
  <2> QED BY <1>1, <2>1, SumRemove
<1>4. SumFunctionOnSet(f, S \ {key}) \in Nat
  <2> HIDE DEF S
  <2> QED BY <1>1, <1>2, SumNat
<1>5. f[key] \in Nat
    BY DEF DelStore
<1> QED
    BY <1>3, <1>4, <1>5 DEF Issued

\* Setting a delegation changes what its validator has issued by the difference.
LEMMA IssuedPut ==
    ASSUME NEW f, DelStore(f), NEW key \in DelKeys, NEW x \in Nat
    PROVE  /\ DelStore(Put(f, key, x))
           /\ Issued(Put(f, key, x), key.val, key.denom) =
                  Issued(f, key.val, key.denom) - GetOr(f, key, 0) + x
           /\ \A v, n : key.val # v \/ key.denom # n =>
                  Issued(Put(f, key, x), v, n) = Issued(f, v, n)
<1> DEFINE g == Put(f, key, x)
<1>1. /\ DOMAIN g = DOMAIN f \cup {key}
      /\ g = [k \in DOMAIN g |-> g[k]]
      /\ g[key] = x
      /\ \A k \in DOMAIN f : k # key => g[k] = f[k]
    BY DEF Put
<1> HIDE DEF g
<1>2. DelStore(g)
  <2>1. IsFiniteSet(DOMAIN g)
      BY <1>1, FS_AddElement DEF DelStore
  <2> QED
      BY <1>1, <2>1 DEF DelStore
<1>3. Issued(g, key.val, key.denom) = Issued(f, key.val, key.denom) - GetOr(f, key, 0) + x
  <2> DEFINE S == At(f, key.val, key.denom)
  <2>1. At(g, key.val, key.denom) = S \cup {key}
      BY <1>1 DEF At
  <2>2. IsFiniteSet(S) /\ SumFunctionOnSet(f, S) \in Nat
      BY AtPart, IssuedNat DEF Issued
  <2>3. /\ \A k \in S : f[k] \in Int
        /\ \A k \in S \ {key} : g[k] = f[k]
      BY <1>1 DEF At, DelStore
  <2>4. GetOr(f, key, 0) = IF key \in S THEN f[key] ELSE 0
      BY DEF GetOr, At
  <2>5. SumFunctionOnSet(g, S \cup {key}) =
            SumFunctionOnSet(f, S) + g[key] - (IF key \in S THEN f[key] ELSE 0)
    <3>1. g[key] \in Int
        BY <1>1
    <3> HIDE DEF S
    <3> QED BY <2>2, <2>3, <3>1, SumPut
  <2>6. Issued(g, key.val, key.denom) = SumFunctionOnSet(g, S \cup {key})
      BY <2>1 DEF Issued
  <2>7. Issued(f, key.val, key.denom) = SumFunctionOnSet(f, S)
      BY DEF Issued
  <2>8. key \in S => f[key] \in Nat
      BY DEF At, DelStore
  <2> HIDE DEF S
  <2> QED
      BY <1>1, <2>2, <2>4, <2>5, <2>6, <2>7, <2>8
<1>4. ASSUME NEW v, NEW n, key.val # v \/ key.denom # n
      PROVE  Issued(g, v, n) = Issued(f, v, n)
  <2> DEFINE S == At(f, v, n)
  <2>1. At(g, v, n) = S /\ key \notin S
      BY <1>1, <1>4 DEF At
  <2>2. IsFiniteSet(S) /\ \A k \in S : f[k] \in Int /\ g[k] = f[k]
    <3>1. IsFiniteSet(S) /\ \A k \in S : k \in DOMAIN f /\ f[k] \in Nat
        BY AtPart
    <3> HIDE DEF S
    <3> QED
        BY <1>1, <2>1, <3>1
  <2>3. SumFunctionOnSet(g, S) = SumFunctionOnSet(f, S)
    <3> HIDE DEF S
    <3> QED BY <2>2, SumEqual
  <2> QED
      BY <2>1, <2>3 DEF Issued
<1> QED
    BY <1>2, <1>3, <1>4 DEF g

\* Deleting a delegation takes its shares away.
LEMMA IssuedWithout ==
    ASSUME NEW f, DelStore(f), NEW key \in DOMAIN f
    PROVE  /\ DelStore(Without(f, {key}))
           /\ Issued(Without(f, {key}), key.val, key.denom) =
                  Issued(f, key.val, key.denom) - f[key]
           /\ \A v, n : key.val # v \/ key.denom # n =>
                  Issued(Without(f, {key}), v, n) = Issued(f, v, n)
<1> DEFINE g == Without(f, {key})
<1>1. /\ DOMAIN g = DOMAIN f \ {key}
      /\ g = [k \in DOMAIN g |-> g[k]]
      /\ \A k \in DOMAIN g : g[k] = f[k]
    BY DEF Without, Restrict
<1> HIDE DEF g
<1>2. DelStore(g)
  <2>1. IsFiniteSet(DOMAIN g)
      BY <1>1, FS_RemoveElement DEF DelStore
  <2> QED
      BY <1>1, <2>1 DEF DelStore
<1>3. ASSUME NEW v, NEW n
      PROVE  Issued(g, v, n) = SumFunctionOnSet(f, At(f, v, n) \ {key})
  <2> DEFINE S == At(f, v, n) \ {key}
  <2>1. At(g, v, n) = S
      BY <1>1 DEF At
  <2>2. IsFiniteSet(S) /\ \A k \in S : f[k] \in Int /\ g[k] = f[k]
    <3>1. S \in SUBSET At(f, v, n)
        OBVIOUS
    <3>2. IsFiniteSet(S) /\ \A k \in S : k \in DOMAIN f /\ f[k] \in Nat
      <4> HIDE DEF S
      <4> QED BY <3>1, AtPart
    <3>3. \A k \in S : k # key
        OBVIOUS
    <3> HIDE DEF S
    <3> QED
        BY <1>1, <3>2, <3>3
  <2>3. SumFunctionOnSet(g, S) = SumFunctionOnSet(f, S)
    <3> HIDE DEF S
    <3> QED BY <2>2, SumEqual
  <2> QED
      BY <2>1, <2>3 DEF Issued
<1>4. Issued(g, key.val, key.denom) = Issued(f, key.val, key.denom) - f[key]
  <2> DEFINE S == At(f, key.val, key.denom)
  <2>1. key \in S /\ IsFiniteSet(S) /\ IsFiniteSet(S \ {key}) /\ \A k \in S : f[k] \in Int
    <3>1. key \in S
        BY DEF At
    <3>2. S \ {key} \in SUBSET S
        OBVIOUS
    <3>3. IsFiniteSet(S) /\ IsFiniteSet(S \ {key}) /\ \A k \in S : f[k] \in Nat
        BY <3>2, AtPart
    <3> HIDE DEF S
    <3> QED BY <3>1, <3>3
  <2>2. SumFunctionOnSet(f, S) = f[key] + SumFunctionOnSet(f, S \ {key})
    <3> HIDE DEF S
    <3> QED BY <2>1, SumRemove
  <2>3. SumFunctionOnSet(f, S \ {key}) \in Int
    <3>1. \A k \in S \ {key} : f[k] \in Int
        BY <2>1
    <3> HIDE DEF S
    <3> QED BY <2>1, <3>1, SumInt
  <2>4. Issued(g, key.val, key.denom) = SumFunctionOnSet(f, S \ {key})
      BY <1>3
  <2>5. Issued(f, key.val, key.denom) = SumFunctionOnSet(f, S)
      BY DEF Issued
  <2>6. f[key] \in Int
      BY <2>1
  <2> HIDE DEF S
  <2> QED
      BY <2>2, <2>3, <2>4, <2>5, <2>6
<1>5. ASSUME NEW v, NEW n, key.val # v \/ key.denom # n
      PROVE  Issued(g, v, n) = Issued(f, v, n)
  <2>1. At(f, v, n) \ {key} = At(f, v, n)
      BY <1>5 DEF At
  <2> QED
      BY <1>3, <2>1 DEF Issued
<1> QED
    BY <1>2, <1>4, <1>5 DEF g

-----------------------------------------------------------------------------
(* The ledger: delegations and positions that agree on issued shares.       *)

PositionOK(p) == p = [held |-> p.held, issued |-> p.issued]

PositionsOK(ps) ==
    /\ ps = [v \in Validators |-> ps[v]]
    /\ \A v \in Validators : ps[v] = [n \in Denoms |-> ps[v][n]]
    /\ \A v \in Validators, n \in Denoms : PositionOK(ps[v][n])

LedgerOK(f, ps) ==
    /\ DelStore(f)
    /\ PositionsOK(ps)
    /\ \A v \in Validators, n \in Denoms : ps[v][n].issued = Issued(f, v, n)

\* A delegation and its validator's position may change together.
LEMMA LedgerChange ==
    ASSUME NEW f, NEW ps, LedgerOK(f, ps), NEW v \in Validators, NEW n \in Denoms,
           NEW g, DelStore(g),
           \A w, m : v # w \/ n # m => Issued(g, w, m) = Issued(f, w, m),
           NEW p, PositionOK(p), p.issued = Issued(g, v, n)
    PROVE  LedgerOK(g, [ps EXCEPT ![v][n] = p])
<1> DEFINE qs == [ps EXCEPT ![v][n] = p]
<1>1. /\ DOMAIN ps = Validators
      /\ \A w \in Validators : DOMAIN ps[w] = Denoms
    BY DEF LedgerOK, PositionsOK
<1>2. /\ qs = [w \in Validators |-> qs[w]]
      /\ \A w \in Validators : qs[w] = [m \in Denoms |-> qs[w][m]]
      /\ qs[v][n] = p
      /\ \A w \in Validators, m \in Denoms : w # v \/ m # n => qs[w][m] = ps[w][m]
  <2>1. qs = [w \in Validators |-> IF w = v THEN [ps[v] EXCEPT ![n] = p] ELSE ps[w]]
      BY <1>1
  <2>2. \A w \in Validators : ps[w] = [m \in Denoms |-> ps[w][m]]
      BY DEF LedgerOK, PositionsOK
  <2> HIDE DEF qs
  <2> QED
      BY <1>1, <2>1, <2>2
<1> HIDE DEF qs
<1>3. PositionsOK(qs)
  <2>1. \A w \in Validators, m \in Denoms : PositionOK(qs[w][m])
      BY <1>2 DEF LedgerOK, PositionsOK
  <2> QED
      BY <1>2, <2>1 DEF PositionsOK
<1>4. ASSUME NEW w \in Validators, NEW m \in Denoms
      PROVE  qs[w][m].issued = Issued(g, w, m)
  <2>1. CASE w = v /\ m = n
      BY <1>2, <2>1
  <2>2. CASE w # v \/ m # n
      BY <1>2, <2>2 DEF LedgerOK
  <2> QED
      BY <2>1, <2>2
<1> QED
    BY <1>3, <1>4 DEF LedgerOK, qs

\* Never more than the delegation has.
LEMMA SharesToUpdateBound ==
    ASSUME NEW own \in Nat, NEW wanted, SharesToUpdate(own, wanted) \in Nat
    PROVE  SharesToUpdate(own, wanted) \in 0 .. own
<1>1. CASE WithinMargin(own, wanted) \/ wanted > own
    BY <1>1 DEF SharesToUpdate
<1>2. CASE ~(WithinMargin(own, wanted) \/ wanted > own)
  <2>1. SharesToUpdate(own, wanted) = wanted /\ ~(wanted > own)
      BY <1>2 DEF SharesToUpdate
  <2> QED
      BY <2>1
<1> QED
    BY <1>1, <1>2

\* Subtracting what is there is exact.
LEMMA ReduceIssued ==
    ASSUME NEW p, p.issued \in Nat, NEW issued \in 0 .. p.issued, NEW held
    PROVE  /\ PositionOK(ReduceShares(p, issued, held))
           /\ ReduceShares(p, issued, held).issued = p.issued - issued
BY DEF PositionOK, ReduceShares, SubtractWithRounding

\* Withdrawing and clearing the dust take as many shares from the position as from
\* the delegation.
LEMMA WithdrawBalances ==
    ASSUME NEW d, NEW v \in Validators, NEW n \in Denoms, NEW amt, NEW asset,
           LedgerOK(dels, positions), CanWithdraw(d, v, n, amt)
    PROVE  LET key  == DelKey(d, v, n)
               left == ClearDust(Reduced(d, v, n, amt), asset)
           IN  /\ key \in DOMAIN dels /\ dels[key] \in Nat /\ left.own \in Nat
               /\ PositionOK(left.position)
               /\ left.position.issued = positions[v][n].issued - dels[key] + left.own
<1> DEFINE key == DelKey(d, v, n)
           own == dels[key]
           removed == SharesFor(d, v, n, amt)
           issued == positions[v][n].issued
           reduced == Reduced(d, v, n, amt)
<1>1. key \in DOMAIN dels /\ removed \in Nat
    BY DEF CanWithdraw, CanReduceShares
<1>2. own \in Nat /\ issued \in Nat /\ own =< issued
  <2>1. key.val = v /\ key.denom = n
      BY DEF DelKey
  <2>2. own \in 0 .. Issued(dels, v, n)
    <3> HIDE DEF key
    <3> QED BY <1>1, <2>1, OwnAtMostIssued DEF LedgerOK
  <2>3. issued = Issued(dels, v, n) /\ Issued(dels, v, n) \in Nat
      BY IssuedNat DEF LedgerOK
  <2> HIDE DEF key
  <2> QED
      BY <2>2, <2>3
<1>3. removed \in 0 .. own
    BY <1>1, <1>2, SharesToUpdateBound DEF SharesFor
<1> HIDE DEF key
<1>4. /\ reduced.own = own - removed
      /\ reduced.position.issued = issued - removed
  <2>1. /\ reduced.own = own - removed
        /\ reduced.position =
               ReduceShares(positions[v][n], removed, GetValidatorShares(assets[n], amt))
      BY DEF Reduced, key
  <2>2. removed \in 0 .. issued
      BY <1>2, <1>3
  <2> HIDE DEF removed
  <2> QED
      BY <1>2, <2>1, <2>2, ReduceIssued
<1> HIDE DEF removed, reduced, own, issued
<1> DEFINE isDust == GetDelegationTokensWithShares(reduced.own, reduced.position, asset) = 0
           dust == IF isDust THEN reduced.own ELSE 0
           deadHeld == IF TotalTokensWithAsset(reduced.position, asset) = 0
                       THEN reduced.position.held ELSE 0
           left == ClearDust(reduced, asset)
<1>5. left = [own |-> IF isDust THEN 0 ELSE reduced.own,
              position |-> ReduceShares(reduced.position, dust, deadHeld)]
    BY DEF ClearDust
<1> HIDE DEF isDust
<1>6. reduced.own \in Nat /\ reduced.position.issued \in Nat /\ dust \in 0 .. reduced.position.issued
    BY <1>2, <1>3, <1>4
<1>7. /\ PositionOK(left.position)
      /\ left.position.issued = reduced.position.issued - dust
  <2> HIDE DEF dust, deadHeld, left
  <2> QED BY <1>5, <1>6, ReduceIssued
<1>8. left.own \in Nat /\ left.own = reduced.own - dust
    BY <1>5, <1>6
<1>9. left.position.issued = issued - own + left.own
  <2> HIDE DEF dust, left
  <2> QED BY <1>2, <1>3, <1>4, <1>6, <1>7, <1>8
<1> QED
    BY <1>1, <1>2, <1>7, <1>8, <1>9 DEF key, own, issued, reduced, left

\* Storing or deleting a delegation, whichever its shares ask for.
LEMMA IssuedSetOrDelete ==
    ASSUME NEW f, DelStore(f), NEW key \in DOMAIN f, NEW x \in Nat
    PROVE  /\ DelStore(SetOrDelete(f, key, x))
           /\ Issued(SetOrDelete(f, key, x), key.val, key.denom) =
                  Issued(f, key.val, key.denom) - f[key] + x
           /\ \A v, n : key.val # v \/ key.denom # n =>
                  Issued(SetOrDelete(f, key, x), v, n) = Issued(f, v, n)
           /\ \A k : k # key => GetOr(SetOrDelete(f, key, x), k, 0) = GetOr(f, k, 0)
<1>0. f[key] \in Nat /\ key \in DelKeys /\ GetOr(f, key, 0) = f[key]
    BY DEF DelStore, GetOr
<1>1. CASE x = 0
  <2>1. SetOrDelete(f, key, x) = Without(f, {key})
      BY <1>1 DEF SetOrDelete
  <2>2. \A k : k # key => GetOr(Without(f, {key}), k, 0) = GetOr(f, k, 0)
      BY DEF GetOr, Without, Restrict
  <2>3. Issued(f, key.val, key.denom) \in Nat
      BY IssuedNat
  <2> QED
    <3> DEFINE g == Without(f, {key})
    <3>1. /\ DelStore(g)
          /\ Issued(g, key.val, key.denom) = Issued(f, key.val, key.denom) - f[key]
          /\ \A v, n : key.val # v \/ key.denom # n => Issued(g, v, n) = Issued(f, v, n)
        BY IssuedWithout
    <3> HIDE DEF g
    <3>2. Issued(g, key.val, key.denom) = Issued(f, key.val, key.denom) - f[key] + x
        BY <1>0, <1>1, <2>3, <3>1
    <3>3. SetOrDelete(f, key, x) = g
        BY <2>1 DEF g
    <3> QED
        BY <2>2, <3>1, <3>2, <3>3 DEF g
<1>2. CASE x # 0
  <2>1. SetOrDelete(f, key, x) = Put(f, key, x)
      BY <1>2 DEF SetOrDelete
  <2>2. \A k : k # key => GetOr(Put(f, key, x), k, 0) = GetOr(f, k, 0)
      BY DEF GetOr, Put
  <2> QED
      BY <1>0, <2>1, <2>2, IssuedPut
<1> QED
    BY <1>1, <1>2

-----------------------------------------------------------------------------
(* The messages.                                                           *)

\* New shares go to the delegation and to the validator's total alike.
LEMMA AddBalances ==
    ASSUME NEW f, NEW ps, LedgerOK(f, ps), NEW d \in Delegators, NEW v \in Validators,
           NEW n \in Denoms, NEW issued \in Nat, NEW held, NEW old,
           old = GetOr(f, DelKey(d, v, n), 0)
    PROVE  LedgerOK(Put(f, DelKey(d, v, n), old + issued),
                    [ps EXCEPT ![v][n] = AddShares(ps[v][n], issued, held)])
<1> DEFINE key == DelKey(d, v, n)
           g == Put(f, key, old + issued)
           p == AddShares(ps[v][n], issued, held)
<1>1. key \in DelKeys /\ key.val = v /\ key.denom = n
    BY DEF DelKey, DelKeys
<1> HIDE DEF key
<1>2. old \in Nat
    BY DEF GetOr, LedgerOK, DelStore, key
<1>3. /\ DelStore(g)
      /\ Issued(g, v, n) = Issued(f, v, n) - old + (old + issued)
      /\ \A w, m : v # w \/ n # m => Issued(g, w, m) = Issued(f, w, m)
  <2>1. old + issued \in Nat /\ DelStore(f) /\ old = GetOr(f, key, 0)
      BY <1>2 DEF LedgerOK, key
  <2> QED
      BY <1>1, <2>1, IssuedPut
<1>4. ps[v][n].issued = Issued(f, v, n) /\ Issued(f, v, n) \in Nat
    BY IssuedNat DEF LedgerOK
<1>5. PositionOK(p) /\ p.issued = ps[v][n].issued + issued
    BY DEF PositionOK, AddShares
<1> HIDE DEF g, p
<1>6. p.issued = Issued(g, v, n)
    BY <1>2, <1>3, <1>4, <1>5
<1>7. LedgerOK(g, [ps EXCEPT ![v][n] = p])
    BY <1>3, <1>5, <1>6, LedgerChange
<1> QED
    BY <1>7 DEF g, p, key

\* What is withdrawn leaves the delegation and the validator's total alike.
LEMMA RemoveBalances ==
    ASSUME LedgerOK(dels, positions), NEW d \in Delegators, NEW v \in Validators,
           NEW n \in Denoms, NEW amt, NEW asset, CanWithdraw(d, v, n, amt),
           NEW left, left = ClearDust(Reduced(d, v, n, amt), asset)
    PROVE  /\ DelKey(d, v, n) \in DOMAIN dels /\ left.own \in Nat
           /\ LedgerOK(SetOrDelete(dels, DelKey(d, v, n), left.own),
                       [positions EXCEPT ![v][n] = left.position])
<1> DEFINE key == DelKey(d, v, n)
           g == SetOrDelete(dels, key, left.own)
<1>1. /\ key \in DOMAIN dels /\ dels[key] \in Nat /\ left.own \in Nat
      /\ PositionOK(left.position)
      /\ left.position.issued = positions[v][n].issued - dels[key] + left.own
    BY WithdrawBalances
<1>2. key.val = v /\ key.denom = n
    BY DEF DelKey
<1> HIDE DEF key
<1>3. /\ DelStore(g)
      /\ Issued(g, v, n) = Issued(dels, v, n) - dels[key] + left.own
      /\ \A w, m : v # w \/ n # m => Issued(g, w, m) = Issued(dels, w, m)
  <2>1. DelStore(dels)
      BY DEF LedgerOK
  <2> QED
      BY <1>1, <1>2, <2>1, IssuedSetOrDelete
<1>4. positions[v][n].issued = Issued(dels, v, n)
    BY DEF LedgerOK
<1> HIDE DEF g
<1>5. left.position.issued = Issued(g, v, n)
    BY <1>1, <1>3, <1>4
<1>6. LedgerOK(g, [positions EXCEPT ![v][n] = left.position])
    BY <1>1, <1>3, <1>5, LedgerChange
<1> QED
    BY <1>1, <1>6 DEF g, key

\* Changing what validators hold leaves the ledger alone.
LEMMA HeldChange ==
    ASSUME NEW f, NEW ps, LedgerOK(f, ps), NEW qs, PositionsOK(qs),
           \A v \in Validators, n \in Denoms : qs[v][n].issued = ps[v][n].issued
    PROVE  LedgerOK(f, qs)
BY DEF LedgerOK

\* Delegate credits the delegation and the validator alike.
LEMMA DelegateKeepsLedger ==
    ASSUME LedgerOK(dels, positions), NEW d \in Delegators, NEW v \in Validators,
           NEW n \in Denoms, NEW amt, Delegate(d, v, n, amt)
    PROVE  LedgerOK(dels', positions')
<1> DEFINE issued == GetDelegationSharesFromTokens(positions[v][n], assets[n], amt)
           held == GetValidatorShares(assets[n], amt)
           old == GetOr(dels, DelKey(d, v, n), 0)
<1>1. /\ issued \in Nat
      /\ dels' = Put(dels, DelKey(d, v, n), old + issued)
      /\ positions' = [positions EXCEPT ![v][n] = AddShares(positions[v][n], issued, held)]
    BY DEF Delegate
<1> HIDE DEF issued, held
<1>2. LedgerOK(Put(dels, DelKey(d, v, n), old + issued),
               [positions EXCEPT ![v][n] = AddShares(positions[v][n], issued, held)])
    BY <1>1, AddBalances
<1> QED
    BY <1>1, <1>2

\* Redelegate balances the books of both validators.
LEMMA RedelegateKeepsLedger ==
    ASSUME LedgerOK(dels, positions), NEW d \in Delegators, NEW src \in Validators,
           NEW dst \in Validators, NEW n \in Denoms, NEW amt,
           Redelegate(d, src, dst, n, amt)
    PROVE  LedgerOK(dels', positions')
<1> DEFINE issued == GetDelegationSharesFromTokens(positions[dst][n], assets[n], amt)
           held == GetValidatorShares(assets[n], amt)
           left == ClearDust(Reduced(d, src, n, amt), assets[n])
           from == DelKey(d, src, n)
           to == DelKey(d, dst, n)
           f == SetOrDelete(dels, from, left.own)
           ps == [positions EXCEPT ![src][n] = left.position]
<1>1. /\ src # dst /\ CanWithdraw(d, src, n, amt)
      /\ issued \in Nat
      /\ dels' = Put(f, to, GetOr(dels, to, 0) + issued)
      /\ positions' = [positions EXCEPT ![src][n] = left.position,
                                        ![dst][n] = AddShares(@, issued, held)]
    BY DEF Redelegate
<1>2. from \in DOMAIN dels /\ left.own \in Nat /\ LedgerOK(f, ps)
  <2> HIDE DEF left
  <2>1. left = ClearDust(Reduced(d, src, n, amt), assets[n])
      BY DEF left
  <2> QED BY <1>1, <2>1, RemoveBalances
<1>3. to # from
    BY <1>1 DEF DelKey
<1>4. GetOr(f, to, 0) = GetOr(dels, to, 0)
  <2>1. DelStore(dels)
      BY DEF LedgerOK
  <2> HIDE DEF left, from, to
  <2> QED BY <1>2, <1>3, <2>1, IssuedSetOrDelete
<1> HIDE DEF issued, held, left
<1>5. /\ ps[dst][n] = positions[dst][n]
      /\ positions' = [ps EXCEPT ![dst][n] = AddShares(ps[dst][n], issued, held)]
  <2>1. dst \in DOMAIN positions /\ n \in DOMAIN positions[dst]
      BY DEF LedgerOK, PositionsOK
  <2> QED
      BY <1>1, <2>1
<1> HIDE DEF f, ps
<1>6. LedgerOK(Put(f, to, GetOr(f, to, 0) + issued),
               [ps EXCEPT ![dst][n] = AddShares(ps[dst][n], issued, held)])
    BY <1>1, <1>2, AddBalances
<1> QED
    BY <1>1, <1>4, <1>5, <1>6

\* Undelegate debits the delegation and the validator alike.
LEMMA UndelegateKeepsLedger ==
    ASSUME LedgerOK(dels, positions), NEW d \in Delegators, NEW v \in Validators,
           NEW n \in Denoms, NEW amt, Undelegate(d, v, n, amt)
    PROVE  LedgerOK(dels', positions')
<1> DEFINE asset == AssetAfter(n, amt)
           left == ClearDust(Reduced(d, v, n, amt), asset)
           after == [positions EXCEPT ![v][n] = left.position]
<1>1. /\ CanWithdraw(d, v, n, amt)
      /\ dels' = SetOrDelete(dels, DelKey(d, v, n), left.own)
      /\ positions' = IF asset.tokens = 0 THEN PositionsWithout(after, n) ELSE after
    BY DEF Undelegate
<1>2. LedgerOK(dels', after)
  <2> HIDE DEF left, asset
  <2>1. left = ClearDust(Reduced(d, v, n, amt), asset)
      BY DEF left
  <2> QED BY <1>1, <2>1, RemoveBalances
<1> HIDE DEF after, asset
<1>3. LedgerOK(dels', PositionsWithout(after, n))
  <2> DEFINE qs == PositionsWithout(after, n)
  <2>1. \A w \in Validators : after[w] = [m \in Denoms |-> after[w][m]]
      BY <1>2 DEF LedgerOK, PositionsOK
  <2>2. \A w \in Validators, m \in Denoms : PositionOK(after[w][m])
      BY <1>2 DEF LedgerOK, PositionsOK
  <2>3. /\ qs = [w \in Validators |-> qs[w]]
        /\ \A w \in Validators : qs[w] = [[m \in Denoms |-> after[w][m]] EXCEPT ![n].held = 0]
      BY <2>1 DEF PositionsWithout
  <2> HIDE DEF qs
  <2>4. /\ \A w \in Validators : qs[w] = [m \in Denoms |-> qs[w][m]]
        /\ \A w \in Validators, m \in Denoms :
               qs[w][m] = IF m = n THEN [after[w][m] EXCEPT !.held = 0] ELSE after[w][m]
    <3> SUFFICES ASSUME NEW w \in Validators
                 PROVE  /\ qs[w] = [m \in Denoms |-> qs[w][m]]
                        /\ \A m \in Denoms :
                              qs[w][m] = IF m = n THEN [after[w][m] EXCEPT !.held = 0]
                                         ELSE after[w][m]
        OBVIOUS
    <3>1. qs[w] = [m \in Denoms |-> IF m = n THEN [after[w][m] EXCEPT !.held = 0]
                                    ELSE after[w][m]]
        BY <2>3
    <3> QED
        BY <3>1
  <2>5. \A p : PositionOK(p) => /\ PositionOK([p EXCEPT !.held = 0])
                                /\ [p EXCEPT !.held = 0].issued = p.issued
      BY DEF PositionOK
  <2>6. PositionsOK(qs)
    <3>1. ASSUME NEW w \in Validators, NEW m \in Denoms
          PROVE  PositionOK(qs[w][m])
      <4> DEFINE p == after[w][m]
      <4>1. PositionOK(p) /\ PositionOK([p EXCEPT !.held = 0])
          BY <2>2, <2>5
      <4>2. qs[w][m] = p \/ qs[w][m] = [p EXCEPT !.held = 0]
          BY <2>4
      <4> HIDE DEF p
      <4> QED
          BY <4>1, <4>2, Zenon
    <3> QED
        BY <2>3, <2>4, <3>1 DEF PositionsOK
  <2>7. \A w \in Validators, m \in Denoms : qs[w][m].issued = after[w][m].issued
      BY <2>2, <2>4, <2>5
  <2>8. LedgerOK(dels', qs)
      BY <1>2, <2>6, <2>7, HeldChange
  <2> QED
      BY <2>8 DEF qs
<1> QED
    BY <1>1, <1>2, <1>3

-----------------------------------------------------------------------------
(* The slash.                                                              *)

StateOK(s) ==
    /\ s = [result |-> s.result, dels |-> s.dels, positions |-> s.positions,
            assets |-> s.assets]
    /\ LedgerOK(s.dels, s.positions)

\* A later state of the loop: the assets and what the validators hold are untouched.
After(s, start) ==
    /\ StateOK(s)
    /\ s.assets = start.assets
    /\ \A v \in Validators, n \in Denoms :
          s.positions[v][n].held = start.positions[v][n].held

\* One round of slashRedelegations.
LEMMA RoundKeepsLedger ==
    ASSUME NEW s, StateOK(s), NEW x, NEW f
    PROVE  After(SlashRedelegation(s, x, f), s)
<1> DEFINE n == x.denom
           key == DelKey(x.del, x.dst, n)
           record == redels[[del |-> x.del, denom |-> n, dst |-> x.dst, ct |-> x.ct]]
           own == s.dels[key]
           position == s.positions[x.dst][n]
           tokens == (f[1] * record.amt) \div f[2]
           wanted == GetDelegationSharesFromTokens(position, s.assets[n], tokens)
           removed == SharesToUpdate(own, wanted)
           out == SlashRedelegation(s, x, f)
           slashed == [s EXCEPT !.dels[key] = own - removed,
                                !.positions[x.dst][n].issued = @ - removed]
           done == key \in DOMAIN s.dels /\ removed \in 0 .. position.issued /\ out = slashed
<1>1. out = s \/ (\E r : out = [s EXCEPT !.result = r]) \/ done
  <2> HIDE DEF wanted, own, position, slashed
  <2> QED BY DEF SlashRedelegation, key, slashed, wanted, own, position
<1>2. CASE out = s
    BY <1>2 DEF After
<1>3. CASE \E r : out = [s EXCEPT !.result = r]
  <2>1. PICK r : out = [s EXCEPT !.result = r]
      BY <1>3
  <2> HIDE DEF out
  <2>2. /\ out = [result |-> r, dels |-> s.dels, positions |-> s.positions, assets |-> s.assets]
      BY <2>1 DEF StateOK
  <2> QED
      BY <2>2 DEF After, StateOK, out
<1>4. CASE done
  <2> DEFINE p == [position EXCEPT !.issued = @ - removed]
             g == Put(s.dels, key, own - removed)
             ps == [s.positions EXCEPT ![x.dst][n] = p]
  <2>1. /\ key \in DelKeys /\ key.val = x.dst /\ key.denom = n
        /\ x.dst \in Validators /\ n \in Denoms /\ own \in Nat
      BY <1>4 DEF StateOK, LedgerOK, DelStore, DelKey, DelKeys
  <2>2. removed \in 0 .. own
    <3>1. removed \in Nat
        BY <1>4, <2>1, IssuedNat DEF StateOK, LedgerOK
    <3> HIDE DEF own, wanted
    <3> QED BY <2>1, <3>1, SharesToUpdateBound
  <2>3. PositionOK(position) /\ position.issued = Issued(s.dels, x.dst, n)
      BY <2>1 DEF StateOK, LedgerOK, PositionsOK
  <2> HIDE DEF removed
  <2>4. /\ DelStore(g)
        /\ Issued(g, x.dst, n) = Issued(s.dels, x.dst, n) - own + (own - removed)
        /\ \A v, m : x.dst # v \/ n # m => Issued(g, v, m) = Issued(s.dels, v, m)
    <3>1. own - removed \in Nat /\ DelStore(s.dels) /\ GetOr(s.dels, key, 0) = own
        BY <1>4, <2>1, <2>2 DEF StateOK, LedgerOK, GetOr
    <3> HIDE DEF key, own
    <3> QED BY <2>1, <3>1, IssuedPut
  <2>5. PositionOK(p) /\ p.issued = position.issued - removed /\ p.held = position.held
      BY <2>3 DEF PositionOK
  <2>6. p.issued = Issued(g, x.dst, n)
    <3>1. Issued(s.dels, x.dst, n) \in Nat
        BY IssuedNat DEF StateOK, LedgerOK
    <3> HIDE DEF p, g, own, position
    <3> QED BY <2>1, <2>2, <2>3, <2>4, <2>5, <3>1
  <2>7. LedgerOK(g, ps)
    <3> HIDE DEF p, g, position, own
    <3>1. LedgerOK(s.dels, s.positions)
        BY DEF StateOK
    <3> QED BY <2>1, <2>4, <2>5, <2>6, <3>1, LedgerChange
  <2>8. out = [result |-> s.result, dels |-> g, positions |-> ps, assets |-> s.assets]
    <3>1. g = [s.dels EXCEPT ![key] = own - removed]
      <4>1. s.dels = [k \in DOMAIN s.dels |-> s.dels[k]] /\ key \in DOMAIN s.dels
          BY <1>4 DEF StateOK, LedgerOK, DelStore
      <4> HIDE DEF key, own
      <4>2. DOMAIN s.dels \cup {key} = DOMAIN s.dels
          BY <4>1
      <4> QED
          BY <4>1, <4>2 DEF Put
    <3>2. out = [s EXCEPT !.dels = [s.dels EXCEPT ![key] = own - removed],
                          !.positions = [s.positions EXCEPT ![x.dst][n] = p]]
        BY <1>4 DEF StateOK
    <3> HIDE DEF out, g
    <3> QED
        BY <3>1, <3>2 DEF StateOK
  <2>9. \A v \in Validators, m \in Denoms : ps[v][m].held = s.positions[v][m].held
    <3> HIDE DEF p
    <3> QED BY <2>5 DEF StateOK, LedgerOK, PositionsOK
  <2> HIDE DEF out, g, ps
  <2>10. StateOK(out)
      BY <2>7, <2>8 DEF StateOK
  <2>11. After(out, s)
      BY <2>8, <2>9, <2>10 DEF After
  <2> QED
      BY <2>11 DEF out
<1> QED
    BY <1>1, <1>2, <1>3, <1>4

\* The states that the loop of slashRedelegations goes through.
SlashStart(v, f) ==
    [result |-> "ok", dels |-> dels, positions |-> SlashedPositions(v, f),
     assets |-> SlashedAssets(v, f)]

RoundsEquation(v, f, order, len, g) ==
    g = [i \in 0 .. len |-> IF i = 0 THEN SlashStart(v, f)
                            ELSE SlashRedelegation(g[i - 1], order[i], f)]

Rounds(v, f, order, len) == CHOOSE g : RoundsEquation(v, f, order, len, g)

\* The fold of slashRedelegations is the last of its rounds.
LEMMA OutcomeIsLastRound ==
    ASSUME NEW v, NEW f, NEW order
    PROVE  SlashOutcome(v, f, order) = Rounds(v, f, order, Len(order))[Len(order)]
BY DEF SlashOutcome, Rounds, RoundsEquation, SlashStart

\* The rounds of slashRedelegations are well defined, as recursion on their number.
LEMMA RoundsExist ==
    ASSUME NEW v, NEW f, NEW order, NEW len \in Nat
    PROVE  RoundsEquation(v, f, order, len, Rounds(v, f, order, len))
<1> DEFINE N == {n \in Nat : \E g : RoundsEquation(v, f, order, n, g)}
<1>1. 0 \in N
  <2>1. RoundsEquation(v, f, order, 0, [i \in 0 .. 0 |-> SlashStart(v, f)])
      BY DEF RoundsEquation
  <2> QED
      BY <2>1
<1>2. ASSUME NEW n \in Nat, n \in N PROVE n + 1 \in N
  <2>1. PICK g : RoundsEquation(v, f, order, n, g)
      BY <1>2
  <2> DEFINE h == [i \in 0 .. n + 1 |->
                      IF i = n + 1 THEN SlashRedelegation(g[n], order[n + 1], f) ELSE g[i]]
  <2>2. ASSUME NEW i \in 0 .. n + 1
        PROVE  h[i] = IF i = 0 THEN SlashStart(v, f)
                      ELSE SlashRedelegation(h[i - 1], order[i], f)
    <3>1. CASE i = n + 1
        BY <3>1
    <3>2. CASE i # n + 1
      <4>1. i \in 0 .. n /\ h[i] = g[i] /\ (i # 0 => h[i - 1] = g[i - 1])
          BY <3>2
      <4>2. g[i] = IF i = 0 THEN SlashStart(v, f)
                   ELSE SlashRedelegation(g[i - 1], order[i], f)
          BY <2>1, <4>1 DEF RoundsEquation
      <4> QED
          BY <4>1, <4>2
    <3> QED
        BY <3>1, <3>2
  <2>3. RoundsEquation(v, f, order, n + 1, h)
      BY <2>2 DEF RoundsEquation
  <2> QED
      BY <2>3
<1>3. Nat \subseteq N
  <2> HIDE DEF N
  <2> QED BY <1>1, <1>2, NatSetInduction
<1> QED
    BY <1>3 DEF Rounds

\* Slashing what a validator holds does not change what it has issued.
LEMMA SlashedPositionsKeepLedger ==
    ASSUME LedgerOK(dels, positions), NEW v \in Validators, NEW f
    PROVE  LedgerOK(dels, SlashedPositions(v, f))
<1> DEFINE qs == SlashedPositions(v, f)
           cut(n) == [positions[v][n] EXCEPT !.held = @ - HeldToSlash(v, f, n)]
<1>1. /\ positions = [w \in Validators |-> positions[w]]
      /\ \A w \in Validators : positions[w] = [n \in Denoms |-> positions[w][n]]
      /\ \A w \in Validators, n \in Denoms : PositionOK(positions[w][n])
    BY DEF LedgerOK, PositionsOK
<1>2. qs = [w \in Validators |-> IF w = v THEN [n \in Denoms |-> cut(n)] ELSE positions[w]]
  <2>1. DOMAIN positions = Validators
      BY <1>1
  <2> QED
      BY <2>1 DEF SlashedPositions
<1>3. ASSUME NEW n \in Denoms
      PROVE  PositionOK(cut(n)) /\ cut(n).issued = positions[v][n].issued
  <2> DEFINE p == positions[v][n]
             x == p.held - HeldToSlash(v, f, n)
  <2>1. p = [held |-> p.held, issued |-> p.issued]
      BY <1>1 DEF PositionOK
  <2>2. cut(n) = [p EXCEPT !.held = x]
      OBVIOUS
  <2> HIDE DEF p, x, cut
  <2>3. cut(n) = [held |-> x, issued |-> p.issued]
      BY <2>1, <2>2
  <2> QED
      BY <2>3 DEF PositionOK, p
<1> HIDE DEF qs, cut
<1>4. PositionsOK(qs)
  <2>1. /\ qs = [w \in Validators |-> qs[w]]
        /\ qs[v] = [n \in Denoms |-> cut(n)]
        /\ \A w \in Validators : w # v => qs[w] = positions[w]
      BY <1>2
  <2>2. \A n \in Denoms : qs[v][n] = cut(n)
      BY <2>1
  <2>3. ASSUME NEW w \in Validators
        PROVE  qs[w] = [n \in Denoms |-> qs[w][n]]
      BY <1>1, <2>1
  <2>4. ASSUME NEW w \in Validators, NEW n \in Denoms
        PROVE  PositionOK(qs[w][n])
    <3>1. CASE w = v
        BY <1>3, <2>2, <3>1
    <3>2. CASE w # v
        BY <1>1, <2>1, <3>2
    <3> QED
        BY <3>1, <3>2
  <2> QED
      BY <2>1, <2>3, <2>4 DEF PositionsOK
<1>5. ASSUME NEW w \in Validators, NEW n \in Denoms
      PROVE  qs[w][n].issued = positions[w][n].issued
    BY <1>2, <1>3
<1> QED
    BY <1>4, <1>5, HeldChange DEF qs

\* All rounds together keep the ledger balanced.
LEMMA OutcomeKeepsLedger ==
    ASSUME LedgerOK(dels, positions), NEW v \in Validators, NEW f, NEW order,
           Len(order) \in Nat
    PROVE  After(SlashOutcome(v, f, order), SlashStart(v, f))
<1> DEFINE len == Len(order)
           g == Rounds(v, f, order, len)
           N == {n \in Nat : n =< len => After(g[n], SlashStart(v, f))}
<1>1. \A i \in 0 .. len :
          g[i] = IF i = 0 THEN SlashStart(v, f) ELSE SlashRedelegation(g[i - 1], order[i], f)
  <2>1. RoundsEquation(v, f, order, len, g)
      BY RoundsExist
  <2> HIDE DEF g
  <2> QED
      BY <2>1 DEF RoundsEquation
<1> HIDE DEF g
<1>2. After(SlashStart(v, f), SlashStart(v, f))
    BY SlashedPositionsKeepLedger DEF After, StateOK, SlashStart
<1>3. 0 \in N
    BY <1>1, <1>2
<1>4. ASSUME NEW n \in Nat, n \in N PROVE n + 1 \in N
  <2> SUFFICES ASSUME n + 1 =< len PROVE After(g[n + 1], SlashStart(v, f))
      OBVIOUS
  <2>1. After(g[n], SlashStart(v, f))
      BY <1>4
  <2>2. g[n + 1] = SlashRedelegation(g[n], order[n + 1], f)
      BY <1>1
  <2>3. After(g[n + 1], g[n])
      BY <2>1, <2>2, RoundKeepsLedger DEF After
  <2> QED
      BY <2>1, <2>3 DEF After
<1>5. Nat \subseteq N
  <2> HIDE DEF N
  <2> QED BY <1>3, <1>4, NatSetInduction
<1>6. After(g[len], SlashStart(v, f))
    BY <1>5
<1> QED
    BY <1>6, OutcomeIsLastRound DEF g

\* A slash, its rounds and the positions it cuts keep the ledger balanced.
LEMMA SlashKeepsLedger ==
    ASSUME LedgerOK(dels, positions), IsFiniteSet(redelIndex),
           NEW v \in Validators, NEW f, Slash(v, f)
    PROVE  /\ LedgerOK(dels', positions')
           /\ assets' = SlashedAssets(v, f)
           /\ \A w \in Validators, n \in Denoms :
                 positions'[w][n].held = SlashedPositions(v, f)[w][n].held
<1> DEFINE start == SlashStart(v, f)
<1>1. PICK order \in IterationOrders(RedelsToSlash(v)) :
          \E outcome \in SlashOutcomes(v, f, order) : ApplySlash(v, f, outcome)
    BY DEF Slash
<1>2. PICK outcome \in SlashOutcomes(v, f, order) :
          /\ dels' = outcome.dels
          /\ positions' = outcome.positions
          /\ assets' = outcome.assets
    BY <1>1 DEF ApplySlash
<1>3. order \in Seq(RedelsToSlash(v))
  <2> DEFINE entries == RedelsToSlash(v)
  <2>1. IsFiniteSet(entries)
    <3>1. entries \subseteq redelIndex
        BY DEF RedelsToSlash
    <3> QED
        BY <3>1, FS_Subset
  <2>2. Cardinality(entries) \in Nat
      BY <2>1, FS_CardinalityType
  <2>3. order \in [1 .. Cardinality(entries) -> entries]
      BY <1>1 DEF IterationOrders, SetToSeqs
  <2> HIDE DEF entries
  <2>4. order \in Seq(entries)
      BY <2>2, <2>3
  <2> QED
      BY <2>4 DEF entries
<1>4. After(SlashOutcome(v, f, order), start)
    BY <1>3, OutcomeKeepsLedger
<1>5. ASSUME NEW i \in DOMAIN order
      PROVE  After(SlashOutcome(v, f, SubSeq(order, 1, i - 1)), start)
  <2>1. ASSUME NEW entries, NEW seq \in Seq(entries), NEW j \in 1 .. Len(seq)
        PROVE  Len(SubSeq(seq, 1, j - 1)) \in Nat
    <3>1. 1 \in 1 .. Len(seq) + 1 /\ j - 1 \in 0 .. Len(seq)
        OBVIOUS
    <3>2. SubSeq(seq, 1, j - 1) \in Seq(entries)
        BY <3>1, SubSeqProperties
    <3> QED
        BY <3>2
  <2>2. Len(SubSeq(order, 1, i - 1)) \in Nat
      BY <1>3, <1>5, <2>1
  <2> QED
      BY <2>2, OutcomeKeepsLedger
<1>6. ASSUME NEW s, After(s, start), NEW r
      PROVE  After([s EXCEPT !.result = r], start)
  <2> HIDE DEF start
  <2> QED BY <1>6 DEF After, StateOK
<1> HIDE DEF start
<1>7. After(outcome, start)
    BY <1>2, <1>4, <1>5, <1>6 DEF SlashOutcomes
<1> QED
    BY <1>2, <1>7 DEF After, StateOK, start, SlashStart

-----------------------------------------------------------------------------
(* The invariant.                                                          *)

\* Inductive: the ledger balances, and only finitely many redelegations are pending.
LedgerInv == LedgerOK(dels, positions) /\ IsFiniteSet(redelIndex)

\* No delegation, nothing issued.
LEMMA InitLedgerInv == Init => LedgerInv
<1> SUFFICES ASSUME Init PROVE LedgerInv
    OBVIOUS
<1>1. DOMAIN dels = {} /\ dels = [key \in DOMAIN dels |-> dels[key]]
    BY DEF Init, NoEntry
<1>2. DelStore(dels)
    BY <1>1, FS_EmptySet DEF DelStore
<1>3. ASSUME NEW v, NEW n PROVE Issued(dels, v, n) = 0
  <2>1. At(dels, v, n) = {}
      BY <1>1 DEF At
  <2> QED
      BY <2>1, SumEmpty DEF Issued
<1>4. PositionsOK(positions)
    BY DEF Init, PositionsOK, PositionOK, NoPosition
<1>5. \A v \in Validators, n \in Denoms : positions[v][n].issued = Issued(dels, v, n)
    BY <1>3 DEF Init, NoPosition
<1>6. IsFiniteSet(redelIndex)
    BY FS_EmptySet DEF Init, QueuesInit
<1> QED
    BY <1>2, <1>4, <1>5, <1>6 DEF LedgerInv, LedgerOK

\* Every message, governance step, slash and end of block keeps the books.
LEMMA NextLedgerInv == LedgerInv /\ [Next]_vars => LedgerInv'
<1> SUFFICES ASSUME LedgerInv, [Next]_vars
             PROVE  LedgerOK(dels', positions') /\ IsFiniteSet(redelIndex')
    BY DEF LedgerInv, LedgerOK
<1>0. LedgerOK(dels, positions) /\ IsFiniteSet(redelIndex)
    BY DEF LedgerInv
<1>1. ASSUME NEW n \in Denoms, CreateAlliance(n) \/ DeleteAlliance(n)
      PROVE  LedgerOK(dels', positions') /\ IsFiniteSet(redelIndex')
    BY <1>0, <1>1 DEF CreateAlliance, DeleteAlliance, redelVars
<1>2. ASSUME NEW d \in Delegators, NEW n \in Denoms, NEW amt \in Amounts,
             NEW v \in Validators, Delegate(d, v, n, amt)
      PROVE  LedgerOK(dels', positions') /\ IsFiniteSet(redelIndex')
  <2>1. UNCHANGED redelIndex
      BY <1>2 DEF Delegate, redelVars
  <2> QED
      BY <1>0, <1>2, <2>1, DelegateKeepsLedger
<1>3. ASSUME NEW d \in Delegators, NEW n \in Denoms, NEW amt \in Amounts,
             NEW v \in Validators, Undelegate(d, v, n, amt)
      PROVE  LedgerOK(dels', positions') /\ IsFiniteSet(redelIndex')
  <2>1. UNCHANGED redelIndex
      BY <1>3 DEF Undelegate, redelVars
  <2> QED
      BY <1>0, <1>3, <2>1, UndelegateKeepsLedger
<1>4. ASSUME NEW d \in Delegators, NEW n \in Denoms, NEW amt \in Amounts,
             NEW src \in Validators, NEW dst \in Validators, Redelegate(d, src, dst, n, amt)
      PROVE  LedgerOK(dels', positions') /\ IsFiniteSet(redelIndex')
  <2>1. PICK key : redelIndex' = redelIndex \cup {key}
      BY <1>4 DEF Redelegate, AddRedelegation
  <2>2. IsFiniteSet(redelIndex')
      BY <1>0, <2>1, FS_AddElement
  <2> QED
      BY <1>0, <1>4, <2>2, RedelegateKeepsLedger
<1>5. ASSUME NEW v \in Validators, NEW f \in Fractions, Slash(v, f)
      PROVE  LedgerOK(dels', positions') /\ IsFiniteSet(redelIndex')
  <2>1. UNCHANGED redelIndex
      BY <1>5 DEF Slash, ApplySlash, redelVars
  <2> QED
      BY <1>0, <1>5, <2>1, SlashKeepsLedger
<1>6. CASE NextBlock
  <2>1. /\ redelIndex' \subseteq redelIndex
        /\ UNCHANGED <<dels, positions>>
      BY <1>6 DEF NextBlock, EndBlock, CompleteRedelegations
  <2> QED
      BY <1>0, <2>1, FS_Subset
<1>7. CASE UNCHANGED vars
    BY <1>0, <1>7 DEF vars, redelVars, ledgerVars
<1> QED
    BY <1>1, <1>2, <1>3, <1>4, <1>5, <1>6, <1>7 DEF Next

\* In every reachable state the shares each validator has issued are exactly those of
\* the delegations to it (keeper/delegation.go adds and subtracts both together).
THEOREM LedgerInvariant == Spec => []LedgerInv
<1>1. Init => LedgerInv
    BY InitLedgerInv
<1>2. LedgerInv /\ [Next]_vars => LedgerInv'
    BY NextLedgerInv
<1> QED
    BY <1>1, <1>2, PTL DEF Spec

\* The shares a validator has issued are those of its delegations, after any number of
\* messages, roundings and slashes (invariants.go:61), for every scale of the decimals.
THEOREM DelegatorSharesHolds == Spec => []DelegatorSharesInvariant
<1>1. LedgerInv => DelegatorSharesInvariant
    BY DEF LedgerInv, LedgerOK, DelegatorSharesInvariant, Issued, At
<1> QED
    BY <1>1, LedgerInvariant, PTL

-----------------------------------------------------------------------------
(* The refinement: tokens behave as Unbonding promises.                    *)

AssetOK(a) == a = [tokens |-> a.tokens, shares |-> a.shares, start |-> a.start]

AssetsOK ==
    /\ assets = [n \in DOMAIN assets |-> assets[n]]
    /\ DOMAIN assets \subseteq Denoms
    /\ \A n \in DOMAIN assets : AssetOK(assets[n])

\* The tokens of each asset, which is all that Unbonding sees of the ledger.
TotalTokens(as) == [n \in DOMAIN as |-> as[n].tokens]

\* A new asset leaves the others alone.
LEMMA AssetPut ==
    ASSUME AssetsOK, NEW n \in Denoms, NEW a, AssetOK(a),
           assets' = Put(assets, n, a)
    PROVE  AssetsOK' /\ TotalTokens(assets') = Put(TotalTokens(assets), n, a.tokens)
<1>1. /\ DOMAIN assets' = DOMAIN assets \cup {n}
      /\ \A m \in DOMAIN assets' : assets'[m] = IF m = n THEN a ELSE assets[m]
      /\ assets' = [m \in DOMAIN assets' |-> assets'[m]]
    BY DEF Put
<1>2. AssetsOK'
    BY <1>1 DEF AssetsOK, AssetOK
<1>3. DOMAIN TotalTokens(assets) = DOMAIN assets
    BY DEF TotalTokens
<1>4. TotalTokens(assets') = Put(TotalTokens(assets), n, a.tokens)
    BY <1>1, <1>3 DEF TotalTokens, Put
<1> QED
    BY <1>2, <1>4

\* An asset that is deleted takes its tokens with it.
LEMMA AssetWithout ==
    ASSUME AssetsOK, NEW n, assets' = Without(assets, {n})
    PROVE  AssetsOK' /\ TotalTokens(assets') = Without(TotalTokens(assets), {n})
<1>1. /\ DOMAIN assets' = DOMAIN assets \ {n}
      /\ \A m \in DOMAIN assets' : assets'[m] = assets[m]
      /\ assets' = [m \in DOMAIN assets' |-> assets'[m]]
    BY DEF Without, Restrict
<1>2. AssetsOK'
    BY <1>1 DEF AssetsOK, AssetOK
<1>3. TotalTokens(assets') = Without(TotalTokens(assets), {n})
    BY <1>1 DEF TotalTokens, Without, Restrict
<1> QED
    BY <1>2, <1>3

\* An asset that changes leaves the others alone.
LEMMA AssetReplaced ==
    ASSUME AssetsOK, NEW n \in DOMAIN assets, NEW a, AssetOK(a),
           assets' = [assets EXCEPT ![n] = a]
    PROVE  AssetsOK' /\ TotalTokens(assets') = [TotalTokens(assets) EXCEPT ![n] = a.tokens]
<1>1. /\ DOMAIN assets' = DOMAIN assets
      /\ \A m \in DOMAIN assets' : assets'[m] = IF m = n THEN a ELSE assets[m]
      /\ assets' = [m \in DOMAIN assets' |-> assets'[m]]
    OBVIOUS
<1>2. AssetsOK'
    BY <1>1 DEF AssetsOK, AssetOK
<1>3. TotalTokens(assets') = [TotalTokens(assets) EXCEPT ![n] = a.tokens]
    BY <1>1 DEF TotalTokens
<1> QED
    BY <1>2, <1>3

\* The ledger starts where Unbonding starts.
LEMMA InitRefines == Init => AssetsOK /\ Tokens!Init
<1> SUFFICES ASSUME Init PROVE AssetsOK /\ Tokens!Init
    OBVIOUS
<1>1. PICK listed \in SUBSET Denoms :
          assets = [n \in listed |-> [tokens |-> 0, shares |-> 0, start |-> 0]]
    BY DEF Init
<1>2. AssetsOK
    BY <1>1 DEF AssetsOK, AssetOK
<1>3. [n \in DOMAIN assets |-> assets[n].tokens] = [n \in listed |-> 0]
    BY <1>1
<1>4. Tokens!QueuesInit
    BY DEF Init, QueuesInit, NoEntry, Tokens!QueuesInit, Tokens!NoEntry
<1> QED
    BY <1>2, <1>3, <1>4 DEF Init, Tokens!Init

\* The stores that both modules share change by the same operators.
LEMMA SameStores ==
    /\ \A e : AddRedelegation(e) <=> Tokens!AddRedelegation(e)
    /\ \A d, e : QueueUndelegation(d, e) <=> Tokens!QueueUndelegation(d, e)
    /\ \A d, v, n : HasRedelegation(d, v, n) <=> Tokens!HasRedelegation(d, v, n)
    /\ \A queue, key, max : Room(queue, key, max) <=> Tokens!Room(queue, key, max)
    /\ CompletionTime = Tokens!CompletionTime
    /\ CompleteRedelegations <=> Tokens!CompleteRedelegations
    /\ CompleteUndelegations <=> Tokens!CompleteUndelegations
    /\ \A d, n : Payout(d, n) = Tokens!Payout(d, n)
    /\ \A v, f : SlashUndelegations(v, f) <=> Tokens!SlashUndelegations(v, f)
    /\ \A v, f, n : SlashTaken(v, f, n) = Tokens!SlashTaken(v, f, n)
<1>1. \A e : AddRedelegation(e) <=> Tokens!AddRedelegation(e)
    BY DEF AddRedelegation, CompletionTime, RedelKey, RedelIndexKey, Enqueue, Put, GetOr,
           Tokens!AddRedelegation, Tokens!CompletionTime, Tokens!RedelKey,
           Tokens!RedelIndexKey, Tokens!Enqueue, Tokens!Put, Tokens!GetOr
<1>2. \A d, e : QueueUndelegation(d, e) <=> Tokens!QueueUndelegation(d, e)
    BY DEF QueueUndelegation, CompletionTime, UndelIndexKey, Enqueue, Put, GetOr,
           Tokens!QueueUndelegation, Tokens!CompletionTime, Tokens!UndelIndexKey,
           Tokens!Enqueue, Tokens!Put, Tokens!GetOr
<1>3. /\ \A d, v, n : HasRedelegation(d, v, n) <=> Tokens!HasRedelegation(d, v, n)
      /\ \A queue, key, max : Room(queue, key, max) <=> Tokens!Room(queue, key, max)
      /\ CompletionTime = Tokens!CompletionTime
    BY DEF HasRedelegation, Tokens!HasRedelegation, Room, Tokens!Room, GetOr, Tokens!GetOr,
           CompletionTime, Tokens!CompletionTime
<1>4. CompleteRedelegations <=> Tokens!CompleteRedelegations
    BY DEF CompleteRedelegations, CompletedRedels, DueRedels, PendingRedels, Queued, Without,
           RedelKey, RedelIndexKey, Tokens!CompleteRedelegations, Tokens!CompletedRedels,
           Tokens!DueRedels, Tokens!PendingRedels, Tokens!Queued, Tokens!Without,
           Tokens!RedelKey, Tokens!RedelIndexKey, Range, Tokens!Range, Restrict, Tokens!Restrict
<1>5. CompleteUndelegations <=> Tokens!CompleteUndelegations
    BY DEF CompleteUndelegations, CompletedUndels, DueUndels, PendingUndels, Queued, Without,
           UndelIndexKey, Tokens!CompleteUndelegations, Tokens!CompletedUndels,
           Tokens!DueUndels, Tokens!PendingUndels, Tokens!Queued, Tokens!Without,
           Tokens!UndelIndexKey, Range, Tokens!Range, Restrict, Tokens!Restrict
<1>6. \A d, n : Payout(d, n) = Tokens!Payout(d, n)
    BY DEF Payout, AmountIn, DueUndels, Tokens!Payout, Tokens!AmountIn, Tokens!DueUndels,
           SumFunction, SumFunctionOnSet, FoldFunctionOnSet, MapThenFoldSet, Tokens!SumFunction,
           Tokens!SumFunctionOnSet, Tokens!FoldFunctionOnSet, Tokens!MapThenFoldSet
<1>7. \A v, f : SlashUndelegations(v, f) <=> Tokens!SlashUndelegations(v, f)
    BY DEF SlashUndelegations, SlashedEntry, SlashedAmount, Visits, Tokens!SlashUndelegations,
           Tokens!SlashedEntry, Tokens!SlashedAmount, Tokens!Visits, Cardinality, Tokens!Cardinality
<1>8. \A v, f, n : SlashTaken(v, f, n) = Tokens!SlashTaken(v, f, n)
    BY DEF SlashTaken, SlashedEntry, SlashedAmount, Visits, Tokens!SlashTaken,
           Tokens!SlashedEntry, Tokens!SlashedAmount, Tokens!Visits, Cardinality, Tokens!Cardinality,
           SumFunction, SumFunctionOnSet, FoldFunctionOnSet, MapThenFoldSet, Tokens!SumFunction,
           Tokens!SumFunctionOnSet, Tokens!FoldFunctionOnSet, Tokens!MapThenFoldSet
<1> QED
    BY <1>1, <1>2, <1>3, <1>4, <1>5, <1>6, <1>7, <1>8

\* A proposal adds or drops an asset without tokens.
LEMMA ProposalRefines ==
    ASSUME AssetsOK, NEW n \in Denoms, CreateAlliance(n) \/ DeleteAlliance(n)
    PROVE  AssetsOK' /\ (Tokens!CreateAlliance(n) \/ Tokens!DeleteAlliance(n))
<1>1. CASE CreateAlliance(n)
  <2> DEFINE a == [tokens |-> 0, shares |-> 0, start |-> now + RewardDelay]
  <2>1. AssetOK(a) /\ a.tokens = 0 /\ assets' = Put(assets, n, a)
      BY <1>1 DEF CreateAlliance, AssetOK
  <2> HIDE DEF a
  <2>2. AssetsOK' /\ TotalTokens(assets') = Put(TotalTokens(assets), n, 0)
      BY <2>1, AssetPut
  <2>3. Tokens!CreateAlliance(n)
      BY <1>1, <2>2 DEF CreateAlliance, Tokens!CreateAlliance, InGov, Tokens!InGov, TotalTokens,
             Put, Tokens!Put, redelVars, undelVars, bankVars, Tokens!redelVars,
             Tokens!undelVars, Tokens!bankVars
  <2> QED
      BY <2>2, <2>3
<1>2. CASE DeleteAlliance(n)
  <2>1. AssetsOK' /\ TotalTokens(assets') = Without(TotalTokens(assets), {n})
      BY <1>2, AssetWithout DEF DeleteAlliance
  <2>2. Tokens!DeleteAlliance(n)
      BY <1>2, <2>1 DEF DeleteAlliance, Tokens!DeleteAlliance, InGov, Tokens!InGov, TotalTokens,
             Without, Tokens!Without, Restrict, Tokens!Restrict, redelVars, undelVars, bankVars,
             Tokens!redelVars, Tokens!undelVars, Tokens!bankVars
  <2> QED
      BY <2>1, <2>2
<1> QED
    BY <1>1, <1>2

AssetWith(a, x, y) == [a EXCEPT !.tokens = x, !.shares = y]

\* An asset whose tokens and shares change is an asset.
LEMMA AssetExcept ==
    ASSUME NEW a, AssetOK(a), NEW x, NEW y
    PROVE  AssetWith(a, x, y) = [tokens |-> x, shares |-> y, start |-> a.start]
<1> DEFINE b == [tokens |-> x, shares |-> a.shares, start |-> a.start]
<1>1. [a EXCEPT !.tokens = x] = b
    BY DEF AssetOK
<1>2. [b EXCEPT !.shares = y] = [tokens |-> x, shares |-> y, start |-> a.start]
    OBVIOUS
<1> HIDE DEF b
<1> QED
    BY <1>1, <1>2 DEF AssetWith

\* What Undelegate leaves of an asset.
LEMMA AssetAfterTokens ==
    ASSUME NEW n, NEW amt, AssetOK(assets[n])
    PROVE  /\ AssetOK(AssetAfter(n, amt))
           /\ AssetAfter(n, amt).tokens = assets[n].tokens - amt
           /\ AssetAfter(n, amt).start = assets[n].start
<1> DEFINE x == assets[n].tokens - amt
           y == assets[n].shares - GetValidatorShares(assets[n], amt)
           asset == AssetAfter(n, amt)
<1>1. asset = AssetWith(assets[n], x, y)
    BY DEF AssetAfter, AssetWith
<1> HIDE DEF x, y, asset
<1>2. asset = [tokens |-> x, shares |-> y, start |-> assets[n].start]
    BY <1>1, AssetExcept
<1>3. AssetOK(asset) /\ asset.tokens = x /\ asset.start = assets[n].start
    BY <1>2 DEF AssetOK
<1> QED
    BY <1>3 DEF x, asset

\* What Delegate makes of its asset.
LEMMA DelegatedAsset ==
    ASSUME AssetsOK, NEW d, NEW v, NEW n, NEW amt, Delegate(d, v, n, amt)
    PROVE  /\ n \in DOMAIN assets
           /\ assets' = [assets EXCEPT ![n] =
                  [tokens |-> assets[n].tokens + amt,
                   shares |-> assets[n].shares + GetValidatorShares(assets[n], amt),
                   start |-> assets[n].start]]
<1> DEFINE held == GetValidatorShares(assets[n], amt)
           x == assets[n].tokens + amt
           y == assets[n].shares + held
           a == AssetWith(assets[n], x, y)
<1>1. assets' = [assets EXCEPT ![n].tokens = @ + amt, ![n].shares = @ + held]
    BY Zenon DEF Delegate
<1>2. n \in DOMAIN assets
    BY DEF Delegate
<1>3. assets' = [[assets EXCEPT ![n] = [assets[n] EXCEPT !.tokens = x]] EXCEPT ![n] = a]
    BY <1>1, <1>2 DEF AssetWith
<1>4. assets' = [assets EXCEPT ![n] = a]
  <2> HIDE DEF a, x
  <2> QED BY <1>2, <1>3 DEF AssetsOK
<1>5. a = [tokens |-> x, shares |-> y, start |-> assets[n].start]
  <2> HIDE DEF x, y
  <2> QED BY <1>2, AssetExcept DEF AssetsOK
<1> HIDE DEF a
<1> QED
    BY <1>2, <1>4, <1>5

\* Delegate adds its amount to the tokens of its asset.
LEMMA DelegateRefines ==
    ASSUME AssetsOK, NEW d, NEW v, NEW n, NEW amt, Delegate(d, v, n, amt)
    PROVE  AssetsOK' /\ Tokens!Delegate(d, n, amt)
<1>1. PICK y : /\ n \in DOMAIN assets
               /\ assets' = [assets EXCEPT ![n] = [tokens |-> assets[n].tokens + amt,
                                                   shares |-> y, start |-> assets[n].start]]
    BY DelegatedAsset
<1> DEFINE a == [tokens |-> assets[n].tokens + amt, shares |-> y, start |-> assets[n].start]
<1>2. AssetOK(a) /\ a.tokens = assets[n].tokens + amt
    BY DEF AssetOK
<1> HIDE DEF a
<1>3. /\ AssetsOK'
      /\ TotalTokens(assets') = [TotalTokens(assets) EXCEPT ![n] = assets[n].tokens + amt]
  <2>1. n \in DOMAIN assets /\ assets' = [assets EXCEPT ![n] = a]
      BY <1>1 DEF a
  <2>2. /\ AssetsOK'
        /\ TotalTokens(assets') = [TotalTokens(assets) EXCEPT ![n] = a.tokens]
      BY <1>2, <2>1, AssetReplaced
  <2> QED
      BY <1>2, <2>2
<1>4. Tokens!Delegate(d, n, amt)
    BY <1>1, <1>3 DEF Delegate, Tokens!Delegate, InMessages, Tokens!InMessages, TotalTokens,
           redelVars, undelVars, Tokens!redelVars, Tokens!undelVars
<1> QED
    BY <1>3, <1>4

\* Redelegate moves shares only.
LEMMA RedelegateRefines ==
    ASSUME AssetsOK, NoOverdraw, NEW d \in Delegators, NEW src \in Validators, NEW dst,
           NEW n \in Denoms, NEW amt \in Amounts, Redelegate(d, src, dst, n, amt)
    PROVE  AssetsOK' /\ Tokens!Redelegate(d, src, dst, n, amt)
<1>1. UNCHANGED assets
    BY DEF Redelegate
<1>2. AssetsOK'
    BY <1>1 DEF AssetsOK, AssetOK
<1>3. CanWithdraw(d, src, n, amt)
    BY DEF Redelegate
<1>4. n \in DOMAIN assets /\ amt =< assets[n].tokens
    BY <1>3 DEF NoOverdraw, CanWithdraw
<1>5. Tokens!Withdrawable(n, amt)
    BY <1>4 DEF Tokens!Withdrawable
<1>6. Tokens!Redelegate(d, src, dst, n, amt)
    BY <1>1, <1>5, SameStores DEF Redelegate, Tokens!Redelegate, InMessages, Tokens!InMessages,
           undelVars, bankVars, Tokens!undelVars, Tokens!bankVars
<1> QED
    BY <1>2, <1>6

\* Undelegate takes its amount from the tokens of its asset; when none is left it resets
\* shares only.
LEMMA UndelegateRefines ==
    ASSUME AssetsOK, NoOverdraw, NEW d \in Delegators, NEW v \in Validators,
           NEW n \in Denoms, NEW amt \in Amounts, Undelegate(d, v, n, amt)
    PROVE  AssetsOK' /\ Tokens!Undelegate(d, v, n, amt)
<1>1. CanWithdraw(d, v, n, amt)
    BY DEF Undelegate
<1>2. n \in DOMAIN assets /\ amt =< assets[n].tokens
    BY <1>1 DEF NoOverdraw, CanWithdraw
<1> DEFINE asset == AssetAfter(n, amt)
           a == IF asset.tokens = 0 THEN [asset EXCEPT !.shares = 0] ELSE asset
<1>3. assets' = [assets EXCEPT ![n] = a]
    BY DEF Undelegate
<1>4. AssetOK(asset) /\ asset.tokens = assets[n].tokens - amt
    BY <1>2, AssetAfterTokens DEF AssetsOK
<1>5. AssetOK(a) /\ a.tokens = asset.tokens
  <2> HIDE DEF asset
  <2> QED BY <1>4 DEF AssetOK
<1> HIDE DEF a, asset
<1>6. /\ AssetsOK'
      /\ TotalTokens(assets') = [TotalTokens(assets) EXCEPT ![n] = assets[n].tokens - amt]
    BY <1>2, <1>3, <1>4, <1>5, AssetReplaced
<1>7. Tokens!Withdrawable(n, amt)
    BY <1>2 DEF Tokens!Withdrawable
<1>8. Tokens!Undelegate(d, v, n, amt)
    BY <1>2, <1>6, <1>7, SameStores DEF Undelegate, Tokens!Undelegate, InMessages,
           Tokens!InMessages, TotalTokens, redelVars, bankVars, Tokens!redelVars, Tokens!bankVars
<1> QED
    BY <1>6, <1>8

\* A slash cuts shares of assets but none of their tokens; one that ends with an error
\* moves no token at all.
LEMMA SlashRefines ==
    ASSUME LedgerInv, AssetsOK, NEW v \in Validators, NEW f, Slash(v, f)
    PROVE  AssetsOK' /\ (Tokens!Slash(v, f) \/ UNCHANGED Tokens!vars)
<1>1. assets' = SlashedAssets(v, f)
    BY SlashKeepsLedger DEF LedgerInv
<1>2. /\ assets' = [n \in DOMAIN assets |-> assets'[n]]
      /\ DOMAIN assets' = DOMAIN assets
      /\ \A n \in DOMAIN assets :
             assets'[n] = [assets[n] EXCEPT !.shares = @ - HeldToSlash(v, f, n)]
    BY <1>1 DEF SlashedAssets
<1>3. ASSUME NEW n \in DOMAIN assets
      PROVE  AssetOK(assets'[n]) /\ assets'[n].tokens = assets[n].tokens
    BY <1>2 DEF AssetsOK, AssetOK
<1>4. AssetsOK'
    BY <1>2, <1>3 DEF AssetsOK, AssetOK
<1>5. TotalTokens(assets') = TotalTokens(assets)
    BY <1>2, <1>3 DEF TotalTokens
<1>6. PICK outcome : ApplySlash(v, f, outcome)
    BY DEF Slash
<1>7. CASE SlashUndelegations(v, f)
           /\ escrow' = [n \in Denoms |-> escrow[n] - SlashTaken(v, f, n)]
           /\ collected' = [n \in Denoms |-> collected[n] + SlashTaken(v, f, n)]
    BY <1>4, <1>5, <1>6, <1>7, SameStores DEF ApplySlash, InBegin, Tokens!InBegin, Tokens!Slash,
           TotalTokens, redelVars, Tokens!redelVars
<1>8. CASE UNCHANGED <<undelVars, escrow, collected>>
    BY <1>4, <1>5, <1>6, <1>8 DEF ApplySlash, InBegin, Tokens!vars, TotalTokens, redelVars, undelVars,
           Tokens!redelVars, Tokens!undelVars, Tokens!bankVars
<1> QED
    BY <1>4, <1>6, <1>7, <1>8 DEF ApplySlash

\* The end of a block takes its cut of the tokens of each asset.
LEMMA EndBlockRefines ==
    ASSUME AssetsOK, NextBlock
    PROVE  AssetsOK' /\ Tokens!NextBlock
<1>1. PICK gap \in BlockGaps, cut \in [Denoms -> {0} \cup Amounts] : EndBlock(gap, cut)
    BY DEF NextBlock
<1>2. assets' = [n \in DOMAIN assets |-> [assets[n] EXCEPT !.tokens = @ - cut[n]]]
    BY <1>1 DEF EndBlock
<1>3. /\ assets' = [n \in DOMAIN assets |-> assets'[n]]
      /\ DOMAIN assets' = DOMAIN assets
      /\ \A n \in DOMAIN assets : assets'[n] = [assets[n] EXCEPT !.tokens = @ - cut[n]]
    BY <1>2
<1>4. ASSUME NEW n \in DOMAIN assets
      PROVE  AssetOK(assets'[n]) /\ assets'[n].tokens = assets[n].tokens - cut[n]
    BY <1>3 DEF AssetsOK, AssetOK
<1>5. AssetsOK'
    BY <1>3, <1>4 DEF AssetsOK, AssetOK
<1>6. TotalTokens(assets') = [n \in DOMAIN TotalTokens(assets) |->
                                 TotalTokens(assets)[n] - cut[n]]
    BY <1>3, <1>4 DEF TotalTokens
<1>7. /\ \A n \in DOMAIN TotalTokens(assets) : cut[n] = 0 \/ cut[n] < TotalTokens(assets)[n]
      /\ \A n \in Denoms \ DOMAIN TotalTokens(assets) : cut[n] = 0
    BY <1>1 DEF EndBlock, TotalTokens, AssetsOK
<1>8. now' = Tokens!Min2(now + gap, Tokens!Horizon)
    BY <1>1 DEF EndBlock, Tokens!Min2, Horizon, Tokens!Horizon
<1>9. escrow' = [n \in Denoms |->
                    escrow[n] - Tokens!SumFunction([d \in Delegators |-> Tokens!Payout(d, n)])
                        - cut[n]]
  <2>1. \A g : SumFunction(g) = Tokens!SumFunction(g)
      BY DEF SumFunction, SumFunctionOnSet, FoldFunctionOnSet, MapThenFoldSet,
             Tokens!SumFunction, Tokens!SumFunctionOnSet, Tokens!FoldFunctionOnSet,
             Tokens!MapThenFoldSet
  <2>2. \A n : [d \in Delegators |-> Payout(d, n)] = [d \in Delegators |-> Tokens!Payout(d, n)]
      BY SameStores
  <2> QED
      BY <1>1, <2>1, <2>2 DEF EndBlock
<1>10. Tokens!EndBlock(gap, cut)
    BY <1>1, <1>6, <1>7, <1>8, <1>9, SameStores DEF EndBlock, Tokens!EndBlock, TotalTokens
<1> QED
    BY <1>1, <1>5, <1>10 DEF Tokens!NextBlock

\* Every step of the ledger is a step of Unbonding or leaves its variables alone.
LEMMA StepRefines ==
    LedgerInv /\ AssetsOK /\ NoOverdraw /\ [Next]_vars =>
        AssetsOK' /\ [Tokens!Next]_(Tokens!vars)
<1> SUFFICES ASSUME LedgerInv, AssetsOK, NoOverdraw, [Next]_vars
             PROVE  AssetsOK' /\ [Tokens!Next]_(Tokens!vars)
    OBVIOUS
<1>1. ASSUME NEW n \in Denoms, CreateAlliance(n) \/ DeleteAlliance(n)
      PROVE  AssetsOK' /\ Tokens!Next
    BY <1>1, ProposalRefines DEF Tokens!Next
<1>2. ASSUME NEW d \in Delegators, NEW n \in Denoms, NEW amt \in Amounts,
             NEW v \in Validators, Delegate(d, v, n, amt)
      PROVE  AssetsOK' /\ Tokens!Next
    BY <1>2, DelegateRefines DEF Tokens!Next
<1>3. ASSUME NEW d \in Delegators, NEW n \in Denoms, NEW amt \in Amounts,
             NEW v \in Validators, Undelegate(d, v, n, amt)
      PROVE  AssetsOK' /\ Tokens!Next
    BY <1>3, UndelegateRefines DEF Tokens!Next
<1>4. ASSUME NEW d \in Delegators, NEW n \in Denoms, NEW amt \in Amounts,
             NEW src \in Validators, NEW dst \in Validators, Redelegate(d, src, dst, n, amt)
      PROVE  AssetsOK' /\ Tokens!Next
    BY <1>4, RedelegateRefines DEF Tokens!Next
<1>5. ASSUME NEW v \in Validators, NEW f \in Fractions, Slash(v, f)
      PROVE  AssetsOK' /\ [Tokens!Next]_(Tokens!vars)
    BY <1>5, SlashRefines DEF Tokens!Next
<1>6. CASE NextBlock
    BY <1>6, EndBlockRefines DEF Tokens!Next
<1>7. CASE UNCHANGED vars
  <2>1. AssetsOK'
      BY <1>7 DEF vars, ledgerVars, AssetsOK, AssetOK
  <2>2. UNCHANGED Tokens!vars
      BY <1>7 DEF vars, redelVars, undelVars, ledgerVars, bankVars, Tokens!vars,
             Tokens!redelVars, Tokens!undelVars, Tokens!bankVars
  <2> QED
      BY <2>1, <2>2
<1> QED
    BY <1>1, <1>2, <1>3, <1>4, <1>5, <1>6, <1>7 DEF Next

\* However shares are computed, rounded and slashed, the ledger moves tokens only as
\* Unbonding promises, as long as no withdrawal the arithmetic admits exceeds the asset.
THEOREM LedgerImplementsUnbonding == Spec /\ []NoOverdraw => ImplementsUnbonding
<1>1. Init => LedgerInv /\ AssetsOK /\ Tokens!Init
    BY InitLedgerInv, InitRefines
<1>2. LedgerInv /\ [Next]_vars => LedgerInv'
    BY NextLedgerInv
<1>3. LedgerInv /\ AssetsOK /\ NoOverdraw /\ [Next]_vars =>
          AssetsOK' /\ [Tokens!Next]_(Tokens!vars)
    BY StepRefines
<1> QED
    BY <1>1, <1>2, <1>3, PTL DEF Spec, ImplementsUnbonding, Tokens!Spec

-----------------------------------------------------------------------------
(* An asset that is not listed, or has no token left, is held by nobody.   *)

Bare(n) == n \notin DOMAIN assets \/ assets[n].tokens = 0

WhitelistInv ==
    /\ \A n \in DOMAIN assets : assets[n].tokens \in Nat
    /\ \A v \in Validators, n \in Denoms : Bare(n) => positions[v][n].held = 0

\* Nothing is taken from what nobody holds.
LEMMA NothingSlashed ==
    ASSUME NEW v, NEW f \in Fractions, NEW n, positions[v][n].held = 0
    PROVE  HeldToSlash(v, f, n) = 0
<1>1. FractionDec(f) \in Int
    BY FractionsAssumption, ScaleAssumption DEF FractionDec
<1>2. ASSUME NEW b \in Int PROVE Mul(0, b) = 0
  <2>1. 0 * b = 0 /\ 0 \div Scale = 0 /\ 0 % Scale = 0
      BY ScaleAssumption
  <2> QED
      BY <2>1, ScaleAssumption DEF Mul, RoundHalfEven
<1> QED
    BY <1>1, <1>2 DEF HeldToSlash

\* At first nobody holds anything.
LEMMA InitWhitelistInv == Init => WhitelistInv
<1> SUFFICES ASSUME Init PROVE WhitelistInv
    OBVIOUS
<1>1. \A n \in DOMAIN assets : assets[n].tokens = 0
    BY DEF Init
<1>2. \A v \in Validators, n \in Denoms : positions[v][n].held = 0
    BY DEF Init, NoPosition
<1> QED
    BY <1>1, <1>2 DEF WhitelistInv

\* What each step does to the tokens of the assets, taken from the refinement.
LEMMA TokensAfter ==
    /\ \A d, n, amt : Tokens!Delegate(d, n, amt) =>
          /\ n \in DOMAIN assets /\ DOMAIN assets' = DOMAIN assets
          /\ \A m \in DOMAIN assets : assets'[m].tokens =
                IF m = n THEN assets[n].tokens + amt ELSE assets[m].tokens
    /\ \A d, v, n, amt : Tokens!Undelegate(d, v, n, amt) =>
          /\ n \in DOMAIN assets /\ DOMAIN assets' = DOMAIN assets
          /\ amt =< assets[n].tokens
          /\ \A m \in DOMAIN assets : assets'[m].tokens =
                IF m = n THEN assets[n].tokens - amt ELSE assets[m].tokens
<1> DEFINE T == [n \in DOMAIN assets |-> assets[n].tokens]
<1>1. /\ DOMAIN T = DOMAIN assets
      /\ \A n \in DOMAIN assets : T[n] = assets[n].tokens
    OBVIOUS
<1>2. /\ DOMAIN T' = DOMAIN assets'
      /\ \A n \in DOMAIN assets' : T'[n] = assets'[n].tokens
    OBVIOUS
<1>3. \A d, n, amt : Tokens!Delegate(d, n, amt) =>
          n \in DOMAIN T /\ T' = [T EXCEPT ![n] = @ + amt]
    BY DEF Tokens!Delegate
<1>4. \A d, v, n, amt : Tokens!Undelegate(d, v, n, amt) =>
          n \in DOMAIN T /\ amt =< T[n] /\ T' = [T EXCEPT ![n] = @ - amt]
    BY DEF Tokens!Undelegate, Tokens!Withdrawable
<1> HIDE DEF T
<1> QED
    BY <1>1, <1>2, <1>3, <1>4

\* Delegate leaves its asset with tokens, and the others as they were.
LEMMA DelegateKeepsWhitelist ==
    ASSUME WhitelistInv, LedgerOK(dels, positions), AssetsOK, NEW d, NEW v \in Validators,
           NEW n, NEW amt \in Amounts, Delegate(d, v, n, amt)
    PROVE  WhitelistInv'
<1>1. Tokens!Delegate(d, n, amt)
    BY DelegateRefines
<1>2. /\ n \in DOMAIN assets /\ DOMAIN assets' = DOMAIN assets
      /\ \A m \in DOMAIN assets : assets'[m].tokens =
            IF m = n THEN assets[n].tokens + amt ELSE assets[m].tokens
    BY <1>1, TokensAfter
<1>3. PICK p : positions' = [positions EXCEPT ![v][n] = p]
    BY DEF Delegate
<1>4. \A w \in Validators, m \in Denoms : m # n => positions'[w][m] = positions[w][m]
    BY <1>3 DEF LedgerOK, PositionsOK
<1>5. amt \in Nat \ {0}
    BY AmountsAssumption
<1>6. \A m \in DOMAIN assets' : assets'[m].tokens \in Nat
    BY <1>2, <1>5 DEF WhitelistInv
<1>7. assets'[n].tokens # 0
    BY <1>2, <1>5 DEF WhitelistInv
<1>8. \A m \in Denoms : Bare(m)' => m # n /\ Bare(m)
    BY <1>2, <1>7 DEF Bare
<1> QED
    BY <1>4, <1>6, <1>8 DEF WhitelistInv

\* What Redelegate moves belongs to an asset with tokens.
LEMMA RedelegateKeepsWhitelist ==
    ASSUME WhitelistInv, LedgerOK(dels, positions), NoOverdraw,
           NEW d \in Delegators, NEW src \in Validators, NEW dst \in Validators,
           NEW n \in Denoms, NEW amt \in Amounts, Redelegate(d, src, dst, n, amt)
    PROVE  WhitelistInv'
<1>1. CanWithdraw(d, src, n, amt) /\ UNCHANGED assets
    BY DEF Redelegate
<1>2. n \in DOMAIN assets /\ amt =< assets[n].tokens
    BY <1>1 DEF NoOverdraw, CanWithdraw
<1>3. ~Bare(n)
    BY <1>2, AmountsAssumption DEF Bare, WhitelistInv
<1>4. PICK p, q : positions' = [positions EXCEPT ![src][n] = p, ![dst][n] = q]
    BY Zenon DEF Redelegate
<1>5. \A w \in Validators, m \in Denoms : m # n => positions'[w][m] = positions[w][m]
    BY <1>4 DEF LedgerOK, PositionsOK
<1> QED
    BY <1>1, <1>3, <1>5 DEF WhitelistInv, Bare

\* ResetAssetAndValidators clears what is held once the last token is taken.
LEMMA UndelegateKeepsWhitelist ==
    ASSUME WhitelistInv, LedgerOK(dels, positions), AssetsOK, NoOverdraw,
           NEW d \in Delegators, NEW v \in Validators,
           NEW n \in Denoms, NEW amt \in Amounts, Undelegate(d, v, n, amt)
    PROVE  WhitelistInv'
<1>1. Tokens!Undelegate(d, v, n, amt)
    BY UndelegateRefines
<1>2. /\ n \in DOMAIN assets /\ DOMAIN assets' = DOMAIN assets
      /\ amt =< assets[n].tokens
      /\ \A m \in DOMAIN assets : assets'[m].tokens =
            IF m = n THEN assets[n].tokens - amt ELSE assets[m].tokens
    BY <1>1, TokensAfter
<1>3. \A m \in DOMAIN assets' : assets'[m].tokens \in Nat
    BY <1>2, AmountsAssumption DEF WhitelistInv
<1> DEFINE asset == AssetAfter(n, amt)
           left == ClearDust(Reduced(d, v, n, amt), asset)
           after == [positions EXCEPT ![v][n] = left.position]
<1>4. /\ CanWithdraw(d, v, n, amt)
      /\ positions' = IF asset.tokens = 0 THEN PositionsWithout(after, n) ELSE after
    BY DEF Undelegate
<1>5. asset.tokens = assets[n].tokens - amt
    BY <1>2, AssetAfterTokens DEF AssetsOK
<1>6. PositionOK(left.position)
    BY <1>4, WithdrawBalances
<1> HIDE DEF asset, left
<1>7. /\ \A w \in Validators : after[w] = [m \in Denoms |-> after[w][m]]
      /\ \A w \in Validators, m \in Denoms : PositionOK(after[w][m])
      /\ \A w \in Validators, m \in Denoms : m # n => after[w][m] = positions[w][m]
    BY <1>6 DEF LedgerOK, PositionsOK
<1> HIDE DEF after
<1>8. \A w \in Validators, m \in Denoms : m # n => positions'[w][m] = positions[w][m]
    BY <1>4, <1>7 DEF PositionsWithout
<1>9. ASSUME assets'[n].tokens = 0, NEW w \in Validators
      PROVE  positions'[w][n].held = 0
  <2>1. positions' = PositionsWithout(after, n)
      BY <1>2, <1>4, <1>5, <1>9
  <2>2. positions'[w] = [after[w] EXCEPT ![n] = [@ EXCEPT !.held = 0]]
      BY <2>1 DEF PositionsWithout
  <2>3. positions'[w][n] = [after[w][n] EXCEPT !.held = 0]
      BY <1>7, <2>2
  <2>4. \A p : PositionOK(p) => [p EXCEPT !.held = 0].held = 0
      BY DEF PositionOK
  <2> QED
      BY <1>7, <2>3, <2>4
<1>10. ASSUME NEW w \in Validators, NEW m \in Denoms, Bare(m)'
       PROVE  positions'[w][m].held = 0
  <2>1. CASE m = n
      BY <1>2, <1>9, <1>10, <2>1 DEF Bare
  <2>2. CASE m # n
    <3>1. Bare(m)
        BY <1>2, <1>10, <2>2 DEF Bare
    <3> QED
        BY <1>8, <2>2, <3>1 DEF WhitelistInv
  <2> QED
      BY <2>1, <2>2
<1> QED
    BY <1>3, <1>10 DEF WhitelistInv

\* A slash leaves nothing where nothing was.
LEMMA SlashKeepsWhitelist ==
    ASSUME WhitelistInv, LedgerInv, AssetsOK, NEW v \in Validators, NEW f \in Fractions,
           Slash(v, f)
    PROVE  WhitelistInv'
<1>1. /\ assets' = SlashedAssets(v, f)
      /\ \A w \in Validators, n \in Denoms :
             positions'[w][n].held = SlashedPositions(v, f)[w][n].held
    BY SlashKeepsLedger DEF LedgerInv
<1>2. DOMAIN assets' = DOMAIN assets
    BY <1>1 DEF SlashedAssets
<1>3. ASSUME NEW n \in DOMAIN assets
      PROVE  assets'[n].tokens = assets[n].tokens
  <2>1. assets'[n] = [assets[n] EXCEPT !.shares = @ - HeldToSlash(v, f, n)]
      BY <1>1 DEF SlashedAssets
  <2> QED
      BY <2>1 DEF AssetsOK, AssetOK
<1>4. \A n \in Denoms : Bare(n)' => Bare(n)
    BY <1>2, <1>3 DEF Bare
<1>5. ASSUME NEW w \in Validators, NEW n \in Denoms, positions[w][n].held = 0
      PROVE  SlashedPositions(v, f)[w][n].held = 0
  <2>1. /\ v \in DOMAIN positions
        /\ PositionOK(positions[v][n])
      BY DEF LedgerInv, LedgerOK, PositionsOK
  <2>2. CASE w = v
    <3>1. SlashedPositions(v, f)[v][n]
            = [positions[v][n] EXCEPT !.held = @ - HeldToSlash(v, f, n)]
        BY <2>1 DEF SlashedPositions
    <3>2. HeldToSlash(v, f, n) = 0
        BY <1>5, <2>2, NothingSlashed
    <3> QED
        BY <1>5, <2>1, <2>2, <3>1, <3>2 DEF PositionOK
  <2>3. CASE w # v
      BY <1>5, <2>1, <2>3 DEF SlashedPositions
  <2> QED
      BY <2>2, <2>3
<1> QED
    BY <1>1, <1>2, <1>3, <1>4, <1>5 DEF WhitelistInv

\* The take rate never takes the last token.
LEMMA EndBlockKeepsWhitelist ==
    ASSUME WhitelistInv, AssetsOK, NextBlock
    PROVE  WhitelistInv'
<1>1. PICK gap \in BlockGaps, cut \in [Denoms -> {0} \cup Amounts] : EndBlock(gap, cut)
    BY DEF NextBlock
<1>2. /\ DOMAIN assets' = DOMAIN assets
      /\ \A n \in DOMAIN assets : assets'[n] = [assets[n] EXCEPT !.tokens = @ - cut[n]]
      /\ UNCHANGED positions
    BY <1>1 DEF EndBlock
<1>3. ASSUME NEW n \in DOMAIN assets
      PROVE  /\ cut[n] \in Nat /\ (cut[n] = 0 \/ cut[n] < assets[n].tokens)
             /\ assets'[n].tokens = assets[n].tokens - cut[n]
  <2>1. n \in Denoms
      BY DEF AssetsOK
  <2>2. cut[n] \in Nat
    <3>1. cut[n] \in {0} \cup Amounts
        BY <2>1
    <3>2. \A x \in {0} \cup Amounts : x \in Nat
        BY AmountsAssumption
    <3> QED
        BY <3>1, <3>2
  <2>3. cut[n] = 0 \/ cut[n] < assets[n].tokens
      BY <1>1, <2>1 DEF EndBlock
  <2>4. assets'[n].tokens = assets[n].tokens - cut[n]
      BY <1>2 DEF AssetsOK, AssetOK
  <2> QED
      BY <2>2, <2>3, <2>4
<1>4. \A n \in DOMAIN assets :
          assets'[n].tokens \in Nat /\ (assets'[n].tokens = 0 => assets[n].tokens = 0)
    BY <1>3 DEF WhitelistInv
<1> QED
    BY <1>2, <1>4 DEF WhitelistInv, Bare

\* Only an asset without tokens, which nobody holds, comes or goes.
LEMMA ProposalKeepsWhitelist ==
    ASSUME WhitelistInv, AssetsOK, NEW n \in Denoms, CreateAlliance(n) \/ DeleteAlliance(n)
    PROVE  WhitelistInv'
<1>1. UNCHANGED positions
    BY DEF CreateAlliance, DeleteAlliance
<1>2. \A m \in DOMAIN assets' :
          \/ assets'[m].tokens = 0
          \/ m \in DOMAIN assets /\ assets'[m] = assets[m]
    BY DEF CreateAlliance, DeleteAlliance, Put, Without, Restrict
<1>3. \A m \in Denoms : Bare(m)' => Bare(m)
    BY DEF CreateAlliance, DeleteAlliance, Put, Without, Restrict, Bare
<1> QED
    BY <1>1, <1>2, <1>3 DEF WhitelistInv

\* Every step keeps the whitelist true to what validators hold.
LEMMA NextWhitelistInv ==
    WhitelistInv /\ LedgerInv /\ AssetsOK /\ NoOverdraw /\ [Next]_vars => WhitelistInv'
<1> SUFFICES ASSUME WhitelistInv, LedgerInv, AssetsOK, NoOverdraw, [Next]_vars
             PROVE  WhitelistInv'
    OBVIOUS
<1>0. LedgerOK(dels, positions)
    BY DEF LedgerInv
<1>1. ASSUME NEW n \in Denoms, CreateAlliance(n) \/ DeleteAlliance(n)
      PROVE  WhitelistInv'
    BY <1>1, ProposalKeepsWhitelist
<1>2. ASSUME NEW d \in Delegators, NEW n \in Denoms, NEW amt \in Amounts,
             NEW v \in Validators, Delegate(d, v, n, amt)
      PROVE  WhitelistInv'
    BY <1>0, <1>2, DelegateKeepsWhitelist
<1>3. ASSUME NEW d \in Delegators, NEW n \in Denoms, NEW amt \in Amounts,
             NEW v \in Validators, Undelegate(d, v, n, amt)
      PROVE  WhitelistInv'
    BY <1>0, <1>3, UndelegateKeepsWhitelist
<1>4. ASSUME NEW d \in Delegators, NEW n \in Denoms, NEW amt \in Amounts,
             NEW src \in Validators, NEW dst \in Validators, Redelegate(d, src, dst, n, amt)
      PROVE  WhitelistInv'
    BY <1>0, <1>4, RedelegateKeepsWhitelist
<1>5. ASSUME NEW v \in Validators, NEW f \in Fractions, Slash(v, f)
      PROVE  WhitelistInv'
    BY <1>5, SlashKeepsWhitelist
<1>6. CASE NextBlock
    BY <1>6, EndBlockKeepsWhitelist
<1>7. CASE UNCHANGED vars
    BY <1>7 DEF vars, ledgerVars, WhitelistInv, Bare
<1> QED
    BY <1>1, <1>2, <1>3, <1>4, <1>5, <1>6, <1>7 DEF Next

\* A validator holds shares of whitelisted assets only, although DeleteAlliance asks for
\* no more than TotalTokens to be zero: so SlashValidator never returns ErrUnknownAsset
\* half way (slash.go:33).
THEOREM SlashFindsAssets == Spec /\ []NoOverdraw => []HeldIsWhitelisted
<1>1. Init => LedgerInv /\ AssetsOK /\ WhitelistInv
    BY InitLedgerInv, InitRefines, InitWhitelistInv
<1>2. LedgerInv /\ [Next]_vars => LedgerInv'
    BY NextLedgerInv
<1>3. LedgerInv /\ AssetsOK /\ NoOverdraw /\ [Next]_vars => AssetsOK'
    BY StepRefines
<1>4. WhitelistInv /\ LedgerInv /\ AssetsOK /\ NoOverdraw /\ [Next]_vars => WhitelistInv'
    BY NextWhitelistInv
<1>5. WhitelistInv => HeldIsWhitelisted
    BY DEF WhitelistInv, HeldIsWhitelisted, Bare
<1> QED
    BY <1>1, <1>2, <1>3, <1>4, <1>5, PTL DEF Spec

-----------------------------------------------------------------------------
(* Types: what validators hold is never negative, nor is what is subtracted *)
(* with rounding.  Only the totals of an asset are subtracted unguarded.    *)

HeldNat(ps) == \A v \in Validators, n \in Denoms : ps[v][n].held \in Nat

\* Held shares subtracted with rounding stop at zero.
LEMMA ReduceHeld ==
    ASSUME NEW p, p.held \in Nat, NEW issued, NEW held \in Nat
    PROVE  ReduceShares(p, issued, held).held \in Nat
BY DEF ReduceShares, SubtractWithRounding

\* A withdrawal and the dust that is cleared after it leave held shares natural.
LEMMA WithdrawHeld ==
    ASSUME HeldNat(positions), NEW d, NEW v \in Validators, NEW n \in Denoms, NEW amt, NEW asset,
           CanWithdraw(d, v, n, amt)
    PROVE  ClearDust(Reduced(d, v, n, amt), asset).position.held \in Nat
<1> DEFINE reduced == Reduced(d, v, n, amt)
           held == GetValidatorShares(assets[n], amt)
           dead == IF TotalTokensWithAsset(reduced.position, asset) = 0
                   THEN reduced.position.held ELSE 0
<1>1. held \in Nat /\ positions[v][n].held \in Nat
    BY DEF CanWithdraw, CanReduceShares, HeldNat
<1>2. PICK removed : reduced.position = ReduceShares(positions[v][n], removed, held)
    BY DEF Reduced
<1> HIDE DEF held, reduced
<1>3. reduced.position.held \in Nat
    BY <1>1, <1>2, ReduceHeld
<1>4. PICK dust : ClearDust(reduced, asset).position = ReduceShares(reduced.position, dust, dead)
    BY DEF ClearDust
<1>5. dead \in Nat
    BY <1>3
<1> HIDE DEF dead
<1>6. ClearDust(reduced, asset).position.held \in Nat
    BY <1>3, <1>4, <1>5, ReduceHeld
<1> QED
    BY <1>6 DEF reduced

\* A slash takes no more than a validator holds.
LEMMA SlashTakesHeld ==
    ASSUME NEW v, NEW f \in Fractions, NEW n, positions[v][n].held \in Nat
    PROVE  HeldToSlash(v, f, n) \in 0 .. positions[v][n].held
<1> DEFINE dec == FractionDec(f)
           held == positions[v][n].held
<1>1. f[1] \in Nat /\ f[2] \in Nat \ {0} /\ f[1] =< f[2] /\ Scale \in Nat
    BY FractionsAssumption, ScaleAssumption
<1>2. f[1] * Scale \in Nat /\ f[1] * Scale =< f[2] * Scale
    BY <1>1, ProductNat, ProductMonotone
<1>3. f[1] * Scale =< Scale * f[2]
    BY <1>1, <1>2
<1>4. dec \in Nat /\ dec =< Scale
    BY <1>1, <1>2, <1>3, QuotientBound DEF FractionDec
<1> HIDE DEF dec
<1>5. Mul(dec, held) \in Nat /\ Mul(dec, held) =< held
    BY <1>4, MulBound
<1>6. Mul(held, dec) = Mul(dec, held)
    BY <1>4, MulCommutes
<1> QED
    BY <1>5, <1>6 DEF HeldToSlash, dec

\* One position replaced by a natural one.
LEMMA HeldReplaced ==
    ASSUME NEW ps, PositionsOK(ps), HeldNat(ps), NEW v, NEW n, NEW p, p.held \in Nat
    PROVE  HeldNat([ps EXCEPT ![v][n] = p])
BY DEF PositionsOK, HeldNat

\* Delegate adds shares that are not negative.
LEMMA DelegateKeepsHeld ==
    ASSUME LedgerOK(dels, positions), HeldNat(positions),
           NEW d, NEW v \in Validators, NEW n \in Denoms, NEW amt, Delegate(d, v, n, amt)
    PROVE  HeldNat(positions')
<1>1. PICK issued, held \in Nat :
          positions' = [positions EXCEPT ![v][n] = AddShares(positions[v][n], issued, held)]
    BY DEF Delegate
<1>2. AddShares(positions[v][n], issued, held).held \in Nat
    BY <1>1 DEF AddShares, HeldNat
<1> QED
    BY <1>1, <1>2, HeldReplaced DEF LedgerOK

\* Redelegate withdraws at one validator and adds at another.
LEMMA RedelegateKeepsHeld ==
    ASSUME LedgerOK(dels, positions), HeldNat(positions), NEW d, NEW src \in Validators,
           NEW dst \in Validators, NEW n \in Denoms, NEW amt, Redelegate(d, src, dst, n, amt)
    PROVE  HeldNat(positions')
<1> DEFINE issued == GetDelegationSharesFromTokens(positions[dst][n], assets[n], amt)
           held == GetValidatorShares(assets[n], amt)
           left == ClearDust(Reduced(d, src, n, amt), assets[n])
<1>1. /\ src # dst /\ CanWithdraw(d, src, n, amt)
      /\ positions' = [positions EXCEPT ![src][n] = left.position,
                                        ![dst][n] = AddShares(@, issued, held)]
    BY DEF Redelegate
<1>2. left.position.held \in Nat
    BY <1>1, WithdrawHeld
<1>3. held \in Nat
    BY <1>1 DEF CanWithdraw, CanReduceShares
<1> HIDE DEF left, issued, held
<1>4. AddShares(positions[dst][n], issued, held).held \in Nat
    BY <1>3 DEF AddShares, HeldNat
<1>5. PositionsOK(positions)
    BY DEF LedgerOK
<1>6. \A w \in Validators, m \in Denoms :
          positions'[w][m] = IF m # n THEN positions[w][m]
                             ELSE IF w = dst THEN AddShares(positions[dst][n], issued, held)
                             ELSE IF w = src THEN left.position ELSE positions[w][m]
    BY <1>1, <1>5 DEF PositionsOK
<1> QED
    BY <1>2, <1>4, <1>6 DEF HeldNat

\* Undelegate withdraws; with the last token all that is held goes.
LEMMA UndelegateKeepsHeld ==
    ASSUME LedgerOK(dels, positions), HeldNat(positions), NEW d, NEW v \in Validators,
           NEW n \in Denoms, NEW amt, Undelegate(d, v, n, amt)
    PROVE  HeldNat(positions')
<1> DEFINE asset == AssetAfter(n, amt)
           left == ClearDust(Reduced(d, v, n, amt), asset)
           after == [positions EXCEPT ![v][n] = left.position]
<1>1. /\ CanWithdraw(d, v, n, amt)
      /\ positions' = IF asset.tokens = 0 THEN PositionsWithout(after, n) ELSE after
    BY DEF Undelegate
<1>2. PositionOK(left.position)
    BY <1>1, WithdrawBalances
<1>3. left.position.held \in Nat
    BY <1>1, WithdrawHeld
<1> HIDE DEF asset, left
<1>4. HeldNat(after)
    BY <1>3, HeldReplaced DEF LedgerOK
<1>5. /\ \A w \in Validators : after[w] = [m \in Denoms |-> after[w][m]]
      /\ \A w \in Validators, m \in Denoms : PositionOK(after[w][m])
    BY <1>2 DEF LedgerOK, PositionsOK
<1> HIDE DEF after
<1>6. ASSUME NEW w \in Validators, NEW m \in Denoms
      PROVE  PositionsWithout(after, n)[w][m].held \in Nat
  <2>1. PositionsWithout(after, n)[w] = [after[w] EXCEPT ![n] = [@ EXCEPT !.held = 0]]
      BY DEF PositionsWithout
  <2>2. CASE m = n
    <3>1. PositionsWithout(after, n)[w][n] = [after[w][n] EXCEPT !.held = 0]
        BY <1>5, <2>1
    <3>2. \A p : PositionOK(p) => [p EXCEPT !.held = 0].held = 0
        BY DEF PositionOK
    <3> QED
        BY <1>5, <2>2, <3>1, <3>2
  <2>3. CASE m # n
    <3>1. PositionsWithout(after, n)[w][m] = after[w][m]
        BY <1>5, <2>1, <2>3
    <3> QED
        BY <1>4, <3>1 DEF HeldNat
  <2> QED
      BY <2>2, <2>3
<1> QED
    BY <1>1, <1>4, <1>6 DEF HeldNat

\* A slash takes from the slashed validator no more than it holds.
LEMMA SlashKeepsHeld ==
    ASSUME LedgerInv, HeldNat(positions), NEW v \in Validators, NEW f \in Fractions, Slash(v, f)
    PROVE  HeldNat(positions')
<1>1. \A w \in Validators, n \in Denoms :
          positions'[w][n].held = SlashedPositions(v, f)[w][n].held
    BY SlashKeepsLedger DEF LedgerInv
<1>2. PositionsOK(positions)
    BY DEF LedgerInv, LedgerOK
<1>3. ASSUME NEW w \in Validators, NEW n \in Denoms
      PROVE  SlashedPositions(v, f)[w][n].held \in Nat
  <2>1. CASE w = v
    <3>1. SlashedPositions(v, f)[v][n]
            = [positions[v][n] EXCEPT !.held = @ - HeldToSlash(v, f, n)]
        BY <1>2 DEF SlashedPositions, PositionsOK
    <3>2. positions[v][n].held \in Nat /\ PositionOK(positions[v][n])
        BY <1>2 DEF HeldNat, PositionsOK
    <3>3. HeldToSlash(v, f, n) \in 0 .. positions[v][n].held
        BY <3>2, SlashTakesHeld
    <3>4. SlashedPositions(v, f)[v][n].held = positions[v][n].held - HeldToSlash(v, f, n)
        BY <3>1, <3>2 DEF PositionOK
    <3> QED
        BY <2>1, <3>2, <3>3, <3>4
  <2>2. CASE w # v
      BY <1>2, <2>2 DEF SlashedPositions, PositionsOK, HeldNat
  <2> QED
      BY <2>1, <2>2
<1> QED
    BY <1>1, <1>3 DEF HeldNat

\* The inductive invariant, beside LedgerInv.
HeldInv == HeldNat(positions)

LEMMA NextKeepsHeld == LedgerInv /\ HeldInv /\ [Next]_vars => HeldInv'
<1> SUFFICES ASSUME LedgerInv, HeldNat(positions), [Next]_vars PROVE HeldNat(positions')
    BY DEF HeldInv
<1>0. LedgerOK(dels, positions)
    BY DEF LedgerInv
<1>1. ASSUME NEW d \in Delegators, NEW n \in Denoms, NEW amt \in Amounts,
             NEW v \in Validators, Delegate(d, v, n, amt)
      PROVE  HeldNat(positions')
    BY <1>0, <1>1, DelegateKeepsHeld
<1>2. ASSUME NEW d \in Delegators, NEW n \in Denoms, NEW amt \in Amounts,
             NEW v \in Validators, Undelegate(d, v, n, amt)
      PROVE  HeldNat(positions')
    BY <1>0, <1>2, UndelegateKeepsHeld
<1>3. ASSUME NEW d \in Delegators, NEW n \in Denoms, NEW amt \in Amounts,
             NEW src \in Validators, NEW dst \in Validators, Redelegate(d, src, dst, n, amt)
      PROVE  HeldNat(positions')
    BY <1>0, <1>3, RedelegateKeepsHeld
<1>4. ASSUME NEW v \in Validators, NEW f \in Fractions, Slash(v, f)
      PROVE  HeldNat(positions')
    BY <1>4, SlashKeepsHeld
<1>5. ASSUME NEW n, CreateAlliance(n) \/ DeleteAlliance(n) PROVE UNCHANGED positions
    BY <1>5 DEF CreateAlliance, DeleteAlliance
<1>6. NextBlock => UNCHANGED positions
    BY DEF NextBlock, EndBlock
<1>7. UNCHANGED vars => UNCHANGED positions
    BY DEF vars, ledgerVars
<1> QED
    BY <1>1, <1>2, <1>3, <1>4, <1>5, <1>6, <1>7 DEF Next

\* However messages round and slashes cut, no validator ever holds a negative amount of an
\* asset's shares: NewDecCoinFromDec never panics for what SlashValidator writes (slash.go:30).
THEOREM HeldNeverNegative == Spec => []HeldInv
<1>1. Init => LedgerInv /\ HeldInv
    BY InitLedgerInv DEF Init, NoPosition, HeldInv, HeldNat
<1>2. LedgerInv /\ [Next]_vars => LedgerInv'
    BY NextLedgerInv
<1>3. LedgerInv /\ HeldInv /\ [Next]_vars => HeldInv'
    BY NextKeepsHeld
<1> QED
    BY <1>1, <1>2, <1>3, PTL DEF Spec

\* Rewards of an asset start at a time.
StartsNat == now \in Nat /\ \A n \in DOMAIN assets : assets[n].start \in Nat

LEMMA TimeGoesOn == now \in Nat /\ [Next]_vars => now' \in Nat
<1> SUFFICES ASSUME now \in Nat, [Next]_vars PROVE now' \in Nat
    OBVIOUS
<1>1. Horizon \in Nat /\ \A gap \in BlockGaps : gap \in Nat
    BY TimesAssumption, UnbondingTimeAssumption DEF Horizon
<1>2. CASE NextBlock
  <2>1. PICK gap \in BlockGaps : now' = IF now + gap < Horizon THEN now + gap ELSE Horizon
      BY <1>2 DEF NextBlock, EndBlock
  <2> QED
      BY <1>1, <2>1
<1>3. CASE UNCHANGED now
    BY <1>3
<1>4. CASE UNCHANGED vars
    BY <1>4 DEF vars
<1>5. /\ \A n : CreateAlliance(n) \/ DeleteAlliance(n) => UNCHANGED now
      /\ \A d, v, n, amt : Delegate(d, v, n, amt) \/ Undelegate(d, v, n, amt) => UNCHANGED now
      /\ \A d, src, dst, n, amt : Redelegate(d, src, dst, n, amt) => UNCHANGED now
    BY DEF CreateAlliance, DeleteAlliance, Delegate, Undelegate, Redelegate
<1>6. \A v, f : Slash(v, f) => UNCHANGED now
    BY DEF Slash, ApplySlash
<1> QED
    BY <1>2, <1>3, <1>4, <1>5, <1>6 DEF Next

\* Only CreateAlliance sets a start.
LEMMA NextKeepsStarts == StartsNat /\ LedgerInv /\ AssetsOK /\ [Next]_vars => StartsNat'
<1> SUFFICES ASSUME StartsNat, LedgerInv, AssetsOK, [Next]_vars PROVE StartsNat'
    OBVIOUS
<1>0. now' \in Nat
    BY TimeGoesOn DEF StartsNat
<1> DEFINE Starts(n) == assets'[n].start \in Nat
           Kept == /\ DOMAIN assets' = DOMAIN assets
                   /\ \A n \in DOMAIN assets : assets'[n].start = assets[n].start
<1>1. ASSUME NEW m \in Denoms, CreateAlliance(m) \/ DeleteAlliance(m), NEW n \in DOMAIN assets'
      PROVE  Starts(n)
  <2>1. now + RewardDelay \in Nat
      BY TimesAssumption DEF StartsNat
  <2>2. assets'[n].start = now + RewardDelay \/ (n \in DOMAIN assets /\ assets'[n] = assets[n])
      BY <1>1 DEF CreateAlliance, DeleteAlliance, Put, Without, Restrict
  <2> QED
      BY <2>1, <2>2 DEF StartsNat
<1>2. ASSUME NEW d \in Delegators, NEW m \in Denoms, NEW amt \in Amounts,
             NEW v \in Validators, Delegate(d, v, m, amt)
      PROVE  Kept
  <2>1. PICK x, y : assets' = [assets EXCEPT ![m] =
                                  [tokens |-> x, shares |-> y, start |-> assets[m].start]]
      BY <1>2, DelegatedAsset
  <2> QED
      BY <2>1
<1>3. ASSUME NEW d \in Delegators, NEW m \in Denoms, NEW amt \in Amounts,
             NEW v \in Validators, Undelegate(d, v, m, amt)
      PROVE  Kept
  <2> DEFINE asset == AssetAfter(m, amt)
  <2>1. assets' = [assets EXCEPT ![m] =
                      IF asset.tokens = 0 THEN [asset EXCEPT !.shares = 0] ELSE asset]
      BY <1>3 DEF Undelegate
  <2>2. AssetOK(asset) /\ asset.start = assets[m].start
    <3>1. m \in DOMAIN assets
        BY <1>3 DEF Undelegate, CanWithdraw
    <3> QED
        BY <3>1, AssetAfterTokens DEF AssetsOK
  <2> HIDE DEF asset
  <2>3. [asset EXCEPT !.shares = 0].start = assets[m].start
      BY <2>2 DEF AssetOK
  <2> QED
      BY <2>1, <2>2, <2>3
<1>4. ASSUME NEW d \in Delegators, NEW m \in Denoms, NEW amt \in Amounts,
             NEW src \in Validators, NEW dst \in Validators, Redelegate(d, src, dst, m, amt)
      PROVE  Kept
    BY <1>4 DEF Redelegate
<1>5. ASSUME NEW v \in Validators, NEW f \in Fractions, Slash(v, f)
      PROVE  Kept
  <2>1. assets' = SlashedAssets(v, f)
      BY <1>5, SlashKeepsLedger DEF LedgerInv
  <2>2. DOMAIN assets' = DOMAIN assets
      BY <2>1 DEF SlashedAssets
  <2>3. ASSUME NEW n \in DOMAIN assets PROVE assets'[n].start = assets[n].start
    <3>1. assets'[n] = [assets[n] EXCEPT !.shares = @ - HeldToSlash(v, f, n)]
        BY <2>1 DEF SlashedAssets
    <3> QED
        BY <3>1 DEF AssetsOK, AssetOK
  <2> QED
      BY <2>2, <2>3
<1>6. ASSUME NextBlock PROVE Kept
  <2>1. PICK gap \in BlockGaps, cut \in [Denoms -> {0} \cup Amounts] : EndBlock(gap, cut)
      BY <1>6 DEF NextBlock
  <2>2. /\ DOMAIN assets' = DOMAIN assets
        /\ \A n \in DOMAIN assets : assets'[n] = [assets[n] EXCEPT !.tokens = @ - cut[n]]
      BY <2>1 DEF EndBlock
  <2>3. \A n \in DOMAIN assets : [assets[n] EXCEPT !.tokens = @ - cut[n]].start = assets[n].start
      BY DEF AssetsOK, AssetOK
  <2> QED
      BY <2>2, <2>3
<1>7. ASSUME UNCHANGED vars PROVE Kept
    BY <1>7 DEF vars, ledgerVars
<1>8. Kept => \A n \in DOMAIN assets' : Starts(n)
    BY DEF StartsNat
<1>9. StartsNat' <=> now' \in Nat /\ \A n \in DOMAIN assets' : Starts(n)
    BY DEF StartsNat
<1> HIDE DEF Starts, Kept
<1> QED
    BY <1>0, <1>1, <1>2, <1>3, <1>4, <1>5, <1>6, <1>7, <1>8, <1>9 DEF Next

\* No subtraction takes more shares from an asset than it has.  The code checks this nowhere
\* (delegation.go:198 and slash.go:36 subtract unguarded), and a clip in ReduceShares leaves
\* the asset with less than its validators hold.
SharesLeft == \A n \in DOMAIN assets : assets[n].shares \in Nat

LEMMA TypesFromParts ==
    LedgerInv /\ HeldInv /\ AssetsOK /\ StartsNat /\ WhitelistInv /\ SharesLeft => TypeOK
<1> SUFFICES ASSUME LedgerInv, HeldNat(positions), AssetsOK, StartsNat, WhitelistInv, SharesLeft
             PROVE  TypeOK
    BY DEF HeldInv
<1>1. \A n \in DOMAIN assets : assets[n] \in [tokens : Nat, shares : Nat, start : Nat]
    BY DEF AssetsOK, AssetOK, StartsNat, WhitelistInv, SharesLeft
<1>2. ASSUME NEW v \in Validators, NEW n \in Denoms
      PROVE  positions[v][n] \in [held : Nat, issued : Nat]
  <2>1. positions[v][n].issued \in Nat
      BY IssuedNat DEF LedgerInv, LedgerOK
  <2>2. positions[v][n].held \in Nat /\ PositionOK(positions[v][n])
      BY DEF HeldNat, LedgerInv, LedgerOK, PositionsOK
  <2> QED
      BY <2>1, <2>2 DEF PositionOK
<1>3. positions \in [Validators -> [Denoms -> [held : Nat, issued : Nat]]]
    BY <1>2 DEF LedgerInv, LedgerOK, PositionsOK
<1>4. DelStore(dels)
    BY DEF LedgerInv, LedgerOK
<1> QED
    BY <1>1, <1>3, <1>4 DEF TypeOK, DelStore, DelKeys

\* No amount of the ledger is negative, as long as the totals of an asset, which are all
\* that the code subtracts from unguarded, are not: positions and delegations of a validator
\* never need a hypothesis, whatever is rounded, clipped, cleared as dust or slashed.
THEOREM LedgerTypeCorrect == Spec /\ []NoOverdraw /\ []SharesLeft => []TypeOK
<1>1. Init => LedgerInv /\ AssetsOK /\ WhitelistInv
    BY InitLedgerInv, InitRefines, InitWhitelistInv
<1>2. Init => StartsNat
    BY DEF Init, StartsNat
<1>3. LedgerInv /\ [Next]_vars => LedgerInv'
    BY NextLedgerInv
<1>4. LedgerInv /\ AssetsOK /\ NoOverdraw /\ [Next]_vars => AssetsOK'
    BY StepRefines
<1>5. WhitelistInv /\ LedgerInv /\ AssetsOK /\ NoOverdraw /\ [Next]_vars => WhitelistInv'
    BY NextWhitelistInv
<1>6. StartsNat /\ LedgerInv /\ AssetsOK /\ [Next]_vars => StartsNat'
    BY NextKeepsStarts
<1> QED
    BY <1>1, <1>2, <1>3, <1>4, <1>5, <1>6, HeldNeverNegative, TypesFromParts, PTL DEF Spec
=============================================================================
