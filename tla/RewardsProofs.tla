---------------------------- MODULE RewardsProofs ----------------------------
(***************************************************************************)
(* Proofs about Rewards: claims leave the share ledger balanced, no        *)
(* history or snapshot that rewards are paid from is ahead of the index of *)
(* its validator, nothing is paid that the pool does not have, and the     *)
(* first change of a weight in a block leaves what has been earned.        *)
(***************************************************************************)
EXTENDS Rewards, DelegationsProofs

\* A ledger, and the weights of its assets, without negative amounts.
LedgerNat(l) ==
    /\ DOMAIN l.assets \subseteq Denoms
    /\ \A n \in DOMAIN l.assets :
          weights[n] \in Nat /\ l.assets[n].tokens \in Nat /\ l.assets[n].shares \in Nat
    /\ \A v \in Validators, n \in Denoms :
          l.positions[v][n].held \in Nat /\ l.positions[v][n].issued \in Nat
    /\ \A key \in DOMAIN l.dels : key \in DelKeys /\ l.dels[key] \in Nat

IsBooks(b) == b = [pending |-> b.pending, index |-> b.index, claims |-> b.claims,
                   pool |-> b.pool, earned |-> b.earned]

\* The books up to time t: no delegation is ahead of its validator.
BooksOK(b, t) ==
    /\ IsBooks(b)
    /\ b.pending \in [Validators -> Nat] /\ b.index \in [Validators -> Nat]
    /\ b.pool \in Int /\ b.earned \in [Delegators -> Nat]
    /\ DOMAIN b.claims \subseteq DelKeys
    /\ \A key \in DOMAIN b.claims :
          /\ b.claims[key] \in [index : Nat, at : 0 .. t]
          /\ b.claims[key].index =< b.index[key.val]

SnapshotKeys(t) == [denom : Denoms, val : Validators, at : 0 .. t]

\* Snapshots until time t; none is ahead of its validator, nor behind an earlier claim.
SnapshotsOK(snaps, b, t) ==
    /\ DOMAIN snaps \subseteq SnapshotKeys(t)
    /\ \A s \in DOMAIN snaps :
          /\ snaps[s] \in [weight : Nat, index : Nat]
          /\ snaps[s].index =< b.index[s.val]
          /\ \A key \in DOMAIN b.claims :
                s.val = key.val /\ s.denom = key.denom /\ s.at > b.claims[key].at =>
                    b.claims[key].index =< snaps[s].index

-----------------------------------------------------------------------------
(* What a validator owes.                                                   *)

\* What the constants of the modules below are assumed to be.
LEMMA RewardsConstants ==
    /\ Scale \in Nat \ {0} /\ Epsilon \in Nat /\ UnbondingTime \in Nat /\ MaxTime \in Nat
    /\ IsFiniteSet(Validators) /\ IsFiniteSet(Denoms)
    /\ \A w \in RewardWeights : w \in Nat
    /\ \A gap \in BlockGaps : gap \in Nat
    /\ \A coins \in RewardCoins : coins \in Nat
BY ScaleAssumption, EpsilonAssumption, UnbondingTimeAssumption, TimesAssumption,
   KeysAssumption, RewardWeightsAssumption, RewardCoinsAssumption

\* Conversions take naturals to naturals.
LEMMA FromIntNat == ASSUME NEW x \in Nat PROVE FromInt(x) \in Nat
BY RewardsConstants, ProductNat DEF FromInt

LEMMA TruncateNat == ASSUME NEW x \in Nat PROVE TruncateInt(x) \in Nat
<1>1. x \div Scale \in Nat
    BY RewardsConstants, QuotientBound, 0 \in Nat
<1> QED
    BY <1>1 DEF TruncateInt

LEMMA ConvertNat ==
    ASSUME NEW total \in Nat, NEW all \in Nat, NEW part \in Nat
    PROVE  ConvertNewShareToDecToken(total, all, part) \in Nat
<1>1. CASE all = 0
    BY <1>1 DEF ConvertNewShareToDecToken
<1>2. CASE all # 0
  <2>1. Quo(part, all) \in Nat
      BY <1>2, QuoBound, 0 \in Nat
  <2>2. Mul(Quo(part, all), total) \in Nat
      BY <2>1, MulBound
  <2> QED
      BY <1>2, <2>2 DEF ConvertNewShareToDecToken
<1> QED
    BY <1>1, <1>2

\* What a validator holds of an asset is worth no less than nothing.
LEMMA WorthNat ==
    ASSUME NEW l, LedgerNat(l), NEW v \in Validators, NEW n \in DOMAIN l.assets
    PROVE  TotalTokensWithAsset(l.positions[v][n], l.assets[n]) \in Nat
<1>1. /\ l.assets[n].tokens \in Nat /\ l.assets[n].shares \in Nat
      /\ l.positions[v][n].held \in Nat
    BY DEF LedgerNat
<1>2. FromInt(l.assets[n].tokens) \in Nat
    BY <1>1, FromIntNat
<1> QED
    BY <1>1, <1>2, ConvertNat DEF TotalTokensWithAsset

\* So is the weight that its rewards are shared by.
LEMMA TotalWeightNat ==
    ASSUME NEW l, LedgerNat(l), NEW v \in Validators
    PROVE  TotalAssetWeight(l, v) \in Nat
<1> DEFINE worth == [n \in DOMAIN l.assets |->
                        Mul(weights[n], TotalTokensWithAsset(l.positions[v][n], l.assets[n]))]
           earning == {n \in DOMAIN l.assets :
                          l.positions[v][n].issued > 0 /\ RewardsStarted(n)}
<1>1. ASSUME NEW n \in earning PROVE worth[n] \in Nat
  <2>1. weights[n] \in Nat
      BY DEF LedgerNat
  <2>2. TotalTokensWithAsset(l.positions[v][n], l.assets[n]) \in Nat
      BY WorthNat
  <2> QED
      BY <2>1, <2>2, MulBound
<1>2. IsFiniteSet(earning)
  <2>1. earning \subseteq Denoms
      BY DEF LedgerNat
  <2> QED
      BY <2>1, RewardsConstants, FS_Subset
<1>3. TotalAssetWeight(l, v) = SumFunctionOnSet(worth, earning)
    BY DEF TotalAssetWeight
<1> HIDE DEF worth, earning
<1> QED
    BY <1>1, <1>2, <1>3, SumNat

\* How the records of the books change, field by field.
LEMMA PoolAndIndex ==
    ASSUME NEW s, IsBooks(s), NEW x, NEW y, NEW v
    PROVE  [s EXCEPT !.pool = x, !.index[v] = y]
             = [pending |-> s.pending, index |-> [s.index EXCEPT ![v] = y],
                claims |-> s.claims, pool |-> x, earned |-> s.earned]
<1> DEFINE p == [s EXCEPT !.pool = x]
           idx == [s.index EXCEPT ![v] = y]
<1>1. p = [pending |-> s.pending, index |-> s.index, claims |-> s.claims, pool |-> x,
           earned |-> s.earned]
    BY DEF IsBooks
<1>2. p.index = s.index
    BY <1>1
<1>3. [s EXCEPT !.pool = x, !.index[v] = y] = [p EXCEPT !.index = idx]
    BY <1>2
<1> HIDE DEF p, idx
<1>4. [p EXCEPT !.index = idx] = [pending |-> s.pending, index |-> idx,
                                  claims |-> s.claims, pool |-> x, earned |-> s.earned]
    BY <1>1
<1> QED
    BY <1>3, <1>4 DEF idx

\* What claiming the rewards of validators does to the books: indices and the pool grow.
Claimed(b) ==
    {c \in [pending : [Validators -> Nat], index : [Validators -> Nat], claims : {b.claims},
            pool : Int, earned : {b.earned}] :
        /\ c.pool >= b.pool
        /\ \A v \in Validators : c.index[v] >= b.index[v]}

\* The claim from one validator, whose rewards are shared by the weight total.
ClaimBy(b, total, v) ==
    LET c == [b EXCEPT !.pending[v] = 0]
    IN  IF b.pending[v] = 0 THEN b
        ELSE IF total = 0 THEN c
        ELSE [c EXCEPT !.pool = @ + b.pending[v],
                       !.index[v] = @ + Quo(FromInt(b.pending[v]), total)]

LEMMA ClaimIsBy ==
    ASSUME NEW b, NEW l, NEW v
    PROVE  ClaimValidatorRewards(b, l, v) = ClaimBy(b, TotalAssetWeight(l, v), v)
BY DEF ClaimValidatorRewards, AddAssetsToRewardPool, ClaimBy

\* Indices and the pool grow by it, and nothing stays owed.
LEMMA ClaimByClaims ==
    ASSUME NEW b, b.pool \in Int, b.index \in [Validators -> Nat],
           NEW c \in Claimed(b), NEW total \in Nat, NEW v \in Validators
    PROVE  /\ ClaimBy(c, total, v) \in Claimed(b)
           /\ ClaimBy(c, total, v).pending = [c.pending EXCEPT ![v] = 0]
<1> DEFINE owed == c.pending[v]
           gain == Quo(FromInt(owed), total)
           spent == [c EXCEPT !.pending[v] = 0]
           paid == [spent EXCEPT !.pool = @ + owed, !.index[v] = @ + gain]
<1>1. /\ c.pending \in [Validators -> Nat] /\ c.index \in [Validators -> Nat]
      /\ c.claims = b.claims /\ c.pool \in Int /\ c.earned = b.earned /\ c.pool >= b.pool
      /\ \A u \in Validators : c.index[u] >= b.index[u]
      /\ c = [pending |-> c.pending, index |-> c.index, claims |-> c.claims,
              pool |-> c.pool, earned |-> c.earned]
    BY DEF Claimed
<1>2. owed \in Nat
    BY <1>1
<1>3. /\ spent = [pending |-> [c.pending EXCEPT ![v] = 0], index |-> c.index,
                  claims |-> c.claims, pool |-> c.pool, earned |-> c.earned]
      /\ [c.pending EXCEPT ![v] = 0] \in [Validators -> Nat]
    BY <1>1
<1>4. spent \in Claimed(b)
  <2> HIDE DEF spent
  <2> QED
      BY <1>1, <1>3 DEF Claimed
<1>5. ASSUME total # 0
      PROVE  paid \in Claimed(b) /\ paid.pending = [c.pending EXCEPT ![v] = 0]
  <2>1. gain \in Nat
    <3> HIDE DEF owed
    <3>1. FromInt(owed) \in Nat
        BY <1>2, FromIntNat
    <3> QED
        BY <1>2, <1>5, <3>1, QuoBound, 0 \in Nat
  <2> HIDE DEF gain, spent, owed
  <2>2. paid = [pending |-> spent.pending, index |-> [c.index EXCEPT ![v] = c.index[v] + gain],
                claims |-> c.claims, pool |-> c.pool + owed, earned |-> c.earned]
    <3>1. IsBooks(spent) /\ spent.index = c.index /\ spent.claims = c.claims
          /\ spent.pool = c.pool /\ spent.earned = c.earned
        BY <1>3 DEF IsBooks
    <3> DEFINE y == spent.index[v] + gain
               x == spent.pool + owed
    <3>2. paid = [spent EXCEPT !.pool = x, !.index[v] = y]
        BY Zenon
    <3> HIDE DEF x, y, paid
    <3>3. paid = [pending |-> spent.pending, index |-> [spent.index EXCEPT ![v] = y],
                  claims |-> spent.claims, pool |-> x, earned |-> spent.earned]
        BY <3>1, <3>2, PoolAndIndex
    <3>4. x = c.pool + owed /\ y = c.index[v] + gain
        BY <3>1 DEF x, y
    <3> QED
        BY <3>1, <3>3, <3>4
  <2>3. [c.index EXCEPT ![v] = c.index[v] + gain] \in [Validators -> Nat]
      BY <1>1, <2>1
  <2>4. \A u \in Validators : [c.index EXCEPT ![v] = c.index[v] + gain][u] >= b.index[u]
      BY <1>1, <2>1
  <2>5. spent.pending \in [Validators -> Nat]
      BY <1>3
  <2>6. c.pool + owed \in Int /\ c.pool + owed >= b.pool
      BY <1>1, <1>2
  <2>7. spent.pending = [c.pending EXCEPT ![v] = 0]
      BY <1>3
  <2> HIDE DEF paid
  <2> QED
      BY <1>1, <2>2, <2>3, <2>4, <2>5, <2>6, <2>7 DEF Claimed
<1>6. /\ ClaimBy(c, total, v) = IF owed = 0 THEN c ELSE IF total = 0 THEN spent ELSE paid
      /\ owed = 0 => [c.pending EXCEPT ![v] = 0] = c.pending
    BY <1>1 DEF ClaimBy
<1> HIDE DEF spent, paid, owed
<1> QED
    BY <1>1, <1>3, <1>4, <1>5, <1>6

\* ClaimValidatorRewards, at one validator.
LEMMA ClaimValidatorClaims ==
    ASSUME NEW l, LedgerNat(l), NEW b, b.pool \in Int, b.index \in [Validators -> Nat],
           NEW c \in Claimed(b), NEW v \in Validators
    PROVE  ClaimValidatorRewards(c, l, v) \in Claimed(b)
BY TotalWeightNat, ClaimIsBy, ClaimByClaims

\* TotalAssetWeight of a state with the weights ws and assets as, at the time t.
TotalOf(ws, as, t, l, v) ==
    SumFunctionOnSet(
        [n \in DOMAIN l.assets |->
            Mul(ws[n], TotalTokensWithAsset(l.positions[v][n], l.assets[n]))],
        {n \in DOMAIN l.assets : l.positions[v][n].issued > 0 /\ t >= as[n].start})

\* The recursion of a claim from all validators of S in that state.
ClaimEquation(b, ws, as, t, l, S, g) ==
    g = [T \in SUBSET S |->
            IF T = {} THEN b
            ELSE ClaimBy(g[T \ {First(T)}], TotalOf(ws, as, t, l, First(T)), First(T))]

ClaimIter(b, ws, as, t, l, S) == CHOOSE g : ClaimEquation(b, ws, as, t, l, S, g)

\* The fold of ClaimAll is the value of that recursion for all of S.
LEMMA ClaimAllIsIter ==
    ASSUME NEW b, NEW l, NEW S
    PROVE  ClaimAll(b, l, S) = ClaimIter(b, weights, assets, now, l, S)[S]
BY DEF ClaimAll, FoldSet, MapThenFoldSet, ClaimIter, ClaimEquation, First, TotalOf, ClaimBy,
       ClaimValidatorRewards, AddAssetsToRewardPool, TotalAssetWeight, RewardsStarted

\* A set of books that claims do not leave.
ClosedBooks(D, ws, as, t, l, S) ==
    \A v \in S, c \in D : ClaimBy(c, TotalOf(ws, as, t, l, v), v) \in D

Claims(b, ws, as, t, l, S, g) ==
    /\ g[{}] = b
    /\ \A T \in SUBSET S : T # {} =>
          g[T] = ClaimBy(g[T \ {First(T)}], TotalOf(ws, as, t, l, First(T)), First(T))

\* The recursion has a solution, and all its values are such books.
LEMMA ClaimIterAt ==
    ASSUME NEW S, IsFiniteSet(S), NEW D, NEW b \in D, NEW ws, NEW as, NEW t, NEW l,
           ClosedBooks(D, ws, as, t, l, S)
    PROVE  /\ Claims(b, ws, as, t, l, S, ClaimIter(b, ws, as, t, l, S))
           /\ \A T \in SUBSET S : ClaimIter(b, ws, as, t, l, S)[T] \in D
<1> DEFINE pick == [T \in SUBSET S |-> First(T)]
           step == [v \in S |-> [c \in D |-> ClaimBy(c, TotalOf(ws, as, t, l, v), v)]]
           g == ClaimIter(b, ws, as, t, l, S)
           G == {T \in SUBSET S : g[T] \in D}
<1>1. Picks(pick, S) /\ \A T \in SUBSET S : T # {} => First(T) \in T
    BY DEF Picks, First
<1>2. \A v \in S, c \in D : /\ ClaimBy(c, TotalOf(ws, as, t, l, v), v) \in D
                            /\ step[v][c] = ClaimBy(c, TotalOf(ws, as, t, l, v), v)
    BY DEF ClosedBooks
<1> HIDE DEF step, pick
<1>3. PICK h : Recursion(h, b, pick, step, S) /\ \A T \in SUBSET S : h[T] \in D
  <2>1. StaysIn(D, step, S)
      BY <1>2 DEF StaysIn
  <2> QED
      BY <1>1, <2>1, SubsetRecursion
<1>4. ASSUME NEW T \in SUBSET S
      PROVE  h[T] = IF T = {} THEN b
                    ELSE ClaimBy(h[T \ {First(T)}], TotalOf(ws, as, t, l, First(T)), First(T))
  <2>1. CASE T = {}
      BY <1>3, <2>1 DEF Recursion
  <2>2. CASE T # {}
    <3>1. pick[T] = First(T) /\ First(T) \in S /\ T \ {First(T)} \in SUBSET S
        BY <1>1, <2>2 DEF pick
    <3>2. h[T \ {First(T)}] \in D
        BY <1>3, <3>1
    <3>3. h[T] = step[First(T)][h[T \ {First(T)}]]
        BY <1>3, <2>2, <3>1 DEF Recursion
    <3>4. h[T] = ClaimBy(h[T \ {First(T)}], TotalOf(ws, as, t, l, First(T)), First(T))
        BY <1>2, <3>1, <3>2, <3>3
    <3> QED
        BY <2>2, <3>4
  <2> QED
      BY <2>1, <2>2
<1>5. h = [T \in SUBSET S |-> h[T]]
    BY <1>3 DEF Recursion
<1>6. ClaimEquation(b, ws, as, t, l, S, h)
    BY <1>4, <1>5 DEF ClaimEquation
<1>7. ClaimEquation(b, ws, as, t, l, S, g)
    BY <1>6 DEF ClaimIter
<1> HIDE DEF g
<1>8. \A T \in SUBSET S :
          g[T] = IF T = {} THEN b
                 ELSE ClaimBy(g[T \ {First(T)}], TotalOf(ws, as, t, l, First(T)), First(T))
    BY <1>7 DEF ClaimEquation
<1>9. Claims(b, ws, as, t, l, S, g)
    BY <1>8 DEF Claims
<1>10. Grows(G, pick, S)
  <2>1. ASSUME NEW T \in SUBSET S, T # {}, T \ {pick[T]} \in G PROVE g[T] \in D
    <3>1. pick[T] = First(T) /\ First(T) \in S
        BY <1>1, <2>1 DEF pick
    <3>2. g[T \ {First(T)}] \in D
        BY <2>1, <3>1
    <3>3. g[T] = ClaimBy(g[T \ {First(T)}], TotalOf(ws, as, t, l, First(T)), First(T))
        BY <1>8, <2>1
    <3> QED
        BY <1>2, <3>1, <3>2, <3>3
  <2>2. g[{}] \in D
      BY <1>8
  <2> QED
      BY <2>1, <2>2 DEF Grows
<1>11. \A T \in SUBSET S : T \in G
  <2> HIDE DEF G
  <2> QED
      BY <1>1, <1>10, PickInduction
<1> QED
    BY <1>9, <1>11 DEF g

\* Claims from several validators, in whatever order the fold takes them.
LEMMA ClaimAllClaims ==
    ASSUME NEW l, LedgerNat(l), NEW b, b.pool \in Int, b.index \in [Validators -> Nat],
           b \in Claimed(b), NEW S \in SUBSET Validators
    PROVE  ClaimAll(b, l, S) \in Claimed(b)
<1>1. ASSUME NEW v \in S, NEW c \in Claimed(b)
      PROVE  ClaimBy(c, TotalOf(weights, assets, now, l, v), v) \in Claimed(b)
  <2>1. TotalOf(weights, assets, now, l, v) = TotalAssetWeight(l, v)
      BY DEF TotalOf, TotalAssetWeight, RewardsStarted
  <2>2. TotalAssetWeight(l, v) \in Nat
      BY TotalWeightNat
  <2> QED
      BY <2>1, <2>2, ClaimByClaims
<1>2. ClosedBooks(Claimed(b), weights, assets, now, l, S)
    BY <1>1 DEF ClosedBooks
<1>3. IsFiniteSet(S)
    BY RewardsConstants, FS_Subset
<1>4. ClaimIter(b, weights, assets, now, l, S)[S] \in Claimed(b)
    BY <1>2, <1>3, ClaimIterAt
<1> QED
    BY <1>4, ClaimAllIsIter

-----------------------------------------------------------------------------
(* What a delegation has earned.                                            *)

Paid == [index : Nat, coins : Nat]

\* A piece adds no less than nothing, since the index it starts from is the lower one.
LEMMA AccumulatePaid ==
    ASSUME NEW paid \in Paid, NEW upTo \in Nat, NEW weight \in Nat, NEW tokens \in Nat
    PROVE  Accumulate(paid, upTo, weight, tokens) \in Paid
<1>1. CASE paid.index >= upTo
    BY <1>1 DEF Accumulate
<1>2. CASE ~(paid.index >= upTo)
  <2>1. upTo - paid.index \in Nat /\ paid.coins \in Nat
      BY <1>2 DEF Paid
  <2>2. FromInt(tokens) \in Nat
      BY FromIntNat
  <2>3. Mul(FromInt(tokens), weight) \in Nat
      BY <2>2, MulBound
  <2>4. Mul(upTo - paid.index, Mul(FromInt(tokens), weight)) \in Nat
      BY <2>1, <2>3, MulBound
  <2>5. TruncateInt(Mul(upTo - paid.index, Mul(FromInt(tokens), weight))) \in Nat
      BY <2>4, TruncateNat
  <2> QED
      BY <1>2, <2>1, <2>5 DEF Accumulate, Paid
<1> QED
    BY <1>1, <1>2

\* A delegation is worth no less than nothing.
LEMMA TokensNat ==
    ASSUME NEW l, LedgerNat(l), NEW key \in DOMAIN l.dels, key.denom \in DOMAIN l.assets
    PROVE  GetDelegationTokensWithShares(l.dels[key], l.positions[key.val][key.denom],
                                         l.assets[key.denom]) \in Nat
<1> DEFINE v == key.val
           n == key.denom
           worth == TotalTokensWithAsset(l.positions[v][n], l.assets[n])
           part == ConvertNewShareToDecToken(worth, l.positions[v][n].issued, l.dels[key])
<1>1. v \in Validators /\ n \in Denoms /\ l.dels[key] \in Nat
    BY DEF LedgerNat, DelKeys
<1>2. l.positions[v][n].issued \in Nat
    BY <1>1 DEF LedgerNat
<1>3. worth \in Nat
    BY <1>1, WorthNat
<1> HIDE DEF worth
<1>4. part \in Nat
    BY <1>1, <1>2, <1>3, ConvertNat
<1> HIDE DEF part
<1>5. TruncateInt(part + Epsilon) \in Nat
    BY <1>4, RewardsConstants, TruncateNat, part + Epsilon \in Nat
<1> QED
    BY <1>5 DEF part, worth, GetDelegationTokensWithShares

\* Snapshots are finitely many, so that their fold is defined.
LEMMA SnapshotKeysFinite ==
    ASSUME NEW t \in Nat
    PROVE  IsFiniteSet(SnapshotKeys(t))
<1> DEFINE P == (Denoms \X Validators) \X (0 .. t)
           f == [p \in P |-> [denom |-> p[1][1], val |-> p[1][2], at |-> p[2]]]
<1>1. IsFiniteSet(P)
  <2>1. IsFiniteSet(0 .. t)
      BY FS_Interval
  <2>2. IsFiniteSet(Denoms \X Validators)
      BY RewardsConstants, FS_Product
  <2> QED
      BY <2>1, <2>2, FS_Product
<1>2. f \in Surjection(P, SnapshotKeys(t))
  <2>1. f \in [P -> SnapshotKeys(t)]
      BY DEF SnapshotKeys
  <2>2. ASSUME NEW s \in SnapshotKeys(t) PROVE \E p \in P : f[p] = s
    <3>1. <<<<s.denom, s.val>>, s.at>> \in P
        BY DEF SnapshotKeys
    <3>2. f[<<<<s.denom, s.val>>, s.at>>] = [denom |-> s.denom, val |-> s.val, at |-> s.at]
        BY <3>1
    <3>3. s = [denom |-> s.denom, val |-> s.val, at |-> s.at]
        BY DEF SnapshotKeys
    <3> QED
        BY <3>1, <3>2, <3>3
  <2> HIDE DEF f, P
  <2> QED
      BY <2>1, <2>2 DEF Surjection
<1> HIDE DEF f, P
<1> QED
    BY <1>1, <1>2, FS_Surjection

\* A finite set of snapshots has a latest one.
LEMMA LatestExists ==
    ASSUME NEW S, IsFiniteSet(S), \A s \in S : s.at \in Nat, S # {}
    PROVE  Latest(S) \in S
<1> DEFINE Has(T) == T # {} => \E s \in T : \A u \in T : u.at =< s.at
           G == {T \in SUBSET S : Has(T)}
<1>1. {} \in G
    OBVIOUS
<1>2. ASSUME NEW T \in SUBSET S, NEW x \in S \ T, T \in G PROVE T \cup {x} \in G
  <2>1. CASE T = {}
    <3>1. \A u \in T \cup {x} : u.at =< x.at
        BY <2>1
    <3> QED
        BY <3>1
  <2>2. CASE T # {}
    <3>1. PICK s \in T : \A u \in T : u.at =< s.at
        BY <1>2, <2>2
    <3>2. CASE x.at =< s.at
      <4>1. \A u \in T \cup {x} : u.at =< s.at
          BY <3>1, <3>2
      <4> QED
          BY <4>1
    <3>3. CASE ~(x.at =< s.at)
      <4>1. \A u \in T \cup {x} : u.at =< x.at
          BY <3>1, <3>3
      <4> QED
          BY <4>1
    <3> QED
        BY <3>2, <3>3
  <2> QED
      BY <2>1, <2>2
<1>3. S \in G
  <2> HIDE DEF G
  <2> QED BY <1>1, <1>2, FiniteSetInduction
<1>4. \E s \in S : \A u \in S : u.at =< s.at
    BY <1>3
<1> QED
    BY <1>4 DEF Latest

\* The recursion of a claim over the snapshots snaps.
PieceEquation(snaps, S, start, tokens, g) ==
    g = [T \in SUBSET S |->
            IF T = {} THEN start
            ELSE Accumulate(g[T \ {Latest(T)}], snaps[Latest(T)].index,
                            snaps[Latest(T)].weight, tokens)]

Pieces(snaps, S, start, tokens) == CHOOSE g : PieceEquation(snaps, S, start, tokens, g)

Since(snaps, b, key) ==
    {s \in DOMAIN snaps : s.denom = key.denom /\ s.val = key.val /\ s.at >= b.claims[key].at}

Start(b, key) == [index |-> b.claims[key].index, coins |-> 0]

\* What a delegation has earned with the snapshots snaps and the weight w of now.
EarnedFrom(snaps, w, b, key, tokens) ==
    Accumulate(Pieces(snaps, Since(snaps, b, key), Start(b, key), tokens)[Since(snaps, b, key)],
               b.index[key.val], w, tokens).coins

\* CalculateDelegationRewards: the pieces since the last claim, then the rest.
LEMMA RewardsInPieces ==
    ASSUME NEW b, NEW key, NEW tokens
    PROVE  RewardsFor(b, key, tokens) = EarnedFrom(snapshots, weights[key.denom], b, key, tokens)
BY DEF RewardsFor, EarnedFrom, Pieces, PieceEquation, MapThenFoldSet, Since, Start

\* Snapshots of naturals at times that are naturals.
Typed(snaps, S) ==
    /\ IsFiniteSet(S)
    /\ \A s \in S : s.at \in Nat /\ snaps[s] \in [weight : Nat, index : Nat]

\* The latest of some snapshots is one of them.
LEMMA LatestPicked ==
    ASSUME NEW snaps, NEW S, Typed(snaps, S)
    PROVE  /\ Picks([T \in SUBSET S |-> Latest(T)], S)
           /\ \A T \in SUBSET S : T # {} => Latest(T) \in T
<1>1. ASSUME NEW T \in SUBSET S, T # {} PROVE Latest(T) \in T
    BY <1>1, FS_Subset, LatestExists DEF Typed
<1> QED
    BY <1>1 DEF Picks

\* The recursion has a solution.
LEMMA PiecesSolve ==
    ASSUME NEW snaps, NEW S, Typed(snaps, S), NEW start \in Paid, NEW tokens \in Nat
    PROVE  PieceEquation(snaps, S, start, tokens, Pieces(snaps, S, start, tokens))
<1> DEFINE pick == [T \in SUBSET S |-> Latest(T)]
           step == [s \in S |-> [p \in Paid |->
                       Accumulate(p, snaps[s].index, snaps[s].weight, tokens)]]
<1>1. IsFiniteSet(S) /\ Picks(pick, S) /\ \A T \in SUBSET S : T # {} => Latest(T) \in T
    BY LatestPicked DEF Typed
<1>2. \A s \in S, p \in Paid :
          /\ Accumulate(p, snaps[s].index, snaps[s].weight, tokens) \in Paid
          /\ step[s][p] = Accumulate(p, snaps[s].index, snaps[s].weight, tokens)
    BY AccumulatePaid DEF Typed
<1> HIDE DEF step, pick
<1>3. StaysIn(Paid, step, S)
    BY <1>2 DEF StaysIn
<1>4. PICK h : Recursion(h, start, pick, step, S) /\ \A T \in SUBSET S : h[T] \in Paid
    BY <1>1, <1>3, SubsetRecursion
<1>5. ASSUME NEW T \in SUBSET S
      PROVE  h[T] = IF T = {} THEN start
                    ELSE Accumulate(h[T \ {Latest(T)}], snaps[Latest(T)].index,
                                    snaps[Latest(T)].weight, tokens)
  <2>1. CASE T = {}
      BY <1>4, <2>1 DEF Recursion
  <2>2. CASE T # {}
    <3>1. pick[T] = Latest(T) /\ Latest(T) \in S /\ T \ {Latest(T)} \in SUBSET S
        BY <1>1, <2>2 DEF pick
    <3>2. h[T \ {Latest(T)}] \in Paid
        BY <1>4, <3>1
    <3>3. h[T] = step[Latest(T)][h[T \ {Latest(T)}]]
        BY <1>4, <2>2, <3>1 DEF Recursion
    <3>4. h[T] = Accumulate(h[T \ {Latest(T)}], snaps[Latest(T)].index,
                            snaps[Latest(T)].weight, tokens)
        BY <1>2, <3>1, <3>2, <3>3
    <3> QED
        BY <2>2, <3>4
  <2> QED
      BY <2>1, <2>2
<1>6. h = [T \in SUBSET S |-> h[T]]
    BY <1>4 DEF Recursion
<1>7. PieceEquation(snaps, S, start, tokens, h)
    BY <1>5, <1>6 DEF PieceEquation
<1> QED
    BY <1>7 DEF Pieces

Piecewise(snaps, S, start, tokens, g) ==
    /\ g[{}] = start
    /\ \A T \in SUBSET S : T # {} =>
          g[T] = Accumulate(g[T \ {Latest(T)}], snaps[Latest(T)].index,
                            snaps[Latest(T)].weight, tokens)

\* So every value of it is the one that its equation says.
LEMMA PieceAt ==
    ASSUME NEW snaps, NEW S, Typed(snaps, S), NEW start \in Paid, NEW tokens \in Nat
    PROVE  Piecewise(snaps, S, start, tokens, Pieces(snaps, S, start, tokens))
<1> DEFINE g == Pieces(snaps, S, start, tokens)
<1>1. PieceEquation(snaps, S, start, tokens, g)
    BY PiecesSolve
<1> HIDE DEF g
<1>2. \A T \in SUBSET S :
          g[T] = IF T = {} THEN start
                 ELSE Accumulate(g[T \ {Latest(T)}], snaps[Latest(T)].index,
                                 snaps[Latest(T)].weight, tokens)
    BY <1>1 DEF PieceEquation
<1>3. Piecewise(snaps, S, start, tokens, g)
    BY <1>2 DEF Piecewise
<1> QED
    BY <1>3 DEF g

\* What every piece preserves holds up to the last snapshot.
LEMMA PiecesIn ==
    ASSUME NEW snaps, NEW S, Typed(snaps, S), NEW start \in Paid, NEW tokens \in Nat,
           NEW D, start \in D,
           \A s \in S, p \in D : Accumulate(p, snaps[s].index, snaps[s].weight, tokens) \in D
    PROVE  Pieces(snaps, S, start, tokens)[S] \in D
<1> DEFINE pick == [T \in SUBSET S |-> Latest(T)]
           g == Pieces(snaps, S, start, tokens)
           G == {T \in SUBSET S : g[T] \in D}
<1>1. IsFiniteSet(S) /\ Picks(pick, S) /\ \A T \in SUBSET S : T # {} => Latest(T) \in T
    BY LatestPicked DEF Typed
<1>2. Piecewise(snaps, S, start, tokens, g)
    BY PieceAt
<1> HIDE DEF g
<1>3. Grows(G, pick, S)
  <2>1. ASSUME NEW T \in SUBSET S, T # {}, T \ {pick[T]} \in G PROVE g[T] \in D
    <3>1. pick[T] = Latest(T) /\ Latest(T) \in S
        BY <1>1, <2>1
    <3>2. g[T \ {Latest(T)}] \in D
        BY <2>1, <3>1
    <3> QED
        BY <1>2, <2>1, <3>1, <3>2 DEF Piecewise
  <2> QED
      BY <1>2, <2>1 DEF Grows, Piecewise
<1>4. \A T \in SUBSET S : T \in G
  <2> HIDE DEF G, pick
  <2> QED
      BY <1>1, <1>3, PickInduction
<1> QED
    BY <1>4 DEF g

LEMMA PiecesPaid ==
    ASSUME NEW snaps, NEW S, Typed(snaps, S), NEW start \in Paid, NEW tokens \in Nat
    PROVE  Pieces(snaps, S, start, tokens)[S] \in Paid
<1>1. ASSUME NEW s \in S, NEW p \in Paid
      PROVE  Accumulate(p, snaps[s].index, snaps[s].weight, tokens) \in Paid
  <2>1. snaps[s].index \in Nat /\ snaps[s].weight \in Nat
      BY DEF Typed
  <2> QED
      BY <2>1, AccumulatePaid
<1> QED
    BY <1>1, PiecesIn

\* They depend on nothing but the snapshots they visit.
LEMMA PiecesAgree ==
    ASSUME NEW snaps, NEW more, NEW R, NEW S \in SUBSET R, Typed(more, R),
           \A s \in S : more[s] = snaps[s], NEW start \in Paid, NEW tokens \in Nat
    PROVE  Pieces(more, R, start, tokens)[S] = Pieces(snaps, S, start, tokens)[S]
<1> DEFINE pick == [T \in SUBSET S |-> Latest(T)]
           g == Pieces(snaps, S, start, tokens)
           h == Pieces(more, R, start, tokens)
           G == {T \in SUBSET S : h[T] = g[T]}
<1>0. Typed(snaps, S)
    BY FS_Subset DEF Typed
<1>1. IsFiniteSet(S) /\ Picks(pick, S) /\ \A T \in SUBSET S : T # {} => Latest(T) \in T
    BY <1>0, LatestPicked DEF Typed
<1>2. Piecewise(snaps, S, start, tokens, g)
    BY <1>0, PieceAt
<1>3. Piecewise(more, R, start, tokens, h)
    BY PieceAt
<1> HIDE DEF g, h
<1>4. Grows(G, pick, S)
  <2>1. ASSUME NEW T \in SUBSET S, T # {}, T \ {pick[T]} \in G PROVE h[T] = g[T]
    <3>1. pick[T] = Latest(T) /\ Latest(T) \in S /\ T \in SUBSET R
        BY <1>1, <2>1
    <3>2. h[T \ {Latest(T)}] = g[T \ {Latest(T)}]
        BY <2>1, <3>1
    <3>3. more[Latest(T)] = snaps[Latest(T)]
        BY <3>1
    <3> QED
        BY <1>2, <1>3, <2>1, <3>1, <3>2, <3>3 DEF Piecewise
  <2> QED
      BY <1>2, <1>3, <2>1 DEF Grows, Piecewise
<1>5. \A T \in SUBSET S : T \in G
  <2> HIDE DEF G, pick
  <2> QED
      BY <1>1, <1>4, PickInduction
<1> QED
    BY <1>5 DEF g, h

\* The snapshots since a claim are typed.
LEMMA SinceTyped ==
    ASSUME NEW t \in Nat, NEW snaps, NEW b, SnapshotsOK(snaps, b, t), NEW c, NEW key
    PROVE  Typed(snaps, Since(snaps, c, key))
<1>1. Since(snaps, c, key) \subseteq SnapshotKeys(t) /\ Since(snaps, c, key) \subseteq DOMAIN snaps
    BY DEF Since, SnapshotsOK
<1>2. IsFiniteSet(Since(snaps, c, key))
    BY <1>1, SnapshotKeysFinite, FS_Subset
<1>3. \A s \in Since(snaps, c, key) : s.at \in Nat /\ snaps[s] \in [weight : Nat, index : Nat]
    BY <1>1 DEF SnapshotsOK, SnapshotKeys
<1> QED
    BY <1>2, <1>3 DEF Typed

\* A claim is for no less than nothing.
LEMMA EarnedNat ==
    ASSUME NEW t \in Nat, NEW b, BooksOK(b, t), NEW snaps, SnapshotsOK(snaps, b, t),
           NEW key \in DOMAIN b.claims, NEW w \in Nat, NEW tokens \in Nat
    PROVE  EarnedFrom(snaps, w, b, key, tokens) \in Nat
<1> DEFINE S == Since(snaps, b, key)
           past == Pieces(snaps, S, Start(b, key), tokens)[S]
<1>1. Typed(snaps, S)
    BY SinceTyped
<1>2. Start(b, key) \in Paid /\ b.index[key.val] \in Nat
    BY DEF BooksOK, Paid, DelKeys, Start
<1>3. past \in Paid
  <2> HIDE DEF S
  <2> QED BY <1>1, <1>2, PiecesPaid
<1> HIDE DEF past
<1>4. Accumulate(past, b.index[key.val], w, tokens).coins \in Nat
    BY <1>2, <1>3, AccumulatePaid DEF Paid
<1> QED
    BY <1>4 DEF EarnedFrom, past, S

LEMMA RewardsNat ==
    ASSUME NEW t \in Nat, NEW b, BooksOK(b, t), SnapshotsOK(snapshots, b, t),
           NEW key \in DOMAIN b.claims, weights[key.denom] \in Nat, NEW tokens \in Nat
    PROVE  RewardsFor(b, key, tokens) \in Nat
BY EarnedNat, RewardsInPieces

-----------------------------------------------------------------------------
(* Claims keep the books.                                                   *)

InOrder(b) == BooksOK(b, now) /\ SnapshotsOK(snapshots, b, now)

\* Claims from validators move their indices ahead, never behind a history.
LEMMA ClaimedInOrder ==
    ASSUME NEW b, InOrder(b), NEW c \in Claimed(b)
    PROVE  InOrder(c) /\ c.claims = b.claims /\ c.pool >= b.pool
<1>1. /\ c = [pending |-> c.pending, index |-> c.index, claims |-> c.claims, pool |-> c.pool,
              earned |-> c.earned]
      /\ c.pending \in [Validators -> Nat] /\ c.index \in [Validators -> Nat]
      /\ c.pool \in Int /\ c.claims = b.claims /\ c.earned = b.earned /\ c.pool >= b.pool
      /\ \A v \in Validators : c.index[v] >= b.index[v]
    BY DEF Claimed
<1>2. b.index \in [Validators -> Nat] /\ b.earned \in [Delegators -> Nat]
    BY DEF InOrder, BooksOK
<1>3. BooksOK(c, now)
  <2>1. ASSUME NEW key \in DOMAIN c.claims
        PROVE  /\ c.claims[key] \in [index : Nat, at : 0 .. now]
               /\ c.claims[key].index =< c.index[key.val]
    <3>1. /\ b.claims[key] \in [index : Nat, at : 0 .. now]
          /\ b.claims[key].index =< b.index[key.val] /\ key.val \in Validators
        BY <1>1 DEF InOrder, BooksOK, DelKeys
    <3>2. b.claims[key].index \in Nat
        BY <3>1
    <3>3. b.index[key.val] \in Nat /\ c.index[key.val] \in Nat
        BY <1>1, <1>2, <3>1
    <3> QED
        BY <1>1, <3>1, <3>2, <3>3
  <2>2. DOMAIN c.claims \subseteq DelKeys
      BY <1>1 DEF InOrder, BooksOK
  <2> QED
      BY <1>1, <1>2, <2>1, <2>2 DEF BooksOK, IsBooks
<1>4. SnapshotsOK(snapshots, c, now)
  <2>1. ASSUME NEW s \in DOMAIN snapshots PROVE snapshots[s].index =< c.index[s.val]
    <3>1. /\ snapshots[s].index =< b.index[s.val] /\ s.val \in Validators
          /\ snapshots[s] \in [weight : Nat, index : Nat]
        BY DEF InOrder, SnapshotsOK, SnapshotKeys
    <3>2. snapshots[s].index \in Nat /\ b.index[s.val] \in Nat /\ c.index[s.val] \in Nat
        BY <1>1, <1>2, <3>1
    <3> QED
        BY <1>1, <3>1, <3>2
  <2> QED
      BY <1>1, <2>1 DEF InOrder, SnapshotsOK
<1> QED
    BY <1>1, <1>3, <1>4 DEF InOrder

\* A claim from validators, before anything else, is in order.
LEMMA ClaimValidatorInOrder ==
    ASSUME NEW l, LedgerNat(l), NEW b, InOrder(b), NEW v \in Validators
    PROVE  LET c == ClaimValidatorRewards(b, l, v)
           IN  InOrder(c) /\ c.claims = b.claims /\ c.pool >= b.pool
<1>1. b \in Claimed(b) /\ b.pool \in Int /\ b.index \in [Validators -> Nat]
    BY DEF InOrder, BooksOK, IsBooks, Claimed
<1>2. ClaimValidatorRewards(b, l, v) \in Claimed(b)
    BY <1>1, ClaimValidatorClaims
<1> QED
    BY <1>2, ClaimedInOrder

\* Claims from several validators are in order.
LEMMA ClaimAllInOrder ==
    ASSUME NEW l, LedgerNat(l), NEW b, InOrder(b), NEW S \in SUBSET Validators
    PROVE  LET c == ClaimAll(b, l, S)
           IN  /\ InOrder(c) /\ c.claims = b.claims /\ c.pool >= b.pool
               /\ \A v \in Validators : c.index[v] >= b.index[v]
<1>1. b \in Claimed(b) /\ b.pool \in Int /\ b.index \in [Validators -> Nat]
    BY DEF InOrder, BooksOK, IsBooks, Claimed
<1>2. ClaimAll(b, l, S) \in Claimed(b)
    BY <1>1, ClaimAllClaims
<1>3. \A v \in Validators : ClaimAll(b, l, S).index[v] >= b.index[v]
    BY <1>2 DEF Claimed
<1> QED
    BY <1>2, <1>3, ClaimedInOrder

\* A new history changes one field of the books, and a payment two.
LEMMA HistorySet ==
    ASSUME NEW c, IsBooks(c), NEW key, NEW x
    PROVE  [c EXCEPT !.claims[key] = x]
             = [pending |-> c.pending, index |-> c.index,
                claims |-> [c.claims EXCEPT ![key] = x], pool |-> c.pool, earned |-> c.earned]
<1> DEFINE histories == [c.claims EXCEPT ![key] = x]
<1>1. [c EXCEPT !.claims[key] = x] = [c EXCEPT !.claims = histories]
    OBVIOUS
<1> HIDE DEF histories
<1>2. [c EXCEPT !.claims = histories]
          = [pending |-> c.pending, index |-> c.index, claims |-> histories, pool |-> c.pool,
             earned |-> c.earned]
    BY DEF IsBooks
<1> QED
    BY <1>1, <1>2 DEF histories

PayOut(c, d, x, y) == [c EXCEPT !.pool = x, !.earned[d] = y]

\* The payment of a claim.
LEMMA PaidOut ==
    ASSUME NEW c, IsBooks(c), NEW d, NEW x, NEW y
    PROVE  PayOut(c, d, x, y)
             = [pending |-> c.pending, index |-> c.index, claims |-> c.claims, pool |-> x,
                earned |-> [c.earned EXCEPT ![d] = y]]
<1> DEFINE p == [c EXCEPT !.pool = x]
           new == [c.earned EXCEPT ![d] = y]
<1>1. p = [pending |-> c.pending, index |-> c.index, claims |-> c.claims, pool |-> x,
           earned |-> c.earned]
    BY DEF IsBooks
<1>2. p.earned = c.earned
    BY <1>1
<1>3. PayOut(c, d, x, y) = [p EXCEPT !.earned = new]
    BY <1>2 DEF PayOut
<1> HIDE DEF p, new
<1>4. [p EXCEPT !.earned = new] = [pending |-> c.pending, index |-> c.index,
                                   claims |-> c.claims, pool |-> x, earned |-> new]
    BY <1>1
<1> QED
    BY <1>3, <1>4 DEF new

\* A history of now is the validator's.
LEMMA HistoryNow ==
    ASSUME now \in Nat, NEW c, InOrder(c), NEW key \in DelKeys
    PROVE  LET u == [c EXCEPT !.claims[key] = [index |-> c.index[key.val], at |-> now]]
           IN  InOrder(u) /\ DOMAIN u.claims = DOMAIN c.claims /\ u.pool = c.pool
               /\ u.index = c.index /\ u.earned = c.earned
<1> DEFINE x == [index |-> c.index[key.val], at |-> now]
           u == [c EXCEPT !.claims[key] = x]
           new == [c.claims EXCEPT ![key] = x]
<1>1. u = [pending |-> c.pending, index |-> c.index, claims |-> new, pool |-> c.pool,
           earned |-> c.earned]
  <2>1. IsBooks(c)
      BY DEF InOrder, BooksOK
  <2> HIDE DEF x
  <2> QED BY <2>1, HistorySet
<1>2. c.index[key.val] \in Nat /\ x \in [index : Nat, at : 0 .. now]
    BY DEF InOrder, BooksOK, DelKeys
<1>3. /\ DOMAIN new = DOMAIN c.claims
      /\ \A k \in DOMAIN c.claims : new[k] = IF k = key THEN x ELSE c.claims[k]
    OBVIOUS
<1>4. \A k \in DOMAIN new : /\ new[k] \in [index : Nat, at : 0 .. now]
                            /\ new[k].index =< c.index[k.val]
  <2> HIDE DEF new
  <2> QED BY <1>2, <1>3 DEF InOrder, BooksOK
<1> HIDE DEF new, u
<1>5. BooksOK(u, now)
    BY <1>1, <1>3, <1>4 DEF BooksOK, IsBooks, InOrder
<1>6. ASSUME NEW s \in DOMAIN snapshots, NEW k \in DOMAIN new,
             s.val = k.val, s.denom = k.denom, s.at > new[k].at
      PROVE  new[k].index =< snapshots[s].index
  <2>1. CASE k = key
    <3>1. s.at \in 0 .. now /\ new[k].at = now
        BY <1>3, <2>1 DEF InOrder, SnapshotsOK, SnapshotKeys
    <3> QED
        BY <1>6, <3>1
  <2>2. CASE k # key
      BY <1>3, <1>6, <2>2 DEF InOrder, SnapshotsOK
  <2> QED
      BY <2>1, <2>2
<1>7. SnapshotsOK(snapshots, u, now)
    BY <1>1, <1>6 DEF SnapshotsOK, InOrder
<1> QED
    BY <1>1, <1>3, <1>5, <1>7 DEF InOrder, u

\* A claim whose payment fails has written its history.
LEMMA UnpaidInOrder ==
    ASSUME now \in Nat, NEW l, LedgerNat(l), NEW b, InOrder(b), NEW key \in DelKeys
    PROVE  LET u == ClaimUnpaid(b, l, key)
           IN  InOrder(u) /\ DOMAIN u.claims = DOMAIN b.claims /\ u.pool >= b.pool
<1> DEFINE c == ClaimValidatorRewards(b, l, key.val)
<1>1. InOrder(c) /\ c.claims = b.claims /\ c.pool >= b.pool
    BY ClaimValidatorInOrder DEF DelKeys
<1>2. ClaimUnpaid(b, l, key) = [c EXCEPT !.claims[key] = [index |-> c.index[key.val], at |-> now]]
    BY DEF ClaimUnpaid
<1> HIDE DEF c
<1> QED
    BY <1>1, <1>2, HistoryNow

\* ClaimDelegationRewards leaves the books in order; only the pool may fall short.
LEMMA ClaimInOrder ==
    ASSUME now \in Nat, NEW l, LedgerNat(l), NEW b, InOrder(b),
           NEW key \in DOMAIN l.dels, DOMAIN b.claims = DOMAIN l.dels,
           key.denom \in DOMAIN l.assets
    PROVE  InOrder(Claim(b, l, key)) /\ DOMAIN Claim(b, l, key).claims = DOMAIN b.claims
<1> DEFINE c == ClaimValidatorRewards(b, l, key.val)
           tokens == GetDelegationTokensWithShares(l.dels[key],
                         l.positions[key.val][key.denom], l.assets[key.denom])
           coins == RewardsFor(c, key, tokens)
           u == ClaimUnpaid(c, l, key)
           paid == [u EXCEPT !.pool = @ - coins, !.earned[key.del] = @ + coins]
<1>1. key \in DelKeys /\ weights[key.denom] \in Nat
    BY DEF LedgerNat
<1>2. InOrder(c) /\ c.claims = b.claims
    BY <1>1, ClaimValidatorInOrder DEF DelKeys
<1>3. tokens \in Nat
    BY TokensNat
<1>4. Claim(b, l, key) = b \/ Claim(b, l, key) = paid
    BY DEF Claim, Unclaimed
<1> HIDE DEF c, tokens
<1>5. coins \in Nat
  <2>1. key \in DOMAIN c.claims
      BY <1>2
  <2> QED
      BY <1>1, <1>2, <1>3, <2>1, RewardsNat DEF InOrder
<1>6. InOrder(u) /\ DOMAIN u.claims = DOMAIN b.claims
    BY <1>1, <1>2, UnpaidInOrder
<1> HIDE DEF coins, u
<1>7. InOrder(paid) /\ DOMAIN paid.claims = DOMAIN b.claims
  <2> DEFINE x == u.pool - coins
             y == u.earned[key.del] + coins
             new == [u.earned EXCEPT ![key.del] = y]
  <2>1. /\ u.pool \in Int /\ u.earned \in [Delegators -> Nat] /\ IsBooks(u)
        /\ key.del \in Delegators
      BY <1>1, <1>6 DEF InOrder, BooksOK, DelKeys
  <2>2. x \in Int /\ new \in [Delegators -> Nat]
      BY <1>5, <2>1
  <2>3. paid = [u EXCEPT !.pool = x, !.earned[key.del] = y]
      BY Zenon
  <2> HIDE DEF x, y, paid
  <2>4. paid = [pending |-> u.pending, index |-> u.index, claims |-> u.claims, pool |-> x,
                earned |-> new]
    <3> HIDE DEF new
    <3>1. paid = PayOut(u, key.del, x, y)
        BY <2>3, Zenon DEF PayOut
    <3>2. PayOut(u, key.del, x, y)
              = [pending |-> u.pending, index |-> u.index, claims |-> u.claims, pool |-> x,
                 earned |-> [u.earned EXCEPT ![key.del] = y]]
        BY <2>1, PaidOut
    <3> QED
        BY <3>1, <3>2, Zenon DEF new
  <2> HIDE DEF new
  <2>5. BooksOK(paid, now)
      BY <1>6, <2>2, <2>4 DEF InOrder, BooksOK, IsBooks
  <2>6. SnapshotsOK(snapshots, paid, now)
      BY <1>6, <2>4 DEF InOrder, SnapshotsOK
  <2> QED
      BY <1>6, <2>4, <2>5, <2>6 DEF InOrder
<1> HIDE DEF paid
<1> QED
    BY <1>4, <1>7

-----------------------------------------------------------------------------
(* The rounds of a slash, with their claims.                                *)

\* A round takes shares from a delegation; it neither opens nor closes one.
LEMMA RoundKeepsDelegations ==
    ASSUME NEW s, StateOK(s), NEW x, NEW f
    PROVE  DOMAIN SlashRedelegation(s, x, f).dels = DOMAIN s.dels
<1> DEFINE key == DelKey(x.del, x.dst, x.denom)
           out == SlashRedelegation(s, x, f)
<1>1. out = s \/ (\E r : out = [s EXCEPT !.result = r])
         \/ (\E own, p : out = [s EXCEPT !.dels[key] = own,
                                         !.positions[x.dst][x.denom].issued = p])
    BY Zenon DEF SlashRedelegation
<1>2. ASSUME NEW r, out = [s EXCEPT !.result = r] PROVE DOMAIN out.dels = DOMAIN s.dels
    BY <1>2 DEF StateOK
<1>3. ASSUME NEW own, NEW p, out = [s EXCEPT !.dels[key] = own,
                                             !.positions[x.dst][x.denom].issued = p]
      PROVE  DOMAIN out.dels = DOMAIN s.dels
  <2> DEFINE left == [s.dels EXCEPT ![key] = own]
             q == [s.positions EXCEPT ![x.dst][x.denom].issued = p]
  <2>1. out = [s EXCEPT !.dels = left, !.positions = q]
      BY <1>3 DEF StateOK
  <2>2. DOMAIN left = DOMAIN s.dels
      OBVIOUS
  <2> HIDE DEF left, q, out
  <2> QED
      BY <2>1, <2>2 DEF StateOK
<1>4. CASE \E r : out = [s EXCEPT !.result = r]
    BY <1>2, <1>4, Zenon
<1>5. CASE \E own, p : out = [s EXCEPT !.dels[key] = own,
                                      !.positions[x.dst][x.denom].issued = p]
    BY <1>3, <1>5, Zenon
<1> QED
    BY <1>1, <1>4, <1>5, Zenon DEF StateOK

\* The ledger of a round is without negative amounts if the first one is.
LedgerStarts(start) ==
    /\ DOMAIN start.assets \subseteq Denoms /\ DOMAIN start.assets = DOMAIN assets
    /\ \A n \in DOMAIN start.assets :
          /\ weights[n] \in Nat
          /\ start.assets[n].tokens \in Nat /\ start.assets[n].shares \in Nat
    /\ \A v \in Validators, n \in Denoms : start.positions[v][n].held \in Nat

\* So the claims of any round find such a ledger.
LEMMA LedgerStays ==
    ASSUME NEW start, LedgerStarts(start), NEW s, After(s, start)
    PROVE  LedgerNat(s)
<1>1. \A v \in Validators, n \in Denoms : s.positions[v][n].issued \in Nat
    BY IssuedNat DEF After, StateOK, LedgerOK
<1>2. \A key \in DOMAIN s.dels : key \in DelKeys /\ s.dels[key] \in Nat
    BY DEF After, StateOK, LedgerOK, DelStore
<1> QED
    BY <1>1, <1>2 DEF LedgerNat, LedgerStarts, After

ClaimingOK(s, start) ==
    /\ After(s.ledger, start)
    /\ InOrder(s.books) /\ s.books.pool \in Nat
    /\ DOMAIN s.books.claims = DOMAIN s.ledger.dels
    /\ DOMAIN s.ledger.dels = DOMAIN dels

\* A round of slashRedelegations with its claim, paid or not.
LEMMA RoundInOrder ==
    ASSUME now \in Nat, NEW start, LedgerStarts(start), NEW s, ClaimingOK(s, start), NEW x, NEW f
    PROVE  ClaimingOK(SlashRound(s, x, f), start)
<1> DEFINE key == DelKey(x.del, x.dst, x.denom)
           pays == /\ s.ledger.result = "ok"
                   /\ x.denom \in DOMAIN assets
                   /\ key \in DOMAIN s.ledger.dels
           b == IF pays THEN Claim(s.books, s.ledger, key) ELSE s.books
           unpaid == ClaimUnpaid(s.books, s.ledger, key)
           failed == [s.ledger EXCEPT !.result = "error"]
           slashed == SlashRedelegation(s.ledger, x, f)
<1>1. LedgerNat(s.ledger) /\ StateOK(s.ledger)
    BY LedgerStays DEF ClaimingOK, After
<1>2. SlashRound(s, x, f) = IF b.pool < 0 THEN [ledger |-> failed, books |-> unpaid]
                            ELSE [ledger |-> slashed, books |-> b]
    BY DEF SlashRound
<1>3. pays => key \in DelKeys /\ key.denom \in DOMAIN s.ledger.assets
    BY <1>1 DEF LedgerNat, LedgerStarts, ClaimingOK, After, DelKey
<1>4. InOrder(b) /\ DOMAIN b.claims = DOMAIN s.ledger.dels
  <2>1. CASE pays
    <3>1. key \in DOMAIN s.ledger.dels /\ key.denom \in DOMAIN s.ledger.assets
        BY <1>3, <2>1
    <3> HIDE DEF key
    <3>2. InOrder(Claim(s.books, s.ledger, key))
          /\ DOMAIN Claim(s.books, s.ledger, key).claims = DOMAIN s.books.claims
        BY <1>1, <3>1, ClaimInOrder DEF ClaimingOK
    <3> QED
        BY <2>1, <3>2 DEF ClaimingOK
  <2>2. CASE ~pays
    <3> HIDE DEF pays
    <3> QED BY <2>2 DEF ClaimingOK
  <2> QED
      BY <2>1, <2>2
<1> HIDE DEF unpaid
<1>5. CASE b.pool < 0
  <2>1. pays
      BY <1>5 DEF ClaimingOK
  <2>2. InOrder(unpaid) /\ DOMAIN unpaid.claims = DOMAIN s.books.claims
        /\ unpaid.pool >= s.books.pool
    <3> HIDE DEF key
    <3> QED BY <1>1, <1>3, <2>1, UnpaidInOrder DEF ClaimingOK, unpaid
  <2>3. unpaid.pool \in Nat
      BY <2>2 DEF ClaimingOK, InOrder, BooksOK
  <2>4. After(failed, start) /\ failed.dels = s.ledger.dels
      BY <1>1 DEF After, StateOK, ClaimingOK
  <2> HIDE DEF failed, b, slashed
  <2>5. SlashRound(s, x, f) = [ledger |-> failed, books |-> unpaid]
      BY <1>2, <1>5
  <2> QED
      BY <2>2, <2>3, <2>4, <2>5 DEF ClaimingOK
<1>6. CASE ~(b.pool < 0)
  <2>1. After(slashed, start) /\ DOMAIN slashed.dels = DOMAIN s.ledger.dels
    <3>1. After(slashed, s.ledger)
        BY <1>1, RoundKeepsLedger
    <3>2. DOMAIN slashed.dels = DOMAIN s.ledger.dels
        BY <1>1, RoundKeepsDelegations
    <3> HIDE DEF slashed
    <3> QED
        BY <3>1, <3>2 DEF After, ClaimingOK
  <2> HIDE DEF slashed, b, failed
  <2>2. SlashRound(s, x, f) = [ledger |-> slashed, books |-> b]
      BY <1>2, <1>6
  <2>3. b.pool \in Nat
      BY <1>4, <1>6 DEF InOrder, BooksOK
  <2> QED
      BY <1>4, <2>1, <2>2, <2>3 DEF ClaimingOK
<1> QED
    BY <1>5, <1>6

\* The recursion of slashRedelegations with its claims, on the number of rounds.
ClaimingStart(v, f) == [ledger |-> SlashStart(v, f), books |-> books]

ClaimingEquation(v, f, order, len, g) ==
    g = [i \in 0 .. len |-> IF i = 0 THEN ClaimingStart(v, f)
                            ELSE SlashRound(g[i - 1], order[i], f)]

ClaimingRounds(v, f, order, len) == CHOOSE g : ClaimingEquation(v, f, order, len, g)

\* The outcome of the loop is the state after its last round.
LEMMA ClaimingIsLastRound ==
    ASSUME NEW v, NEW f, NEW order
    PROVE  ClaimingOutcome(v, f, order) = ClaimingRounds(v, f, order, Len(order))[Len(order)]
BY DEF ClaimingOutcome, ClaimingRounds, ClaimingEquation, ClaimingStart, SlashStart

\* The rounds are well defined, as recursion on their number.
LEMMA ClaimingRoundsExist ==
    ASSUME NEW v, NEW f, NEW order, NEW len \in Nat
    PROVE  ClaimingEquation(v, f, order, len, ClaimingRounds(v, f, order, len))
<1> DEFINE N == {n \in Nat : \E g : ClaimingEquation(v, f, order, n, g)}
<1>1. 0 \in N
  <2>1. ClaimingEquation(v, f, order, 0, [i \in 0 .. 0 |-> ClaimingStart(v, f)])
      BY DEF ClaimingEquation
  <2> QED
      BY <2>1
<1>2. ASSUME NEW n \in Nat, n \in N PROVE n + 1 \in N
  <2>1. PICK g : ClaimingEquation(v, f, order, n, g)
      BY <1>2
  <2> DEFINE h == [i \in 0 .. n + 1 |->
                      IF i = n + 1 THEN SlashRound(g[n], order[n + 1], f) ELSE g[i]]
  <2>2. ASSUME NEW i \in 0 .. n + 1
        PROVE  h[i] = IF i = 0 THEN ClaimingStart(v, f)
                      ELSE SlashRound(h[i - 1], order[i], f)
    <3>1. CASE i = n + 1
        BY <3>1
    <3>2. CASE i # n + 1
      <4>1. i \in 0 .. n /\ h[i] = g[i] /\ (i # 0 => h[i - 1] = g[i - 1])
          BY <3>2
      <4>2. g[i] = IF i = 0 THEN ClaimingStart(v, f)
                   ELSE SlashRound(g[i - 1], order[i], f)
          BY <2>1, <4>1 DEF ClaimingEquation
      <4> QED
          BY <4>1, <4>2
    <3> QED
        BY <3>1, <3>2
  <2>3. ClaimingEquation(v, f, order, n + 1, h)
      BY <2>2 DEF ClaimingEquation
  <2> QED
      BY <2>3
<1>3. Nat \subseteq N
  <2> HIDE DEF N
  <2> QED BY <1>1, <1>2, NatSetInduction
<1> QED
    BY <1>3 DEF ClaimingRounds

\* All rounds together leave the books in order.
LEMMA ClaimingInOrder ==
    ASSUME now \in Nat, NEW v, NEW f, NEW order, Len(order) \in Nat,
           LedgerStarts(SlashStart(v, f)), ClaimingOK(ClaimingStart(v, f), SlashStart(v, f))
    PROVE  ClaimingOK(ClaimingOutcome(v, f, order), SlashStart(v, f))
<1> DEFINE len == Len(order)
           start == SlashStart(v, f)
           g == ClaimingRounds(v, f, order, len)
           N == {n \in Nat : n =< len => ClaimingOK(g[n], start)}
<1>1. \A i \in 0 .. len :
          g[i] = IF i = 0 THEN ClaimingStart(v, f) ELSE SlashRound(g[i - 1], order[i], f)
  <2>1. ClaimingEquation(v, f, order, len, g)
      BY ClaimingRoundsExist
  <2> HIDE DEF g
  <2> QED
      BY <2>1 DEF ClaimingEquation
<1> HIDE DEF g
<1>2. 0 \in N
    BY <1>1
<1>3. ASSUME NEW n \in Nat, n \in N PROVE n + 1 \in N
  <2> SUFFICES ASSUME n + 1 =< len PROVE ClaimingOK(g[n + 1], start)
      OBVIOUS
  <2>1. ClaimingOK(g[n], start)
      BY <1>3
  <2>2. g[n + 1] = SlashRound(g[n], order[n + 1], f)
      BY <1>1
  <2> QED
      BY <2>1, <2>2, RoundInOrder
<1>4. Nat \subseteq N
  <2> HIDE DEF N
  <2> QED BY <1>2, <1>3, NatSetInduction
<1>5. ClaimingOK(g[len], start)
    BY <1>4
<1> QED
    BY <1>5, ClaimingIsLastRound DEF g

-----------------------------------------------------------------------------
(* What handlers write.                                                     *)

\* Time passes over books and snapshots.
LEMMA LaterInOrder ==
    ASSUME NEW t \in Nat, NEW u \in Nat, t =< u, NEW b, BooksOK(b, t),
           NEW snaps, SnapshotsOK(snaps, b, t)
    PROVE  BooksOK(b, u) /\ SnapshotsOK(snaps, b, u)
<1>1. 0 .. t \subseteq 0 .. u
    OBVIOUS
<1>2. BooksOK(b, u)
  <2>1. \A key \in DOMAIN b.claims : b.claims[key] \in [index : Nat, at : 0 .. u]
      BY <1>1 DEF BooksOK
  <2> QED
      BY <2>1 DEF BooksOK
<1>3. SnapshotKeys(t) \subseteq SnapshotKeys(u)
    BY <1>1 DEF SnapshotKeys
<1> QED
    BY <1>2, <1>3 DEF SnapshotsOK

\* Histories go with their delegations; a new one is its validator's.
LEMMA SettleInOrder ==
    ASSUME now \in Nat, NEW b, BooksOK(b, now), b.pool \in Nat, SettleBooks(b),
           DOMAIN dels' \subseteq DelKeys, NEW snaps, SnapshotsOK(snaps, b, now)
    PROVE  /\ BooksOK(books', now) /\ SnapshotsOK(snaps, books', now)
           /\ DOMAIN claims' = DOMAIN dels' /\ pool' \in Nat
<1>1. PICK c : c = books'
    OBVIOUS
<1>2. /\ c = [pending |-> b.pending, index |-> b.index, claims |-> claims', pool |-> b.pool,
              earned |-> b.earned]
      /\ claims' = [key \in DOMAIN dels' |-> History(b, key)]
      /\ pool' = b.pool
    BY <1>1 DEF SettleBooks, SetBooks, books
<1>3. DOMAIN c.claims = DOMAIN dels'
    BY <1>2
<1>4. ASSUME NEW key \in DOMAIN c.claims
      PROVE  /\ c.claims[key] \in [index : Nat, at : 0 .. now]
             /\ c.claims[key].index =< c.index[key.val]
             /\ \/ key \in DOMAIN b.claims /\ c.claims[key] = b.claims[key]
                \/ c.claims[key].at = now
  <2>1. c.claims[key] = History(b, key) /\ key \in DelKeys
      BY <1>2, <1>3
  <2>2. CASE key \in DOMAIN b.claims
      BY <1>2, <2>1, <2>2 DEF History, BooksOK
  <2>3. CASE key \notin DOMAIN b.claims
    <3>1. c.claims[key] = [index |-> b.index[key.val], at |-> now] /\ b.index[key.val] \in Nat
        BY <2>1, <2>3 DEF History, BooksOK, DelKeys
    <3> QED
        BY <1>2, <3>1
  <2> QED
      BY <2>2, <2>3
<1>5. BooksOK(c, now)
    BY <1>2, <1>3, <1>4 DEF BooksOK, IsBooks
<1>6. SnapshotsOK(snaps, c, now)
  <2>1. ASSUME NEW s \in DOMAIN snaps, NEW key \in DOMAIN c.claims,
               s.val = key.val, s.denom = key.denom, s.at > c.claims[key].at
        PROVE  c.claims[key].index =< snaps[s].index
    <3>1. s.at \in 0 .. now
        BY DEF SnapshotsOK, SnapshotKeys
    <3>2. key \in DOMAIN b.claims /\ c.claims[key] = b.claims[key]
        BY <1>4, <2>1, <3>1
    <3> QED
        BY <2>1, <3>2 DEF SnapshotsOK
  <2> QED
      BY <1>2, <2>1 DEF SnapshotsOK
<1> QED
    BY <1>1, <1>2, <1>3, <1>5, <1>6

\* A snapshot of now, taken between the histories and the validator's index.
LEMMA SnapshotInOrder ==
    ASSUME now \in Nat, NEW b, BooksOK(b, now), NEW snaps, SnapshotsOK(snaps, b, now),
           NEW ns \in SUBSET Denoms, NEW new,
           DOMAIN new = [denom : ns, val : Validators, at : {now}],
           \A s \in DOMAIN new :
               /\ new[s] \in [weight : Nat, index : Nat]
               /\ new[s].index =< b.index[s.val]
               /\ \A key \in DOMAIN b.claims :
                     s.val = key.val => b.claims[key].index =< new[s].index
    PROVE  SnapshotsOK(Written(new, snaps), b, now)
<1> DEFINE both == Written(new, snaps)
<1>1. DOMAIN both = DOMAIN new \cup DOMAIN snaps
    BY DEF Written
<1>2. \A s \in DOMAIN both : both[s] = IF s \in DOMAIN new THEN new[s] ELSE snaps[s]
    BY DEF Written
<1> HIDE DEF both
<1>3. DOMAIN new \subseteq SnapshotKeys(now)
    BY DEF SnapshotKeys
<1>4. ASSUME NEW s \in DOMAIN both
      PROVE  /\ both[s] \in [weight : Nat, index : Nat]
             /\ both[s].index =< b.index[s.val]
             /\ \A key \in DOMAIN b.claims :
                   s.val = key.val /\ s.denom = key.denom /\ s.at > b.claims[key].at =>
                       b.claims[key].index =< both[s].index
  <2>1. CASE s \in DOMAIN new
      BY <1>2, <2>1
  <2>2. CASE s \notin DOMAIN new
    <3>1. s \in DOMAIN snaps /\ both[s] = snaps[s]
        BY <1>1, <1>2, <2>2
    <3> QED
        BY <3>1 DEF SnapshotsOK
  <2> QED
      BY <2>1, <2>2
<1>5. SnapshotsOK(both, b, now)
    BY <1>1, <1>3, <1>4 DEF SnapshotsOK
<1> QED
    BY <1>5 DEF both

-----------------------------------------------------------------------------
(* The invariant.                                                           *)

\* Inductive, as long as no amount of the ledger is negative.
RewardsInv ==
    /\ LedgerInv
    /\ now \in 0 .. Horizon
    /\ DOMAIN assets \subseteq Denoms
    /\ DOMAIN weights = DOMAIN assets
    /\ \A n \in DOMAIN weights : weights[n] \in RewardWeights
    /\ initialized \subseteq Denoms
    /\ InOrder(books)
    /\ DOMAIN claims = DOMAIN dels
    /\ pool \in Nat

\* What an action that settles the books b keeps.
Settles(b) ==
    /\ BooksOK(b, now) /\ SnapshotsOK(snapshots', b, now)
    /\ b.pool \in Nat
    /\ SettleBooks(b)

\* The ledger that messages claim from.
LEMMA LedgerOfInv ==
    ASSUME RewardsInv, TypeOK
    PROVE  LedgerNat(ledger)
<1>1. \A n \in DOMAIN assets : weights[n] \in Nat
    BY RewardsConstants DEF RewardsInv
<1> QED
    BY <1>1 DEF RewardsInv, TypeOK, LedgerNat, ledger, DelKeys

\* The books that messages start from.
LEMMA BooksOfInv ==
    ASSUME RewardsInv
    PROVE  /\ now \in Nat /\ Horizon \in Nat /\ now =< Horizon
           /\ InOrder(books) /\ books.pool \in Nat
           /\ DOMAIN books.claims = DOMAIN dels
           /\ DOMAIN dels \subseteq DelKeys
<1>1. Horizon \in Nat
    BY RewardsConstants DEF Horizon
<1> QED
    BY <1>1 DEF RewardsInv, books, LedgerInv, LedgerOK, DelStore

\* An action keeps the invariant if it settles books in order at a time not before now.
LEMMA StepKeepsInv ==
    ASSUME RewardsInv, LedgerInv', now' \in now .. Horizon,
           DOMAIN assets' \subseteq Denoms, DOMAIN weights' = DOMAIN assets',
           \A n \in DOMAIN weights' : weights'[n] \in RewardWeights,
           initialized' \subseteq Denoms, NEW b, Settles(b)
    PROVE  RewardsInv'
<1>1. now \in Nat /\ Horizon \in Nat
    BY BooksOfInv
<1>2. now' \in Nat /\ now =< now' /\ now' \in 0 .. Horizon
    BY <1>1
<1>3. DOMAIN dels' \subseteq DelKeys
    BY DEF LedgerInv, LedgerOK, DelStore
<1>4. PICK snaps : snaps = snapshots'
    OBVIOUS
<1>5. /\ BooksOK(books', now) /\ SnapshotsOK(snaps, books', now)
      /\ DOMAIN claims' = DOMAIN dels' /\ pool' \in Nat
    BY <1>1, <1>3, <1>4, SettleInOrder DEF Settles
<1>6. BooksOK(books', now') /\ SnapshotsOK(snaps, books', now')
    BY <1>1, <1>2, <1>5, LaterInOrder
<1>7. InOrder(books)'
    BY <1>4, <1>6 DEF InOrder
<1> QED
    BY <1>2, <1>5, <1>7 DEF RewardsInv

\* A message claims from the delegation it finds, if its asset is known.
LEMMA FoundInOrder ==
    ASSUME now \in Nat, LedgerNat(ledger), NEW b, InOrder(b), DOMAIN b.claims = DOMAIN dels,
           NEW key, key.denom \in DOMAIN assets
    PROVE  LET c == ClaimIfFound(b, key)
           IN  InOrder(c) /\ DOMAIN c.claims = DOMAIN dels
<1>1. CASE key \in DOMAIN dels
  <2>1. key \in DOMAIN ledger.dels /\ DOMAIN b.claims = DOMAIN ledger.dels
        /\ key.denom \in DOMAIN ledger.assets
      BY <1>1 DEF ledger
  <2>2. InOrder(Claim(b, ledger, key)) /\ DOMAIN Claim(b, ledger, key).claims = DOMAIN b.claims
    <3> HIDE DEF ledger
    <3>1. PICK l : l = ledger
        OBVIOUS
    <3>2. LedgerNat(l) /\ key \in DOMAIN l.dels /\ DOMAIN b.claims = DOMAIN l.dels
          /\ key.denom \in DOMAIN l.assets
        BY <2>1, <3>1
    <3>3. InOrder(Claim(b, l, key)) /\ DOMAIN Claim(b, l, key).claims = DOMAIN b.claims
        BY <3>2, ClaimInOrder
    <3> QED
        BY <3>1, <3>3
  <2> QED
      BY <1>1, <2>2 DEF ClaimIfFound
<1>2. CASE key \notin DOMAIN dels
    BY <1>2 DEF ClaimIfFound
<1> QED
    BY <1>1, <1>2

-----------------------------------------------------------------------------
(* The steps.                                                               *)

\* Every step is a step of the ledger, or leaves the ledger alone.
LEMMA LedgerStep ==
    ASSUME RewardsNext \/ UNCHANGED allVars
    PROVE  [Next]_vars \/ UNCHANGED <<now, ledgerVars, redelIndex>>
<1>1. ASSUME NEW n \in Denoms, DeleteAllianceWithWeight(n) PROVE Next
    BY <1>1 DEF DeleteAllianceWithWeight, Next
<1>2. ASSUME NEW n \in Denoms, NEW w, CreateAllianceWithWeight(n, w) PROVE Next
    BY <1>2 DEF CreateAllianceWithWeight, Next
<1>3. ASSUME NEW n, NEW w, UpdateAlliance(n, w)
      PROVE  UNCHANGED <<now, ledgerVars, redelIndex>>
    BY <1>3 DEF UpdateAlliance, redelVars
<1>4. ASSUME NEW d, NEW v, NEW n, ClaimRewards(d, v, n)
      PROVE  UNCHANGED <<now, ledgerVars, redelIndex>>
    BY <1>4 DEF ClaimRewards, redelVars
<1>5. ASSUME NEW d \in Delegators, NEW n \in Denoms, NEW amt \in Amounts, NEW v \in Validators,
             DelegateAndClaim(d, v, n, amt)
      PROVE  Next
    BY <1>5 DEF DelegateAndClaim, Next
<1>6. ASSUME NEW d \in Delegators, NEW n \in Denoms, NEW amt \in Amounts, NEW v \in Validators,
             UndelegateAndClaim(d, v, n, amt)
      PROVE  Next
    BY <1>6 DEF UndelegateAndClaim, Next
<1>7. ASSUME NEW d \in Delegators, NEW n \in Denoms, NEW amt \in Amounts,
             NEW src \in Validators, NEW dst \in Validators,
             RedelegateAndClaim(d, src, dst, n, amt)
      PROVE  Next
    BY <1>7 DEF RedelegateAndClaim, Next
<1>8. ASSUME NEW v \in Validators, NEW f \in Fractions, SlashAndClaim(v, f) PROVE Next
    BY <1>8 DEF SlashAndClaim, Next
<1>9. ASSUME NEW v, NEW coins, Allocate(v, coins) PROVE UNCHANGED vars
    BY <1>9 DEF Allocate
<1>10. CASE NextBlockAndClaim
    BY <1>10 DEF NextBlockAndClaim, EndBlockAndClaim, Next, NextBlock
<1>11. CASE UNCHANGED allVars
    BY <1>11 DEF allVars
<1> QED
    BY <1>1, <1>2, <1>3, <1>4, <1>5, <1>6, <1>7, <1>8, <1>9, <1>10, <1>11 DEF RewardsNext

\* So the ledger stays balanced.
LEMMA RewardsKeepLedger == LedgerInv /\ [RewardsNext]_allVars => LedgerInv'
<1> SUFFICES ASSUME LedgerInv, [RewardsNext]_allVars PROVE LedgerInv'
    OBVIOUS
<1>1. [Next]_vars \/ UNCHANGED <<now, ledgerVars, redelIndex>>
    BY LedgerStep
<1> QED
    BY <1>1, NextLedgerInv DEF LedgerInv, ledgerVars

\* And typed, as in Delegations.
LEMMA RewardsKeepTypes ==
    /\ HeldInv /\ StartsNat /\ AssetsOK /\ WhitelistInv /\ LedgerInv /\ NoOverdraw
    /\ [RewardsNext]_allVars
    => HeldInv' /\ StartsNat' /\ AssetsOK' /\ WhitelistInv'
<1> SUFFICES ASSUME HeldInv, StartsNat, AssetsOK, WhitelistInv, LedgerInv, NoOverdraw,
                    [RewardsNext]_allVars
             PROVE  HeldInv' /\ StartsNat' /\ AssetsOK' /\ WhitelistInv'
    OBVIOUS
<1>1. CASE [Next]_vars
    BY <1>1, NextKeepsHeld, NextKeepsStarts, StepRefines, NextWhitelistInv
<1>2. CASE UNCHANGED <<now, ledgerVars, redelIndex>>
    BY <1>2 DEF ledgerVars, HeldInv, HeldNat, StartsNat, AssetsOK, AssetOK, WhitelistInv, Bare
<1> QED
    BY <1>1, <1>2, LedgerStep

\* A handler that changes no weight, within a block.
LEMMA HandlerKeepsInv ==
    ASSUME RewardsInv, LedgerInv', UNCHANGED <<now, weightVars>>,
           DOMAIN assets' = DOMAIN assets,
           NEW b, InOrder(b), b.pool >= 0, SettleBooks(b)
    PROVE  RewardsInv'
<1>1. now \in Nat /\ Horizon \in Nat /\ now =< Horizon
    BY BooksOfInv
<1>2. Settles(b)
  <2>1. b.pool \in Nat
      BY DEF InOrder, BooksOK
  <2>2. snapshots' = snapshots
      BY DEF weightVars
  <2> QED
      BY <2>1, <2>2 DEF Settles, InOrder
<1>3. now' \in now .. Horizon
    BY <1>1
<1>4. UNCHANGED <<weights, initialized>>
    BY DEF weightVars
<1>5. /\ DOMAIN assets' \subseteq Denoms /\ DOMAIN weights' = DOMAIN assets'
      /\ \A n \in DOMAIN weights' : weights'[n] \in RewardWeights
      /\ initialized' \subseteq Denoms
    BY <1>4 DEF RewardsInv
<1> QED
    BY <1>2, <1>3, <1>5, StepKeepsInv

\* The messages claim from the delegations they find.
LEMMA DelegateKeepsInv ==
    ASSUME RewardsInv, TypeOK, LedgerInv', NEW d, NEW v, NEW n, NEW amt,
           DelegateAndClaim(d, v, n, amt)
    PROVE  RewardsInv'
<1> DEFINE b == ClaimIfFound(books, DelKey(d, v, n))
<1>1. /\ n \in DOMAIN assets /\ b.pool >= 0 /\ SettleBooks(b)
      /\ UNCHANGED <<now, weightVars>> /\ DOMAIN assets' = DOMAIN assets
    BY DEF DelegateAndClaim, Delegate
<1>2. InOrder(b)
    BY <1>1, BooksOfInv, LedgerOfInv, FoundInOrder DEF DelKey
<1> HIDE DEF b
<1> QED
    BY <1>1, <1>2, HandlerKeepsInv

LEMMA UndelegateKeepsInv ==
    ASSUME RewardsInv, TypeOK, LedgerInv', NEW d, NEW v, NEW n, NEW amt,
           UndelegateAndClaim(d, v, n, amt)
    PROVE  RewardsInv'
<1> DEFINE b == ClaimIfFound(books, DelKey(d, v, n))
<1>1. /\ n \in DOMAIN assets /\ b.pool >= 0 /\ SettleBooks(b)
      /\ UNCHANGED <<now, weightVars>> /\ DOMAIN assets' = DOMAIN assets
    BY DEF UndelegateAndClaim, Undelegate, CanWithdraw
<1>2. InOrder(b)
    BY <1>1, BooksOfInv, LedgerOfInv, FoundInOrder DEF DelKey
<1> HIDE DEF b
<1> QED
    BY <1>1, <1>2, HandlerKeepsInv

\* Redelegate claims twice, the second time from the books of the first.
LEMMA RedelegateKeepsInv ==
    ASSUME RewardsInv, TypeOK, LedgerInv', NEW d, NEW src, NEW dst, NEW n, NEW amt,
           RedelegateAndClaim(d, src, dst, n, amt)
    PROVE  RewardsInv'
<1> DEFINE b == ClaimIfFound(books, DelKey(d, src, n))
           c == ClaimIfFound(b, DelKey(d, dst, n))
<1>1. /\ n \in DOMAIN assets /\ c.pool >= 0 /\ SettleBooks(c)
      /\ UNCHANGED <<now, weightVars>> /\ DOMAIN assets' = DOMAIN assets
    BY DEF RedelegateAndClaim, Redelegate, CanWithdraw
<1>2. InOrder(b) /\ DOMAIN b.claims = DOMAIN dels
    BY <1>1, BooksOfInv, LedgerOfInv, FoundInOrder DEF DelKey
<1> HIDE DEF b
<1>3. InOrder(c)
    BY <1>1, <1>2, BooksOfInv, LedgerOfInv, FoundInOrder DEF DelKey
<1> HIDE DEF c
<1> QED
    BY <1>1, <1>3, HandlerKeepsInv

\* MsgClaimDelegationRewards changes nothing but the books.
LEMMA ClaimKeepsInv ==
    ASSUME RewardsInv, TypeOK, LedgerInv', NEW d, NEW v, NEW n, ClaimRewards(d, v, n)
    PROVE  RewardsInv'
<1> DEFINE b == ClaimIfFound(books, DelKey(d, v, n))
<1>1. /\ n \in DOMAIN assets /\ b.pool >= 0 /\ SettleBooks(b)
      /\ UNCHANGED <<now, weightVars>> /\ DOMAIN assets' = DOMAIN assets
    BY DEF ClaimRewards, ledgerVars
<1>2. InOrder(b)
    BY <1>1, BooksOfInv, LedgerOfInv, FoundInOrder DEF DelKey
<1> HIDE DEF b
<1> QED
    BY <1>1, <1>2, HandlerKeepsInv

\* The entries that a slash visits are finitely many.
LEMMA OrderIsFinite ==
    ASSUME IsFiniteSet(redelIndex), NEW v, NEW order \in IterationOrders(RedelsToSlash(v))
    PROVE  Len(order) \in Nat
<1> DEFINE entries == RedelsToSlash(v)
<1>1. Cardinality(entries) \in Nat
  <2>1. entries \subseteq redelIndex
      BY DEF RedelsToSlash
  <2> QED
      BY <2>1, FS_Subset, FS_CardinalityType
<1>2. order \in [1 .. Cardinality(entries) -> entries]
    BY DEF IterationOrders, SetToSeqs
<1> HIDE DEF entries
<1> QED
    BY <1>1, <1>2

\* A slash claims in every round, even when a round before it was not paid.
LEMMA SlashKeepsInv ==
    ASSUME RewardsInv, TypeOK, TypeOK', LedgerInv', NEW v \in Validators, NEW f,
           SlashAndClaim(v, f)
    PROVE  RewardsInv'
<1> DEFINE start == SlashStart(v, f)
<1>1. PICK order \in IterationOrders(RedelsToSlash(v)) :
          /\ ApplySlash(v, f, ClaimingOutcome(v, f, order).ledger)
          /\ SettleBooks(ClaimingOutcome(v, f, order).books)
    BY DEF SlashAndClaim
<1> DEFINE end == ClaimingOutcome(v, f, order)
<1>2. LedgerOK(dels, positions) /\ IsFiniteSet(redelIndex) /\ Slash(v, f)
    BY DEF RewardsInv, LedgerInv, SlashAndClaim
<1>3. /\ assets' = SlashedAssets(v, f)
      /\ \A w \in Validators, n \in Denoms :
            positions'[w][n].held = SlashedPositions(v, f)[w][n].held
    BY <1>2, SlashKeepsLedger
<1>4. LedgerStarts(start)
  <2>1. \A n \in DOMAIN assets : weights[n] \in Nat
      BY RewardsConstants DEF RewardsInv
  <2>2. /\ DOMAIN start.assets = DOMAIN assets /\ start.assets = assets'
        /\ \A w \in Validators, n \in Denoms :
              start.positions[w][n].held = positions'[w][n].held
      BY <1>3 DEF SlashStart, SlashedAssets
  <2>3. /\ \A n \in DOMAIN assets' : assets'[n].tokens \in Nat /\ assets'[n].shares \in Nat
        /\ \A w \in Validators, n \in Denoms : positions'[w][n].held \in Nat
      BY DEF TypeOK
  <2> HIDE DEF start
  <2> QED
      BY <2>1, <2>2, <2>3 DEF LedgerStarts, RewardsInv
<1>5. ClaimingOK(ClaimingStart(v, f), start)
  <2>1. After(start, start)
      BY <1>2, SlashedPositionsKeepLedger DEF After, StateOK, SlashStart
  <2>2. start.dels = dels
      BY DEF SlashStart
  <2> HIDE DEF start
  <2>3. /\ ClaimingStart(v, f).ledger = start
        /\ ClaimingStart(v, f).books = books
      BY DEF ClaimingStart, start
  <2> QED
      BY <2>1, <2>2, <2>3, BooksOfInv DEF ClaimingOK
<1>6. ClaimingOK(end, start)
  <2>1. Len(order) \in Nat /\ now \in Nat
      BY <1>2, OrderIsFinite, BooksOfInv
  <2> QED
      BY <1>4, <1>5, <2>1, ClaimingInOrder
<1>7. /\ InOrder(end.books) /\ end.books.pool >= 0 /\ SettleBooks(end.books)
    BY <1>1, <1>6 DEF ClaimingOK
<1>8. UNCHANGED <<now, weightVars>> /\ DOMAIN assets' = DOMAIN assets
    BY <1>1, <1>3 DEF ApplySlash, SlashAndClaim, SlashedAssets
<1> HIDE DEF end
<1> QED
    BY <1>7, <1>8, HandlerKeepsInv

\* What x/distribution allocates waits outside the books.
LEMMA AllocateKeepsInv ==
    ASSUME RewardsInv, LedgerInv', NEW v \in Validators, NEW coins \in RewardCoins,
           Allocate(v, coins)
    PROVE  RewardsInv'
<1>1. /\ UNCHANGED <<now, dels, assets, weights, initialized, snapshots, index, claims, pool,
                     earned>>
      /\ pending' = [pending EXCEPT ![v] = @ + coins]
    BY DEF Allocate, vars, weightVars, ledgerVars
<1>2. /\ books = [pending |-> pending, index |-> index, claims |-> claims, pool |-> pool,
                  earned |-> earned]
      /\ books' = [pending |-> pending', index |-> index, claims |-> claims, pool |-> pool,
                   earned |-> earned]
    BY <1>1 DEF books
<1>3. pending' \in [Validators -> Nat]
  <2>1. books.pending \in [Validators -> Nat] /\ coins \in Nat
      BY RewardsConstants DEF RewardsInv, InOrder, BooksOK
  <2>2. books.pending = pending
      BY DEF books
  <2> QED
      BY <1>1, <2>1, <2>2
<1>4. InOrder(books)
    BY DEF RewardsInv
<1>5. PICK b, c : b = books /\ c = books'
    OBVIOUS
<1>6. BooksOK(c, now) /\ SnapshotsOK(snapshots, c, now)
    BY <1>2, <1>3, <1>4, <1>5 DEF InOrder, BooksOK, IsBooks, SnapshotsOK
<1>7. BooksOK(books', now') /\ SnapshotsOK(snapshots', books', now')
    BY <1>1, <1>5, <1>6
<1>8. InOrder(books)'
    BY <1>7 DEF InOrder
<1> QED
    BY <1>1, <1>8 DEF RewardsInv

\* Snapshots stay behind validators whose indices grow.
LEMMA SnapshotsFollow ==
    ASSUME NEW t, NEW b, NEW c, b.index \in [Validators -> Nat], c.index \in [Validators -> Nat],
           c.claims = b.claims, \A v \in Validators : c.index[v] >= b.index[v],
           NEW snaps, SnapshotsOK(snaps, b, t)
    PROVE  SnapshotsOK(snaps, c, t)
<1>1. ASSUME NEW s \in DOMAIN snaps PROVE snaps[s].index =< c.index[s.val]
  <2>1. /\ snaps[s].index =< b.index[s.val] /\ s.val \in Validators
        /\ snaps[s] \in [weight : Nat, index : Nat]
      BY DEF SnapshotsOK, SnapshotKeys
  <2>2. snaps[s].index \in Nat /\ b.index[s.val] \in Nat /\ c.index[s.val] \in Nat
      BY <2>1
  <2> QED
      BY <2>1, <2>2
<1> QED
    BY <1>1 DEF SnapshotsOK

\* The snapshots of a weight change, taken once all rewards are claimed.
LEMMA WeightSnapshotsInOrder ==
    ASSUME now \in Nat, NEW b, BooksOK(b, now), NEW snaps, SnapshotsOK(snaps, b, now),
           NEW ns \in SUBSET Denoms, \A n \in ns : weights[n] \in Nat
    PROVE  SnapshotsOK(Written(WeightSnapshots(b, ns), snaps), b, now)
<1> DEFINE new == WeightSnapshots(b, ns)
<1>1. /\ DOMAIN new = [denom : ns, val : Validators, at : {now}]
      /\ \A s \in DOMAIN new : /\ new[s] = [weight |-> weights[s.denom], index |-> b.index[s.val]]
                              /\ s.denom \in ns /\ s.val \in Validators
    BY DEF WeightSnapshots
<1> HIDE DEF new
<1>2. ASSUME NEW s \in DOMAIN new
      PROVE  /\ new[s] \in [weight : Nat, index : Nat]
             /\ new[s].index =< b.index[s.val]
             /\ \A key \in DOMAIN b.claims :
                   s.val = key.val => b.claims[key].index =< new[s].index
  <2>1. weights[s.denom] \in Nat /\ b.index[s.val] \in Nat
      BY <1>1 DEF BooksOK
  <2>2. new[s] = [weight |-> weights[s.denom], index |-> b.index[s.val]]
      BY <1>1
  <2>3. b.index[s.val] =< b.index[s.val]
      BY <2>1
  <2> QED
      BY <1>1, <2>1, <2>2, <2>3 DEF BooksOK
<1>3. SnapshotsOK(Written(new, snaps), b, now)
    BY <1>1, <1>2, SnapshotInOrder
<1> QED
    BY <1>3 DEF new

\* UpdateAlliance claims from all validators before it takes the snapshots.
LEMMA UpdateKeepsInv ==
    ASSUME RewardsInv, TypeOK, LedgerInv', NEW n, NEW w \in RewardWeights, UpdateAlliance(n, w)
    PROVE  RewardsInv'
<1> DEFINE b == ClaimAll(books, ledger, Validators)
<1>1. /\ n \in DOMAIN assets /\ weights' = [weights EXCEPT ![n] = w]
      /\ snapshots' = Written(WeightSnapshots(b, {n}), snapshots)
      /\ UNCHANGED <<now, assets, initialized>> /\ SettleBooks(b)
    BY DEF UpdateAlliance, ledgerVars
<1>2. now \in Nat /\ Horizon \in Nat /\ now =< Horizon /\ InOrder(books) /\ books.pool \in Nat
    BY BooksOfInv
<1>3. InOrder(b) /\ b.pool >= books.pool
    BY <1>2, LedgerOfInv, ClaimAllInOrder
<1> HIDE DEF b
<1>4. SnapshotsOK(snapshots', b, now)
  <2>1. {n} \in SUBSET Denoms /\ \A m \in {n} : weights[m] \in Nat
      BY <1>1, RewardsConstants DEF RewardsInv
  <2>2. SnapshotsOK(Written(WeightSnapshots(b, {n}), snapshots), b, now)
      BY <1>2, <1>3, <2>1, WeightSnapshotsInOrder DEF InOrder
  <2> QED
      BY <1>1, <2>2
<1>5. Settles(b)
    BY <1>1, <1>2, <1>3, <1>4 DEF Settles, InOrder, BooksOK
<1>6. /\ DOMAIN assets' \subseteq Denoms /\ DOMAIN weights' = DOMAIN assets'
      /\ \A m \in DOMAIN weights' : weights'[m] \in RewardWeights
      /\ initialized' \subseteq Denoms /\ now' \in now .. Horizon
    BY <1>1, <1>2 DEF RewardsInv
<1> QED
    BY <1>5, <1>6, StepKeepsInv

\* Proposals that create and delete assets leave the books alone.
LEMMA CreateKeepsInv ==
    ASSUME RewardsInv, LedgerInv', NEW n \in Denoms, NEW w \in RewardWeights,
           CreateAllianceWithWeight(n, w)
    PROVE  RewardsInv'
<1>1. /\ assets' = Put(assets, n, [tokens |-> 0, shares |-> 0, start |-> now + RewardDelay])
      /\ weights' = Put(weights, n, w) /\ initialized' = initialized \ {n}
      /\ UNCHANGED <<now, dels, bookVars, snapshots>>
    BY DEF CreateAllianceWithWeight, CreateAlliance
<1>2. /\ DOMAIN assets' \subseteq Denoms /\ DOMAIN weights' = DOMAIN assets'
      /\ \A m \in DOMAIN weights' : weights'[m] \in RewardWeights
      /\ initialized' \subseteq Denoms
    BY <1>1 DEF RewardsInv, Put
<1>3. books' = books /\ claims' = claims /\ pool' = pool
    BY <1>1 DEF bookVars, books
<1>4. InOrder(books)'
    BY <1>1, <1>3 DEF RewardsInv, InOrder
<1> QED
    BY <1>1, <1>2, <1>3, <1>4 DEF RewardsInv

LEMMA DeleteKeepsInv ==
    ASSUME RewardsInv, LedgerInv', NEW n \in Denoms, DeleteAllianceWithWeight(n)
    PROVE  RewardsInv'
<1>1. /\ assets' = Without(assets, {n}) /\ weights' = Without(weights, {n})
      /\ UNCHANGED <<now, dels, bookVars, snapshots, initialized>>
    BY DEF DeleteAllianceWithWeight, DeleteAlliance
<1>2. /\ DOMAIN assets' \subseteq Denoms /\ DOMAIN weights' = DOMAIN assets'
      /\ \A m \in DOMAIN weights' : weights'[m] \in RewardWeights
    BY <1>1 DEF RewardsInv, Without, Restrict
<1>3. books' = books /\ claims' = claims /\ pool' = pool
    BY <1>1 DEF bookVars, books
<1>4. InOrder(books)'
    BY <1>1, <1>3 DEF RewardsInv, InOrder
<1> QED
    BY <1>1, <1>2, <1>3, <1>4 DEF RewardsInv

\* The snapshots of an asset whose rewards start.
LEMMA InitialSnapshotsInOrder ==
    ASSUME RewardsInv
    PROVE  SnapshotsOK(Written(InitialSnapshots, snapshots), books, now)
<1> DEFINE new == InitialSnapshots
<1>1. /\ DOMAIN new = [denom : Uninitialized, val : Validators, at : {now}]
      /\ \A s \in DOMAIN new : new[s] = [weight |-> 0, index |-> index[s.val]]
                              /\ s.val \in Validators
    BY DEF InitialSnapshots
<1> HIDE DEF new
<1>2. now \in Nat /\ BooksOK(books, now) /\ SnapshotsOK(snapshots, books, now)
    BY BooksOfInv DEF InOrder
<1>3. Uninitialized \in SUBSET Denoms
    BY DEF Uninitialized, RewardsInv
<1>4. ASSUME NEW s \in DOMAIN new
      PROVE  /\ new[s] \in [weight : Nat, index : Nat]
             /\ new[s].index =< books.index[s.val]
             /\ \A key \in DOMAIN books.claims :
                   s.val = key.val => books.claims[key].index =< new[s].index
  <2>1. books.index = index
      BY DEF books
  <2>2. new[s] = [weight |-> 0, index |-> books.index[s.val]] /\ books.index[s.val] \in Nat
      BY <1>1, <1>2, <2>1 DEF BooksOK
  <2>3. books.index[s.val] =< books.index[s.val]
      BY <2>2
  <2> QED
      BY <1>2, <2>2, <2>3 DEF BooksOK
<1>5. SnapshotsOK(Written(new, snapshots), books, now)
  <2>1. PICK snaps, b, m, ns : snaps = snapshots /\ b = books /\ m = new /\ ns = Uninitialized
      OBVIOUS
  <2>2. SnapshotsOK(Written(m, snaps), b, now)
      BY <1>1, <1>2, <1>3, <1>4, <2>1, SnapshotInOrder
  <2> QED
      BY <2>1, <2>2
<1> QED
    BY <1>5 DEF new

\* The ledger after a deduction.
LEMMA DeductedLedger ==
    ASSUME RewardsInv, TypeOK, NEW gap, NEW cut \in [Denoms -> {0} \cup Amounts],
           EndBlock(gap, cut)
    PROVE  LedgerNat([ledger EXCEPT !.assets =
                         [n \in DOMAIN assets |->
                             [assets[n] EXCEPT !.tokens = assets[n].tokens - cut[n]]]])
<1> DEFINE after == [n \in DOMAIN assets |->
                        [assets[n] EXCEPT !.tokens = assets[n].tokens - cut[n]]]
           l == [ledger EXCEPT !.assets = after]
<1>1. /\ DOMAIN after = DOMAIN assets
      /\ \A n \in DOMAIN assets :
            /\ after[n].tokens = assets[n].tokens - cut[n]
            /\ after[n].shares = assets[n].shares
    BY DEF TypeOK
<1>2. \A n \in DOMAIN assets : after[n].tokens \in Nat /\ after[n].shares \in Nat
  <2> SUFFICES ASSUME NEW n \in DOMAIN assets
               PROVE  assets[n].tokens - cut[n] \in Nat /\ assets[n].shares \in Nat
      BY <1>1
  <2>1. assets[n].tokens \in Nat /\ assets[n].shares \in Nat /\ n \in Denoms
      BY DEF TypeOK, RewardsInv
  <2>2. cut[n] \in Nat
    <3>1. \A x \in {0} \cup Amounts : x \in Nat
        BY AmountsAssumption
    <3> QED
        BY <2>1, <3>1
  <2>3. cut[n] = 0 \/ cut[n] < assets[n].tokens
      BY <2>1 DEF EndBlock
  <2> QED
      BY <2>1, <2>2, <2>3
<1> HIDE DEF after
<1>3. LedgerNat(ledger)
    BY LedgerOfInv
<1>4. l.assets = after /\ l.dels = ledger.dels /\ l.positions = ledger.positions
      /\ DOMAIN ledger.assets = DOMAIN assets
    BY DEF ledger
<1> HIDE DEF l
<1>5. LedgerNat(l)
    BY <1>1, <1>2, <1>3, <1>4 DEF LedgerNat
<1> QED
    BY <1>5 DEF l, after

\* The end of a block: first snapshots, deductions, a weight change, a rebalance.
LEMMA EndBlockKeepsInv ==
    ASSUME RewardsInv, TypeOK, LedgerInv', NEW gap \in BlockGaps,
           NEW cut \in [Denoms -> {0} \cup Amounts], NEW changed \in SUBSET Denoms,
           NEW w \in RewardWeights, NEW rebalanced \in SUBSET Validators,
           EndBlockAndClaim(gap, cut, changed, w, rebalanced)
    PROVE  RewardsInv'
<1> DEFINE after == [ledger EXCEPT !.assets =
                        [n \in DOMAIN assets |->
                            [assets[n] EXCEPT !.tokens = assets[n].tokens - cut[n]]]]
           b == IF changed = {} THEN books ELSE ClaimAll(books, after, Validators)
           c == ClaimAll(b, after, rebalanced)
           initial == Written(InitialSnapshots, snapshots)
<1>1. /\ changed \subseteq DOMAIN assets
      /\ initialized' = initialized \cup Uninitialized
      /\ snapshots' = Written(WeightSnapshots(b, changed), initial)
      /\ weights' = [n \in DOMAIN weights |-> IF n \in changed THEN w ELSE weights[n]]
      /\ SettleBooks(c)
      /\ EndBlock(gap, cut)
    BY DEF EndBlockAndClaim
<1>2. now \in Nat /\ Horizon \in Nat /\ now =< Horizon /\ InOrder(books) /\ books.pool \in Nat
    BY BooksOfInv
<1>3. LedgerNat(after)
    BY <1>1, DeductedLedger
<1> HIDE DEF after
<1>4. /\ InOrder(b) /\ b.claims = books.claims /\ b.pool \in Nat
      /\ \A v \in Validators : b.index[v] >= books.index[v]
  <2>1. CASE changed = {}
    <3>1. b = books
        BY <2>1
    <3>2. \A v \in Validators : books.index[v] >= books.index[v]
        BY <1>2 DEF InOrder, BooksOK
    <3> HIDE DEF b
    <3> QED
        BY <1>2, <3>1, <3>2
  <2>2. CASE changed # {}
    <3> DEFINE all == ClaimAll(books, after, Validators)
    <3>1. b = all
        BY <2>2
    <3>2. /\ InOrder(all) /\ all.claims = books.claims /\ all.pool >= books.pool
          /\ \A v \in Validators : all.index[v] >= books.index[v]
        BY <1>2, <1>3, ClaimAllInOrder
    <3>3. all.pool \in Nat
        BY <1>2, <3>2 DEF InOrder, BooksOK
    <3> HIDE DEF b, all
    <3> QED
        BY <3>1, <3>2, <3>3
  <2> QED
      BY <2>1, <2>2
<1> HIDE DEF b
<1>5. /\ InOrder(c) /\ c.claims = b.claims /\ c.pool >= b.pool
      /\ \A v \in Validators : c.index[v] >= b.index[v]
    BY <1>3, <1>4, ClaimAllInOrder
<1> HIDE DEF c, initial
<1>6. SnapshotsOK(snapshots', c, now)
  <2>1. PICK i, k, m : i = books /\ k = b /\ m = c
      OBVIOUS
  <2>2. /\ i.index \in [Validators -> Nat] /\ k.index \in [Validators -> Nat]
        /\ m.index \in [Validators -> Nat] /\ BooksOK(k, now)
      BY <1>2, <1>4, <1>5, <2>1 DEF InOrder, BooksOK
  <2>3. SnapshotsOK(initial, i, now)
      BY <2>1, InitialSnapshotsInOrder DEF initial
  <2>4. SnapshotsOK(initial, k, now)
      BY <1>4, <2>1, <2>2, <2>3, SnapshotsFollow
  <2>5. SnapshotsOK(Written(WeightSnapshots(k, changed), initial), k, now)
    <3>1. \A n \in changed : weights[n] \in Nat
        BY <1>1, RewardsConstants DEF RewardsInv
    <3> QED
        BY <1>2, <2>2, <2>4, <3>1, WeightSnapshotsInOrder
  <2>6. SnapshotsOK(Written(WeightSnapshots(k, changed), initial), m, now)
      BY <1>5, <2>1, <2>2, <2>5, SnapshotsFollow
  <2> QED
      BY <1>1, <2>1, <2>6
<1>7. Settles(c)
  <2>1. c.pool \in Nat
      BY <1>4, <1>5 DEF InOrder, BooksOK
  <2> QED
      BY <1>1, <1>5, <1>6, <2>1 DEF Settles, InOrder
<1>8. now' \in now .. Horizon
  <2>1. gap \in Nat
      BY RewardsConstants
  <2>2. now' = IF now + gap < Horizon THEN now + gap ELSE Horizon
      BY <1>1 DEF EndBlock
  <2> QED
      BY <1>2, <2>1, <2>2
<1>9. DOMAIN assets' = DOMAIN assets
    BY <1>1 DEF EndBlock
<1>10. /\ DOMAIN assets' \subseteq Denoms /\ DOMAIN weights' = DOMAIN assets'
       /\ \A n \in DOMAIN weights' : weights'[n] \in RewardWeights
       /\ initialized' \subseteq Denoms
    BY <1>1, <1>9 DEF RewardsInv, Uninitialized
<1> QED
    BY <1>7, <1>8, <1>10, StepKeepsInv

\* Every step of the rewards keeps the invariant.
LEMMA RewardsStepKeepsInv ==
    RewardsInv /\ TypeOK /\ TypeOK' /\ [RewardsNext]_allVars => RewardsInv'
<1> SUFFICES ASSUME RewardsInv, TypeOK, TypeOK', [RewardsNext]_allVars PROVE RewardsInv'
    OBVIOUS
<1>0. LedgerInv'
    BY RewardsKeepLedger DEF RewardsInv
<1>1. ASSUME NEW n \in Denoms, DeleteAllianceWithWeight(n) PROVE RewardsInv'
    BY <1>0, <1>1, DeleteKeepsInv
<1>2. ASSUME NEW n \in Denoms, NEW w \in RewardWeights, CreateAllianceWithWeight(n, w)
      PROVE  RewardsInv'
    BY <1>0, <1>2, CreateKeepsInv
<1>3. ASSUME NEW n \in Denoms, NEW w \in RewardWeights, UpdateAlliance(n, w)
      PROVE  RewardsInv'
    BY <1>0, <1>3, UpdateKeepsInv
<1>4. ASSUME NEW d \in Delegators, NEW v \in Validators, NEW n \in Denoms,
             ClaimRewards(d, v, n)
      PROVE  RewardsInv'
    BY <1>0, <1>4, ClaimKeepsInv
<1>5. ASSUME NEW d \in Delegators, NEW n \in Denoms, NEW amt \in Amounts, NEW v \in Validators,
             DelegateAndClaim(d, v, n, amt)
      PROVE  RewardsInv'
    BY <1>0, <1>5, DelegateKeepsInv
<1>6. ASSUME NEW d \in Delegators, NEW n \in Denoms, NEW amt \in Amounts, NEW v \in Validators,
             UndelegateAndClaim(d, v, n, amt)
      PROVE  RewardsInv'
    BY <1>0, <1>6, UndelegateKeepsInv
<1>7. ASSUME NEW d \in Delegators, NEW n \in Denoms, NEW amt \in Amounts,
             NEW src \in Validators, NEW dst \in Validators,
             RedelegateAndClaim(d, src, dst, n, amt)
      PROVE  RewardsInv'
    BY <1>0, <1>7, RedelegateKeepsInv
<1>8. ASSUME NEW v \in Validators, NEW f \in Fractions, SlashAndClaim(v, f)
      PROVE  RewardsInv'
    BY <1>0, <1>8, SlashKeepsInv
<1>9. ASSUME NEW v \in Validators, NEW coins \in RewardCoins, Allocate(v, coins)
      PROVE  RewardsInv'
    BY <1>0, <1>9, AllocateKeepsInv
<1>10. CASE NextBlockAndClaim
  <2>1. PICK gap \in BlockGaps, cut \in [Denoms -> {0} \cup Amounts],
             changed \in SUBSET Denoms, w \in RewardWeights,
             rebalanced \in SUBSET {v \in Validators : pending[v] > 0} :
                EndBlockAndClaim(gap, cut, changed, w, rebalanced)
      BY <1>10 DEF NextBlockAndClaim
  <2>2. rebalanced \in SUBSET Validators
      OBVIOUS
  <2> QED
      BY <1>0, <2>1, <2>2, EndBlockKeepsInv
<1>11. CASE UNCHANGED allVars
  <2>1. /\ UNCHANGED <<now, assets, dels, weights, initialized, snapshots, claims, pool>>
        /\ books' = books
      BY <1>11 DEF allVars, vars, ledgerVars, weightVars, bookVars, books
  <2>2. InOrder(books)'
      BY <2>1 DEF RewardsInv, InOrder
  <2> QED
      BY <1>0, <2>1, <2>2 DEF RewardsInv
<1> QED
    BY <1>1, <1>2, <1>3, <1>4, <1>5, <1>6, <1>7, <1>8, <1>9, <1>10, <1>11 DEF RewardsNext

\* At first there is nothing to claim.
LEMMA InitRewardsInv == RewardsInit => RewardsInv
<1> SUFFICES ASSUME RewardsInit PROVE RewardsInv
    OBVIOUS
<1>1. LedgerInv
    BY InitLedgerInv DEF RewardsInit
<1>2. now \in 0 .. Horizon
  <2>1. Horizon \in Nat
      BY RewardsConstants DEF Horizon
  <2> QED
      BY <2>1 DEF RewardsInit, Init
<1>3. /\ DOMAIN assets \subseteq Denoms /\ DOMAIN weights = DOMAIN assets
      /\ \A n \in DOMAIN weights : weights[n] \in RewardWeights
      /\ initialized = {}
    BY DEF RewardsInit, Init
<1>4. DOMAIN claims = {} /\ DOMAIN dels = {} /\ DOMAIN snapshots = {} /\ pool = 0
    BY DEF RewardsInit, Init, NoEntry
<1>5. books = [pending |-> pending, index |-> index, claims |-> claims, pool |-> pool,
               earned |-> earned]
    BY DEF books
<1>6. /\ pending \in [Validators -> Nat] /\ index \in [Validators -> Nat]
      /\ earned \in [Delegators -> Nat]
    BY DEF RewardsInit
<1>7. InOrder(books)
  <2>1. BooksOK(books, now)
      BY <1>4, <1>5, <1>6 DEF BooksOK, IsBooks
  <2>2. SnapshotsOK(snapshots, books, now)
      BY <1>4 DEF SnapshotsOK
  <2> QED
      BY <2>1, <2>2 DEF InOrder
<1> QED
    BY <1>1, <1>2, <1>3, <1>4, <1>7 DEF RewardsInv

-----------------------------------------------------------------------------
(* The theorems.                                                            *)

\* The rewards leave the share ledger of Delegations balanced: whatever is claimed on the
\* way, the shares a validator has issued are those of its delegations (invariants.go:61).
THEOREM RewardsKeepShares == RewardsSpec => []DelegatorSharesInvariant
<1>1. RewardsInit => LedgerInv
    BY InitLedgerInv DEF RewardsInit
<1>2. LedgerInv /\ [RewardsNext]_allVars => LedgerInv'
    BY RewardsKeepLedger
<1>3. LedgerInv => DelegatorSharesInvariant
    BY DEF LedgerInv, LedgerOK, DelegatorSharesInvariant, Issued, At
<1> QED
    BY <1>1, <1>2, <1>3, PTL DEF RewardsSpec

\* The ledger stays typed under claims for the same reasons and hypotheses as without them
\* (LedgerTypeCorrect).
THEOREM RewardsLedgerTypes == RewardsSpec /\ []NoOverdraw /\ []SharesLeft => []TypeOK
<1>1. RewardsInit => LedgerInv /\ AssetsOK /\ WhitelistInv /\ HeldInv /\ StartsNat
  <2>1. Init => StartsNat /\ HeldInv
      BY DEF Init, StartsNat, NoPosition, HeldInv, HeldNat
  <2> QED
      BY <2>1, InitLedgerInv, InitRefines, InitWhitelistInv DEF RewardsInit
<1>2. LedgerInv /\ [RewardsNext]_allVars => LedgerInv'
    BY RewardsKeepLedger
<1> QED
    BY <1>1, <1>2, RewardsKeepTypes, TypesFromParts, PTL DEF RewardsSpec

\* The invariant holds as long as the totals of assets, which the code subtracts from
\* unguarded, do not go below zero.
THEOREM RewardsInvariant == RewardsSpec /\ []NoOverdraw /\ []SharesLeft => []RewardsInv
<1>1. RewardsInit => RewardsInv
    BY InitRewardsInv
<1>2. RewardsInv /\ TypeOK /\ TypeOK' /\ [RewardsNext]_allVars => RewardsInv'
    BY RewardsStepKeepsInv
<1> QED
    BY <1>1, <1>2, RewardsLedgerTypes, PTL DEF RewardsSpec

\* No handler writes back a validator or a delegation that it read before a claim, nor does
\* a snapshot fall behind an earlier claim (delegation.go:89, asset.go:33), for any number
\* of validators, delegators and assets.
THEOREM HistoriesOrderedHolds ==
    RewardsSpec /\ []NoOverdraw /\ []SharesLeft => []HistoriesOrdered
<1>1. RewardsInv => HistoriesOrdered
  <2> SUFFICES ASSUME RewardsInv PROVE HistoriesOrdered
      OBVIOUS
  <2>1. books.claims = claims /\ books.index = index
      BY DEF books
  <2>2. BooksOK(books, now) /\ SnapshotsOK(snapshots, books, now)
      BY DEF RewardsInv, InOrder
  <2> QED
      BY <2>1, <2>2 DEF HistoriesOrdered, BooksOK, SnapshotsOK
<1> QED
    BY <1>1, RewardsInvariant, PTL

\* The books keep their types; above all the reward pool is never overdrawn, since a claim
\* that it is too short for fails (reward.go:66) or, in a slash, is not paid.
THEOREM RewardsTypeCorrect == RewardsSpec /\ []NoOverdraw /\ []SharesLeft => []RewardsTypeOK
<1>1. RewardsInv => RewardsTypeOK
  <2> SUFFICES ASSUME RewardsInv PROVE RewardsTypeOK
      OBVIOUS
  <2>1. /\ books.claims = claims /\ books.index = index /\ books.pending = pending
        /\ books.earned = earned
      BY DEF books
  <2>2. BooksOK(books, now) /\ SnapshotsOK(snapshots, books, now)
      BY DEF RewardsInv, InOrder
  <2>3. /\ pending \in [Validators -> Nat] /\ index \in [Validators -> Nat]
        /\ earned \in [Delegators -> Nat]
      BY <2>1, <2>2 DEF BooksOK
  <2>4. \A key \in DOMAIN claims : claims[key] \in [index : Nat, at : 0 .. Horizon]
    <3>1. 0 .. now \subseteq 0 .. Horizon
        BY BooksOfInv
    <3>2. \A key \in DOMAIN claims : claims[key] \in [index : Nat, at : 0 .. now]
        BY <2>1, <2>2 DEF BooksOK
    <3> QED
        BY <3>1, <3>2
  <2>5. \A s \in DOMAIN snapshots : snapshots[s] \in [weight : Nat, index : Nat]
      BY <2>2 DEF SnapshotsOK
  <2> QED
      BY <2>3, <2>4, <2>5 DEF RewardsTypeOK, RewardsInv
<1> QED
    BY <1>1, RewardsInvariant, PTL

-----------------------------------------------------------------------------
(* Weight changes.                                                          *)

\* What claims from all validators come to.
AllClaims(b, ws, as, t, l) == ClaimIter(b, ws, as, t, l, Validators)[Validators]

\* The books once all is claimed, in a state and in the next one.
LEMMA SettledIsIter ==
    Settled = AllClaims(books, weights, assets, now, ledger)
BY ClaimAllIsIter DEF Settled, AllClaims

LEMMA SettledNext ==
    Settled' = AllClaims(books', weights', assets', now', ledger')
BY DEF Settled, AllClaims, ClaimAll, FoldSet, MapThenFoldSet, ClaimIter, ClaimEquation, First,
       TotalOf, ClaimBy, ClaimValidatorRewards, AddAssetsToRewardPool, TotalAssetWeight,
       RewardsStarted

NoneOwed(b) == \A v \in Validators : b.pending[v] = 0

\* Nothing is claimed where nothing is owed.
LEMMA NothingOwed ==
    ASSUME NEW b, NEW ws, NEW as, NEW t, NEW l, NoneOwed(b)
    PROVE  AllClaims(b, ws, as, t, l) = b
<1>1. ClosedBooks({b}, ws, as, t, l, Validators)
    BY DEF ClosedBooks, ClaimBy, NoneOwed
<1>2. ClaimIter(b, ws, as, t, l, Validators)[Validators] \in {b}
    BY <1>1, ClaimIterAt, RewardsConstants
<1> QED
    BY <1>2 DEF AllClaims

\* Nothing is owed once all has been claimed.
LEMMA AllClaimed ==
    ASSUME NEW l, LedgerNat(l), NEW b, b.pool \in Int, b.index \in [Validators -> Nat],
           b \in Claimed(b), NEW v \in Validators
    PROVE  ClaimAll(b, l, Validators).pending[v] = 0
<1> DEFINE S == Validators
           D == Claimed(b)
           g == ClaimIter(b, weights, assets, now, l, S)
           pick == [T \in SUBSET S |-> First(T)]
           G == {T \in SUBSET S : \A u \in T : g[T].pending[u] = 0}
<1>1. \A u \in S : TotalOf(weights, assets, now, l, u) \in Nat
  <2>1. \A u \in S : TotalOf(weights, assets, now, l, u) = TotalAssetWeight(l, u)
      BY DEF TotalOf, TotalAssetWeight, RewardsStarted
  <2> QED
      BY <2>1, TotalWeightNat
<1>2. ClosedBooks(D, weights, assets, now, l, S)
    BY <1>1, ClaimByClaims DEF ClosedBooks
<1>3. /\ Claims(b, weights, assets, now, l, S, g)
      /\ \A T \in SUBSET S : g[T] \in D
    BY <1>2, ClaimIterAt, RewardsConstants
<1>4. Picks(pick, S) /\ \A T \in SUBSET S : T # {} => First(T) \in T
    BY DEF Picks, First
<1> HIDE DEF g
<1>5. ASSUME NEW T \in SUBSET S, T # {}, T \ {pick[T]} \in G, NEW u \in T
      PROVE  g[T].pending[u] = 0
  <2> DEFINE c == g[T \ {First(T)}]
  <2>1. pick[T] = First(T) /\ First(T) \in S /\ First(T) \in T /\ T \ {First(T)} \in SUBSET S
      BY <1>4, <1>5
  <2>2. c \in D /\ c.pending \in [Validators -> Nat]
      BY <1>3, <2>1 DEF Claimed
  <2>3. g[T] = ClaimBy(c, TotalOf(weights, assets, now, l, First(T)), First(T))
      BY <1>3, <1>5 DEF Claims
  <2>4. \A x \in T \ {First(T)} : c.pending[x] = 0
      BY <1>5, <2>1
  <2> HIDE DEF c, D
  <2>5. g[T].pending = [c.pending EXCEPT ![First(T)] = 0]
      BY <1>1, <2>1, <2>2, <2>3, ClaimByClaims DEF D
  <2> QED
      BY <2>1, <2>2, <2>4, <2>5
<1>6. Grows(G, pick, S)
  <2>1. {} \in G
      OBVIOUS
  <2>2. \A T \in SUBSET S : T # {} /\ T \ {pick[T]} \in G => T \in G
      BY <1>5
  <2> QED
      BY <2>1, <2>2 DEF Grows
<1>7. \A T \in SUBSET S : T \in G
  <2> HIDE DEF G, pick
  <2> QED
      BY <1>4, <1>6, PickInduction, RewardsConstants
<1>8. g[S].pending[v] = 0
    BY <1>7
<1> QED
    BY <1>8, ClaimAllIsIter DEF g

\* Validators weigh the same for xs, ys, u and m as for ws, as, t and l.
EqualTotals(ws, as, t, l, xs, ys, u, m) ==
    \A v \in Validators : TotalOf(xs, ys, u, m, v) = TotalOf(ws, as, t, l, v)

\* The same is claimed wherever the weights of validators are the same.
LEMMA ClaimsAgree ==
    ASSUME NEW b, NEW ws, NEW as, NEW t, NEW l, NEW xs, NEW ys, NEW u, NEW m,
           NEW D, b \in D, ClosedBooks(D, ws, as, t, l, Validators),
           EqualTotals(ws, as, t, l, xs, ys, u, m)
    PROVE  AllClaims(b, xs, ys, u, m) = AllClaims(b, ws, as, t, l)
<1> DEFINE S == Validators
           g == ClaimIter(b, ws, as, t, l, S)
           h == ClaimIter(b, xs, ys, u, m, S)
           pick == [T \in SUBSET S |-> First(T)]
           G == {T \in SUBSET S : h[T] = g[T]}
<1>1. Claims(b, ws, as, t, l, S, g)
    BY ClaimIterAt, RewardsConstants
<1>2. Claims(b, xs, ys, u, m, S, h)
  <2>1. ClosedBooks(D, xs, ys, u, m, S)
      BY DEF ClosedBooks, EqualTotals
  <2> QED
      BY <2>1, ClaimIterAt, RewardsConstants
<1> HIDE DEF g, h
<1>3. Picks(pick, S) /\ \A T \in SUBSET S : T # {} => First(T) \in T
    BY DEF Picks, First
<1>4. Grows(G, pick, S)
  <2>1. ASSUME NEW T \in SUBSET S, T # {}, T \ {pick[T]} \in G PROVE h[T] = g[T]
    <3>1. pick[T] = First(T) /\ First(T) \in S /\ T \ {First(T)} \in SUBSET S
        BY <1>3, <2>1
    <3>2. h[T \ {First(T)}] = g[T \ {First(T)}]
        BY <2>1, <3>1
    <3>3. TotalOf(xs, ys, u, m, First(T)) = TotalOf(ws, as, t, l, First(T))
        BY <3>1 DEF EqualTotals
    <3> QED
        BY <1>1, <1>2, <2>1, <3>2, <3>3 DEF Claims
  <2>2. h[{}] = g[{}]
      BY <1>1, <1>2 DEF Claims
  <2> QED
      BY <2>1, <2>2 DEF Grows
<1>5. \A T \in SUBSET S : T \in G
  <2> HIDE DEF G, pick
  <2> QED
      BY <1>3, <1>4, PickInduction, RewardsConstants
<1> QED
    BY <1>5 DEF g, h, AllClaims

WorthOf(l, key) ==
    GetDelegationTokensWithShares(l.dels[key], l.positions[key.val][key.denom],
                                  l.assets[key.denom])

ClaimableFrom(snaps, ws, b, l, keys) ==
    SumFunctionOnSet(
        [key \in keys |-> EarnedFrom(snaps, ws[key.denom], b, key, WorthOf(l, key))], keys)

\* What a delegator has earned, in a state and in the next one.
LEMMA EarningsNow ==
    ASSUME NEW d
    PROVE  Earnings(d) =
               earned[d] + ClaimableFrom(snapshots, weights, Settled, ledger, EarningOf(d))
<1>1. PICK keys : keys = EarningOf(d)
    OBVIOUS
<1>2. Claimable(keys) = ClaimableFrom(snapshots, weights, Settled, ledger, keys)
    BY DEF Claimable, ClaimableFrom, Unclaimed, WorthOf, RewardsFor, EarnedFrom, Pieces,
           PieceEquation, MapThenFoldSet, Since, Start, SumFunction
<1> QED
    BY <1>1, <1>2 DEF Earnings

LEMMA EarningsNext ==
    ASSUME NEW d
    PROVE  Earnings(d)' =
               earned'[d] + ClaimableFrom(snapshots', weights', Settled', ledger', EarningOf(d)')
BY DEF Earnings, Claimable, ClaimableFrom, Unclaimed, WorthOf, RewardsFor, EarnedFrom, Pieces,
       PieceEquation, MapThenFoldSet, Since, Start, SumFunction

\* A snapshot after all others is the latest.
LEMMA LatestIs ==
    ASSUME NEW S, NEW s \in S, s.at \in Nat, \A u \in S : u # s => u.at \in Nat /\ u.at < s.at
    PROVE  Latest(S) = s
<1>1. \A u \in S : u.at =< s.at
    OBVIOUS
<1>2. \A x \in S : (\A u \in S : u.at =< x.at) => x = s
    OBVIOUS
<1> QED
    BY <1>1, <1>2 DEF Latest

\* Snapshots of other assets and validators pay nothing.
LEMMA EarnedSame ==
    ASSUME NEW t \in Nat, NEW b, BooksOK(b, t), NEW key \in DOMAIN b.claims,
           NEW snaps, NEW more, SnapshotsOK(more, b, t),
           Since(more, b, key) = Since(snaps, b, key),
           \A s \in Since(snaps, b, key) : more[s] = snaps[s],
           NEW w, NEW tokens \in Nat
    PROVE  EarnedFrom(more, w, b, key, tokens) = EarnedFrom(snaps, w, b, key, tokens)
<1> DEFINE S == Since(snaps, b, key)
<1>1. Typed(more, S)
    BY SinceTyped
<1>2. Start(b, key) \in Paid
    BY DEF BooksOK, Paid, DelKeys, Start
<1>3. Pieces(more, S, Start(b, key), tokens)[S] = Pieces(snaps, S, Start(b, key), tokens)[S]
  <2>1. \A s \in S : more[s] = snaps[s]
      OBVIOUS
  <2>2. S \in SUBSET S
      OBVIOUS
  <2> HIDE DEF S
  <2> QED BY <1>1, <1>2, <2>1, <2>2, PiecesAgree
<1> QED
    BY <1>3 DEF EarnedFrom

\* more has one snapshot more for key than snaps: s, the last one, of w and the index of now.
OneMore(snaps, more, b, key, s, w) ==
    /\ s.at \in Nat
    /\ Since(more, b, key) = Since(snaps, b, key) \cup {s}
    /\ \A u \in Since(snaps, b, key) : u.at < s.at /\ more[u] = snaps[u]
    /\ w \in Nat /\ more[s] = [weight |-> w, index |-> b.index[key.val]]

\* A last snapshot, of the weight w and the index of now, pays what w would have paid now,
\* and leaves nothing for the weight after it.
LEMMA EarnedInTwo ==
    ASSUME NEW t \in Nat, NEW b, BooksOK(b, t), NEW key \in DOMAIN b.claims,
           NEW snaps, NEW more, SnapshotsOK(snaps, b, t), SnapshotsOK(more, b, t),
           NEW s, NEW w, OneMore(snaps, more, b, key, s, w), NEW x, NEW tokens \in Nat
    PROVE  EarnedFrom(more, x, b, key, tokens) = EarnedFrom(snaps, w, b, key, tokens)
<1> DEFINE S == Since(snaps, b, key)
           R == Since(more, b, key)
           start == Start(b, key)
           upTo == b.index[key.val]
           past == Pieces(snaps, S, start, tokens)[S]
           all == Pieces(more, R, start, tokens)
<1>1. Typed(snaps, S) /\ Typed(more, R)
    BY SinceTyped
<1>2. start \in Paid /\ upTo \in Nat
    BY DEF BooksOK, Paid, DelKeys, Start
<1>3. \A u \in S : u.at \in Nat /\ u.at < s.at /\ more[u] = snaps[u]
    BY <1>1 DEF Typed, OneMore
<1>4. R = S \cup {s} /\ s \notin S /\ s.at \in Nat
    BY <1>3 DEF OneMore
<1> HIDE DEF S, R, start, upTo
<1>5. Latest(R) = s
    BY <1>3, <1>4, LatestIs
<1>6. R # {} /\ R \ {s} = S /\ S \in SUBSET R
    BY <1>4
<1>7. all[S] = past
  <2>1. \A u \in S : more[u] = snaps[u]
      BY <1>3
  <2>2. Typed(more, R) /\ start \in Paid /\ S \in SUBSET R
      BY <1>1, <1>2, <1>6
  <2> QED
      BY <2>1, <2>2, PiecesAgree
<1>8. past \in Paid
    BY <1>1, <1>2, PiecesPaid
<1>9. all[R] = Accumulate(all[S], upTo, w, tokens)
  <2>1. Piecewise(more, R, start, tokens, all)
      BY <1>1, <1>2, PieceAt
  <2>2. all[R] = Accumulate(all[R \ {Latest(R)}], more[Latest(R)].index,
                            more[Latest(R)].weight, tokens)
    <3> HIDE DEF all
    <3> QED BY <1>6, <2>1 DEF Piecewise
  <2>3. more[s].index = upTo /\ more[s].weight = w
      BY DEF upTo, OneMore
  <2> QED
      BY <1>5, <1>6, <2>2, <2>3
<1> HIDE DEF all, past
<1>10. Accumulate(all[R], upTo, x, tokens) = Accumulate(past, upTo, w, tokens)
  <2>1. all[R] = Accumulate(past, upTo, w, tokens)
      BY <1>7, <1>9
  <2>2. all[R].index >= upTo
      BY <1>2, <1>8, <2>1 DEF Accumulate, Paid
  <2> QED
      BY <2>1, <2>2 DEF Accumulate
<1> QED
    BY <1>10 DEF EarnedFrom, all, past, S, R, start, upTo

\* Rewards until a weight change of the asset n are paid at the weight before it.
LEMMA EarnedAtOldWeight ==
    ASSUME now \in Nat, NEW b, BooksOK(b, now), SnapshotsOK(snapshots, b, now),
           \A s \in DOMAIN snapshots : s.at < now,
           NEW n \in Denoms, weights[n] \in Nat,
           NEW key \in DOMAIN b.claims, NEW x, x[key.denom] = weights[key.denom] \/ key.denom = n,
           NEW tokens \in Nat
    PROVE  EarnedFrom(Written(WeightSnapshots(b, {n}), snapshots), x[key.denom], b, key, tokens)
             = EarnedFrom(snapshots, weights[key.denom], b, key, tokens)
<1> DEFINE new == WeightSnapshots(b, {n})
           more == Written(new, snapshots)
           old == Since(snapshots, b, key)
           s == [denom |-> n, val |-> key.val, at |-> now]
<1>1. SnapshotsOK(more, b, now)
  <2>1. {n} \in SUBSET Denoms /\ \A m \in {n} : weights[m] \in Nat
      OBVIOUS
  <2> QED
      BY <2>1, WeightSnapshotsInOrder
<1>2. /\ key.val \in Validators
      /\ b.claims[key].at \in 0 .. now
    BY DEF BooksOK, DelKeys
<1>3. /\ DOMAIN new = [denom : {n}, val : Validators, at : {now}]
      /\ \A u \in DOMAIN new : new[u] = [weight |-> weights[u.denom], index |-> b.index[u.val]]
    BY DEF WeightSnapshots
<1>4. /\ DOMAIN more = DOMAIN new \cup DOMAIN snapshots
      /\ \A u \in DOMAIN more : more[u] = IF u \in DOMAIN new THEN new[u] ELSE snapshots[u]
  <2> HIDE DEF new
  <2> QED BY DEF Written
<1> HIDE DEF new, more
<1>5. \A u \in DOMAIN snapshots : u \notin DOMAIN new
  <2>1. \A u \in DOMAIN new : u.at = now
      BY <1>3
  <2>2. \A u \in DOMAIN snapshots : u.at \in Nat
      BY DEF SnapshotsOK, SnapshotKeys
  <2> QED
      BY <2>1, <2>2
<1>6. \A u \in old : more[u] = snapshots[u] /\ u.at < now
    BY <1>4, <1>5 DEF Since
<1>7. CASE key.denom # n
  <2>1. Since(more, b, key) = old
      BY <1>3, <1>4, <1>7 DEF Since
  <2>2. EarnedFrom(more, weights[key.denom], b, key, tokens)
            = EarnedFrom(snapshots, weights[key.denom], b, key, tokens)
    <3>1. PICK snaps : snaps = snapshots
        OBVIOUS
    <3> QED
        BY <1>1, <1>6, <2>1, <3>1, EarnedSame
  <2> QED
      BY <1>7, <2>2 DEF more, new
<1>8. CASE key.denom = n
  <2>1. s \in DOMAIN new /\ new[s] = [weight |-> weights[n], index |-> b.index[key.val]]
      BY <1>2, <1>3
  <2>2. more[s] = [weight |-> weights[n], index |-> b.index[key.val]]
      BY <1>4, <2>1
  <2>3. Since(more, b, key) = old \cup {s}
    <3>1. \A u \in DOMAIN new : u.val = key.val => u = s
        BY <1>3
    <3>2. s \in Since(more, b, key)
        BY <1>2, <1>4, <1>8, <2>1 DEF Since
    <3> HIDE DEF s
    <3> QED
        BY <1>4, <3>1, <3>2 DEF Since
  <2>4. s.at = now
      OBVIOUS
  <2> HIDE DEF s, old
  <2>5. PICK snaps, y, w : snaps = snapshots /\ y = x[key.denom] /\ w = weights[n]
      OBVIOUS
  <2>6. OneMore(snaps, more, b, key, s, w) /\ SnapshotsOK(snaps, b, now)
      BY <1>6, <2>2, <2>3, <2>4, <2>5 DEF old, OneMore
  <2>7. EarnedFrom(more, y, b, key, tokens) = EarnedFrom(snaps, w, b, key, tokens)
      BY <1>1, <2>6, EarnedInTwo
  <2> QED
      BY <1>8, <2>5, <2>7 DEF more, new
<1> QED
    BY <1>7, <1>8

\* Nothing times anything is nothing.
LEMMA MulNothing ==
    ASSUME NEW a \in Nat
    PROVE  Mul(a, 0) = 0 /\ Mul(0, a) = 0
<1>1. a * 0 = 0 /\ 0 * a = 0 /\ ~(a < 0)
    OBVIOUS
<1>2. 0 \div Scale = 0 /\ 0 % Scale = 0 /\ 0 < Scale
    BY RewardsConstants
<1>3. RoundHalfEven(0, 0, Scale) = 0
    BY <1>2 DEF RoundHalfEven
<1> QED
    BY <1>1, <1>2, <1>3 DEF Mul

\* A delegation worth no token has earned nothing.
LEMMA NoTokensEarnNothing ==
    ASSUME NEW t \in Nat, NEW b, BooksOK(b, t), NEW snaps, SnapshotsOK(snaps, b, t),
           NEW key \in DOMAIN b.claims, NEW w \in Nat
    PROVE  EarnedFrom(snaps, w, b, key, 0) = 0
<1> DEFINE S == Since(snaps, b, key)
           D == {p \in Paid : p.coins = 0}
           past == Pieces(snaps, S, Start(b, key), 0)[S]
<1>1. ASSUME NEW p \in D, NEW upTo \in Nat, NEW x \in Nat
      PROVE  Accumulate(p, upTo, x, 0) \in D
  <2>1. CASE p.index >= upTo
      BY <2>1 DEF Accumulate
  <2>2. CASE ~(p.index >= upTo)
    <3>1. upTo - p.index \in Nat
        BY <2>2 DEF Paid
    <3>2. FromInt(0) = 0 /\ TruncateInt(0) = 0
        BY RewardsConstants DEF FromInt, TruncateInt
    <3>3. Mul(upTo - p.index, Mul(FromInt(0), x)) = 0
        BY <3>1, <3>2, MulNothing
    <3> QED
        BY <2>2, <3>2, <3>3 DEF Accumulate, Paid
  <2> QED
      BY <2>1, <2>2
<1>2. Start(b, key) \in D /\ b.index[key.val] \in Nat
    BY DEF BooksOK, Paid, DelKeys, Start
<1>3. Typed(snaps, S)
    BY SinceTyped
<1> HIDE DEF D
<1>4. \A s \in S, p \in D : Accumulate(p, snaps[s].index, snaps[s].weight, 0) \in D
    BY <1>1, <1>3 DEF Typed
<1>5. past \in D
  <2>1. Start(b, key) \in Paid
      BY <1>2 DEF D
  <2> HIDE DEF S
  <2> QED BY <1>2, <1>3, <1>4, <2>1, PiecesIn
<1> HIDE DEF past
<1>6. Accumulate(past, b.index[key.val], w, 0) \in D
    BY <1>1, <1>2, <1>5
<1> QED
    BY <1>6 DEF EarnedFrom, past, S, D

\* The ledger m, of assets with the weights xs, has one asset more than the ledger l, with
\* the weights ws; nobody has a token of it.
OneAssetMore(ws, l, xs, m, n) ==
    /\ DOMAIN m.assets = DOMAIN l.assets \cup {n} /\ n \notin DOMAIN l.assets
    /\ m.positions = l.positions /\ m.dels = l.dels
    /\ \A k \in DOMAIN l.assets : m.assets[k] = l.assets[k] /\ xs[k] = ws[k]
    /\ m.assets[n].tokens = 0 /\ m.assets[n].shares \in Nat /\ xs[n] \in Nat

\* What LedgerNat says, for the weights ws.
LedgerTyped(ws, l) ==
    /\ DOMAIN l.assets \subseteq Denoms
    /\ \A n \in DOMAIN l.assets :
          ws[n] \in Nat /\ l.assets[n].tokens \in Nat /\ l.assets[n].shares \in Nat
    /\ \A v \in Validators, n \in Denoms :
          l.positions[v][n].held \in Nat /\ l.positions[v][n].issued \in Nat
    /\ \A key \in DOMAIN l.dels : key \in DelKeys /\ l.dels[key] \in Nat

\* Shares of no tokens are worth none.
LEMMA NoWorth ==
    ASSUME NEW all \in Nat, NEW part \in Nat
    PROVE  ConvertNewShareToDecToken(0, all, part) = 0
<1>1. CASE all = 0
    BY <1>1 DEF ConvertNewShareToDecToken
<1>2. CASE all # 0
  <2>1. Quo(part, all) \in Nat
      BY <1>2, QuoBound, 0 \in Nat
  <2>2. Mul(Quo(part, all), 0) = 0
      BY <2>1, MulNothing
  <2> QED
      BY <1>2, <2>2 DEF ConvertNewShareToDecToken
<1> QED
    BY <1>1, <1>2

LEMMA NoWorthAtValidator ==
    ASSUME NEW position, position.held \in Nat, NEW asset, asset.tokens = 0, asset.shares \in Nat
    PROVE  TotalTokensWithAsset(position, asset) = 0
<1>1. FromInt(asset.tokens) = 0
    BY RewardsConstants DEF FromInt
<1>2. ConvertNewShareToDecToken(0, asset.shares, position.held) = 0
    BY NoWorth
<1> QED
    BY <1>1, <1>2 DEF TotalTokensWithAsset

LEMMA NoTokensOfDelegation ==
    ASSUME Epsilon < Scale, NEW l, NEW key, key \in DOMAIN l.dels, l.dels[key] \in Nat,
           l.positions[key.val][key.denom].held \in Nat,
           l.positions[key.val][key.denom].issued \in Nat,
           l.assets[key.denom].tokens = 0, l.assets[key.denom].shares \in Nat
    PROVE  WorthOf(l, key) = 0
<1> DEFINE p == l.positions[key.val][key.denom]
<1>1. TotalTokensWithAsset(p, l.assets[key.denom]) = 0
    BY NoWorthAtValidator
<1>2. ConvertNewShareToDecToken(0, p.issued, l.dels[key]) = 0
    BY NoWorth
<1>3. TruncateInt(0 + Epsilon) = 0
  <2>1. Epsilon \div Scale < 1
      BY RewardsConstants, QuotientBound, 1 \in Nat
  <2>2. Epsilon \div Scale \in Nat
      BY RewardsConstants, QuotientBound, 1 \in Nat
  <2> QED
      BY <2>1, <2>2, RewardsConstants DEF TruncateInt
<1> QED
    BY <1>1, <1>2, <1>3 DEF WorthOf, GetDelegationTokensWithShares

\* The asset adds nothing to the weights that share rewards.
LEMMA SameTotals ==
    ASSUME NEW ws, NEW l, NEW xs, NEW m, NEW n \in Denoms, OneAssetMore(ws, l, xs, m, n),
           LedgerTyped(ws, l), NEW t, NEW v \in Validators
    PROVE  TotalOf(xs, m.assets, t, m, v) = TotalOf(ws, l.assets, t, l, v)
<1> DEFINE few == [k \in DOMAIN l.assets |->
                      Mul(ws[k], TotalTokensWithAsset(l.positions[v][k], l.assets[k]))]
           many == [k \in DOMAIN m.assets |->
                       Mul(xs[k], TotalTokensWithAsset(m.positions[v][k], m.assets[k]))]
           A == {k \in DOMAIN l.assets : l.positions[v][k].issued > 0 /\ t >= l.assets[k].start}
           S == {k \in DOMAIN m.assets : m.positions[v][k].issued > 0 /\ t >= m.assets[k].start}
<1>1. S \subseteq Denoms /\ A \subseteq S /\ S \ A \subseteq {n}
    BY DEF OneAssetMore, LedgerTyped
<1>2. IsFiniteSet(S)
    BY <1>1, RewardsConstants, FS_Subset
<1>3. ASSUME NEW k \in A PROVE few[k] \in Int /\ many[k] = few[k]
  <2>1. k \in DOMAIN l.assets /\ k \in DOMAIN m.assets /\ m.assets[k] = l.assets[k]
        /\ xs[k] = ws[k] /\ m.positions = l.positions
      BY DEF OneAssetMore
  <2>2. l.positions[v][k].held \in Nat /\ l.assets[k].tokens \in Nat
        /\ l.assets[k].shares \in Nat /\ ws[k] \in Nat
      BY <2>1 DEF LedgerTyped
  <2>3. TotalTokensWithAsset(l.positions[v][k], l.assets[k]) \in Nat
    <3>1. FromInt(l.assets[k].tokens) \in Nat
        BY <2>2, FromIntNat
    <3> QED
        BY <2>2, <3>1, ConvertNat DEF TotalTokensWithAsset
  <2>4. Mul(ws[k], TotalTokensWithAsset(l.positions[v][k], l.assets[k])) \in Nat
      BY <2>2, <2>3, MulBound
  <2> QED
      BY <2>1, <2>4
<1>4. ASSUME NEW k \in S \ A PROVE many[k] = 0
  <2>1. k = n /\ n \in DOMAIN m.assets
      BY <1>1
  <2>2. m.positions[v][n].held \in Nat
      BY DEF OneAssetMore, LedgerTyped
  <2>3. TotalTokensWithAsset(m.positions[v][n], m.assets[n]) = 0
      BY <2>2, NoWorthAtValidator DEF OneAssetMore
  <2>4. Mul(xs[n], 0) = 0
      BY MulNothing DEF OneAssetMore
  <2> QED
      BY <2>1, <2>3, <2>4
<1>5. /\ TotalOf(xs, m.assets, t, m, v) = SumFunctionOnSet(many, S)
      /\ TotalOf(ws, l.assets, t, l, v) = SumFunctionOnSet(few, A)
    BY DEF TotalOf
<1> HIDE DEF few, many, A, S
<1>6. SumFunctionOnSet(many, S) = SumFunctionOnSet(few, A)
    BY <1>1, <1>2, <1>3, <1>4, SumOnPart
<1> QED
    BY <1>5, <1>6

LEMMA TokensTyped ==
    ASSUME NEW ws, NEW l, LedgerTyped(ws, l), NEW key \in DOMAIN l.dels,
           key.denom \in DOMAIN l.assets
    PROVE  WorthOf(l, key) \in Nat
<1> DEFINE p == l.positions[key.val][key.denom]
           asset == l.assets[key.denom]
           worth == TotalTokensWithAsset(p, asset)
           part == ConvertNewShareToDecToken(worth, p.issued, l.dels[key])
<1>1. /\ p.held \in Nat /\ p.issued \in Nat /\ l.dels[key] \in Nat
      /\ asset.tokens \in Nat /\ asset.shares \in Nat
    BY DEF LedgerTyped, DelKeys
<1>2. worth \in Nat
  <2>1. FromInt(asset.tokens) \in Nat
      BY <1>1, FromIntNat
  <2> QED
      BY <1>1, <2>1, ConvertNat DEF TotalTokensWithAsset
<1> HIDE DEF worth
<1>3. part \in Nat
    BY <1>1, <1>2, ConvertNat
<1> HIDE DEF part
<1>4. TruncateInt(part + Epsilon) \in Nat
    BY <1>3, RewardsConstants, TruncateNat, part + Epsilon \in Nat
<1> QED
    BY <1>4 DEF part, worth, WorthOf, GetDelegationTokensWithShares

\* The delegations of d that earn at the time t.
KeysOf(l, t, d) ==
    {key \in DOMAIN l.dels :
        key.denom \in DOMAIN l.assets /\ t >= l.assets[key.denom].start /\ key.del = d}

\* The books b keep the histories of the delegations of l.
KeptFor(b, l) == IsFiniteSet(DOMAIN l.dels) /\ DOMAIN b.claims = DOMAIN l.dels

\* Nor does the asset add to what a delegator can claim.
LEMMA SameClaimable ==
    ASSUME Epsilon < Scale, NEW ws, NEW l, NEW xs, NEW m, NEW n \in Denoms,
           OneAssetMore(ws, l, xs, m, n), LedgerTyped(ws, l),
           NEW t \in Nat, NEW b, BooksOK(b, t), NEW snaps, SnapshotsOK(snaps, b, t),
           KeptFor(b, l), NEW d
    PROVE  ClaimableFrom(snaps, xs, b, m, KeysOf(m, t, d))
             = ClaimableFrom(snaps, ws, b, l, KeysOf(l, t, d))
<1> DEFINE A == KeysOf(l, t, d)
           S == KeysOf(m, t, d)
           few == [key \in A |-> EarnedFrom(snaps, ws[key.denom], b, key, WorthOf(l, key))]
           many == [key \in S |-> EarnedFrom(snaps, xs[key.denom], b, key, WorthOf(m, key))]
<1>1. S \subseteq DOMAIN l.dels /\ A \subseteq S /\ \A key \in S \ A : key.denom = n
    BY DEF OneAssetMore, KeysOf
<1>2. IsFiniteSet(S)
    BY <1>1, FS_Subset DEF KeptFor
<1>3. ASSUME NEW key \in A PROVE few[key] \in Int /\ many[key] = few[key]
  <2>1. /\ key \in DOMAIN l.dels /\ key.denom \in DOMAIN l.assets /\ key \in S
        /\ key \in DOMAIN b.claims
      BY <1>1 DEF KeysOf, KeptFor
  <2>2. WorthOf(m, key) = WorthOf(l, key) /\ xs[key.denom] = ws[key.denom]
      BY <2>1 DEF OneAssetMore, WorthOf
  <2>3. WorthOf(l, key) \in Nat /\ ws[key.denom] \in Nat
      BY <2>1, TokensTyped DEF LedgerTyped
  <2>4. EarnedFrom(snaps, ws[key.denom], b, key, WorthOf(l, key)) \in Nat
      BY <2>1, <2>3, EarnedNat
  <2> QED
      BY <2>1, <2>2, <2>4
<1>4. ASSUME NEW key \in S \ A PROVE many[key] = 0
  <2>1. key \in DOMAIN l.dels /\ key \in DOMAIN m.dels /\ key.denom = n /\ key \in DOMAIN b.claims
      BY <1>1 DEF OneAssetMore, KeptFor
  <2>2. /\ m.dels[key] \in Nat
        /\ m.positions[key.val][key.denom].held \in Nat
        /\ m.positions[key.val][key.denom].issued \in Nat
      BY <2>1 DEF OneAssetMore, LedgerTyped, DelKeys
  <2>3. WorthOf(m, key) = 0
      BY <2>1, <2>2, NoTokensOfDelegation DEF OneAssetMore
  <2>4. EarnedFrom(snaps, xs[n], b, key, 0) = 0
      BY <2>1, NoTokensEarnNothing DEF OneAssetMore
  <2> QED
      BY <2>1, <2>3, <2>4
<1>5. /\ ClaimableFrom(snaps, xs, b, m, S) = SumFunctionOnSet(many, S)
      /\ ClaimableFrom(snaps, ws, b, l, A) = SumFunctionOnSet(few, A)
    BY DEF ClaimableFrom
<1> HIDE DEF few, many, A, S
<1>6. SumFunctionOnSet(many, S) = SumFunctionOnSet(few, A)
    BY <1>1, <1>2, <1>3, <1>4, SumOnPart
<1> QED
    BY <1>5, <1>6 DEF A, S

\* The delegations that earn, in a state and in the next one.
LEMMA EarningKeys ==
    ASSUME NEW d
    PROVE  /\ EarningOf(d) = KeysOf(ledger, now, d)
           /\ EarningOf(d)' = KeysOf(ledger', now', d)
<1>1. EarningOf(d) = KeysOf(ledger, now, d)
    BY DEF EarningOf, Earning, KeysOf, ledger, RewardsStarted
<1>2. EarningOf(d)' = KeysOf(ledger', now', d)
    BY DEF EarningOf, Earning, KeysOf, ledger, RewardsStarted
<1> QED
    BY <1>1, <1>2

\* The books once all is claimed.
LEMMA SettledBooks ==
    ASSUME RewardsInv, TypeOK
    PROVE  /\ InOrder(Settled) /\ Settled.claims = claims /\ Settled.earned = earned
           /\ \A v \in Validators : Settled.pending[v] = 0
           /\ books \in Claimed(books)
           /\ ClosedBooks(Claimed(books), weights, assets, now, ledger, Validators)
<1>1. InOrder(books) /\ books.claims = claims /\ books.earned = earned
    BY DEF RewardsInv, books
<1>2. PICK l, b : l = ledger /\ b = books
    OBVIOUS
<1>3. LedgerNat(l) /\ InOrder(b)
    BY <1>1, <1>2, LedgerOfInv
<1>4. b \in Claimed(b) /\ b.pool \in Int /\ b.index \in [Validators -> Nat]
    BY <1>3 DEF InOrder, BooksOK, IsBooks, Claimed
<1>5. Settled = ClaimAll(b, l, Validators)
    BY <1>2 DEF Settled
<1>6. Settled \in Claimed(b)
    BY <1>3, <1>4, <1>5, ClaimAllClaims
<1>7. InOrder(Settled) /\ Settled.claims = b.claims /\ Settled.earned = b.earned
    BY <1>3, <1>6, ClaimedInOrder DEF Claimed
<1>8. \A v \in Validators : Settled.pending[v] = 0
    BY <1>3, <1>4, <1>5, AllClaimed
<1>9. ClosedBooks(Claimed(b), weights, assets, now, l, Validators)
  <2>1. \A v \in Validators : TotalOf(weights, assets, now, l, v) = TotalAssetWeight(l, v)
      BY DEF TotalOf, TotalAssetWeight, RewardsStarted
  <2>2. \A v \in Validators : TotalAssetWeight(l, v) \in Nat
      BY <1>3, TotalWeightNat
  <2> QED
      BY <1>4, <2>1, <2>2, ClaimByClaims DEF ClosedBooks
<1> QED
    BY <1>1, <1>2, <1>4, <1>7, <1>8, <1>9

\* Whether an asset without tokens is whitelisted makes no difference to what is earned.
LEMMA WhitelistKeepsEarnings ==
    ASSUME Epsilon < Scale, RewardsInv, TypeOK, LedgerTyped(weights', ledger'),
           UNCHANGED <<now, dels, bookVars, snapshots>>, NEW n \in Denoms,
           \/ OneAssetMore(weights, ledger, weights', ledger', n)
           \/ OneAssetMore(weights', ledger', weights, ledger, n),
           NEW d
    PROVE  Earnings(d)' = Earnings(d)
<1> DEFINE D == Claimed(books)
<1>1. PICK ws, l, xs, m, b, t, snaps, c :
          /\ ws = weights /\ l = ledger /\ xs = weights' /\ m = ledger' /\ b = books
          /\ t = now /\ snaps = snapshots /\ c = Settled
    OBVIOUS
<1>2. /\ l.assets = assets /\ m.assets = assets' /\ l.dels = dels /\ m.dels = dels
      /\ books' = b /\ now' = t /\ snapshots' = snaps /\ earned' = earned
    BY <1>1 DEF ledger, books, bookVars
<1>3. LedgerTyped(ws, l) /\ LedgerTyped(xs, m)
    BY <1>1, LedgerOfInv DEF LedgerNat, LedgerTyped
<1>4. OneAssetMore(ws, l, xs, m, n) \/ OneAssetMore(xs, m, ws, l, n)
    BY <1>1
<1>5. t \in Nat /\ IsFiniteSet(DOMAIN dels) /\ DOMAIN claims = DOMAIN dels
    BY <1>1, BooksOfInv DEF RewardsInv, LedgerInv, LedgerOK, DelStore
<1>6. /\ BooksOK(c, t) /\ SnapshotsOK(snaps, c, t) /\ c.claims = claims
      /\ b \in D /\ ClosedBooks(D, ws, l.assets, t, l, Validators)
    BY <1>1, <1>2, SettledBooks DEF InOrder
<1> HIDE DEF D
<1>7. ASSUME NEW v \in Validators
      PROVE  TotalOf(xs, m.assets, t, m, v) = TotalOf(ws, l.assets, t, l, v)
  <2>1. CASE OneAssetMore(ws, l, xs, m, n)
      BY <1>3, <2>1, SameTotals
  <2>2. CASE OneAssetMore(xs, m, ws, l, n)
      BY <1>3, <2>2, SameTotals
  <2> QED
      BY <1>4, <2>1, <2>2
<1>8. AllClaims(b, xs, m.assets, t, m) = AllClaims(b, ws, l.assets, t, l)
  <2>1. EqualTotals(ws, l.assets, t, l, xs, m.assets, t, m)
      BY <1>7 DEF EqualTotals
  <2> QED
      BY <1>6, <2>1, ClaimsAgree
<1>9. Settled' = c
  <2>1. Settled' = AllClaims(b, xs, m.assets, t, m)
    <3>1. weights' = xs /\ assets' = m.assets /\ ledger' = m
        BY <1>1, <1>2
    <3> QED
        BY <1>2, <3>1, SettledNext
  <2>2. Settled = AllClaims(b, ws, l.assets, t, l)
      BY <1>1, <1>2, SettledIsIter
  <2> QED
      BY <1>1, <1>8, <2>1, <2>2
<1>10. ClaimableFrom(snaps, xs, c, m, KeysOf(m, t, d))
           = ClaimableFrom(snaps, ws, c, l, KeysOf(l, t, d))
  <2>1. KeptFor(c, l) /\ KeptFor(c, m)
      BY <1>2, <1>5, <1>6 DEF KeptFor
  <2>2. CASE OneAssetMore(ws, l, xs, m, n)
      BY <1>3, <1>5, <1>6, <2>1, <2>2, SameClaimable
  <2>3. CASE OneAssetMore(xs, m, ws, l, n)
      BY <1>3, <1>5, <1>6, <2>1, <2>3, SameClaimable
  <2> QED
      BY <1>4, <2>2, <2>3
<1>11. Earnings(d) = earned[d] + ClaimableFrom(snaps, ws, c, l, KeysOf(l, t, d))
    BY <1>1, EarningsNow, EarningKeys
<1>12. Earnings(d)' = earned'[d] + ClaimableFrom(snaps, xs, c, m, KeysOf(m, t, d))
    BY <1>1, <1>2, <1>9, EarningsNext, EarningKeys
<1> QED
    BY <1>2, <1>10, <1>11, <1>12

\* So the proposals that whitelist an asset, and take it off the list, change nothing.
LEMMA CreateKeepsEarnings ==
    ASSUME Epsilon < Scale, RewardsInv, TypeOK, NEW n \in Denoms, NEW w \in RewardWeights,
           CreateAllianceWithWeight(n, w), NEW d
    PROVE  Earnings(d)' = Earnings(d)
<1>1. /\ n \notin DOMAIN assets
      /\ assets' = Put(assets, n, [tokens |-> 0, shares |-> 0, start |-> now + RewardDelay])
      /\ weights' = Put(weights, n, w)
      /\ UNCHANGED <<now, dels, positions, bookVars, snapshots>>
    BY DEF CreateAllianceWithWeight, CreateAlliance
<1>2. PICK ws, l, xs, m : ws = weights /\ l = ledger /\ xs = weights' /\ m = ledger'
    OBVIOUS
<1>3. /\ l = [dels |-> dels, positions |-> positions, assets |-> assets]
      /\ m = [dels |-> dels, positions |-> positions, assets |-> assets']
    BY <1>1, <1>2 DEF ledger
<1>4. LedgerTyped(ws, l) /\ DOMAIN weights = DOMAIN assets /\ w \in Nat
    BY <1>2, LedgerOfInv, RewardsConstants DEF LedgerNat, LedgerTyped, RewardsInv
<1>5. OneAssetMore(ws, l, xs, m, n)
    BY <1>1, <1>2, <1>3, <1>4 DEF OneAssetMore, Put
<1>6. LedgerTyped(xs, m)
    BY <1>1, <1>3, <1>4, <1>5 DEF LedgerTyped, OneAssetMore
<1> QED
    BY <1>1, <1>2, <1>5, <1>6, WhitelistKeepsEarnings

LEMMA DeleteKeepsEarnings ==
    ASSUME Epsilon < Scale, RewardsInv, TypeOK, NEW n \in Denoms,
           DeleteAllianceWithWeight(n), NEW d
    PROVE  Earnings(d)' = Earnings(d)
<1>1. /\ n \in DOMAIN assets /\ assets[n].tokens = 0
      /\ assets' = Without(assets, {n}) /\ weights' = Without(weights, {n})
      /\ UNCHANGED <<now, dels, positions, bookVars, snapshots>>
    BY DEF DeleteAllianceWithWeight, DeleteAlliance
<1>2. PICK ws, l, xs, m : ws = weights /\ l = ledger /\ xs = weights' /\ m = ledger'
    OBVIOUS
<1>3. /\ l = [dels |-> dels, positions |-> positions, assets |-> assets]
      /\ m = [dels |-> dels, positions |-> positions, assets |-> assets']
    BY <1>1, <1>2 DEF ledger
<1>4. LedgerTyped(ws, l) /\ DOMAIN weights = DOMAIN assets
    BY <1>2, LedgerOfInv DEF LedgerNat, LedgerTyped, RewardsInv
<1>5. /\ n \in DOMAIN l.assets /\ DOMAIN m.assets = DOMAIN l.assets \ {n}
      /\ \A k \in DOMAIN m.assets : m.assets[k] = l.assets[k] /\ xs[k] = ws[k]
      /\ m.positions = l.positions /\ m.dels = l.dels /\ l.assets[n].tokens = 0
  <2>1. l.assets = assets /\ m.assets = [k \in DOMAIN assets \ {n} |-> assets[k]]
      BY <1>1, <1>3 DEF Without, Restrict
  <2>2. xs = [k \in DOMAIN assets \ {n} |-> weights[k]]
      BY <1>1, <1>2, <1>4 DEF Without, Restrict
  <2> QED
      BY <1>1, <1>2, <1>3, <2>1, <2>2
<1>6. OneAssetMore(xs, m, ws, l, n)
    BY <1>4, <1>5 DEF OneAssetMore, LedgerTyped
<1>7. LedgerTyped(xs, m)
    BY <1>4, <1>5 DEF LedgerTyped
<1> QED
    BY <1>1, <1>2, <1>6, <1>7, WhitelistKeepsEarnings

\* A weight change claims from all validators and leaves the index of each in a snapshot,
\* and with it what has been earned until then, if the block has no snapshot yet.
LEMMA UpdateKeepsEarnings ==
    ASSUME RewardsInv, TypeOK, \A s \in DOMAIN snapshots : s.at < now,
           NEW n \in Denoms, NEW w \in RewardWeights, UpdateAlliance(n, w), NEW d
    PROVE  Earnings(d)' = Earnings(d)
<1>1. PICK c, e, l, new : c = Settled /\ e = books' /\ l = ledger /\ new = snapshots'
    OBVIOUS
<1>2. /\ n \in DOMAIN assets /\ weights' = [weights EXCEPT ![n] = w]
      /\ new = Written(WeightSnapshots(c, {n}), snapshots)
      /\ now' = now /\ dels' = dels /\ ledger' = l /\ SettleBooks(c)
    BY <1>1 DEF UpdateAlliance, ledgerVars, ledger, Settled
<1>3. /\ BooksOK(c, now) /\ SnapshotsOK(snapshots, c, now)
      /\ c.claims = claims /\ c.earned = earned /\ \A v \in Validators : c.pending[v] = 0
    BY <1>1, SettledBooks DEF InOrder
<1>4. /\ now \in Nat /\ IsFiniteSet(DOMAIN dels) /\ DOMAIN claims = DOMAIN dels
      /\ DOMAIN weights = DOMAIN assets /\ \A k \in DOMAIN assets : weights[k] \in Nat
      /\ LedgerTyped(weights, l) /\ l.dels = dels /\ l.assets = assets
    BY <1>1, BooksOfInv, LedgerOfInv
       DEF RewardsInv, LedgerInv, LedgerOK, DelStore, LedgerNat, LedgerTyped, ledger
<1>5. /\ e = [pending |-> c.pending, index |-> c.index, claims |-> claims', pool |-> c.pool,
              earned |-> c.earned]
      /\ earned' = earned
      /\ \A key \in DOMAIN dels : e.claims[key] = c.claims[key]
    BY <1>1, <1>2, <1>3, <1>4 DEF SettleBooks, SetBooks, History, books
<1>6. Settled' = e
  <2>1. NoneOwed(e)
      BY <1>3, <1>5 DEF NoneOwed
  <2>2. PICK ws, ys, t, m : ws = weights' /\ ys = assets' /\ t = now' /\ m = ledger'
      OBVIOUS
  <2>3. AllClaims(e, ws, ys, t, m) = e
      BY <2>1, NothingOwed, Zenon
  <2>4. Settled' = AllClaims(e, ws, ys, t, m)
    <3>1. books' = e /\ weights' = ws /\ assets' = ys /\ now' = t /\ ledger' = m
        BY <1>1, <2>2
    <3> QED
        BY <3>1, SettledNext
  <2> QED
      BY <2>3, <2>4
<1> DEFINE K == KeysOf(l, now, d)
           before == [key \in K |->
                         EarnedFrom(snapshots, weights[key.denom], c, key, WorthOf(l, key))]
           after == [key \in K |->
                        EarnedFrom(new, weights'[key.denom], e, key, WorthOf(l, key))]
<1>7. ASSUME NEW key \in K PROVE before[key] \in Int /\ after[key] = before[key]
  <2>1. /\ key \in DOMAIN dels /\ key \in DOMAIN l.dels /\ key \in DOMAIN c.claims
        /\ key.denom \in DOMAIN assets /\ key.denom \in DOMAIN l.assets
      BY <1>3, <1>4 DEF KeysOf
  <2>2. PICK k, x : k = WorthOf(l, key) /\ x = weights'
      OBVIOUS
  <2>3. k \in Nat /\ weights[key.denom] \in Nat /\ weights[n] \in Nat
      BY <1>2, <1>4, <2>1, <2>2, TokensTyped
  <2>4. x[key.denom] = weights[key.denom] \/ key.denom = n
      BY <1>2, <1>4, <2>1, <2>2
  <2>5. EarnedFrom(new, x[key.denom], c, key, k)
            = EarnedFrom(snapshots, weights[key.denom], c, key, k)
      BY <1>2, <1>3, <1>4, <2>1, <2>3, <2>4, EarnedAtOldWeight
  <2>6. EarnedFrom(new, x[key.denom], e, key, k) = EarnedFrom(new, x[key.denom], c, key, k)
    <3>1. e.claims[key] = c.claims[key] /\ e.index = c.index
        BY <1>5, <2>1
    <3>2. Since(new, e, key) = Since(new, c, key) /\ Start(e, key) = Start(c, key)
        BY <3>1 DEF Since, Start
    <3> QED
        BY <3>1, <3>2 DEF EarnedFrom
  <2>7. EarnedFrom(snapshots, weights[key.denom], c, key, k) \in Nat
    <3>1. PICK snaps, y : snaps = snapshots /\ y = weights[key.denom]
        OBVIOUS
    <3>2. EarnedFrom(snaps, y, c, key, k) \in Nat
        BY <1>3, <1>4, <2>1, <2>3, <3>1, EarnedNat
    <3> QED
        BY <3>1, <3>2
  <2> QED
      BY <2>2, <2>5, <2>6, <2>7
<1>8. IsFiniteSet(K)
    BY <1>4, FS_Subset, K \subseteq DOMAIN dels DEF KeysOf
<1>9. /\ Earnings(d) = earned[d] + SumFunctionOnSet(before, K)
      /\ Earnings(d)' = earned[d] + SumFunctionOnSet(after, K)
  <2>1. EarningOf(d) = K /\ EarningOf(d)' = K
      BY <1>1, <1>2, EarningKeys
  <2>2. Earnings(d) = earned[d] + ClaimableFrom(snapshots, weights, c, l, K)
      BY <1>1, <2>1, EarningsNow
  <2>3. Earnings(d)' = earned[d] + ClaimableFrom(new, weights', e, l, K)
      BY <1>1, <1>2, <1>5, <1>6, <2>1, EarningsNext
  <2> QED
      BY <2>2, <2>3 DEF ClaimableFrom
<1> HIDE DEF K, before, after
<1>10. SumFunctionOnSet(after, K) = SumFunctionOnSet(before, K)
    BY <1>7, <1>8, SumEqual
<1> QED
    BY <1>9, <1>10

\* The steps that have to do with weights; all others leave the time and the snapshots alone.
LEMMA WeightSteps ==
    ASSUME [RewardsNext]_allVars
    PROVE  \/ \E n \in Denoms :
                 \/ DeleteAllianceWithWeight(n)
                 \/ \E w \in RewardWeights :
                       CreateAllianceWithWeight(n, w) \/ UpdateAlliance(n, w)
           \/ NextBlockAndClaim
           \/ UNCHANGED <<now, weightVars>>
<1>1. ASSUME NEW d, NEW v, NEW n, ClaimRewards(d, v, n) PROVE UNCHANGED <<now, weightVars>>
    BY <1>1 DEF ClaimRewards
<1>2. ASSUME NEW d, NEW n, NEW amt, NEW v,
             DelegateAndClaim(d, v, n, amt) \/ UndelegateAndClaim(d, v, n, amt)
      PROVE  UNCHANGED <<now, weightVars>>
    BY <1>2 DEF DelegateAndClaim, Delegate, UndelegateAndClaim, Undelegate
<1>3. ASSUME NEW d, NEW n, NEW amt, NEW src, NEW dst, RedelegateAndClaim(d, src, dst, n, amt)
      PROVE  UNCHANGED <<now, weightVars>>
    BY <1>3 DEF RedelegateAndClaim, Redelegate
<1>4. ASSUME NEW v, NEW f, SlashAndClaim(v, f) PROVE UNCHANGED <<now, weightVars>>
    BY <1>4 DEF SlashAndClaim, ApplySlash
<1>5. ASSUME NEW v, NEW coins, Allocate(v, coins) PROVE UNCHANGED <<now, weightVars>>
    BY <1>5 DEF Allocate, vars
<1>6. CASE UNCHANGED allVars
    BY <1>6 DEF allVars, vars
<1> QED
    BY <1>1, <1>2, <1>3, <1>4, <1>5, <1>6 DEF RewardsNext

\* Until a weight changes, a block has no snapshots of its own.
FreshSnapshots ==
    /\ changes \in Nat
    /\ changes = 0 /\ now < Horizon => \A s \in DOMAIN snapshots : s.at < now

LEMMA FreshStays ==
    ASSUME 0 \notin BlockGaps, RewardsInv, FreshSnapshots, [RewardsNext]_allVars
    PROVE  FreshSnapshots'
<1>1. now \in Nat /\ Horizon \in Nat /\ now =< Horizon
      /\ \A s \in DOMAIN snapshots : s.at \in Nat /\ s.at =< now
  <2>1. now \in Nat /\ Horizon \in Nat /\ now =< Horizon /\ SnapshotsOK(snapshots, books, now)
      BY BooksOfInv DEF InOrder
  <2> QED
      BY <2>1 DEF SnapshotsOK, SnapshotKeys
<1>2. ASSUME NEW n \in Denoms, DeleteAllianceWithWeight(n) PROVE FreshSnapshots'
    BY <1>2 DEF DeleteAllianceWithWeight, DeleteAlliance, FreshSnapshots, Horizon
<1>3. ASSUME NEW n \in Denoms, NEW w, CreateAllianceWithWeight(n, w) PROVE FreshSnapshots'
    BY <1>3 DEF CreateAllianceWithWeight, CreateAlliance, FreshSnapshots, Horizon
<1>4. ASSUME NEW n \in Denoms, NEW w, UpdateAlliance(n, w) PROVE FreshSnapshots'
    BY <1>4 DEF UpdateAlliance, FreshSnapshots
<1>5. CASE NextBlockAndClaim
  <2>1. PICK gap \in BlockGaps, cut \in [Denoms -> {0} \cup Amounts],
             changed \in SUBSET Denoms, w \in RewardWeights,
             rebalanced \in SUBSET {v \in Validators : pending[v] > 0} :
                EndBlockAndClaim(gap, cut, changed, w, rebalanced)
      BY <1>5 DEF NextBlockAndClaim
  <2>2. PICK b : snapshots' = Written(WeightSnapshots(b, changed),
                                      Written(InitialSnapshots, snapshots))
      BY <2>1 DEF EndBlockAndClaim
  <2>3. changes' = 0 /\ now' = IF now + gap < Horizon THEN now + gap ELSE Horizon
      BY <2>1 DEF EndBlockAndClaim, EndBlock
  <2>4. gap \in Nat /\ gap # 0
      BY RewardsConstants
  <2>5. ASSUME NEW s \in DOMAIN snapshots' PROVE s.at \in Nat /\ s.at =< now
    <3>1. \A u \in DOMAIN WeightSnapshots(b, changed) : u.at = now
        BY DEF WeightSnapshots
    <3>2. \A u \in DOMAIN InitialSnapshots : u.at = now
        BY DEF InitialSnapshots
    <3>3. \/ s \in DOMAIN WeightSnapshots(b, changed)
          \/ s \in DOMAIN InitialSnapshots
          \/ s \in DOMAIN snapshots
        BY <2>2, <2>5 DEF Written
    <3> QED
        BY <1>1, <3>1, <3>2, <3>3
  <2>6. now' < Horizon => now < now'
      BY <1>1, <2>3, <2>4
  <2>7. now' < Horizon => \A s \in DOMAIN snapshots' : s.at < now'
      BY <1>1, <2>3, <2>4, <2>5
  <2> QED
      BY <2>3, <2>7 DEF FreshSnapshots, Horizon
<1>6. CASE UNCHANGED <<now, weightVars>>
    BY <1>6 DEF weightVars, FreshSnapshots, Horizon
<1> QED
    BY <1>2, <1>3, <1>4, <1>5, <1>6, WeightSteps

\* The first change of a weight in a block, or of the list of assets, is not retroactive.
LEMMA WeightStepKeepsEarnings ==
    ASSUME Epsilon < Scale, RewardsInv, TypeOK, FreshSnapshots, [RewardsNext]_allVars,
           weights' # weights, phase' = "gov", changes' =< 1, NEW d
    PROVE  Earnings(d)' = Earnings(d)
<1>1. ASSUME NEW n \in Denoms, DeleteAllianceWithWeight(n) PROVE Earnings(d)' = Earnings(d)
    BY <1>1, DeleteKeepsEarnings
<1>2. ASSUME NEW n \in Denoms, NEW w \in RewardWeights, CreateAllianceWithWeight(n, w)
      PROVE  Earnings(d)' = Earnings(d)
    BY <1>2, CreateKeepsEarnings
<1>3. ASSUME NEW n \in Denoms, NEW w \in RewardWeights, UpdateAlliance(n, w)
      PROVE  Earnings(d)' = Earnings(d)
  <2>1. changes' = changes + 1 /\ now =< MaxTime
      BY <1>3 DEF UpdateAlliance, InGov
  <2>2. changes = 0
      BY <2>1 DEF FreshSnapshots
  <2>3. now < Horizon
      BY <2>1, BooksOfInv, RewardsConstants DEF Horizon
  <2>4. \A s \in DOMAIN snapshots : s.at < now
      BY <2>2, <2>3 DEF FreshSnapshots
  <2> QED
      BY <1>3, <2>4, UpdateKeepsEarnings
<1>4. ~ NextBlockAndClaim
    BY DEF NextBlockAndClaim, EndBlockAndClaim, EndBlock
<1>5. ~ UNCHANGED <<now, weightVars>>
    BY DEF weightVars
<1> QED
    BY <1>1, <1>2, <1>3, <1>4, <1>5, WeightSteps

\* A change of a reward weight is not retroactive: the claim from all validators before it
\* and the snapshot of their indices (asset.go:33-35) leave each delegator exactly what was
\* earned at the weight before, for any number of assets, validators and snapshots, if it is
\* the first of its block.  Neither does an asset earn by being whitelisted, or cost anyone
\* by being deleted.  Blocks take time, and the rounding of tokens is less than a token.
THEOREM WeightChangeKeepsEarningsHolds ==
    ASSUME Epsilon < Scale, 0 \notin BlockGaps
    PROVE  RewardsSpec /\ []NoOverdraw /\ []SharesLeft => WeightChangeKeepsEarnings
<1> DEFINE Keeps == weights' # weights /\ phase' = "gov" /\ changes' =< 1 =>
                       \A d \in Delegators : Earnings(d)' = Earnings(d)
<1>1. RewardsInit => FreshSnapshots
    BY DEF RewardsInit, NoEntry, FreshSnapshots
<1>2. RewardsInv /\ FreshSnapshots /\ [RewardsNext]_allVars => FreshSnapshots'
    BY FreshStays
<1>3. RewardsInv /\ TypeOK /\ FreshSnapshots /\ [RewardsNext]_allVars => Keeps
    BY WeightStepKeepsEarnings
<1> HIDE DEF Keeps
<1>4. RewardsSpec /\ []NoOverdraw /\ []SharesLeft => [][Keeps]_allVars
    BY <1>1, <1>2, <1>3, RewardsInvariant, RewardsLedgerTypes, PTL DEF RewardsSpec
<1> QED
    BY <1>4 DEF Keeps, WeightChangeKeepsEarnings
=============================================================================
