-------------------------- MODULE RebalanceProofs --------------------------
(***************************************************************************)
(* Proofs about Rebalance: the books of the module's stake, that one       *)
(* rebalance reaches the target, that the flag is up whenever the stake is *)
(* off target, and that the supply the bank reports never shows it.        *)
(***************************************************************************)
EXTENDS Rebalance, DecTheorems

PhaseType == {"committed", "begin", "deliver", "staked"}
StatusType == [Validators -> {"bonded", "unbonding", "removed"}]
AssetType == [weight : Weights, wait : 0 .. RewardDelay]

\* The module has no more at a validator than the validator has.
StakeOK(ts, ss) ==
    /\ ts \in [Validators -> Nat] /\ ss \in [Validators -> Nat]
    /\ \A v \in Validators : ss[v] =< FromInt(ts[v])

Books ==
    /\ phase \in PhaseType /\ status \in StatusType
    /\ StakeOK(tokens, stake) /\ wallet \in Nat
    /\ records \subseteq Validators /\ shares \in [Validators -> [Denoms -> Nat]]
    /\ DOMAIN assets \subseteq Denoms /\ \A n \in DOMAIN assets : assets[n] \in AssetType
    /\ queued \in BOOLEAN /\ missed \in BOOLEAN

\* No shares are held of assets that are not whitelisted, nor by validators without a
\* record, at which the module has no stake either.
Idle ==
    /\ \A v \in Validators, n \in Denoms \ DOMAIN assets : shares[v][n] = 0
    /\ \A v \in Validators \ records : stake[v] = 0 /\ \A n \in Denoms : shares[v][n] = 0

\* Nobody bonded holds shares of an asset that starts later.
NoneWaiting == \A v \in Bonded, n \in DOMAIN assets \ Started : shares[v][n] = 0

\* Whenever no rebalance is asked for, the stake is on target and will stay there when
\* the rewards of further assets start.
OnTarget == ~queued /\ ~missed => AtTarget /\ NoneWaiting

RebalanceInv == Books /\ Idle /\ OnTarget

-----------------------------------------------------------------------------
(* Targets and adjustments.                                                 *)

LEMMA RebalanceConstants ==
    /\ Scale \in Nat \ {0} /\ RewardDelay \in Nat /\ NativeSupply \in Nat
    /\ IsFiniteSet(Validators) /\ IsFiniteSet(Denoms)
    /\ Cardinality(Validators) =< NativeSupply
    /\ \A w \in Weights : w \in Nat
    /\ \A amt \in Amounts : amt \in Nat \ {0}
    /\ \A amt \in NativeAmounts : amt \in Nat \ {0}
    /\ \A f \in Fractions : f \in 1 .. Scale - 1
BY ScaleAssumption, DelayAssumption, SupplyAssumption, DenomsAssumption, WeightsAssumption,
   RebalanceAmountsAssumption, RebalanceFractionsAssumption

LEMMA BondedFinite == Bonded \subseteq Validators /\ IsFiniteSet(Bonded)
BY RebalanceConstants, FS_Subset DEF Bonded

\* Truncation takes away less than one, and nothing below zero.
LEMMA TruncateBound ==
    ASSUME NEW x \in Nat
    PROVE  /\ TruncateInt(x) \in Nat
           /\ TruncateInt(x) * Scale =< x /\ x - Scale < TruncateInt(x) * Scale
<1>1. Scale \in Nat \ {0}
    BY ScaleAssumption
<1>2. x \div Scale \in Nat
    BY <1>1, QuotientBound, 0 \in Nat
<1>3. x % Scale \in 0 .. Scale - 1 /\ x = Scale * (x \div Scale) + (x % Scale)
    BY <1>1, Division, x \in Int
<1>4. (x \div Scale) * Scale = Scale * (x \div Scale) /\ (x \div Scale) * Scale \in Nat
    BY <1>1, <1>2, ProductNat
<1> QED
    BY <1>1, <1>2, <1>3, <1>4 DEF TruncateInt

\* The module has no more with the bonded validators than they have.
LEMMA NativeNat ==
    ASSUME Books
    PROVE  /\ GetAllianceBondedAmount \in Nat /\ NativeBondAmount \in Nat
           /\ SumFunctionOnSet(stake, Bonded) \in Nat
           /\ SumFunctionOnSet(tokens, Bonded) \in Nat
<1> DEFINE worth == [v \in Validators |-> FromInt(tokens[v])]
           S == SumFunctionOnSet(stake, Bonded)
           T == SumFunctionOnSet(tokens, Bonded)
<1>1. Scale \in Nat \ {0} /\ Bonded \subseteq Validators /\ IsFiniteSet(Bonded)
    BY RebalanceConstants, BondedFinite
<1>2. \A v \in Bonded : /\ stake[v] \in Nat /\ tokens[v] \in Nat
                        /\ worth[v] = tokens[v] * Scale /\ worth[v] \in Int
                        /\ stake[v] =< worth[v]
    BY <1>1 DEF Books, StakeOK, AssetType, FromInt
<1> HIDE DEF worth
<1>3. S \in Nat /\ T \in Nat
    BY <1>1, <1>2, SumNat
<1>4. SumFunctionOnSet(worth, Bonded) = T * Scale
    BY <1>1, <1>2, SumTimes
<1>5. S =< SumFunctionOnSet(worth, Bonded)
  <2>1. \A v \in Bonded : stake[v] \in Int /\ worth[v] \in Int /\ stake[v] =< worth[v]
      BY <1>2
  <2> QED
      BY <1>1, <2>1, SumAtMost
<1> HIDE DEF S, T
<1>6. S \div Scale \in Nat /\ S \div Scale =< T
    BY <1>1, <1>3, <1>4, <1>5, QuotientBound
<1> QED
    BY <1>3, <1>6 DEF S, T, GetAllianceBondedAmount, NativeBondAmount, TruncateInt

LEMMA ExpectedForAssetNat ==
    ASSUME Books, NEW v \in Bonded, NEW n \in Denoms
    PROVE  ExpectedForAsset(v, n) \in Nat
<1> DEFINE held == [u \in Validators |-> shares[u][n]]
           w == MulInt(assets[n].weight, NativeBondAmount)
<1>1. v \in Validators /\ Bonded \subseteq Validators /\ IsFiniteSet(Bonded)
    BY BondedFinite
<1>2. \A u \in Bonded : held[u] \in Nat
    BY <1>1 DEF Books, StakeOK, AssetType
<1>3. held[v] = shares[v][n] /\ shares[v][n] \in Nat
    BY <1>1, <1>2
<1>4. BondedShares(n) = SumFunctionOnSet(held, Bonded)
    BY DEF BondedShares
<1> HIDE DEF held
<1>5. BondedShares(n) \in Nat /\ shares[v][n] =< BondedShares(n)
    BY <1>1, <1>2, <1>3, <1>4, SumNat, SumMember
<1>6. ASSUME n \in Started, shares[v][n] > 0
      PROVE  Mul(Quo(shares[v][n], BondedShares(n)), w) \in Nat
  <2>1. assets[n].weight \in Nat /\ NativeBondAmount \in Nat
      BY <1>6, RebalanceConstants, NativeNat DEF Started, Books, AssetType
  <2>2. w \in Nat
      BY <2>1, ProductNat DEF MulInt
  <2>3. Quo(shares[v][n], BondedShares(n)) \in Nat
      BY <1>3, <1>5, <1>6, QuoBound, 0 \in Nat
  <2> HIDE DEF w
  <2> QED
      BY <2>2, <2>3, MulBound
<1> QED
    BY <1>6 DEF ExpectedForAsset

LEMMA ExpectedNat ==
    ASSUME Books, NEW v \in Bonded
    PROVE  ExpectedBondAmount(v) \in Nat
<1> DEFINE e == [n \in Denoms |-> ExpectedForAsset(v, n)]
<1>1. \A n \in Denoms : e[n] \in Nat
    BY ExpectedForAssetNat
<1>2. ExpectedBondAmount(v) = SumFunctionOnSet(e, Denoms)
    BY DEF ExpectedBondAmount, SumFunction
<1> HIDE DEF e
<1> QED
    BY <1>1, <1>2, RebalanceConstants, SumNat

\* An adjustment moves the stake to within a token of the target; it takes back no more
\* than the module has, and leaves it no more than the validator has.
LEMMA AdjustmentBound ==
    ASSUME Books, NEW v \in Bonded
    PROVE  /\ Adjustment(v) \in Int
           /\ stake[v] + FromInt(Adjustment(v)) \in 0 .. FromInt(tokens[v] + Adjustment(v))
           /\ tokens[v] + Adjustment(v) \in Nat
           /\ ExpectedBondAmount(v) - (stake[v] + FromInt(Adjustment(v))) < Scale
           /\ (stake[v] + FromInt(Adjustment(v))) - ExpectedBondAmount(v) < Scale
           /\ stake[v] = 0 /\ ExpectedBondAmount(v) = 0 => Adjustment(v) = 0
<1> DEFINE e == ExpectedBondAmount(v)
           a == Adjustment(v)
           s == stake[v]
           t == tokens[v]
<1>1. /\ Scale \in Nat \ {0} /\ e \in Nat /\ s \in Nat /\ t \in Nat
      /\ s =< t * Scale
    BY ExpectedNat, RebalanceConstants, BondedFinite DEF Books, StakeOK, AssetType, FromInt
<1>2. a = IF e >= s THEN TruncateInt(e - s) ELSE -TruncateInt(s - e)
    BY DEF Adjustment
<1> HIDE DEF a, e, s, t
<1>3. CASE e >= s
  <2>1. e - s \in Nat /\ a = TruncateInt(e - s)
      BY <1>1, <1>2, <1>3
  <2>2. a \in Nat /\ a * Scale =< e - s /\ e - s - Scale < a * Scale
      BY <2>1, TruncateBound
  <2>3. a * Scale \in Nat /\ t * Scale \in Nat /\ (t + a) * Scale = t * Scale + a * Scale
      BY <1>1, <2>2, ProductNat
  <2>4. s = 0 /\ e = 0 => a = 0
    <3>1. ASSUME e - s = 0, a # 0 PROVE FALSE
      <4>1. (a - 1) * Scale \in Nat /\ (a - 1) * Scale = a * Scale - Scale
          BY <1>1, <2>2, <3>1, ProductNat, a - 1 \in Nat
      <4> QED
          BY <1>1, <2>2, <2>3, <3>1, <4>1
    <3> QED
        BY <3>1
  <2>5. s + a * Scale \in 0 .. (t + a) * Scale /\ t + a \in Nat
      BY <1>1, <2>2, <2>3
  <2>6. e - (s + a * Scale) < Scale /\ (s + a * Scale) - e < Scale
      BY <1>1, <2>2, <2>3
  <2> QED
      BY <2>2, <2>4, <2>5, <2>6 DEF a, e, s, t, FromInt
<1>4. CASE ~ (e >= s)
  <2> DEFINE b == TruncateInt(s - e)
  <2>1. s - e \in Nat /\ a = -b
      BY <1>1, <1>2, <1>4
  <2>2. b \in Nat /\ b * Scale =< s - e /\ s - e - Scale < b * Scale
      BY <2>1, TruncateBound
  <2> HIDE DEF b
  <2>3. /\ b * Scale \in Nat /\ t * Scale \in Nat
        /\ a * Scale = -(b * Scale) /\ (t + a) * Scale = t * Scale - b * Scale
      BY <1>1, <2>1, <2>2, ProductNat
  <2>4. t >= b
    <3> SUFFICES ASSUME b - t - 1 \in Nat PROVE FALSE
        BY <1>1, <2>2
    <3>1. (b - t - 1) * Scale \in Nat /\ (b - t - 1) * Scale = b * Scale - t * Scale - Scale
        BY <1>1, <2>2, ProductNat
    <3> QED
        BY <1>1, <2>2, <2>3, <3>1
  <2>5. s + a * Scale \in 0 .. (t + a) * Scale /\ t + a \in Nat
      BY <1>1, <2>1, <2>2, <2>3, <2>4
  <2>6. e - (s + a * Scale) < Scale /\ (s + a * Scale) - e < Scale
      BY <1>1, <2>2, <2>3
  <2>7. a \in Int /\ ~(s = 0)
      BY <1>1, <1>4, <2>1, <2>2
  <2> QED
      BY <2>5, <2>6, <2>7 DEF a, e, s, t, FromInt
<1> QED
    BY <1>3, <1>4
-----------------------------------------------------------------------------
(* A rebalance moves tokens and stake alike.                                *)

\* The sums that a rebalance changes, each by the sum of the adjustments.
LEMMA RebalanceSums ==
    ASSUME Books, BondTokens, UNCHANGED status
    PROVE  \E total \in Int :
              /\ SumFunction(tokens)' = SumFunction(tokens) + total
              /\ SumFunctionOnSet(tokens, Bonded)' = SumFunctionOnSet(tokens, Bonded) + total
              /\ GetAllianceBondedAmount' = GetAllianceBondedAmount + total
<1> DEFINE adj == [v \in Validators |-> IF v \in Bonded THEN Adjustment(v) ELSE 0]
           scaled == [v \in Validators |-> adj[v] * Scale]
           total == SumFunctionOnSet(adj, Bonded)
<1>1. /\ Scale \in Nat \ {0} /\ IsFiniteSet(Validators)
      /\ Bonded \subseteq Validators /\ IsFiniteSet(Bonded) /\ Bonded' = Bonded
    BY RebalanceConstants, BondedFinite DEF Bonded
<1>2. /\ tokens \in [Validators -> Nat] /\ stake \in [Validators -> Nat]
      /\ \A v \in Bonded : Adjustment(v) \in Int
    BY AdjustmentBound DEF Books, StakeOK, AssetType
<1>3. /\ \A v \in Validators : adj[v] \in Int /\ scaled[v] = adj[v] * Scale
      /\ \A v \in Validators \ Bonded : adj[v] = 0
      /\ \A v \in Bonded : adj[v] = Adjustment(v)
    BY <1>1, <1>2
<1>4. /\ DOMAIN tokens' = Validators
      /\ \A v \in Validators : tokens'[v] = tokens[v] + adj[v]
      /\ \A v \in Bonded : stake'[v] = stake[v] + scaled[v] /\ scaled[v] \in Int
    BY <1>1, <1>2, <1>3 DEF BondTokens, FromInt
<1> HIDE DEF adj, scaled
<1>5. total \in Int
    BY <1>1, <1>3, SumInt
<1>6. SumFunctionOnSet(adj, Validators) = total
  <2>1. \A v \in Bonded : adj[v] \in Int /\ adj[v] = adj[v]
      BY <1>1, <1>3
  <2> QED
      BY <1>1, <1>3, <2>1, SumOnPart
<1>7. SumFunctionOnSet(tokens', Validators) = SumFunctionOnSet(tokens, Validators) + total
  <2>1. \A v \in Validators :
            tokens[v] \in Int /\ adj[v] \in Int /\ tokens'[v] = tokens[v] + adj[v]
      BY <1>2, <1>3, <1>4
  <2>2. SumFunctionOnSet(tokens', Validators)
            = SumFunctionOnSet(tokens, Validators) + SumFunctionOnSet(adj, Validators)
      BY <1>1, <2>1, SumOfSums
  <2> QED
      BY <1>6, <2>2
<1>8. SumFunctionOnSet(tokens', Bonded) = SumFunctionOnSet(tokens, Bonded) + total
  <2>1. \A v \in Bonded :
            tokens[v] \in Int /\ adj[v] \in Int /\ tokens'[v] = tokens[v] + adj[v]
      BY <1>1, <1>2, <1>3, <1>4
  <2> QED
      BY <1>1, <2>1, SumOfSums
<1>9. SumFunctionOnSet(stake', Bonded) = SumFunctionOnSet(stake, Bonded) + total * Scale
  <2>1. \A v \in Bonded :
            stake[v] \in Int /\ scaled[v] \in Int /\ stake'[v] = stake[v] + scaled[v]
      BY <1>1, <1>2, <1>4
  <2>2. SumFunctionOnSet(stake', Bonded)
            = SumFunctionOnSet(stake, Bonded) + SumFunctionOnSet(scaled, Bonded)
      BY <1>1, <2>1, SumOfSums
  <2>3. \A v \in Bonded : adj[v] \in Int /\ scaled[v] = adj[v] * Scale
      BY <1>1, <1>3
  <2>4. SumFunctionOnSet(scaled, Bonded) = total * Scale
      BY <1>1, <2>3, SumTimes
  <2> QED
      BY <2>2, <2>4
<1> HIDE DEF total
<1>10. SumFunctionOnSet(stake', Bonded) \div Scale
           = SumFunctionOnSet(stake, Bonded) \div Scale + total
  <2>1. SumFunctionOnSet(stake, Bonded) \in Int
      BY NativeNat
  <2> QED
      BY <1>1, <1>5, <1>9, <2>1, QuotientShift
<1>11. /\ SumFunction(tokens) = SumFunctionOnSet(tokens, Validators)
       /\ SumFunction(tokens)' = SumFunctionOnSet(tokens', Validators)
       /\ SumFunctionOnSet(tokens, Bonded)' = SumFunctionOnSet(tokens', Bonded)
       /\ GetAllianceBondedAmount' = SumFunctionOnSet(stake', Bonded) \div Scale
       /\ GetAllianceBondedAmount = SumFunctionOnSet(stake, Bonded) \div Scale
    BY <1>1, <1>2, <1>4 DEF SumFunction, GetAllianceBondedAmount, TruncateInt
<1> QED
    BY <1>5, <1>7, <1>8, <1>10, <1>11

LEMMA RebalanceKeepsNative ==
    ASSUME Books, BondTokens, UNCHANGED <<status, wallet>>
    PROVE  NativeBondAmount' = NativeBondAmount /\ SupplyOf' = SupplyOf
<1>1. PICK total \in Int :
              /\ SumFunction(tokens)' = SumFunction(tokens) + total
              /\ SumFunctionOnSet(tokens, Bonded)' = SumFunctionOnSet(tokens, Bonded) + total
              /\ GetAllianceBondedAmount' = GetAllianceBondedAmount + total
    BY RebalanceSums
<1>2. /\ GetAllianceBondedAmount \in Int /\ SumFunctionOnSet(tokens, Bonded) \in Int
      /\ wallet \in Int /\ SumFunction(tokens) \in Int
  <2>1. SumFunctionOnSet(tokens, Validators) \in Int
      BY RebalanceConstants, SumInt DEF Books, StakeOK, AssetType
  <2>2. SumFunction(tokens) = SumFunctionOnSet(tokens, Validators)
      BY DEF Books, StakeOK, AssetType, SumFunction
  <2> QED
      BY <2>1, <2>2, NativeNat DEF Books, StakeOK, AssetType
<1> QED
    BY <1>1, <1>2 DEF NativeBondAmount, SupplyOf

\* A target depends on the bonded shares, the native stake and the weights of the started
\* assets that a validator holds.
LEMMA SameTarget ==
    ASSUME UNCHANGED <<status, shares>>, NativeBondAmount' = NativeBondAmount,
           NEW v \in Validators,
           \A n \in Denoms : \/ shares[v][n] = 0
                             \/ n \in Started /\ n \in Started' /\ assets'[n].weight = assets[n].weight
                             \/ n \notin Started /\ n \notin Started'
    PROVE  ExpectedBondAmount(v)' = ExpectedBondAmount(v)
<1>1. ASSUME NEW n \in Denoms PROVE ExpectedForAsset(v, n)' = ExpectedForAsset(v, n)
  <2>1. BondedShares(n)' = BondedShares(n)
      BY DEF BondedShares, Bonded
  <2>2. CASE shares[v][n] = 0
      BY <2>2 DEF ExpectedForAsset
  <2>3. CASE n \in Started /\ n \in Started' /\ assets'[n].weight = assets[n].weight
      BY <2>1, <2>3 DEF ExpectedForAsset
  <2>4. CASE n \notin Started /\ n \notin Started'
      BY <2>4 DEF ExpectedForAsset
  <2> QED
      BY <2>2, <2>3, <2>4
<1>2. [n \in Denoms |-> ExpectedForAsset(v, n)]' = [n \in Denoms |-> ExpectedForAsset(v, n)]
    BY <1>1
<1> QED
    BY <1>2 DEF ExpectedBondAmount

\* After a rebalance the stake is on the target as it was before.
LEMMA RebalanceReaches ==
    ASSUME Books, BondTokens, UNCHANGED status, NEW v \in Bonded,
           ExpectedBondAmount(v)' = ExpectedBondAmount(v)
    PROVE  /\ ExpectedBondAmount(v)' - stake'[v] < Scale
           /\ stake'[v] - ExpectedBondAmount(v)' < Scale
<1>1. stake'[v] = stake[v] + FromInt(Adjustment(v))
    BY BondedFinite DEF BondTokens
<1> DEFINE e == ExpectedBondAmount(v)
           after == stake[v] + FromInt(Adjustment(v))
<1>2. e - after < Scale /\ after - e < Scale
    BY AdjustmentBound
<1>3. ExpectedBondAmount(v)' = e /\ stake'[v] = after
    BY <1>1
<1> HIDE DEF e, after
<1> QED
    BY <1>2, <1>3
-----------------------------------------------------------------------------
(* Types and books, action by action.                                       *)

LEMMA BooksTyped == Books => RebalanceTypeOK
<1>1. \A v \in Validators : tokens \in [Validators -> Nat] => FromInt(tokens[v]) \in Nat
    BY RebalanceConstants, ProductNat DEF FromInt
<1> QED
    BY <1>1 DEF Books, RebalanceTypeOK, StakeOK, PhaseType, StatusType, AssetType

LEMMA FromIntMonotone ==
    ASSUME NEW x \in Nat, NEW y \in Nat, x =< y
    PROVE  FromInt(x) \in Nat /\ FromInt(y) \in Nat /\ FromInt(x) =< FromInt(y)
BY RebalanceConstants, ProductNat, ProductMonotone DEF FromInt

LEMMA TokensInt ==
    ASSUME NEW f \in [Validators -> Nat]
    PROVE  SumFunction(f) \in Int
<1>1. SumFunctionOnSet(f, Validators) \in Int
    BY RebalanceConstants, SumInt
<1> QED
    BY <1>1 DEF SumFunction

\* The sum of a function that changes in one place.
LEMMA SumChange ==
    ASSUME NEW f \in [Validators -> Nat], NEW v \in Validators, NEW amt \in Int,
           NEW g, DOMAIN g = Validators, g[v] = f[v] + amt,
           \A u \in Validators \ {v} : g[u] = f[u]
    PROVE  SumFunction(f) \in Int /\ SumFunction(g) = SumFunction(f) + amt
<1> DEFINE only == [u \in Validators |-> IF u = v THEN amt ELSE 0]
           one == [u \in {v} |-> amt]
<1>1. \A u \in Validators : f[u] \in Int /\ only[u] \in Int /\ g[u] = f[u] + only[u]
    OBVIOUS
<1>2. SumFunctionOnSet(only, Validators) = SumFunctionOnSet(one, {v})
  <2>1. {v} \in SUBSET Validators /\ (\A u \in {v} : one[u] \in Int /\ only[u] = one[u])
      OBVIOUS
  <2>2. \A u \in Validators \ {v} : only[u] = 0
      OBVIOUS
  <2> HIDE DEF one, only
  <2> QED
      BY <2>1, <2>2, RebalanceConstants, SumOnPart
<1>3. SumFunctionOnSet(one, {v}) = amt
  <2>1. one[v] = amt /\ {v} \ {v} = {} /\ IsFiniteSet({v})
      BY FS_Singleton
  <2>2. SumFunctionOnSet(one, {v}) = one[v] + SumFunctionOnSet(one, {v} \ {v})
    <3>1. \A u \in {v} : one[u] \in Int
        OBVIOUS
    <3> HIDE DEF one
    <3> QED
        BY <2>1, <3>1, SumRemove
  <2> HIDE DEF one
  <2> QED
      BY <2>1, <2>2, SumEmpty
<1>4. SumFunctionOnSet(g, Validators) = SumFunctionOnSet(f, Validators) + SumFunctionOnSet(only, Validators)
  <2> HIDE DEF only
  <2> QED BY <1>1, RebalanceConstants, SumOfSums
<1>5. SumFunctionOnSet(f, Validators) \in Int
    BY RebalanceConstants, SumInt
<1>6. DOMAIN f = Validators /\ DOMAIN g = Validators
    OBVIOUS
<1> HIDE DEF only, one
<1>7. SumFunction(f) = SumFunctionOnSet(f, Validators) /\ SumFunction(g) = SumFunctionOnSet(g, Validators)
    BY <1>6 DEF SumFunction
<1> QED
    BY <1>2, <1>3, <1>4, <1>5, <1>7

LEMMA NativeDelegateBooks ==
    ASSUME Books, NEW v \in Validators, NEW amt \in NativeAmounts, NativeDelegate(v, amt)
    PROVE  Books' /\ SupplyOf' = SupplyOf
<1>1. StakeOK(tokens, stake) /\ wallet \in Nat /\ amt \in Nat /\ amt =< wallet
    BY RebalanceConstants DEF Books, NativeDelegate
<1>2. /\ tokens' = [tokens EXCEPT ![v] = tokens[v] + amt] /\ UNCHANGED <<stake, status>>
      /\ wallet' = wallet - amt
    BY DEF NativeDelegate
<1>3. StakeOK(tokens', stake')
  <2>1. tokens[v] \in Nat /\ tokens[v] + amt \in Nat /\ tokens[v] =< tokens[v] + amt
      BY <1>1 DEF StakeOK
  <2>2. /\ FromInt(tokens[v]) =< FromInt(tokens[v] + amt)
        /\ FromInt(tokens[v]) \in Nat /\ FromInt(tokens[v] + amt) \in Nat
      BY <2>1, FromIntMonotone
  <2> QED
      BY <1>1, <1>2, <2>1, <2>2 DEF StakeOK
<1>4. Books'
  <2>1. wallet' \in Nat
      BY <1>1, <1>2
  <2> QED
      BY <1>3, <2>1 DEF Books, NativeDelegate, Message, Counted, allianceVars, PhaseType
<1>5. SumFunction(tokens)' = SumFunction(tokens) + amt
  <2>1. SumFunction(tokens') = SumFunction(tokens) + amt
    <3>1. /\ DOMAIN tokens' = Validators /\ tokens'[v] = tokens[v] + amt
          /\ \A u \in Validators \ {v} : tokens'[u] = tokens[u]
          /\ tokens \in [Validators -> Nat] /\ amt \in Int
        BY <1>1, <1>2 DEF StakeOK
    <3> QED
        BY <3>1, SumChange
  <2> QED
      BY <2>1 DEF SumFunction
<1>6. GetAllianceBondedAmount' = GetAllianceBondedAmount /\ GetAllianceBondedAmount \in Nat
    BY <1>2, NativeNat DEF GetAllianceBondedAmount, Bonded
<1>7. SumFunction(tokens) \in Int
    BY <1>1, TokensInt DEF StakeOK
<1> QED
    BY <1>1, <1>2, <1>4, <1>5, <1>6, <1>7 DEF SupplyOf

LEMMA NativeUndelegateBooks ==
    ASSUME Books, NEW v \in Validators, NEW amt \in NativeAmounts, NEW removed \in BOOLEAN,
           NativeUndelegate(v, amt, removed)
    PROVE  Books' /\ SupplyOf' = SupplyOf
<1> DEFINE ceil == (stake[v] + Scale - 1) \div Scale
<1>1. StakeOK(tokens, stake) /\ wallet \in Nat /\ amt \in Nat /\ Scale \in Nat \ {0}
    BY RebalanceConstants DEF Books
<1>2. /\ tokens' = [tokens EXCEPT ![v] = tokens[v] - amt] /\ UNCHANGED <<stake, status>>
      /\ wallet' = wallet + amt /\ amt =< tokens[v] - ceil
    BY DEF NativeUndelegate, NativeAt
<1>3. ceil \in Nat /\ stake[v] \in Nat /\ stake[v] =< ceil * Scale
  <2> DEFINE up == stake[v] + (Scale - 1)
  <2>1. up \in Nat /\ stake[v] \in Nat /\ ceil = TruncateInt(up)
      BY <1>1 DEF StakeOK, TruncateInt
  <2>2. ceil \in Nat /\ up - Scale < ceil * Scale
      BY <2>1, TruncateBound
  <2>3. ceil * Scale \in Nat
      BY <1>1, <2>2, ProductNat
  <2> HIDE DEF ceil
  <2> QED
      BY <1>1, <2>1, <2>2, <2>3
<1> HIDE DEF ceil
<1>4. StakeOK(tokens', stake')
  <2>1. tokens[v] - amt \in Nat /\ ceil =< tokens[v] - amt /\ tokens[v] \in Nat
      BY <1>1, <1>2, <1>3 DEF StakeOK
  <2>2. ceil * Scale =< (tokens[v] - amt) * Scale /\ ceil * Scale \in Nat /\ (tokens[v] - amt) * Scale \in Nat
      BY <1>1, <1>3, <2>1, ProductMonotone, ProductNat
  <2>3. stake[v] =< FromInt(tokens[v] - amt)
      BY <1>3, <2>2 DEF FromInt
  <2> QED
      BY <1>1, <1>2, <2>1, <2>3 DEF StakeOK
<1>5. Books'
  <2>1. wallet' \in Nat
      BY <1>1, <1>2
  <2> QED
      BY <1>4, <2>1 DEF Books, NativeUndelegate, Message, Counted, allianceVars, PhaseType
<1>6. SumFunction(tokens)' = SumFunction(tokens) + (-amt)
  <2>1. SumFunction(tokens') = SumFunction(tokens) + (-amt)
    <3>1. /\ DOMAIN tokens' = Validators /\ tokens'[v] = tokens[v] + (-amt)
          /\ \A u \in Validators \ {v} : tokens'[u] = tokens[u]
          /\ tokens \in [Validators -> Nat] /\ (-amt) \in Int
        BY <1>1, <1>2 DEF StakeOK
    <3> QED
        BY <3>1, SumChange
  <2> QED
      BY <2>1 DEF SumFunction
<1>7. GetAllianceBondedAmount' = GetAllianceBondedAmount /\ GetAllianceBondedAmount \in Nat
    BY <1>2, NativeNat DEF GetAllianceBondedAmount, Bonded
<1>8. SumFunction(tokens) \in Int
    BY <1>1, TokensInt DEF StakeOK
<1> QED
    BY <1>1, <1>2, <1>5, <1>6, <1>7, <1>8 DEF SupplyOf
\* A slash takes the same part of what the module has and of what the validator has.
LEMMA SlashedStake ==
    ASSUME NEW s \in Nat, NEW t \in Nat \ {0}, s =< FromInt(t), NEW f \in Fractions,
           NEW left, left = t - TruncateInt(MulInt(f, t))
    PROVE  /\ left \in Nat
           /\ Quo(MulInt(s, left), FromInt(t)) \in Nat
           /\ Quo(MulInt(s, left), FromInt(t)) =< FromInt(left)
<1>1. Scale \in Nat \ {0} /\ f \in Nat /\ f =< Scale
    BY RebalanceConstants
<1>2. f * t \in Nat /\ f * t =< t * Scale
    BY <1>1, ProductNat, ProductMonotone
<1>3. left \in Nat
  <2>1. (f * t) \div Scale \in Nat /\ (f * t) \div Scale =< t
      BY <1>1, <1>2, QuotientBound
  <2> QED
      BY <2>1 DEF TruncateInt, MulInt
<1>4. s * left \in Nat /\ t * Scale \in Nat \ {0} /\ left * Scale \in Nat
  <2>1. t * Scale >= 1 * Scale
      BY <1>1, ProductMonotone
  <2> QED
      BY <1>1, <1>3, <2>1, ProductNat
<1>5. (s * left) * Scale =< (left * Scale) * (t * Scale)
  <2>1. s * (left * Scale) =< (t * Scale) * (left * Scale)
      BY <1>4, ProductMonotone DEF FromInt
  <2>2. (s * left) * Scale = s * (left * Scale)
      BY <1>1, <1>3
  <2>3. \A x, y \in Nat : x * y = y * x
      OBVIOUS
  <2> QED
      BY <1>4, <2>1, <2>2, <2>3
<1>6. /\ Quo(s * left, t * Scale) \in Nat
      /\ Quo(s * left, t * Scale) =< left * Scale
    BY <1>4, <1>5, QuoBound
<1> QED
    BY <1>3, <1>6 DEF FromInt, MulInt

\* The fraction that a slash really burns is at most one.
LEMMA EffectiveFraction ==
    ASSUME NEW t \in Nat \ {0}, NEW f \in Fractions, NEW burned,
           burned = TruncateInt(MulInt(f, t))
    PROVE  /\ QuoRoundUp(FromInt(burned), FromInt(t)) \in Nat
           /\ QuoRoundUp(FromInt(burned), FromInt(t)) =< Scale
<1>1. Scale \in Nat \ {0} /\ f \in Nat /\ f =< Scale
    BY RebalanceConstants
<1>2. f * t \in Nat /\ f * t =< t * Scale
    BY <1>1, ProductNat, ProductMonotone
<1>3. burned \in Nat /\ burned =< t
    BY <1>1, <1>2, QuotientBound DEF TruncateInt, MulInt
<1>4. burned * Scale \in Nat /\ t * Scale \in Nat \ {0}
  <2>1. t * Scale >= 1 * Scale
      BY <1>1, ProductMonotone
  <2> QED
      BY <1>1, <1>3, <2>1, ProductNat
<1>5. (burned * Scale) * Scale =< Scale * (t * Scale)
  <2>1. burned * Scale =< t * Scale
      BY <1>1, <1>3, ProductMonotone
  <2>2. (burned * Scale) * Scale =< (t * Scale) * Scale
      BY <1>1, <1>4, <2>1, ProductMonotone
  <2> QED
      BY <1>1, <1>4, <2>2
<1> QED
    BY <1>1, <1>4, <1>5, QuoRoundUpBound DEF FromInt

LEMMA SlashedShares ==
    ASSUME NEW x \in Nat, NEW e \in Nat, e =< Scale
    PROVE  x - Mul(x, e) \in Nat /\ (x = 0 => x - Mul(x, e) = 0)
<1>1. Mul(e, x) \in Nat /\ Mul(e, x) =< x /\ Mul(x, e) = Mul(e, x)
    BY MulBound, MulCommutes
<1> QED
    BY <1>1

\* Nothing is burned of nothing.
LEMMA BurnsTokens ==
    ASSUME NEW t \in Nat, NEW f \in Fractions, TruncateInt(MulInt(f, t)) > 0
    PROVE  t \in Nat \ {0}
<1>1. Scale \in Nat \ {0} /\ f \in Nat
    BY RebalanceConstants
<1>2. f * 0 = 0 /\ 0 \div Scale = 0
    BY <1>1
<1> QED
    BY <1>2 DEF TruncateInt, MulInt

LEMMA SlashKeepsBooks ==
    ASSUME Books, Idle, NEW v \in Validators, NEW f \in Fractions, NEW failed \in BOOLEAN,
           SlashStake(v, f, failed)
    PROVE  Books' /\ Idle'
<1> DEFINE burned == TruncateInt(MulInt(f, tokens[v]))
           left == tokens[v] - burned
           effective == QuoRoundUp(FromInt(burned), FromInt(tokens[v]))
           worth == Quo(MulInt(stake[v], left), FromInt(tokens[v]))
           row == [n \in Denoms |-> shares[v][n] - Mul(shares[v][n], effective)]
<1>1. StakeOK(tokens, stake) /\ tokens[v] \in Nat \ {0}
  <2>1. StakeOK(tokens, stake) /\ tokens[v] \in Nat /\ burned > 0
      BY DEF Books, StakeOK, SlashStake
  <2> QED
      BY <2>1, BurnsTokens
<1>2. left \in Nat /\ worth \in Nat /\ worth =< FromInt(left)
    BY <1>1, SlashedStake DEF StakeOK
<1>3. row \in [Denoms -> Nat] /\ \A n \in Denoms : shares[v][n] = 0 => row[n] = 0
  <2>1. effective \in Nat /\ effective =< Scale
      BY <1>1, EffectiveFraction
  <2> HIDE DEF effective
  <2> QED
      BY <2>1, SlashedShares DEF Books
<1>4. /\ tokens' = [tokens EXCEPT ![v] = left] /\ stake' = [stake EXCEPT ![v] = worth]
      /\ shares' = [shares EXCEPT ![v] = row] /\ records' = records \cup {v}
      /\ UNCHANGED <<status, wallet, assets>> /\ phase' = "begin"
      /\ queued' = (queued \/ ~failed) /\ missed' = (missed \/ failed)
    BY DEF SlashStake
<1> HIDE DEF left, worth, row
<1>5. StakeOK(tokens', stake')
    BY <1>1, <1>2, <1>4 DEF StakeOK
<1>6. shares' \in [Validators -> [Denoms -> Nat]] /\ records' \subseteq Validators
    BY <1>3, <1>4 DEF Books
<1>7. Books'
    BY <1>4, <1>5, <1>6 DEF Books, PhaseType
<1>8. Idle'
    BY <1>1, <1>3, <1>4 DEF Idle, Books, StakeOK
<1> QED
    BY <1>7, <1>8

\* Messages to x/alliance and proposals leave the stake alone.
LEMMA ProposalKeepsBooks ==
    ASSUME Books, Idle, NEW n \in Denoms, NEW w \in Weights,
           CreateAlliance(n, w) \/ UpdateAlliance(n, w)
    PROVE  Books' /\ Idle'
<1>1. UNCHANGED <<status, tokens, stake, wallet>> /\ phase' = "deliver"
    BY DEF CreateAlliance, UpdateAlliance, stakingVars, Message
<1>2. RewardDelay \in Nat
    BY RebalanceConstants
<1>3. CASE CreateAlliance(n, w)
  <2> DEFINE asset == [weight |-> w, wait |-> RewardDelay]
  <2>1. asset \in AssetType
      BY <1>2 DEF AssetType
  <2>2. /\ assets' = [m \in DOMAIN assets \cup {n} |-> IF m = n THEN asset ELSE assets[m]]
        /\ UNCHANGED <<records, shares, queued, missed>>
      BY <1>3 DEF CreateAlliance
  <2> HIDE DEF asset
  <2> QED
      BY <1>1, <2>1, <2>2 DEF Books, Idle, PhaseType
<1>4. CASE UpdateAlliance(n, w)
  <2>1. /\ n \in DOMAIN assets /\ assets' = [assets EXCEPT ![n].weight = w] /\ queued' = TRUE
        /\ UNCHANGED <<records, shares, missed>>
      BY <1>4 DEF UpdateAlliance
  <2>2. [assets[n] EXCEPT !.weight = w] \in AssetType
      BY <2>1 DEF Books, AssetType
  <2>3. DOMAIN assets' = DOMAIN assets /\ \A m \in DOMAIN assets' : assets'[m] \in AssetType
      BY <2>1, <2>2 DEF Books
  <2> QED
      BY <1>1, <2>1, <2>3 DEF Books, Idle, PhaseType
<1> QED
    BY <1>3, <1>4

LEMMA DeleteKeepsBooks ==
    ASSUME Books, Idle, NEW n \in Denoms, DeleteAlliance(n)
    PROVE  Books' /\ Idle'
<1>1. UNCHANGED <<status, tokens, stake, wallet>> /\ phase' = "deliver"
    BY DEF DeleteAlliance, stakingVars, Message
<1>2. /\ assets' = [m \in DOMAIN assets \ {n} |-> assets[m]]
      /\ \A u \in Validators : shares[u][n] = 0
      /\ UNCHANGED <<records, shares, queued, missed>>
    BY DEF DeleteAlliance, Restrict
<1> QED
    BY <1>1, <1>2 DEF Books, Idle, PhaseType

LEMMA DelegateKeepsBooks ==
    ASSUME Books, Idle, NEW v \in Validators, NEW n \in Denoms, NEW amt \in Amounts,
           NEW to \in {{}} \cup {{u} : u \in Validators},
           Delegate(v, n, amt) \/ Leave(v, n, amt, to)
    PROVE  Books' /\ Idle'
<1>1. UNCHANGED <<status, tokens, stake, wallet>> /\ phase' = "deliver"
    BY DEF Delegate, Leave, stakingVars, Message
<1>2. FromInt(amt) \in Nat
    BY RebalanceConstants, ProductNat DEF FromInt
<1>3. CASE Delegate(v, n, amt)
  <2>1. /\ n \in DOMAIN assets /\ records' = records \cup {v} /\ queued' = TRUE
        /\ shares' = [shares EXCEPT ![v][n] = shares[v][n] + FromInt(amt)]
        /\ UNCHANGED <<assets, missed>>
      BY <1>3 DEF Delegate
  <2>2. shares' \in [Validators -> [Denoms -> Nat]]
      BY <1>2, <2>1 DEF Books
  <2>3. \A u \in Validators, m \in Denoms : u # v \/ m # n => shares'[u][m] = shares[u][m]
      BY <2>1 DEF Books
  <2> QED
      BY <1>1, <2>1, <2>2, <2>3 DEF Books, Idle, PhaseType
<1>4. CASE Leave(v, n, amt, to)
  <2>1. /\ n \in DOMAIN assets /\ records' = records \cup {v} \cup to /\ queued' = TRUE
        /\ FromInt(amt) =< shares[v][n] /\ to \subseteq Validators
        /\ UNCHANGED <<assets, missed>>
      BY <1>4 DEF Leave
  <2>2. shares' = [u \in Validators |-> [shares[u] EXCEPT ![n] =
                      IF u = v THEN shares[u][n] - FromInt(amt)
                      ELSE IF u \in to THEN shares[u][n] + FromInt(amt) ELSE shares[u][n]]]
      BY <1>4 DEF Leave
  <2>3. shares' \in [Validators -> [Denoms -> Nat]]
      BY <1>2, <2>1, <2>2 DEF Books
  <2>4. \A u \in Validators, m \in Denoms :
            (u # v /\ u \notin to) \/ m # n => shares'[u][m] = shares[u][m]
      BY <2>2 DEF Books
  <2> QED
      BY <1>1, <2>1, <2>3, <2>4 DEF Books, Idle, PhaseType
<1> QED
    BY <1>3, <1>4

LEMMA EndStakingKeepsBooks ==
    ASSUME Books, Idle, NEW bonded \in SUBSET Validators, NEW gone \in SUBSET Validators,
           EndStaking(bonded, gone)
    PROVE  Books' /\ Idle'
<1>1. status' \in StatusType
    BY DEF EndStaking, StatusType
<1>2. UNCHANGED <<tokens, stake, wallet, records, shares, assets, missed>> /\ phase' = "staked"
    BY DEF EndStaking, allianceVars
<1>3. queued' \in BOOLEAN
    BY DEF EndStaking, Books
<1> QED
    BY <1>1, <1>2, <1>3 DEF Books, Idle, PhaseType

\* The wait of each asset after a block.
LEMMA WaitShortens ==
    ASSUME Books, EndBlock
    PROVE  /\ DOMAIN assets' = DOMAIN assets
           /\ \A n \in DOMAIN assets : /\ assets'[n] \in AssetType
                                       /\ assets'[n].weight = assets[n].weight
                                       /\ n \in Started => n \in Started'
<1>1. assets' = [n \in DOMAIN assets |-> [assets[n] EXCEPT !.wait = Max({assets[n].wait - 1, 0})]]
    BY DEF EndBlock
<1>2. ASSUME NEW x \in 0 .. RewardDelay
      PROVE  Max({x - 1, 0}) \in 0 .. RewardDelay /\ (x = 0 => Max({x - 1, 0}) = 0)
  <2>1. x \in Int /\ RewardDelay \in Nat
      BY RebalanceConstants
  <2>2. \E m \in {x - 1, 0} : \A z \in {x - 1, 0} : m >= z
      BY <2>1
  <2>3. Max({x - 1, 0}) \in {x - 1, 0} /\ Max({x - 1, 0}) >= x - 1 /\ Max({x - 1, 0}) >= 0
      BY <2>2 DEF Max
  <2> QED
      BY <2>1, <2>3
<1>3. ASSUME NEW n \in DOMAIN assets
      PROVE  /\ assets'[n] \in AssetType /\ assets'[n].weight = assets[n].weight
             /\ assets[n].wait = 0 => assets'[n].wait = 0
  <2>1. assets[n] \in AssetType
      BY DEF Books
  <2>2. assets'[n] = [assets[n] EXCEPT !.wait = Max({assets[n].wait - 1, 0})]
      BY <1>1
  <2>3. assets[n].wait \in 0 .. RewardDelay
      BY <2>1 DEF AssetType
  <2>4. /\ Max({assets[n].wait - 1, 0}) \in 0 .. RewardDelay
        /\ assets[n].wait = 0 => Max({assets[n].wait - 1, 0}) = 0
      BY <1>2, <2>3
  <2> QED
      BY <2>1, <2>2, <2>4 DEF AssetType
<1> QED
    BY <1>1, <1>3 DEF Started

\* Where no shares are held and nothing is staked, a rebalance stakes nothing.
LEMMA NothingExpected ==
    ASSUME NEW v \in Validators, \A n \in Denoms : shares[v][n] = 0
    PROVE  ExpectedBondAmount(v) = 0
<1> DEFINE e == [n \in Denoms |-> ExpectedForAsset(v, n)]
<1>1. \A n \in Denoms : e[n] = 0
    BY DEF ExpectedForAsset
<1>2. ExpectedBondAmount(v) = SumFunctionOnSet(e, Denoms)
    BY DEF ExpectedBondAmount, SumFunction
<1> HIDE DEF e
<1> QED
    BY <1>1, <1>2, RebalanceConstants, SumZero

LEMMA EndBlockKeepsBooks ==
    ASSUME Books, Idle, EndBlock
    PROVE  Books' /\ Idle'
<1>1. /\ UNCHANGED <<status, wallet, records, shares>> /\ phase' = "committed"
      /\ DOMAIN assets' = DOMAIN assets
      /\ \A n \in DOMAIN assets : assets'[n] \in AssetType
    BY WaitShortens DEF EndBlock
<1>2. /\ StakeOK(tokens', stake') /\ queued' \in BOOLEAN /\ missed' \in BOOLEAN
      /\ \A v \in Validators \ records : stake'[v] = 0
  <2>1. CASE queued
    <3>1. BondTokens /\ queued' = QueuedAgain /\ missed' = FALSE
        BY <2>1 DEF EndBlock
    <3>2. ASSUME NEW v \in Validators
          PROVE  /\ tokens'[v] \in Nat /\ stake'[v] \in Nat /\ stake'[v] =< FromInt(tokens'[v])
                 /\ v \notin records => stake'[v] = 0
      <4>1. CASE v \in Bonded
        <5>1. /\ tokens'[v] = tokens[v] + Adjustment(v)
              /\ stake'[v] = stake[v] + FromInt(Adjustment(v))
            BY <3>1, <4>1 DEF BondTokens
        <5>2. /\ stake[v] + FromInt(Adjustment(v)) \in 0 .. FromInt(tokens[v] + Adjustment(v))
              /\ tokens[v] + Adjustment(v) \in Nat
              /\ stake[v] = 0 /\ ExpectedBondAmount(v) = 0 => Adjustment(v) = 0
            BY <4>1, AdjustmentBound
        <5>3. FromInt(tokens[v] + Adjustment(v)) \in Nat /\ FromInt(0) = 0
            BY <5>2, RebalanceConstants, ProductNat DEF FromInt
        <5>4. v \notin records => stake[v] = 0 /\ ExpectedBondAmount(v) = 0
            BY NothingExpected DEF Idle
        <5>5. v \notin records => stake'[v] = 0
            BY <5>1, <5>2, <5>3, <5>4
        <5> QED
            BY <5>1, <5>2, <5>3, <5>5
      <4>2. CASE v \notin Bonded
        <5>1. tokens'[v] = tokens[v] /\ stake'[v] = stake[v]
            BY <3>1, <4>2 DEF BondTokens
        <5> QED
            BY <5>1 DEF Books, StakeOK, Idle
      <4> QED
          BY <4>1, <4>2
    <3>3. tokens' \in [Validators -> Nat] /\ stake' \in [Validators -> Nat]
      <4>1. DOMAIN tokens' = Validators /\ DOMAIN stake' = Validators
          BY <3>1 DEF BondTokens
      <4>2. /\ tokens' = [v \in Validators |-> tokens'[v]]
            /\ stake' = [v \in Validators |-> stake'[v]]
          BY <3>1 DEF BondTokens
      <4> QED
          BY <3>2, <4>2
    <3>4. queued' \in BOOLEAN
        BY <3>1 DEF QueuedAgain
    <3> QED
        BY <3>1, <3>2, <3>3, <3>4 DEF StakeOK
  <2>2. CASE ~queued
    <3>1. UNCHANGED <<tokens, stake, queued, missed>>
        BY <2>2 DEF EndBlock
    <3> QED
        BY <3>1 DEF Books, StakeOK, Idle
  <2> QED
      BY <2>1, <2>2
<1> QED
    BY <1>1, <1>2 DEF Books, Idle, PhaseType

LEMMA NativeKeepsIdle ==
    ASSUME Idle, NEW v \in Validators, NEW amt \in NativeAmounts, NEW removed \in BOOLEAN,
           NativeDelegate(v, amt) \/ NativeUndelegate(v, amt, removed)
    PROVE  Idle'
<1>1. UNCHANGED <<stake, records, shares, assets>>
    BY DEF NativeDelegate, NativeUndelegate, allianceVars
<1> QED
    BY <1>1 DEF Idle

LEMMA RestartKeepsBooks ==
    ASSUME Books, Idle, Restart
    PROVE  Books' /\ Idle'
<1>1. /\ UNCHANGED <<phase, status, tokens, stake, wallet, records, shares, assets>>
      /\ queued' = FALSE /\ missed' = (missed \/ queued)
    BY DEF Restart, stakingVars, allianceVars
<1> QED
    BY <1>1 DEF Books, Idle

\* An idle module is on target: nothing is staked and nothing asked for.
LEMMA RebalanceStarts == Init => RebalanceInv
<1> SUFFICES ASSUME Init PROVE RebalanceInv
    OBVIOUS
<1>1. NativeSupply - Cardinality(Validators) \in Nat
    BY RebalanceConstants, FS_CardinalityType
<1>2. \A v \in Validators : tokens[v] = 1 /\ stake[v] = 0 /\ 0 =< FromInt(1)
    BY RebalanceConstants DEF Init, FromInt
<1>3. StakeOK(tokens, stake)
    BY <1>2 DEF Init, StakeOK
<1>4. Books
    BY <1>1, <1>3 DEF Init, Books, PhaseType, StatusType
<1>5. Idle
    BY DEF Init, Idle
<1>6. AtTarget
  <2>1. \A v \in Bonded : ExpectedBondAmount(v) = 0 /\ stake[v] = 0
      BY NothingExpected, BondedFinite DEF Init
  <2> QED
      BY <2>1, RebalanceConstants DEF AtTarget
<1>7. NoneWaiting
    BY DEF Init, NoneWaiting
<1> QED
    BY <1>4, <1>5, <1>6, <1>7 DEF RebalanceInv, OnTarget

-----------------------------------------------------------------------------
(* On target whenever no rebalance is asked for.                            *)

\* The target stays where no asset starts, stops or changes its weight at a validator that
\* holds shares of it.
LEMMA TargetStays ==
    ASSUME AtTarget, UNCHANGED <<status, tokens, stake, shares>>,
           \A v \in Bonded, n \in Denoms :
               \/ shares[v][n] = 0
               \/ n \in Started /\ n \in Started' /\ assets'[n].weight = assets[n].weight
               \/ n \notin Started /\ n \notin Started'
    PROVE  AtTarget'
<1>1. NativeBondAmount' = NativeBondAmount /\ Bonded' = Bonded
    BY DEF NativeBondAmount, GetAllianceBondedAmount, Bonded
<1>2. ASSUME NEW v \in Bonded PROVE ExpectedBondAmount(v)' = ExpectedBondAmount(v)
    BY <1>1, <1>2, SameTarget, BondedFinite
<1> QED
    BY <1>1, <1>2 DEF AtTarget

\* An asset that nobody holds shares of appears or goes.
LEMMA UnheldKeepsTarget ==
    ASSUME Books, OnTarget, NEW n \in Denoms, \A v \in Validators : shares[v][n] = 0,
           UNCHANGED <<status, tokens, stake, shares, queued, missed>>,
           DOMAIN assets' \subseteq Denoms,
           \A m \in Denoms \ {n} : /\ m \in DOMAIN assets' <=> m \in DOMAIN assets
                                   /\ m \in DOMAIN assets => assets'[m] = assets[m]
    PROVE  OnTarget'
<1> SUFFICES ASSUME ~queued', ~missed' PROVE AtTarget' /\ NoneWaiting'
    BY DEF OnTarget
<1>1. Bonded' = Bonded
    BY DEF Bonded
<1>2. DOMAIN assets \subseteq Denoms
    BY DEF Books
<1>3. \A m \in Denoms \ {n} : m \in Started' <=> m \in Started
    BY DEF Started
<1>4. AtTarget /\ NoneWaiting
    BY DEF OnTarget
<1>5. AtTarget'
  <2>1. \A v \in Bonded, m \in Denoms :
            \/ shares[v][m] = 0
            \/ m \in Started /\ m \in Started' /\ assets'[m].weight = assets[m].weight
            \/ m \notin Started /\ m \notin Started'
      BY <1>3, BondedFinite DEF Started
  <2> QED
      BY <1>4, <2>1, TargetStays
<1>6. NoneWaiting'
  <2>1. ASSUME NEW v \in Bonded, NEW m \in DOMAIN assets', m \notin Started'
        PROVE  shares[v][m] = 0
      BY <1>2, <1>3, <1>4, <2>1, BondedFinite DEF NoneWaiting
  <2> QED
      BY <1>1, <2>1 DEF NoneWaiting
<1> QED
    BY <1>5, <1>6

LEMMA CreateKeepsTarget ==
    ASSUME Books, Idle, OnTarget, NEW n \in Denoms, NEW w \in Weights, CreateAlliance(n, w)
    PROVE  OnTarget'
<1>1. UNCHANGED <<status, tokens, stake, shares, queued, missed>>
    BY DEF CreateAlliance, stakingVars
<1>2. \A v \in Validators : shares[v][n] = 0
    BY DEF CreateAlliance, Idle
<1>3. /\ \A m \in Denoms \ {n} : /\ m \in DOMAIN assets' <=> m \in DOMAIN assets
                                 /\ m \in DOMAIN assets => assets'[m] = assets[m]
      /\ DOMAIN assets' \subseteq Denoms
    BY DEF CreateAlliance, Books
<1> QED
    BY <1>1, <1>2, <1>3, UnheldKeepsTarget

LEMMA DeleteKeepsTarget ==
    ASSUME Books, OnTarget, NEW n \in Denoms, DeleteAlliance(n)
    PROVE  OnTarget'
<1>1. UNCHANGED <<status, tokens, stake, shares, queued, missed>>
    BY DEF DeleteAlliance, stakingVars
<1>2. \A v \in Validators : shares[v][n] = 0
    BY DEF DeleteAlliance
<1>3. /\ \A m \in Denoms \ {n} : /\ m \in DOMAIN assets' <=> m \in DOMAIN assets
                                 /\ m \in DOMAIN assets => assets'[m] = assets[m]
      /\ DOMAIN assets' \subseteq Denoms
    BY DEF DeleteAlliance, Restrict, Books
<1> QED
    BY <1>1, <1>2, <1>3, UnheldKeepsTarget

\* A step that leaves all that targets depend on alone.
LEMMA QuietKeepsTarget ==
    ASSUME OnTarget, UNCHANGED <<status, tokens, stake, shares, assets>>,
           ~queued' /\ ~missed' => ~queued /\ ~missed
    PROVE  OnTarget'
<1> SUFFICES ASSUME ~queued', ~missed' PROVE AtTarget' /\ NoneWaiting'
    BY DEF OnTarget
<1>1. AtTarget /\ NoneWaiting
    BY DEF OnTarget
<1>2. Started' = Started /\ Bonded' = Bonded
    BY DEF Started, Bonded
<1>3. AtTarget'
    BY <1>1, <1>2, TargetStays
<1> QED
    BY <1>1, <1>2, <1>3 DEF NoneWaiting

LEMMA EndBlockKeepsTarget ==
    ASSUME Books, Idle, OnTarget, EndBlock
    PROVE  OnTarget'
<1> SUFFICES ASSUME ~queued', ~missed' PROVE AtTarget' /\ NoneWaiting'
    BY DEF OnTarget
<1>1. /\ DOMAIN assets' = DOMAIN assets /\ UNCHANGED <<status, wallet, records, shares>>
      /\ \A n \in DOMAIN assets : /\ assets'[n].weight = assets[n].weight
                                  /\ n \in Started => n \in Started'
      /\ Bonded' = Bonded
    BY WaitShortens DEF EndBlock, Bonded
<1>2. Started \subseteq DOMAIN assets /\ Started' \subseteq DOMAIN assets
    BY <1>1 DEF Started
<1>3. CASE ~queued
  <2>1. UNCHANGED <<tokens, stake, queued, missed>>
      BY <1>3 DEF EndBlock
  <2>2. AtTarget /\ NoneWaiting
      BY <2>1 DEF OnTarget
  <2>3. AtTarget'
    <3>1. \A v \in Bonded, n \in Denoms :
              \/ shares[v][n] = 0
              \/ n \in Started /\ n \in Started' /\ assets'[n].weight = assets[n].weight
              \/ n \notin Started /\ n \notin Started'
        BY <1>1, <1>2, <2>2 DEF NoneWaiting
    <3> QED
        BY <1>1, <2>1, <2>2, <3>1, TargetStays
  <2> QED
      BY <1>1, <1>2, <2>2, <2>3 DEF NoneWaiting
<1>4. CASE queued
  <2>1. BondTokens /\ ~QueuedAgain
      BY <1>4 DEF EndBlock
  <2>2. \A v \in Bonded \cap records : Started = DOMAIN assets
      BY <2>1 DEF QueuedAgain
  <2>3. \A v \in Bonded \ records, n \in Denoms : shares[v][n] = 0
      BY BondedFinite DEF Idle
  <2>4. NativeBondAmount' = NativeBondAmount
      BY <1>1, <2>1, RebalanceKeepsNative
  <2>5. ASSUME NEW v \in Bonded
        PROVE  /\ ExpectedBondAmount(v)' - stake'[v] < Scale
               /\ stake'[v] - ExpectedBondAmount(v)' < Scale
    <3>1. \A n \in Denoms :
              \/ shares[v][n] = 0
              \/ n \in Started /\ n \in Started' /\ assets'[n].weight = assets[n].weight
              \/ n \notin Started /\ n \notin Started'
        BY <1>1, <1>2, <2>2, <2>3
    <3>2. v \in Validators
        BY BondedFinite
    <3>3. ExpectedBondAmount(v)' = ExpectedBondAmount(v)
        BY <1>1, <2>4, <3>1, <3>2, SameTarget
    <3> QED
        BY <1>1, <2>1, <3>3, RebalanceReaches
  <2>6. AtTarget'
      BY <1>1, <2>5 DEF AtTarget
  <2>7. NoneWaiting'
    <3>1. ASSUME NEW v \in Bonded, NEW n \in DOMAIN assets, n \notin Started'
          PROVE  shares[v][n] = 0
        BY <1>1, <2>2, <2>3, <3>1 DEF Books
    <3> QED
        BY <1>1, <3>1 DEF NoneWaiting
  <2> QED
      BY <2>6, <2>7
<1> QED
    BY <1>3, <1>4

-----------------------------------------------------------------------------
(* The theorems.                                                            *)

LEMMA RebalanceStep == RebalanceInv /\ [Next]_rebalanceVars => RebalanceInv'
<1> SUFFICES ASSUME Books, Idle, OnTarget, [Next]_rebalanceVars PROVE RebalanceInv'
    BY DEF RebalanceInv
<1>1. ASSUME NEW v \in Validators, NEW amt \in NativeAmounts, NativeDelegate(v, amt)
      PROVE  RebalanceInv'
  <2>1. OnTarget'
      BY <1>1 DEF OnTarget, NativeDelegate
  <2> QED
      BY <1>1, <2>1, NativeDelegateBooks, NativeKeepsIdle, TRUE \in BOOLEAN DEF RebalanceInv
<1>2. ASSUME NEW v \in Validators, NEW amt \in NativeAmounts, NEW removed \in BOOLEAN,
             NativeUndelegate(v, amt, removed)
      PROVE  RebalanceInv'
  <2>1. OnTarget'
      BY <1>2 DEF OnTarget, NativeUndelegate
  <2> QED
      BY <1>2, <2>1, NativeUndelegateBooks, NativeKeepsIdle DEF RebalanceInv
<1>3. ASSUME NEW v \in Validators, NEW f \in Fractions, NEW failed \in BOOLEAN,
             SlashStake(v, f, failed)
      PROVE  RebalanceInv'
  <2>1. queued' = (queued \/ ~failed) /\ missed' = (missed \/ failed)
      BY <1>3 DEF SlashStake
  <2>2. OnTarget'
      BY <2>1 DEF OnTarget
  <2> QED
      BY <1>3, <2>2, SlashKeepsBooks DEF RebalanceInv
<1>4. ASSUME NEW bonded \in SUBSET Validators, NEW gone \in SUBSET Validators,
             EndStaking(bonded, gone)
      PROVE  RebalanceInv'
  <2>1. /\ UNCHANGED <<tokens, stake, shares, assets, missed>>
        /\ queued' = (queued \/ status' # status)
      BY <1>4 DEF EndStaking, allianceVars
  <2>2. OnTarget'
    <3>1. CASE status' = status
        BY <2>1, <3>1, QuietKeepsTarget
    <3>2. CASE status' # status
        BY <2>1, <3>2 DEF OnTarget
    <3> QED
        BY <3>1, <3>2
  <2> QED
      BY <1>4, <2>2, EndStakingKeepsBooks DEF RebalanceInv
<1>5. ASSUME NEW n \in Denoms, NEW w \in Weights,
             CreateAlliance(n, w) \/ UpdateAlliance(n, w)
      PROVE  RebalanceInv'
  <2>1. OnTarget'
      BY <1>5, CreateKeepsTarget DEF OnTarget, UpdateAlliance
  <2> QED
      BY <1>5, <2>1, ProposalKeepsBooks DEF RebalanceInv
<1>6. ASSUME NEW n \in Denoms, DeleteAlliance(n)
      PROVE  RebalanceInv'
    BY <1>6, DeleteKeepsBooks, DeleteKeepsTarget DEF RebalanceInv
<1>7. ASSUME NEW v \in Validators, NEW n \in Denoms, NEW amt \in Amounts,
             NEW to \in {{}} \cup {{u} : u \in Validators},
             Delegate(v, n, amt) \/ Leave(v, n, amt, to)
      PROVE  RebalanceInv'
  <2>1. OnTarget'
      BY <1>7 DEF OnTarget, Delegate, Leave
  <2> QED
      BY <1>7, <2>1, DelegateKeepsBooks DEF RebalanceInv
<1>8. CASE EndBlock
    BY <1>8, EndBlockKeepsBooks, EndBlockKeepsTarget DEF RebalanceInv
<1>9. CASE Restart
  <2>1. UNCHANGED <<status, tokens, stake, shares, assets>> /\ (~missed' => ~queued /\ ~missed)
      BY <1>9 DEF Restart, stakingVars, allianceVars
  <2>2. OnTarget'
      BY <2>1, QuietKeepsTarget
  <2> QED
      BY <1>9, <2>2, RestartKeepsBooks DEF RebalanceInv
<1>10. CASE UNCHANGED rebalanceVars
  <2>1. /\ UNCHANGED <<phase, status, tokens, stake, wallet, records, shares, assets>>
        /\ UNCHANGED <<queued, missed>>
      BY <1>10 DEF rebalanceVars, stakingVars, allianceVars
  <2>2. OnTarget'
      BY <2>1, QuietKeepsTarget
  <2> QED
      BY <2>1, <2>2 DEF RebalanceInv, Books, Idle
<1>11. {} \in {{}} \cup {{u} : u \in Validators}
    OBVIOUS
<1> QED
    BY <1>1, <1>2, <1>3, <1>4, <1>5, <1>6, <1>7, <1>8, <1>9, <1>10, <1>11 DEF Next

\* In every reachable state the books are in order, nothing is staked or held where it
\* cannot be, and the stake is on target unless a rebalance is asked for: what the hooks of
\* keeper/hooks.go and the calls of QueueAssetRebalanceEvent are there for.
THEOREM RebalanceInvariant == Spec => []RebalanceInv
<1>1. Init => RebalanceInv
    BY RebalanceStarts
<1>2. RebalanceInv /\ [Next]_rebalanceVars => RebalanceInv'
    BY RebalanceStep
<1> QED
    BY <1>1, <1>2, PTL DEF Spec

\* The module never has more staked with a validator than the validator's tokens, and
\* neither tokens nor the wallet go below zero, whatever is slashed or taken back.
THEOREM RebalanceTypeCorrect == Spec => []RebalanceTypeOK
<1>1. RebalanceInv => RebalanceTypeOK
    BY BooksTyped DEF RebalanceInv
<1> QED
    BY <1>1, RebalanceInvariant, PTL

\* AssetRebalanceQueueKey is set whenever a bonded validator's stake is a token or more off
\* its target, unless a change went without a notice (see QueuedWhenOff).
THEOREM QueuedWhenOffHolds == Spec => []QueuedWhenOff
<1>1. RebalanceInv => QueuedWhenOff
    BY DEF RebalanceInv, OnTarget, QueuedWhenOff
<1> QED
    BY <1>1, RebalanceInvariant, PTL

\* RebalanceBondTokenWeights (asset.go:101-190) leaves every bonded validator within a token
\* of its target, although the targets are computed before the stake changes.
THEOREM RebalanceReachesHolds == Spec => RebalanceReachesTarget
<1>1. ASSUME RebalanceInv, EndBlock, queued, Started' = Started PROVE AtTarget'
  <2>1. Books /\ BondTokens /\ UNCHANGED <<status, wallet, shares>>
      BY <1>1 DEF RebalanceInv, EndBlock
  <2>2. /\ NativeBondAmount' = NativeBondAmount /\ Bonded' = Bonded
        /\ \A n \in DOMAIN assets : assets'[n].weight = assets[n].weight
      BY <1>1, <2>1, RebalanceKeepsNative, WaitShortens DEF Bonded
  <2>3. ASSUME NEW v \in Bonded
        PROVE  /\ ExpectedBondAmount(v)' - stake'[v] < Scale
               /\ stake'[v] - ExpectedBondAmount(v)' < Scale
    <3>1. \A n \in Denoms :
              \/ shares[v][n] = 0
              \/ n \in Started /\ n \in Started' /\ assets'[n].weight = assets[n].weight
              \/ n \notin Started /\ n \notin Started'
        BY <1>1, <2>2 DEF Started
    <3>2. ExpectedBondAmount(v)' = ExpectedBondAmount(v)
        BY <2>1, <2>2, <3>1, SameTarget, BondedFinite
    <3> QED
        BY <2>1, <3>2, RebalanceReaches
  <2> QED
      BY <2>2, <2>3 DEF AtTarget
<1>2. RebalanceInv => [EndBlock /\ queued /\ Started' = Started => AtTarget']_rebalanceVars
    BY <1>1
<1> QED
    BY <1>2, RebalanceInvariant, PTL DEF RebalanceReachesTarget

\* SupplyOf of custom/bank never moves when the module mints and burns to rebalance, nor
\* when a message or a proposal is executed.
THEOREM SupplyHolds == Spec => SupplyHidesStake
<1> DEFINE Same == EndBlock \/ phase' = "deliver" => SupplyOf' = SupplyOf
<1>1. ASSUME RebalanceInv, Next PROVE Same
  <2>1. Books
      BY <1>1 DEF RebalanceInv
  <2>2. ASSUME UNCHANGED stakingVars PROVE SupplyOf' = SupplyOf
      BY <2>2 DEF stakingVars, SupplyOf, GetAllianceBondedAmount, Bonded
  <2>3. ASSUME NEW v \in Validators, NEW amt \in NativeAmounts, NativeDelegate(v, amt)
        PROVE  Same
      BY <2>1, <2>3, NativeDelegateBooks
  <2>4. ASSUME NEW v \in Validators, NEW amt \in NativeAmounts, NEW removed \in BOOLEAN,
               NativeUndelegate(v, amt, removed)
        PROVE  Same
      BY <2>1, <2>4, NativeUndelegateBooks
  <2>5. CASE EndBlock
    <3>1. CASE queued
        BY <2>1, <2>5, <3>1, RebalanceKeepsNative DEF EndBlock
    <3>2. CASE ~queued
        BY <2>2, <2>5, <3>2 DEF EndBlock, stakingVars
    <3> QED
        BY <3>1, <3>2
  <2>6. CASE phase' # "deliver" /\ ~EndBlock
      BY <2>6
  <2>7. ASSUME NEW v \in Validators, NEW f \in Fractions, NEW failed \in BOOLEAN,
               SlashStake(v, f, failed)
        PROVE  phase' # "deliver"
      BY <2>7 DEF SlashStake
  <2>8. ASSUME NEW bonded \in SUBSET Validators, NEW gone \in SUBSET Validators,
               EndStaking(bonded, gone)
        PROVE  phase' # "deliver"
      BY <2>8 DEF EndStaking
  <2>9. Restart => UNCHANGED stakingVars
      BY DEF Restart
  <2>10. ASSUME NEW n \in Denoms, NEW w \in Weights,
                CreateAlliance(n, w) \/ UpdateAlliance(n, w)
         PROVE  UNCHANGED stakingVars
      BY <2>10 DEF CreateAlliance, UpdateAlliance
  <2>11. ASSUME NEW n \in Denoms, DeleteAlliance(n)
         PROVE  UNCHANGED stakingVars
      BY <2>11 DEF DeleteAlliance
  <2>12. ASSUME NEW v \in Validators, NEW n \in Denoms, NEW amt \in Amounts,
                NEW to \in {{}} \cup {{u} : u \in Validators},
                Delegate(v, n, amt) \/ Leave(v, n, amt, to)
         PROVE  UNCHANGED stakingVars
      BY <2>12 DEF Delegate, Leave
  <2>13. {} \in {{}} \cup {{u} : u \in Validators}
      OBVIOUS
  <2> HIDE DEF Same
  <2>14. UNCHANGED stakingVars => Same
      BY <2>2 DEF Same
  <2>15. phase' # "deliver" => Same
      BY <2>5, <2>6
  <2> QED
      BY <1>1, <2>3, <2>4, <2>5, <2>7, <2>8, <2>9, <2>10, <2>11, <2>12, <2>13, <2>14, <2>15
         DEF Next
<1>2. RebalanceInv /\ [Next]_rebalanceVars => [Same]_rebalanceVars
    BY <1>1
<1> QED
    BY <1>2, RebalanceInvariant, PTL DEF SupplyHidesStake, Spec

=============================================================================
