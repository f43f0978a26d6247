-------------------------- MODULE AssetHooksProofs --------------------------
(***************************************************************************)
(* Proofs about AssetHooks: types and the range of weights, that the take  *)
(* rate charges no time twice, and that it leaves a token of every asset,  *)
(* for every scale, rate, schedule and distance of blocks.                 *)
(***************************************************************************)
EXTENDS AssetHooks, DecTheorems

\* What an asset is charged for never goes beyond the clock that all assets share.
ClockOK(n) ==
    /\ since[n].clock \in Nat /\ charged[n] \in Nat
    /\ lastClaim = Unset => charged[n] = 0 /\ since[n].clock = 0
    /\ lastClaim # Unset => charged[n] + since[n].clock =< lastClaim

ClockInv ==
    /\ DOMAIN since = Denoms /\ DOMAIN charged = Denoms
    /\ \A n \in Denoms : ClockOK(n)

HooksInv == HooksTypeOK /\ ClockInv

AssetType ==
    [tokens : 0 .. MaxTokens, start : 0 .. MaxTime + RewardDelay, take : TakeRates,
     weight : MinWeight .. MaxWeight, rate : ChangeRates, interval : ChangeIntervals,
     last : 0 .. MaxTime + RewardDelay]

\* The asset at the end of a block.
EndAsset(n) ==
    LET asset == [assets[n] EXCEPT !.tokens = Left(n)]
    IN  IF ChangeIsDue(asset) THEN Reweighted(asset) ELSE asset

Later(gap) == Min({now + gap, MaxTime})

LEMMA MinOfTwo ==
    ASSUME NEW x \in Int, NEW y \in Int
    PROVE  /\ Min({x, y}) \in {x, y}
           /\ Min({x, y}) =< x /\ Min({x, y}) =< y
<1>1. \E m \in {x, y} : \A z \in {x, y} : m =< z
    OBVIOUS
<1> QED
    BY <1>1 DEF Min

\* The constants are numbers.
LEMMA ConstantsTyped ==
    /\ Scale \in Nat \ {0} /\ MaxTime \in Nat /\ MaxTokens \in Nat /\ RewardDelay \in Nat
    /\ MinWeight \in Nat /\ MaxWeight \in Nat /\ MinWeight =< MaxWeight
    /\ \A x \in TakeRates : x \in 0 .. Scale - 1
    /\ \A x \in Weights : x \in Nat
    /\ \A x \in ChangeRates : x \in Nat \ {0}
    /\ \A x \in ChangeIntervals : x \in Nat
    /\ \A x \in ClaimIntervals : x \in Nat \ {0}
    /\ \A x \in BlockGaps : x \in Nat \ {0}
    /\ \A x \in Amounts : x \in Nat \ {0}
BY ScaleAssumption, TakeRatesAssumption, WeightsAssumption, RangeAssumption,
   ChangeRatesAssumption, ChangeIntervalsAssumption, ClaimIntervalsAssumption,
   GapsAssumption, HooksAmountsAssumption, HooksDelayAssumption, BoundsAssumption

-----------------------------------------------------------------------------
(* The end of a block.                                                      *)

\* The intervals that passed are whole ones between the last claim and now.
LEMMA IntervalsPassed ==
    ASSUME HooksTypeOK, ClaimIsDue
    PROVE  /\ lastClaim \in Nat /\ now \in Nat /\ claimInterval \in Nat
           /\ ClaimIntervalsPassed \in Nat /\ ClaimIntervalsPassed > 0
           /\ claimInterval * ClaimIntervalsPassed \in 0 .. now - lastClaim
<1>1. /\ now \in Nat /\ lastClaim \in Nat /\ now > lastClaim + claimInterval
      /\ claimInterval \in Nat \ {0}
    BY ConstantsTyped DEF HooksTypeOK, ClaimIsDue, Unset
<1>2. now - lastClaim \in Nat /\ now - lastClaim >= 1 * claimInterval
    BY <1>1
<1>3. (now - lastClaim) \div claimInterval >= 1
    BY <1>1, <1>2, QuotientBound
<1>4. /\ (now - lastClaim) \div claimInterval \in Nat
      /\ claimInterval * ((now - lastClaim) \div claimInterval) \in 0 .. now - lastClaim
    BY <1>1, <1>2, WholeIntervals
<1> QED
    BY <1>1, <1>3, <1>4 DEF ClaimIntervalsPassed

\* A deduction takes something of the asset and leaves something.
LEMMA DeductedLeaves ==
    ASSUME HooksTypeOK, NEW n \in Deducted
    PROVE  ClaimIsDue /\ n \in DOMAIN assets /\ Left(n) \in 1 .. assets[n].tokens - 1
<1> DEFINE tokens == assets[n].tokens
           left == Scale - assets[n].take
           p == Power(left, ClaimIntervalsPassed)
<1>1. /\ ClaimIsDue /\ n \in DOMAIN assets /\ tokens > 0 /\ assets[n].take > 0
      /\ p * tokens > Scale
    BY DEF Deducted, Chargeable, LeftAfter, MulInt
<1>2. tokens \in Nat /\ Scale \in Nat \ {0}
    BY <1>1, ConstantsTyped DEF HooksTypeOK
<1>3. left \in Nat /\ left < Scale
    BY <1>1, ConstantsTyped DEF HooksTypeOK
<1>4. ClaimIntervalsPassed \in Nat /\ ClaimIntervalsPassed > 0
    BY <1>1, IntervalsPassed
<1>5. Left(n) = (p * tokens) \div Scale
    BY DEF Left, LeftAfter, MulInt, TruncateInt
<1> HIDE DEF left, tokens
<1>6. p \in Nat /\ p < Scale
    BY <1>2, <1>3, <1>4, PowerBound
<1> HIDE DEF p
<1>7. p * tokens \in Nat /\ p * tokens < tokens * Scale
  <2>1. p * tokens =< (Scale - 1) * tokens
      BY <1>2, <1>6, ProductMonotone
  <2>2. (Scale - 1) * tokens = tokens * Scale - tokens
      BY <1>2
  <2>3. p * tokens \in Nat /\ tokens * Scale \in Nat
      BY <1>2, <1>6, ProductNat
  <2> QED
      BY <1>1, <1>2, <2>1, <2>2, <2>3
<1>8. p * tokens >= 1 * Scale
    BY <1>1, <1>2, <1>7
<1>9. (p * tokens) \div Scale \in 1 .. tokens - 1
    BY <1>2, <1>7, <1>8, QuotientBound
<1> QED
    BY <1>1, <1>5, <1>9 DEF tokens

\* What the take rate leaves of any asset.
LEMMA LeftBound ==
    ASSUME HooksTypeOK, NEW n \in DOMAIN assets
    PROVE  /\ Left(n) \in 0 .. assets[n].tokens
           /\ assets[n].tokens > 0 => Left(n) > 0
<1>1. assets[n].tokens \in Nat
    BY ConstantsTyped DEF HooksTypeOK
<1>2. CASE n \in Deducted
    BY <1>1, <1>2, DeductedLeaves
<1>3. CASE n \notin Deducted
    BY <1>1, <1>3 DEF Left
<1> QED
    BY <1>2, <1>3

LEMMA ClampInRange ==
    ASSUME NEW w \in Nat
    PROVE  Clamp(w) \in MinWeight .. MaxWeight
BY ConstantsTyped DEF Clamp

\* A change of weight leaves the tokens alone and its clock not beyond now.
LEMMA ReweightedTyped ==
    ASSUME NEW asset \in AssetType, now \in 0 .. MaxTime, ChangeIsDue(asset)
    PROVE  Reweighted(asset) \in AssetType /\ Reweighted(asset).tokens = asset.tokens
<1> DEFINE w == Clamp(Mul(asset.weight, Power(asset.rate, ChangesPassed(asset))))
           t == asset.last + asset.interval * ChangesPassed(asset)
<1>1. /\ asset.weight \in Nat /\ asset.rate \in Nat /\ asset.interval \in Nat \ {0}
      /\ asset.last \in Nat /\ asset.last + asset.interval =< now
    BY ConstantsTyped DEF AssetType, ChangeIsDue, Scheduled
<1>2. now - asset.last \in Nat
    BY <1>1, ConstantsTyped
<1>3. /\ ChangesPassed(asset) \in Nat
      /\ asset.interval * ChangesPassed(asset) \in 0 .. now - asset.last
    BY <1>1, <1>2, WholeIntervals DEF ChangesPassed
<1>4. Power(asset.rate, ChangesPassed(asset)) \in Nat
    BY <1>1, <1>3, PowerBound
<1>5. Mul(asset.weight, Power(asset.rate, ChangesPassed(asset))) \in Nat
    BY <1>1, <1>4, MulBound
<1>6. w \in MinWeight .. MaxWeight
    BY <1>5, ClampInRange
<1>7. t \in 0 .. MaxTime + RewardDelay
    BY <1>1, <1>2, <1>3, ConstantsTyped
<1>8. Reweighted(asset) = [asset EXCEPT !.weight = w, !.last = t]
    BY DEF Reweighted
<1> HIDE DEF w, t
<1> QED
    BY <1>6, <1>7, <1>8 DEF AssetType

LEMMA EndAssetTyped ==
    ASSUME HooksTypeOK, NEW n \in DOMAIN assets
    PROVE  EndAsset(n) \in AssetType /\ EndAsset(n).tokens = Left(n)
<1> DEFINE asset == [assets[n] EXCEPT !.tokens = Left(n)]
<1>1. assets[n] \in AssetType /\ now \in 0 .. MaxTime
    BY DEF HooksTypeOK, AssetType
<1>2. Left(n) \in 0 .. MaxTokens
    BY <1>1, LeftBound, ConstantsTyped DEF AssetType
<1>3. asset \in AssetType /\ asset.tokens = Left(n)
    BY <1>1, <1>2 DEF AssetType
<1>4. EndAsset(n) = IF ChangeIsDue(asset) THEN Reweighted(asset) ELSE asset
    BY DEF EndAsset
<1> HIDE DEF asset
<1> QED
    BY <1>1, <1>3, <1>4, ReweightedTyped

\* The clock never goes beyond now nor back, and advances by what is charged.
LEMMA ClockAdvances ==
    ASSUME HooksTypeOK
    PROVE  /\ LastClaimAfter \in 0 .. now
           /\ lastClaim # Unset => LastClaimAfter >= lastClaim
           /\ Deducted # {} => /\ lastClaim # Unset
                               /\ LastClaimAfter = lastClaim + claimInterval * ClaimIntervalsPassed
<1>1. now \in Nat /\ lastClaim \in {Unset} \cup 0 .. now
    BY ConstantsTyped DEF HooksTypeOK
<1>2. Deducted # {} => ClaimIsDue /\ Chargeable # {} /\ CoinsTaken /\ lastClaim # Unset
  <2> SUFFICES ASSUME NEW n \in Deducted
               PROVE  ClaimIsDue /\ Chargeable # {} /\ CoinsTaken /\ lastClaim # Unset
      OBVIOUS
  <2>1. ClaimIsDue /\ n \in DOMAIN assets /\ Left(n) \in 1 .. assets[n].tokens - 1
      BY DeductedLeaves
  <2>2. assets[n].tokens \in Nat
      BY <2>1, ConstantsTyped DEF HooksTypeOK
  <2>3. n \in Chargeable
      BY <2>1 DEF Deducted
  <2> QED
      BY <2>1, <2>2, <2>3 DEF CoinsTaken, ClaimIsDue
<1>3. ClaimIsDue => /\ lastClaim \in Nat /\ claimInterval * ClaimIntervalsPassed \in 0 .. now - lastClaim
    BY IntervalsPassed
<1> QED
    BY <1>1, <1>2, <1>3 DEF LastClaimAfter, Unset

LEMMA EndBlockKeepsTypes ==
    ASSUME HooksTypeOK, NEW gap \in BlockGaps, EndBlock(gap)
    PROVE  HooksTypeOK'
<1>1. now \in 0 .. MaxTime /\ now' = Later(gap) /\ gap \in Nat /\ MaxTime \in Nat
    BY ConstantsTyped DEF HooksTypeOK, EndBlock, Later
<1>2. now' \in 0 .. MaxTime /\ now' >= now
  <2>1. now + gap \in Int /\ MaxTime \in Int
      BY <1>1
  <2>2. Later(gap) \in {now + gap, MaxTime} /\ Later(gap) =< MaxTime
      BY <2>1, MinOfTwo DEF Later
  <2> QED
      BY <1>1, <2>2
<1>3. assets' = [n \in DOMAIN assets |-> EndAsset(n)]
    BY DEF EndBlock, EndAsset
<1>4. DOMAIN assets' \subseteq Denoms /\ \A n \in DOMAIN assets' : assets'[n] \in AssetType
    BY <1>3, EndAssetTyped DEF HooksTypeOK
<1>5. lastClaim' \in {Unset} \cup 0 .. now'
    BY <1>1, <1>2, ClockAdvances DEF EndBlock
<1>6. claimInterval' \in ClaimIntervals
    BY DEF HooksTypeOK, EndBlock
<1> QED
    BY <1>2, <1>4, <1>5, <1>6 DEF HooksTypeOK, AssetType

\* All assets that are deducted are charged for the time by which their clock advances.
LEMMA EndBlockKeepsClock ==
    ASSUME HooksInv, NEW gap \in BlockGaps, EndBlock(gap)
    PROVE  ClockInv'
<1> DEFINE step == claimInterval * ClaimIntervalsPassed
<1>1. /\ since' = since /\ lastClaim' = LastClaimAfter
      /\ charged' = [n \in Denoms |-> IF n \in Deducted THEN charged[n] + step ELSE charged[n]]
    BY DEF EndBlock
<1>2. LastClaimAfter \in Nat /\ (lastClaim # Unset => LastClaimAfter >= lastClaim)
    BY ClockAdvances, ConstantsTyped DEF HooksInv, HooksTypeOK
<1>3. Deducted # {} => lastClaim # Unset /\ LastClaimAfter = lastClaim + step /\ step \in Nat
    BY ClockAdvances, DeductedLeaves, IntervalsPassed DEF HooksInv
<1>4. lastClaim \in {Unset} \cup Nat
    BY ConstantsTyped DEF HooksInv, HooksTypeOK
<1> HIDE DEF step
<1>5. ASSUME NEW n \in Denoms PROVE ClockOK(n)'
  <2>1. ClockOK(n)
      BY DEF HooksInv, ClockInv
  <2>2. LastClaimAfter # Unset
      BY <1>2 DEF Unset
  <2>3. CASE n \in Deducted
      BY <1>1, <1>2, <1>3, <1>4, <2>1, <2>2, <2>3 DEF ClockOK, Unset
  <2>4. CASE n \notin Deducted
      BY <1>1, <1>2, <1>4, <2>1, <2>2, <2>4 DEF ClockOK, Unset
  <2> QED
      BY <2>3, <2>4
<1> QED
    BY <1>1, <1>5 DEF HooksInv, ClockInv

-----------------------------------------------------------------------------
(* Messages and proposals.                                                  *)

\* An asset that is staked or changed starts to count from the clock of now.
LEMMA RecountKeepsClock ==
    ASSUME HooksInv, NEW n \in Denoms, Recount(n), UNCHANGED lastClaim
    PROVE  ClockInv'
<1>1. lastClaim \in {Unset} \cup Nat
    BY ConstantsTyped DEF HooksInv, HooksTypeOK
<1>2. ASSUME NEW m \in Denoms PROVE ClockOK(m)'
  <2>1. CASE m = n
    <3>1. /\ since'[m] = [time |-> now, clock |-> IF lastClaim = Unset THEN 0 ELSE lastClaim]
          /\ charged'[m] = 0
        BY <2>1 DEF HooksInv, ClockInv, Recount
    <3> QED
        BY <1>1, <3>1 DEF ClockOK, Unset
  <2>2. CASE m # n
    <3>1. since'[m] = since[m] /\ charged'[m] = charged[m]
        BY <2>2 DEF HooksInv, ClockInv, Recount
    <3> QED
        BY <3>1 DEF HooksInv, ClockInv, ClockOK
  <2> QED
      BY <2>1, <2>2
<1> QED
    BY <1>2 DEF HooksInv, ClockInv, Recount

LEMMA ClockKept ==
    ASSUME HooksInv, UNCHANGED <<since, charged, lastClaim>>
    PROVE  ClockInv'
BY DEF HooksInv, ClockInv, ClockOK

\* The types, for a step of which only the assets are of interest.
LEMMA TypesKept ==
    ASSUME HooksInv, UNCHANGED <<now, lastClaim>>, claimInterval' \in ClaimIntervals,
           DOMAIN assets' \subseteq Denoms, \A n \in DOMAIN assets' : assets'[n] \in AssetType
    PROVE  HooksTypeOK'
BY DEF HooksInv, HooksTypeOK, AssetType

LEMMA MessageKeepsInv ==
    ASSUME HooksInv, NEW n \in Denoms, NEW amt \in Amounts,
           Stake(n, amt) \/ Withdraw(n, amt)
    PROVE  HooksInv'
<1>1. n \in DOMAIN assets /\ assets[n].tokens \in Nat /\ amt \in Nat /\ MaxTokens \in Nat
    BY ConstantsTyped DEF HooksInv, HooksTypeOK, Stake, Withdraw
<1>2. PICK left \in 0 .. MaxTokens : assets' = [assets EXCEPT ![n].tokens = left]
  <2>1. CASE Stake(n, amt)
    <3>1. assets[n].tokens + amt \in 0 .. MaxTokens
        BY <1>1, <2>1 DEF Stake
    <3> QED
        BY <2>1, <3>1 DEF Stake
  <2>2. CASE Withdraw(n, amt)
    <3>1. assets[n].tokens - amt \in 0 .. MaxTokens
        BY <1>1, <2>2 DEF Withdraw, HooksInv, HooksTypeOK
    <3> QED
        BY <2>2, <3>1 DEF Withdraw
  <2> QED
      BY <2>1, <2>2
<1>3. DOMAIN assets' \subseteq Denoms /\ \A m \in DOMAIN assets' : assets'[m] \in AssetType
    BY <1>2 DEF HooksInv, HooksTypeOK, AssetType
<1>4. /\ UNCHANGED <<now, lastClaim, claimInterval>>
      /\ claimInterval' \in ClaimIntervals
    BY DEF Stake, Withdraw, HooksInv, HooksTypeOK
<1>5. HooksTypeOK'
    BY <1>3, <1>4, TypesKept
<1>6. ClockInv'
  <2>1. CASE Stake(n, amt)
      BY <1>4, <2>1, RecountKeepsClock DEF Stake
  <2>2. CASE Withdraw(n, amt)
      BY <2>2, ClockKept DEF Withdraw
  <2> QED
      BY <2>1, <2>2
<1> QED
    BY <1>5, <1>6 DEF HooksInv

LEMMA ProposalKeepsInv ==
    ASSUME HooksInv, NEW n \in Denoms, NEW w \in Weights, NEW take \in TakeRates,
           NEW rate \in ChangeRates, NEW interval \in ChangeIntervals,
           CreateAlliance(n, w, take, rate, interval) \/ UpdateAlliance(n, w, take, rate, interval)
    PROVE  HooksInv'
<1>1. now \in 0 .. MaxTime /\ MaxTime \in Nat /\ RewardDelay \in Nat /\ MaxTokens \in Nat
    BY ConstantsTyped DEF HooksInv, HooksTypeOK
<1>2. w \in MinWeight .. MaxWeight
    BY ConstantsTyped DEF CreateAlliance, UpdateAlliance, InRange
<1>3. /\ UNCHANGED <<now, lastClaim, claimInterval>> /\ Recount(n)
      /\ claimInterval' \in ClaimIntervals
    BY DEF CreateAlliance, UpdateAlliance, HooksInv, HooksTypeOK
<1>4. /\ DOMAIN assets \subseteq Denoms
      /\ \A m \in DOMAIN assets : assets[m] \in AssetType
    BY DEF HooksInv, HooksTypeOK, AssetType
<1>5. DOMAIN assets' \subseteq Denoms /\ \A m \in DOMAIN assets' : assets'[m] \in AssetType
  <2>1. CASE CreateAlliance(n, w, take, rate, interval)
    <3> DEFINE asset == [tokens |-> 0, start |-> now + RewardDelay, take |-> take,
                         weight |-> w, rate |-> rate, interval |-> interval,
                         last |-> now + RewardDelay]
    <3>1. asset \in AssetType
        BY <1>1, <1>2 DEF AssetType
    <3>2. assets' = [m \in DOMAIN assets \cup {n} |-> IF m # n THEN assets[m] ELSE asset]
        BY <2>1 DEF CreateAlliance
    <3> HIDE DEF asset
    <3> QED
        BY <1>4, <3>1, <3>2
  <2>2. CASE UpdateAlliance(n, w, take, rate, interval)
    <3> DEFINE asset == [tokens |-> assets[n].tokens, start |-> assets[n].start,
                         take |-> take, weight |-> w, rate |-> rate, interval |-> interval,
                         last |-> LastChange(assets[n], rate, interval)]
    <3>1. n \in DOMAIN assets /\ assets[n] \in AssetType
        BY <1>4, <2>2 DEF UpdateAlliance
    <3>2. asset \in AssetType
        BY <1>1, <1>2, <3>1 DEF AssetType, LastChange
    <3>3. assets' = [assets EXCEPT ![n] = asset]
        BY <2>2 DEF UpdateAlliance
    <3> HIDE DEF asset
    <3> QED
        BY <1>4, <3>2, <3>3
  <2> QED
      BY <2>1, <2>2
<1>6. HooksTypeOK'
    BY <1>3, <1>5, TypesKept
<1>7. ClockInv'
    BY <1>3, RecountKeepsClock
<1> QED
    BY <1>6, <1>7 DEF HooksInv

-----------------------------------------------------------------------------
LEMMA InitHooksInv == Init => HooksInv
<1> SUFFICES ASSUME Init PROVE HooksInv
    OBVIOUS
<1>1. HooksTypeOK
    BY ConstantsTyped DEF Init, HooksTypeOK
<1>2. ClockInv
    BY DEF Init, ClockInv, ClockOK
<1> QED
    BY <1>1, <1>2 DEF HooksInv

LEMMA NextHooksInv == HooksInv /\ [Next]_hookVars => HooksInv'
<1> SUFFICES ASSUME HooksInv, [Next]_hookVars PROVE HooksInv'
    OBVIOUS
<1>1. ASSUME NEW n \in Denoms, NEW amt \in Amounts, Stake(n, amt) \/ Withdraw(n, amt)
      PROVE  HooksInv'
    BY <1>1, MessageKeepsInv
<1>2. ASSUME NEW n \in Denoms, NEW w \in Weights, NEW take \in TakeRates,
             NEW rate \in ChangeRates, NEW interval \in ChangeIntervals,
             \/ CreateAlliance(n, w, take, rate, interval)
             \/ UpdateAlliance(n, w, take, rate, interval)
      PROVE  HooksInv'
    BY <1>2, ProposalKeepsInv
<1>3. ASSUME NEW n \in Denoms, DeleteAlliance(n) PROVE HooksInv'
  <2>1. DOMAIN assets' \subseteq Denoms /\ \A m \in DOMAIN assets' : assets'[m] \in AssetType
      BY <1>3 DEF DeleteAlliance, Restrict, HooksInv, HooksTypeOK, AssetType
  <2>2. /\ UNCHANGED <<now, lastClaim, claimInterval, since, charged>>
        /\ claimInterval' \in ClaimIntervals
      BY <1>3 DEF DeleteAlliance, HooksInv, HooksTypeOK
  <2> QED
      BY <2>1, <2>2, TypesKept, ClockKept DEF HooksInv
<1>4. ASSUME NEW interval \in ClaimIntervals, ChangeClaimInterval(interval) PROVE HooksInv'
  <2>1. /\ UNCHANGED <<now, assets, lastClaim, since, charged>>
        /\ claimInterval' \in ClaimIntervals
      BY <1>4 DEF ChangeClaimInterval
  <2>2. DOMAIN assets' \subseteq Denoms /\ \A m \in DOMAIN assets' : assets'[m] \in AssetType
      BY <2>1 DEF HooksInv, HooksTypeOK, AssetType
  <2> QED
      BY <2>1, <2>2, TypesKept, ClockKept DEF HooksInv
<1>5. ASSUME NEW gap \in BlockGaps, EndBlock(gap) PROVE HooksInv'
    BY <1>5, EndBlockKeepsTypes, EndBlockKeepsClock DEF HooksInv
<1>6. CASE UNCHANGED hookVars
    BY <1>6 DEF hookVars, HooksInv, HooksTypeOK, ClockInv, ClockOK
<1> QED
    BY <1>1, <1>2, <1>3, <1>4, <1>5, <1>6 DEF Next, NextBlock

\* Time passes between blocks only.
LEMMA BlocksTakeTime ==
    ASSUME Next, now' # now
    PROVE  \E gap \in BlockGaps : EndBlock(gap)
<1>1. ASSUME NEW n \in Denoms, NEW amt \in Amounts, Stake(n, amt) \/ Withdraw(n, amt)
      PROVE  FALSE
    BY <1>1 DEF Stake, Withdraw
<1>2. ASSUME NEW n \in Denoms, NEW w \in Weights, NEW take \in TakeRates,
             NEW rate \in ChangeRates, NEW interval \in ChangeIntervals,
             \/ CreateAlliance(n, w, take, rate, interval)
             \/ UpdateAlliance(n, w, take, rate, interval)
      PROVE  FALSE
    BY <1>2 DEF CreateAlliance, UpdateAlliance
<1>3. ASSUME NEW n \in Denoms, DeleteAlliance(n) PROVE FALSE
    BY <1>3 DEF DeleteAlliance
<1>4. ASSUME NEW interval \in ClaimIntervals, ChangeClaimInterval(interval) PROVE FALSE
    BY <1>4 DEF ChangeClaimInterval
<1> QED
    BY <1>1, <1>2, <1>3, <1>4 DEF Next, NextBlock

\* What holds of the hooks in every reachable state: types and the books of the clock.
THEOREM HooksInvariant == Spec => []HooksInv
<1> QED
    BY InitHooksInv, NextHooksInv, PTL DEF Spec

\* Every value keeps its type; above all no schedule, however many changes a late block
\* compounds, moves a reward weight out of its range (asset.go:389-398).
THEOREM HooksTypeCorrect == Spec => []HooksTypeOK
<1>1. HooksInv => HooksTypeOK
    BY DEF HooksInv
<1> QED
    BY <1>1, HooksInvariant, PTL

\* No asset is charged by the take rate twice for a stretch of time (asset.go:329).
THEOREM ChargedOnceHolds == Spec => []ChargedOnce
<1>1. HooksInv => ChargedOnce
  <2> SUFFICES ASSUME HooksInv, NEW n \in DOMAIN assets
               PROVE  charged[n] + since[n].clock =< lastClaim \/ charged[n] = 0
      BY DEF ChargedOnce
  <2>1. n \in Denoms
      BY DEF HooksInv, HooksTypeOK
  <2> QED
      BY <2>1 DEF HooksInv, ClockInv, ClockOK
<1> QED
    BY <1>1, HooksInvariant, PTL

\* A staked asset keeps a token at the end of a block, whatever the rate and however late
\* the block (asset.go:306-309), and gains none.
THEOREM CutsLeaveTokensHolds == Spec => CutsLeaveTokens
<1>1. HooksInv /\ [Next]_hookVars =>
          [now' # now => \A n \in DOMAIN assets :
              assets[n].tokens > 0 => assets'[n].tokens \in 1 .. assets[n].tokens]_hookVars
  <2> SUFFICES ASSUME HooksInv, Next, now' # now, NEW n \in DOMAIN assets,
                      assets[n].tokens > 0
               PROVE  assets'[n].tokens \in 1 .. assets[n].tokens
      OBVIOUS
  <2>1. PICK gap \in BlockGaps : EndBlock(gap)
      BY BlocksTakeTime
  <2>2. assets'[n] = EndAsset(n)
      BY <2>1 DEF EndBlock, EndAsset
  <2>3. assets[n].tokens \in Nat
      BY ConstantsTyped DEF HooksInv, HooksTypeOK
  <2> QED
      BY <2>2, <2>3, EndAssetTyped, LeftBound DEF HooksInv
<1> QED
    BY <1>1, HooksInvariant, PTL DEF Spec, CutsLeaveTokens

-----------------------------------------------------------------------------
(* Nothing is forgotten: the clock that all assets share never runs ahead   *)
(* of what an asset was charged for since it counts.                        *)

\* Since when the take rate counts for asset n: staked or changed, and started.
CountsFrom(n) == Max({since[n].time, assets[n].start})

\* The clock is behind what asset n has been charged for since it counts.
PaidUp(n) == lastClaim =< CountsFrom(n) + charged[n]

\* An asset that the take rate is for, and will not spare.
Charges(asset) == asset.tokens > 0 /\ asset.take > 0 /\ FarFromDust(asset)

InTimeInv ==
    /\ HooksInv
    /\ \A n \in Denoms : since[n].time \in 0 .. now
    /\ lastClaim = Unset => now = 0
    /\ \A n \in DOMAIN assets : Charges(assets[n]) => PaidUp(n)

LEMMA MaxOfTwo ==
    ASSUME NEW x \in Int, NEW y \in Int
    PROVE  /\ Max({x, y}) \in {x, y}
           /\ Max({x, y}) >= x /\ Max({x, y}) >= y
<1>1. \E m \in {x, y} : \A z \in {x, y} : m >= z
    OBVIOUS
<1> QED
    BY <1>1 DEF Max

LEMMA CountsFromTyped ==
    ASSUME InTimeInv, NEW n \in DOMAIN assets
    PROVE  /\ CountsFrom(n) \in Nat /\ charged[n] \in Nat /\ now \in Nat
           /\ since[n].time \in 0 .. now /\ assets[n].start \in Nat
           /\ CountsFrom(n) \in {since[n].time, assets[n].start}
           /\ CountsFrom(n) >= since[n].time /\ CountsFrom(n) >= assets[n].start
<1>1. n \in Denoms /\ now \in Nat /\ assets[n].start \in Nat
    BY ConstantsTyped DEF InTimeInv, HooksInv, HooksTypeOK
<1>2. since[n].time \in 0 .. now /\ charged[n] \in Nat
    BY <1>1 DEF InTimeInv, HooksInv, ClockInv, ClockOK
<1>3. since[n].time \in Int /\ assets[n].start \in Int
    BY <1>1, <1>2
<1>4. /\ CountsFrom(n) \in {since[n].time, assets[n].start}
      /\ CountsFrom(n) >= since[n].time /\ CountsFrom(n) >= assets[n].start
    BY <1>3, MaxOfTwo DEF CountsFrom
<1> QED
    BY <1>1, <1>2, <1>4

\* What is far from dust with fewer tokens is so with more of them at the same rate.
LEMMA FewerTokens ==
    ASSUME NEW x \in AssetType, NEW y \in AssetType,
           x.take = y.take, x.tokens =< y.tokens, FarFromDust(x)
    PROVE  FarFromDust(y)
<1> SUFFICES ASSUME NEW k \in 1 .. MaxTime PROVE LeftAfter(y, k) > Scale
    BY DEF FarFromDust
<1> DEFINE p == Power(Scale - x.take, k)
<1>1. /\ Scale - x.take \in Nat /\ k \in Nat /\ Scale \in Nat
      /\ x.tokens \in Nat /\ y.tokens \in Nat
    BY ConstantsTyped DEF AssetType
<1>2. p \in Nat
    BY <1>1, PowerBound
<1>3. LeftAfter(x, k) > Scale
    BY DEF FarFromDust
<1>4. LeftAfter(x, k) = p * x.tokens /\ LeftAfter(y, k) = p * y.tokens
    BY DEF LeftAfter, MulInt
<1> HIDE DEF p
<1>5. x.tokens * p =< y.tokens * p
    BY <1>1, <1>2, ProductMonotone
<1>6. p * x.tokens = x.tokens * p /\ p * y.tokens = y.tokens * p
    BY <1>1, <1>2
<1>7. x.tokens * p \in Nat /\ y.tokens * p \in Nat
    BY <1>1, <1>2, ProductNat
<1> QED
    BY <1>1, <1>3, <1>4, <1>5, <1>6, <1>7

\* A due claim deducts every asset that earns and is far from dust.
LEMMA DeductsAll ==
    ASSUME HooksTypeOK, ClaimIsDue, NEW n \in Chargeable, FarFromDust(assets[n])
    PROVE  n \in Deducted
<1>1. /\ lastClaim \in Nat /\ now \in 0 .. MaxTime /\ MaxTime \in Nat
      /\ claimInterval \in Nat \ {0}
      /\ ClaimIntervalsPassed \in Nat /\ ClaimIntervalsPassed > 0
      /\ claimInterval * ClaimIntervalsPassed \in 0 .. now - lastClaim
    BY IntervalsPassed, ConstantsTyped DEF HooksTypeOK
<1>2. 1 * ClaimIntervalsPassed =< claimInterval * ClaimIntervalsPassed
    BY <1>1, ProductMonotone
<1>3. ClaimIntervalsPassed \in 1 .. MaxTime
    BY <1>1, <1>2
<1> QED
    BY <1>3 DEF FarFromDust, Deducted

\* The asset keeps its rate and its start at the end of a block, and gains no tokens.
LEMMA EndAssetKeeps ==
    ASSUME HooksTypeOK, NEW n \in DOMAIN assets
    PROVE  /\ EndAsset(n) \in AssetType /\ assets[n] \in AssetType
           /\ EndAsset(n).take = assets[n].take /\ EndAsset(n).start = assets[n].start
           /\ EndAsset(n).tokens =< assets[n].tokens
           /\ FarFromDust(EndAsset(n)) => FarFromDust(assets[n])
<1>1. EndAsset(n) \in AssetType /\ assets[n] \in AssetType
    BY EndAssetTyped DEF HooksTypeOK, AssetType
<1>2. EndAsset(n).take = assets[n].take /\ EndAsset(n).start = assets[n].start
    BY <1>1 DEF EndAsset, Reweighted, AssetType
<1>3. EndAsset(n).tokens =< assets[n].tokens
    BY <1>1, EndAssetTyped, LeftBound DEF AssetType
<1> QED
    BY <1>1, <1>2, <1>3, FewerTokens

\* At the end of a block the clock moves to now, or by what every asset that earns is
\* charged, or not at all.
LEMMA ClockMoves ==
    ASSUME InTimeInv, NEW gap \in BlockGaps, EndBlock(gap),
           NEW n \in DOMAIN assets, assets[n].tokens > 0, assets[n].take > 0,
           FarFromDust(assets'[n])
    PROVE  /\ PaidUp(n)'
           /\ n \in Chargeable => lastClaim' + claimInterval >= now
           /\ CountsFrom(n)' = CountsFrom(n)
<1> DEFINE step == claimInterval * ClaimIntervalsPassed
<1>1. /\ since' = since /\ lastClaim' = LastClaimAfter /\ assets'[n] = EndAsset(n)
      /\ n \in Denoms
      /\ charged'[n] = IF n \in Deducted THEN charged[n] + step ELSE charged[n]
    BY DEF EndBlock, EndAsset, InTimeInv, HooksInv, HooksTypeOK
<1>2. HooksTypeOK
    BY DEF InTimeInv, HooksInv
<1>3. /\ assets[n].start = assets'[n].start /\ FarFromDust(assets[n])
      /\ assets[n] \in AssetType
    BY <1>1, <1>2, EndAssetKeeps
<1>4. CountsFrom(n)' = CountsFrom(n)
    BY <1>1, <1>3 DEF CountsFrom
<1>5. /\ CountsFrom(n) \in Nat /\ charged[n] \in Nat /\ now \in Nat
      /\ since[n].time \in 0 .. now /\ assets[n].start \in Nat
      /\ CountsFrom(n) >= since[n].time /\ CountsFrom(n) >= assets[n].start
    BY CountsFromTyped
<1>6. /\ lastClaim =< CountsFrom(n) + charged[n]
      /\ lastClaim \in {Unset} \cup Nat /\ claimInterval \in Nat \ {0}
      /\ lastClaim = Unset => now = 0
    BY <1>2, <1>3, ConstantsTyped DEF InTimeInv, Charges, PaidUp, HooksTypeOK
<1>7. ClaimIsDue => /\ lastClaim \in Nat /\ step \in 0 .. now - lastClaim
                    /\ lastClaim + step + claimInterval >= now
  <2> SUFFICES ASSUME ClaimIsDue
               PROVE  /\ lastClaim \in Nat /\ step \in 0 .. now - lastClaim
                      /\ lastClaim + step + claimInterval >= now
      OBVIOUS
  <2>1. lastClaim \in Nat /\ step \in 0 .. now - lastClaim
      BY <1>2, IntervalsPassed
  <2> DEFINE passed == now - lastClaim
  <2>2. passed \in Int /\ claimInterval \in Nat \ {0}
      BY <1>5, <1>6, <2>1
  <2>3. /\ passed % claimInterval \in 0 .. claimInterval - 1
        /\ passed = claimInterval * (passed \div claimInterval) + (passed % claimInterval)
    <3> HIDE DEF passed
    <3> QED BY <2>2, Division
  <2>4. step = claimInterval * (passed \div claimInterval)
      BY DEF ClaimIntervalsPassed
  <2>5. step + (passed % claimInterval) = now - lastClaim
      BY <2>3, <2>4
  <2> HIDE DEF step, passed
  <2> QED
      BY <1>5, <1>6, <2>1, <2>3, <2>5
<1>8. n \in Chargeable => now >= assets[n].start
    BY DEF Chargeable, RewardsStarted
<1>9. n \notin Chargeable => now < assets[n].start
    BY <1>5 DEF Chargeable, RewardsStarted
<1>10. ClaimIsDue /\ n \in Chargeable => n \in Deducted /\ CoinsTaken
  <2> SUFFICES ASSUME ClaimIsDue, n \in Chargeable PROVE n \in Deducted /\ CoinsTaken
      OBVIOUS
  <2>1. n \in Deducted
      BY <1>2, <1>3, DeductsAll
  <2>2. Left(n) \in 1 .. assets[n].tokens - 1 /\ assets[n].tokens \in Nat
      BY <1>2, <1>3, <2>1, DeductedLeaves, ConstantsTyped DEF AssetType
  <2> QED
      BY <2>1, <2>2 DEF CoinsTaken
<1>11. Deducted # {} => ClaimIsDue
    BY DEF Deducted
<1> HIDE DEF step
<1>12. CASE lastClaim = Unset
  <2>1. ~ClaimIsDue /\ LastClaimAfter = now
      BY <1>12 DEF ClaimIsDue, LastClaimAfter
  <2> QED
      BY <1>1, <1>4, <1>5, <1>6, <1>11, <1>12, <2>1 DEF PaidUp
<1>13. CASE lastClaim # Unset /\ ClaimIsDue /\ Chargeable = {}
  <2>1. LastClaimAfter = now /\ n \notin Chargeable /\ n \notin Deducted
      BY <1>13 DEF LastClaimAfter, Deducted
  <2> QED
      BY <1>1, <1>4, <1>5, <1>9, <2>1 DEF PaidUp
<1>14. CASE lastClaim # Unset /\ ClaimIsDue /\ Chargeable # {} /\ CoinsTaken
  <2>1. LastClaimAfter = lastClaim + step
      BY <1>14 DEF LastClaimAfter, step
  <2>2. CASE n \in Chargeable
      BY <1>1, <1>4, <1>5, <1>6, <1>7, <1>10, <1>14, <2>1, <2>2 DEF PaidUp
  <2>3. CASE n \notin Chargeable
    <3>1. n \notin Deducted
        BY <2>3 DEF Deducted
    <3> QED
        BY <1>1, <1>4, <1>5, <1>7, <1>9, <1>14, <2>1, <2>3, <3>1 DEF PaidUp
  <2> QED
      BY <2>2, <2>3
<1>15. CASE /\ lastClaim # Unset /\ ~(ClaimIsDue /\ Chargeable = {})
            /\ ~(ClaimIsDue /\ CoinsTaken)
  <2>1. LastClaimAfter = lastClaim
      BY <1>15 DEF LastClaimAfter
  <2>2. n \notin Deducted
    <3>1. n \in Deducted => n \in Chargeable
        BY DEF Deducted
    <3> QED
        BY <1>10, <1>11, <1>15, <3>1
  <2>3. n \in Chargeable => now =< lastClaim + claimInterval
    <3> SUFFICES ASSUME n \in Chargeable PROVE now =< lastClaim + claimInterval
        OBVIOUS
    <3>1. ~ClaimIsDue
        BY <1>10, <1>15
    <3>2. ~(now > lastClaim + claimInterval)
        BY <1>15, <3>1 DEF ClaimIsDue
    <3> QED
        BY <1>5, <1>6, <1>15, <3>2
  <2> QED
      BY <1>1, <1>4, <1>5, <1>6, <2>1, <2>2, <2>3 DEF PaidUp
<1> QED
    BY <1>12, <1>13, <1>14, <1>15

LEMMA EndBlockInTime ==
    ASSUME InTimeInv, NEW gap \in BlockGaps, EndBlock(gap)
    PROVE  InTimeInv'
<1>1. HooksInv'
    BY EndBlockKeepsTypes, EndBlockKeepsClock DEF InTimeInv, HooksInv
<1>2. now \in 0 .. MaxTime /\ MaxTime \in Nat /\ gap \in Nat /\ now' = Later(gap)
    BY ConstantsTyped DEF InTimeInv, HooksInv, HooksTypeOK, EndBlock, Later
<1>3. now' >= now /\ now' \in Nat
  <2>1. now + gap \in Int /\ MaxTime \in Int
      BY <1>2
  <2>2. Later(gap) \in {now + gap, MaxTime}
      BY <2>1, MinOfTwo DEF Later
  <2> QED
      BY <1>2, <2>2
<1>4. \A n \in Denoms : (since[n].time \in 0 .. now)'
  <2>1. since' = since
      BY DEF EndBlock
  <2> QED
      BY <1>2, <1>3, <2>1 DEF InTimeInv
<1>5. lastClaim' # Unset
  <2>1. lastClaim' \in Nat
      BY ClockAdvances, ConstantsTyped DEF InTimeInv, HooksInv, HooksTypeOK, EndBlock
  <2> QED
      BY <2>1 DEF Unset
<1>6. ASSUME NEW n \in DOMAIN assets', Charges(assets'[n])
      PROVE  PaidUp(n)'
  <2>1. n \in DOMAIN assets /\ assets'[n] = EndAsset(n)
      BY DEF EndBlock, EndAsset
  <2>2. assets[n].tokens > 0 /\ assets[n].take > 0
    <3>1. /\ EndAsset(n) \in AssetType /\ assets[n] \in AssetType
          /\ EndAsset(n).take = assets[n].take /\ EndAsset(n).tokens =< assets[n].tokens
        BY <2>1, EndAssetKeeps DEF InTimeInv, HooksInv
    <3> QED
        BY <1>6, <2>1, <3>1, ConstantsTyped DEF Charges, AssetType
  <2> QED
      BY <1>6, <2>1, <2>2, ClockMoves DEF Charges
<1> QED
    BY <1>1, <1>4, <1>5, <1>6 DEF InTimeInv

\* An asset that is staked or changed counts from now, and the clock is never ahead of now.
LEMMA CountsFromNow ==
    ASSUME InTimeInv, HooksInv', NEW n \in Denoms, Recount(n), UNCHANGED <<now, lastClaim>>,
           \A m \in DOMAIN assets' \ {n} : m \in DOMAIN assets /\ assets'[m] = assets[m]
    PROVE  InTimeInv'
<1>1. now \in Nat /\ DOMAIN since = Denoms /\ DOMAIN charged = Denoms
    BY ConstantsTyped DEF InTimeInv, HooksInv, HooksTypeOK, ClockInv
<1>2. since'[n].time = now /\ charged'[n] = 0
    BY <1>1 DEF Recount
<1>3. \A m \in Denoms \ {n} : since'[m] = since[m] /\ charged'[m] = charged[m]
    BY <1>1 DEF Recount
<1>4. \A m \in Denoms : (since[m].time \in 0 .. now)'
    BY <1>1, <1>2, <1>3 DEF InTimeInv
<1>5. ASSUME NEW m \in DOMAIN assets', Charges(assets'[m]) PROVE PaidUp(m)'
  <2>1. CASE m = n
    <3>1. assets'[n].start \in Int
        BY <2>1, ConstantsTyped DEF HooksInv, HooksTypeOK
    <3>2. /\ Max({since'[n].time, assets'[n].start}) \in {since'[n].time, assets'[n].start}
          /\ Max({since'[n].time, assets'[n].start}) >= since'[n].time
        BY <1>1, <1>2, <3>1, MaxOfTwo
    <3>3. Max({since'[n].time, assets'[n].start}) \in Int
        BY <1>1, <1>2, <3>1, <3>2
    <3>5. CountsFrom(n)' = Max({since'[n].time, assets'[n].start})
        BY DEF CountsFrom
    <3>4. lastClaim' =< now /\ lastClaim' \in Int
        BY <1>1 DEF InTimeInv, HooksInv, HooksTypeOK, Unset
    <3> QED
        BY <1>1, <1>2, <2>1, <3>2, <3>3, <3>4, <3>5 DEF PaidUp
  <2>2. CASE m # n
    <3>1. m \in DOMAIN assets /\ assets'[m] = assets[m] /\ m \in Denoms
        BY <2>2 DEF InTimeInv, HooksInv, HooksTypeOK
    <3>2. since'[m] = since[m] /\ charged'[m] = charged[m]
        BY <1>3, <2>2, <3>1
    <3>3. PaidUp(m)
        BY <1>5, <3>1 DEF InTimeInv
    <3> QED
        BY <3>1, <3>2, <3>3 DEF PaidUp, CountsFrom
  <2> QED
      BY <2>1, <2>2
<1>6. lastClaim' = Unset => now' = 0
    BY DEF InTimeInv
<1> QED
    BY <1>4, <1>5, <1>6 DEF InTimeInv

\* An asset that loses tokens, or is delisted, was paid up before.
LEMMA PaidUpStays ==
    ASSUME InTimeInv, HooksInv', UNCHANGED <<now, lastClaim, since, charged>>,
           \A m \in DOMAIN assets' :
               /\ m \in DOMAIN assets /\ assets'[m].take = assets[m].take
               /\ assets'[m].start = assets[m].start /\ assets'[m].tokens =< assets[m].tokens
    PROVE  InTimeInv'
<1>1. ASSUME NEW m \in DOMAIN assets', Charges(assets'[m]) PROVE PaidUp(m)'
  <2>1. /\ m \in DOMAIN assets /\ assets'[m].take = assets[m].take
        /\ assets'[m].start = assets[m].start /\ assets'[m].tokens =< assets[m].tokens
      OBVIOUS
  <2>2. assets[m] \in AssetType /\ assets'[m] \in AssetType
      BY <2>1 DEF InTimeInv, HooksInv, HooksTypeOK, AssetType
  <2>3. FarFromDust(assets[m])
      BY <1>1, <2>1, <2>2, FewerTokens DEF Charges
  <2>4. assets[m].tokens > 0 /\ assets[m].take > 0
      BY <1>1, <2>1, <2>2, ConstantsTyped DEF Charges, AssetType
  <2>5. PaidUp(m)
      BY <2>1, <2>3, <2>4 DEF InTimeInv, Charges
  <2> QED
      BY <2>1, <2>5 DEF PaidUp, CountsFrom
<1> QED
    BY <1>1 DEF InTimeInv

LEMMA InitInTime == Init => InTimeInv
<1> SUFFICES ASSUME Init PROVE InTimeInv
    OBVIOUS
<1>1. HooksInv
    BY InitHooksInv
<1> QED
    BY <1>1 DEF Init, InTimeInv

LEMMA NextInTime == InTimeInv /\ [Next]_hookVars => InTimeInv'
<1> SUFFICES ASSUME InTimeInv, [Next]_hookVars PROVE InTimeInv'
    OBVIOUS
<1>1. HooksInv /\ HooksInv'
    BY NextHooksInv DEF InTimeInv
<1>2. ASSUME NEW n \in Denoms, NEW amt \in Amounts, Stake(n, amt) PROVE InTimeInv'
  <2>1. /\ Recount(n) /\ UNCHANGED <<now, lastClaim>>
        /\ \A m \in DOMAIN assets' \ {n} : m \in DOMAIN assets /\ assets'[m] = assets[m]
      BY <1>2 DEF Stake
  <2> QED
      BY <1>1, <2>1, CountsFromNow
<1>3. ASSUME NEW n \in Denoms, NEW amt \in Amounts, Withdraw(n, amt) PROVE InTimeInv'
  <2>1. n \in DOMAIN assets /\ assets[n].tokens \in Nat /\ amt \in Nat
      BY <1>1, <1>3, ConstantsTyped DEF Withdraw, HooksInv, HooksTypeOK
  <2>2. ASSUME NEW m \in DOMAIN assets'
        PROVE  /\ m \in DOMAIN assets /\ assets'[m].take = assets[m].take
               /\ assets'[m].start = assets[m].start /\ assets'[m].tokens =< assets[m].tokens
    <3>1. m \in DOMAIN assets /\ assets[m] \in AssetType
        BY <1>1, <1>3 DEF Withdraw, HooksInv, HooksTypeOK, AssetType
    <3>2. assets'[m] = IF m = n THEN [assets[n] EXCEPT !.tokens = assets[n].tokens - amt]
                       ELSE assets[m]
        BY <1>3, <3>1 DEF Withdraw
    <3> QED
        BY <2>1, <3>1, <3>2, ConstantsTyped DEF AssetType
  <2> QED
      BY <1>1, <1>3, <2>2, PaidUpStays DEF Withdraw
<1>4. ASSUME NEW n \in Denoms, NEW w \in Weights, NEW take \in TakeRates,
             NEW rate \in ChangeRates, NEW interval \in ChangeIntervals,
             \/ CreateAlliance(n, w, take, rate, interval)
             \/ UpdateAlliance(n, w, take, rate, interval)
      PROVE  InTimeInv'
  <2>1. Recount(n) /\ UNCHANGED <<now, lastClaim>>
      BY <1>4 DEF CreateAlliance, UpdateAlliance
  <2>2. \A m \in DOMAIN assets' \ {n} : m \in DOMAIN assets /\ assets'[m] = assets[m]
      BY <1>4 DEF CreateAlliance, UpdateAlliance
  <2> QED
      BY <1>1, <2>1, <2>2, CountsFromNow
<1>5. ASSUME NEW n \in Denoms, DeleteAlliance(n) PROVE InTimeInv'
  <2>1. ASSUME NEW m \in DOMAIN assets'
        PROVE  m \in DOMAIN assets /\ assets'[m] = assets[m]
    <3>1. assets' = [m_1 \in DOMAIN assets \ {n} |-> assets[m_1]]
        BY <1>5 DEF DeleteAlliance, Restrict
    <3> QED
        BY <3>1
  <2>2. \A m \in DOMAIN assets : assets[m].tokens \in Nat
      BY <1>1, ConstantsTyped DEF HooksInv, HooksTypeOK
  <2>3. UNCHANGED <<now, lastClaim, since, charged>>
      BY <1>5 DEF DeleteAlliance
  <2>4. \A m \in DOMAIN assets' :
            /\ m \in DOMAIN assets /\ assets'[m].take = assets[m].take
            /\ assets'[m].start = assets[m].start /\ assets'[m].tokens =< assets[m].tokens
      BY <2>1, <2>2
  <2> QED
      BY <1>1, <2>3, <2>4, PaidUpStays
<1>6. ASSUME NEW interval \in ClaimIntervals, ChangeClaimInterval(interval) PROVE InTimeInv'
  <2>1. \A m \in DOMAIN assets : assets[m].tokens \in Nat
      BY <1>1, ConstantsTyped DEF HooksInv, HooksTypeOK
  <2> QED
      BY <1>1, <1>6, <2>1, PaidUpStays DEF ChangeClaimInterval
<1>7. ASSUME NEW gap \in BlockGaps, EndBlock(gap) PROVE InTimeInv'
    BY <1>7, EndBlockInTime
<1>8. CASE UNCHANGED hookVars
    BY <1>1, <1>8 DEF hookVars, InTimeInv, PaidUp, CountsFrom
<1> QED
    BY <1>2, <1>3, <1>4, <1>5, <1>6, <1>7, <1>8 DEF Next, NextBlock

\* What holds of the clock in every reachable state: it has not passed what an asset that
\* earns was charged for since it counts.
THEOREM InTimeInvariant == Spec => []InTimeInv
BY InitInTime, NextInTime, PTL DEF Spec

\* However late the blocks and whatever proposals change, the end of a block leaves at most
\* one interval uncharged of the time that counts for an asset (asset.go:287-332).
THEOREM ChargedInTimeHolds == Spec => ChargedInTime
<1>1. InTimeInv /\ [Next]_hookVars =>
          [now' # now => \A n \in Chargeable : FarFromDust(assets'[n]) =>
              charged'[n] + claimInterval >= now - Max({since[n].time, assets[n].start})]_hookVars
  <2> SUFFICES ASSUME InTimeInv, Next, now' # now, NEW n \in Chargeable,
                      FarFromDust(assets'[n])
               PROVE  charged'[n] + claimInterval
                          >= now - Max({since[n].time, assets[n].start})
      OBVIOUS
  <2>1. PICK gap \in BlockGaps : EndBlock(gap)
      BY BlocksTakeTime
  <2>2. n \in DOMAIN assets /\ assets[n].tokens > 0 /\ assets[n].take > 0
      BY DEF Chargeable
  <2>3. /\ PaidUp(n)' /\ lastClaim' + claimInterval >= now
        /\ CountsFrom(n)' = CountsFrom(n)
      BY <2>1, <2>2, ClockMoves
  <2>4. CountsFrom(n) \in Nat /\ now \in Nat
      BY <2>2, CountsFromTyped
  <2>5. lastClaim' \in Int /\ charged'[n] \in Nat /\ claimInterval \in Nat
    <3>1. HooksInv' /\ n \in Denoms
        BY <2>1, <2>2, NextHooksInv DEF InTimeInv, HooksInv, HooksTypeOK
    <3>2. now' \in Nat
        BY <3>1, ConstantsTyped DEF HooksInv, HooksTypeOK
    <3> QED
        BY <3>1, <3>2, ConstantsTyped DEF InTimeInv, HooksInv, HooksTypeOK, ClockInv, ClockOK, Unset
  <2>6. lastClaim' =< CountsFrom(n) + charged'[n]
      BY <2>3 DEF PaidUp
  <2>7. charged'[n] + claimInterval >= now - CountsFrom(n)
    <3> HIDE DEF CountsFrom
    <3> QED BY <2>3, <2>4, <2>5, <2>6
  <2> QED
      BY <2>7 DEF CountsFrom
<1> QED
    BY <1>1, InTimeInvariant, PTL DEF Spec, ChargedInTime
====
