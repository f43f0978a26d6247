-------------------------- MODULE UnbondingProofs --------------------------
(***************************************************************************)
(* Theorems about Unbonding, and about Genesis, which adds restarts to it, *)
(* for every value of their constants.                                     *)
(***************************************************************************)
EXTENDS Genesis, SumTheorems, SequenceTheorems

(* Queues: sequences under keys, appended to and deleted whole. *)

\* A sequence with one more entry holds one more element.
LEMMA AppendRange ==
    ASSUME NEW T, NEW s \in Seq(T), NEW e \in T
    PROVE  Append(s, e) \in Seq(T) /\ Range(Append(s, e)) = Range(s) \cup {e}
<1>1. /\ Append(s, e) \in Seq(T)
      /\ DOMAIN Append(s, e) = 1 .. Len(s) + 1
      /\ DOMAIN s = 1 .. Len(s)
      /\ Append(s, e)[Len(s) + 1] = e
      /\ \A i \in 1 .. Len(s) : Append(s, e)[i] = s[i]
      /\ Len(s) \in Nat
    OBVIOUS
<1>2. 1 .. Len(s) + 1 = (1 .. Len(s)) \cup {Len(s) + 1}
    BY <1>1
<1> QED
    BY <1>1, <1>2 DEF Range

\* What is queued, pair by pair.
LEMMA QueuedPair ==
    ASSUME NEW queue
    PROVE  \A p : p \in Queued(queue) <=>
               \E k \in DOMAIN queue : \E e \in Range(queue[k]) : p = <<e, k>>
BY DEF Queued

LEMMA QueuedAt ==
    ASSUME NEW queue
    PROVE  \A p : p \in Queued(queue) <=>
               \E k \in DOMAIN queue : \E i \in DOMAIN queue[k] : p = <<queue[k][i], k>>
BY QueuedPair DEF Range

\* Queueing e under key k adds the pair <<e, k>>.
LEMMA QueuedAppend ==
    ASSUME NEW e, NEW k, NEW queue, NEW T, QueueOf(queue, T), e \in T
    PROVE  /\ QueueOf(Enqueue(queue, k, e), T)
           /\ Queued(Enqueue(queue, k, e)) = Queued(queue) \cup {<<e, k>>}
<1> DEFINE old == GetOr(queue, k, <<>>)
           after == Enqueue(queue, k, e)
<1>1. /\ DOMAIN after = DOMAIN queue \cup {k}
      /\ after[k] = Append(old, e)
      /\ \A key \in DOMAIN queue : key # k => after[key] = queue[key]
    BY DEF Put, Enqueue
<1>2. old \in Seq(T)
    BY DEF GetOr, QueueOf
<1>3. Range(old) = IF k \in DOMAIN queue THEN Range(queue[k]) ELSE {}
    BY DEF GetOr, Range
<1> HIDE DEF old, after
<1>4. Append(old, e) \in Seq(T) /\ Range(Append(old, e)) = Range(old) \cup {e}
    BY <1>2, AppendRange
<1>5. Range(after[k]) = {e} \cup (IF k \in DOMAIN queue THEN Range(queue[k]) ELSE {})
    BY <1>1, <1>3, <1>4
<1>6. QueueOf(after, T)
    BY <1>1, <1>4 DEF QueueOf
<1>7. ASSUME NEW p
      PROVE  p \in Queued(after) <=> p \in Queued(queue) \/ p = <<e, k>>
  <2>1. ASSUME NEW key \in DOMAIN after, NEW x \in Range(after[key]), p = <<x, key>>
        PROVE  p \in Queued(queue) \/ p = <<e, k>>
      BY <1>1, <1>5, <2>1, QueuedPair
  <2>2. ASSUME NEW key \in DOMAIN queue, NEW x \in Range(queue[key]), p = <<x, key>>
        PROVE  \E key2 \in DOMAIN after : \E y \in Range(after[key2]) : p = <<y, key2>>
      BY <1>1, <1>5, <2>2
  <2>3. k \in DOMAIN after /\ e \in Range(after[k])
      BY <1>1, <1>5
  <2> QED
      BY <2>1, <2>2, <2>3, QueuedPair
<1> QED
    BY <1>1, <1>6, <1>7 DEF after

\* Deleting keys drops the pairs queued under them.
LEMMA QueuedWithout ==
    ASSUME NEW queue, NEW keys
    PROVE  /\ DOMAIN Without(queue, keys) = DOMAIN queue \ keys
           /\ \A k \in DOMAIN queue \ keys : Without(queue, keys)[k] = queue[k]
           /\ Queued(Without(queue, keys)) = {p \in Queued(queue) : p[2] \notin keys}
<1> DEFINE after == Without(queue, keys)
<1>1. /\ DOMAIN after = DOMAIN queue \ keys
      /\ \A k \in DOMAIN queue \ keys : after[k] = queue[k]
    BY DEF Without, Restrict
<1> HIDE DEF after
<1>2. \A p : p \in Queued(after) <=> p \in Queued(queue) /\ p[2] \notin keys
    BY <1>1, QueuedPair
<1> QED
    BY <1>1, <1>2 DEF after

-----------------------------------------------------------------------------
(* The redelegation stores. *)

\* Nothing is queued beyond one unbonding time from now.
CompletionBound == \A p \in PendingRedels : p[2] =< now + UnbondingTime

\* The inductive invariant of the redelegation stores.
RedelInv ==
    /\ now \in 0 .. Horizon
    /\ RedelStoresTyped
    /\ RedelegationStoresAgree
    /\ CompletionBound
    /\ NoTransitiveRedelegation

LEMMA PendingRedelsTyped ==
    ASSUME RedelStoresTyped
    PROVE  PendingRedels \subseteq RedelEntries \X Nat
<1> SUFFICES ASSUME NEW ct \in DOMAIN redelQueue, NEW e \in Range(redelQueue[ct])
             PROVE  e \in RedelEntries /\ ct \in Nat
    BY QueuedPair DEF PendingRedels
<1> QED
    BY DEF RedelStoresTyped, QueueOf, Range

\* addRedelegation and queueRedelegation keep the stores in agreement, and a
\* redelegation that passes the ban of HasRedelegation keeps the ban.
LEMMA AddKeepsRedelInv ==
    ASSUME RedelInv, NEW e \in RedelEntries, e.src # e.dst,
           ~HasRedelegation(e.del, e.src, e.denom), AddRedelegation(e), now' = now
    PROVE  RedelInv'
<1> DEFINE c == now + UnbondingTime
<1>1. now \in Nat /\ c \in Nat /\ CompletionTime = c
    BY MaxTimeAssumption, UnbondingTimeAssumption DEF RedelInv, CompletionTime, Horizon
<1>2. RedelStoresTyped /\ RedelegationStoresAgree
    BY DEF RedelInv
<1>3. /\ DOMAIN redelQueue' = DOMAIN redelQueue \cup {c}
      /\ QueueOf(redelQueue', RedelEntries)
      /\ PendingRedels' = PendingRedels \cup {<<e, c>>}
  <2>1. redelQueue' = Enqueue(redelQueue, c, e)
      BY <1>1 DEF AddRedelegation
  <2>2. QueueOf(redelQueue, RedelEntries)
      BY <1>2 DEF RedelStoresTyped
  <2> HIDE DEF c
  <2>3. DOMAIN Enqueue(redelQueue, c, e) = DOMAIN redelQueue \cup {c}
      BY DEF Enqueue, Put
  <2>4. QueueOf(Enqueue(redelQueue, c, e), RedelEntries)
      BY <2>2, QueuedAppend
  <2>5. Queued(Enqueue(redelQueue, c, e)) = Queued(redelQueue) \cup {<<e, c>>}
      BY <2>2, QueuedAppend
  <2> QED
      BY <2>1, <2>3, <2>4, <2>5 DEF PendingRedels
<1>4. /\ DOMAIN redels' = DOMAIN redels \cup {RedelKey(e, c)}
      /\ redelIndex' = redelIndex \cup {RedelIndexKey(e, c)}
    BY <1>1 DEF AddRedelegation, Put
<1>5. RedelStoresTyped'
  <2>1. DOMAIN redels' \subseteq RedelKeys
      BY <1>1, <1>2, <1>4 DEF RedelStoresTyped, RedelKey, RedelKeys, RedelEntries
  <2>2. \A key \in DOMAIN redels' : redels'[key] \in [src : Validators, amt : Nat]
      BY <1>2 DEF RedelStoresTyped, AddRedelegation, Put, GetOr, RedelKey, RedelEntries
  <2>3. redelIndex' \subseteq RedelIndexKeys
      BY <1>1, <1>2, <1>4 DEF RedelStoresTyped, RedelIndexKey, RedelIndexKeys, RedelEntries
  <2>4. DOMAIN redelQueue' \subseteq Nat
      BY <1>1, <1>2, <1>3 DEF RedelStoresTyped
  <2> QED
      BY <1>3, <2>1, <2>2, <2>3, <2>4 DEF RedelStoresTyped, QueueOf
<1>6. RedelegationStoresAgree'
  <2> HIDE DEF c
  <2>1. \A p : p \in PendingRedels' <=> p \in PendingRedels \/ p = <<e, c>>
      BY <1>3
  <2>2. <<e, c>>[1] = e /\ <<e, c>>[2] = c
      OBVIOUS
  <2>3. ASSUME NEW key
        PROVE  /\ key \in DOMAIN redels' <=>
                     \E p \in PendingRedels' : key = RedelKey(p[1], p[2])
               /\ key \in redelIndex' <=>
                     \E p \in PendingRedels' : key = RedelIndexKey(p[1], p[2])
      BY <1>2, <1>4, <2>1, <2>2 DEF RedelegationStoresAgree
  <2>4. DOMAIN redels' = {RedelKey(p[1], p[2]) : p \in PendingRedels'}
      BY <2>3
  <2>5. redelIndex' = {RedelIndexKey(p[1], p[2]) : p \in PendingRedels'}
      BY <2>3
  <2> QED
      BY <2>4, <2>5 DEF RedelegationStoresAgree, RedelKey, RedelIndexKey
<1>7. CompletionBound'
    BY <1>1, <1>3 DEF RedelInv, CompletionBound
<1>8. NoTransitiveRedelegation'
  <2>1. \A p \in PendingRedels : RedelKey(p[1], p[2]) \in DOMAIN redels
      BY <1>2 DEF RedelegationStoresAgree
  <2>2. \A p \in PendingRedels :
            ~ (p[1].del = e.del /\ p[1].denom = e.denom /\ p[1].dst = e.src)
      BY <2>1 DEF HasRedelegation, RedelKey
  <2>3. \A q \in PendingRedels' : q[2] =< c
      BY <1>1, <1>3 DEF RedelInv, CompletionBound
  <2> SUFFICES ASSUME NEW p \in PendingRedels', NEW q \in PendingRedels',
                      p[1].del = q[1].del, p[1].denom = q[1].denom, p[1].dst = q[1].src
               PROVE  q[2] =< p[2]
      BY DEF NoTransitiveRedelegation
  <2>4. CASE p = <<e, c>>
      BY <2>3, <2>4
  <2>5. CASE p \in PendingRedels /\ q = <<e, c>>
      BY <2>2, <2>5
  <2>6. CASE p \in PendingRedels /\ q \in PendingRedels
      BY <2>6 DEF RedelInv, NoTransitiveRedelegation
  <2> QED
      BY <1>3, <2>4, <2>5, <2>6
<1> QED
    BY <1>5, <1>6, <1>7, <1>8 DEF RedelInv

\* CompleteRedelegations, at the end of a block, keeps the invariant: the keys that
\* go carry a completion time of their own, so no other entry loses its record.
LEMMA CompleteKeepsRedelInv ==
    ASSUME RedelInv, CompleteRedelegations, now' \in 0 .. Horizon, now =< now'
    PROVE  RedelInv'
<1>1. RedelStoresTyped /\ RedelegationStoresAgree
    BY DEF RedelInv
<1>2. /\ DOMAIN redelQueue' = DOMAIN redelQueue \ DueRedels
      /\ \A ct \in DOMAIN redelQueue' : redelQueue'[ct] = redelQueue[ct]
      /\ PendingRedels' = {p \in PendingRedels : p[2] \notin DueRedels}
  <2>1. redelQueue' = Without(redelQueue, DueRedels)
      BY DEF CompleteRedelegations
  <2>2. /\ DOMAIN redelQueue' = DOMAIN redelQueue \ DueRedels
        /\ \A ct \in DOMAIN redelQueue \ DueRedels : redelQueue'[ct] = redelQueue[ct]
        /\ Queued(redelQueue') = {p \in Queued(redelQueue) : p[2] \notin DueRedels}
      BY <2>1, QueuedWithout
  <2> QED
      BY <2>2 DEF PendingRedels
<1> DEFINE gone == {RedelKey(p[1], p[2]) : p \in CompletedRedels}
           goneIndex == {RedelIndexKey(p[1], p[2]) : p \in CompletedRedels}
<1>3. /\ DOMAIN redels' = DOMAIN redels \ gone
      /\ \A key \in DOMAIN redels' : redels'[key] = redels[key]
      /\ redelIndex' = redelIndex \ goneIndex
    BY DEF CompleteRedelegations, Without, Restrict
<1>4. RedelStoresTyped'
    BY <1>1, <1>2, <1>3 DEF RedelStoresTyped, QueueOf
<1>5. RedelegationStoresAgree'
  <2>1. DOMAIN redels' = {RedelKey(p[1], p[2]) : p \in PendingRedels'}
      BY <1>1, <1>2, <1>3 DEF RedelegationStoresAgree, CompletedRedels, RedelKey
  <2>2. redelIndex' = {RedelIndexKey(p[1], p[2]) : p \in PendingRedels'}
      BY <1>1, <1>2, <1>3 DEF RedelegationStoresAgree, CompletedRedels, RedelIndexKey
  <2> QED
      BY <2>1, <2>2 DEF RedelegationStoresAgree, RedelKey, RedelIndexKey
<1>6. CompletionBound'
    BY <1>1, <1>2, PendingRedelsTyped, UnbondingTimeAssumption
    DEF RedelInv, CompletionBound
<1>7. NoTransitiveRedelegation'
    BY <1>2 DEF RedelInv, NoTransitiveRedelegation
<1> QED
    BY <1>4, <1>5, <1>6, <1>7 DEF RedelInv

\* Nothing is pending at first.
LEMMA InitRedelInv == Init => RedelInv
<1> SUFFICES ASSUME Init PROVE RedelInv
    OBVIOUS
<1>1. now = 0 /\ redels = NoEntry /\ redelIndex = {} /\ redelQueue = NoEntry
    BY DEF Init, QueuesInit
<1>2. DOMAIN NoEntry = {}
    BY DEF NoEntry
<1>3. PendingRedels = {}
    BY <1>1, <1>2 DEF PendingRedels, Queued
<1>4. now \in 0 .. Horizon
    BY <1>1, MaxTimeAssumption, UnbondingTimeAssumption DEF Horizon
<1> QED
    BY <1>1, <1>2, <1>3, <1>4 DEF RedelInv, RedelStoresTyped, QueueOf,
       RedelegationStoresAgree, CompletionBound, NoTransitiveRedelegation

\* Every step of the chain keeps the redelegation stores in order.
LEMMA NextRedelInv == RedelInv /\ [Next]_vars => RedelInv'
<1> SUFFICES ASSUME RedelInv, [Next]_vars PROVE RedelInv'
    OBVIOUS
<1>1. ASSUME UNCHANGED <<now, redelVars>> PROVE RedelInv'
    BY <1>1 DEF redelVars, RedelInv, RedelStoresTyped, QueueOf, RedelegationStoresAgree,
       CompletionBound, NoTransitiveRedelegation, PendingRedels
<1>2. ASSUME NEW n \in Denoms, CreateAlliance(n) \/ DeleteAlliance(n) PROVE RedelInv'
    BY <1>1, <1>2 DEF CreateAlliance, DeleteAlliance
<1>3. ASSUME NEW d \in Delegators, NEW n \in Denoms, NEW amt \in Amounts,
             Delegate(d, n, amt)
      PROVE  RedelInv'
    BY <1>1, <1>3 DEF Delegate
<1>4. ASSUME NEW d \in Delegators, NEW n \in Denoms, NEW amt \in Amounts,
             NEW src \in Validators, NEW dst \in Validators,
             Redelegate(d, src, dst, n, amt)
      PROVE  RedelInv'
  <2> DEFINE e == [del |-> d, src |-> src, dst |-> dst, denom |-> n, amt |-> amt]
  <2>1. e \in RedelEntries
      BY AmountsAssumption DEF RedelEntries
  <2>2. e.src # e.dst /\ ~HasRedelegation(e.del, e.src, e.denom)
      BY <1>4 DEF Redelegate
  <2>3. AddRedelegation(e) /\ now' = now
      BY <1>4 DEF Redelegate
  <2> HIDE DEF e
  <2> QED
      BY <2>1, <2>2, <2>3, AddKeepsRedelInv
<1>5. ASSUME NEW d \in Delegators, NEW n \in Denoms, NEW amt \in Amounts,
             NEW v \in Validators, Undelegate(d, v, n, amt)
      PROVE  RedelInv'
    BY <1>1, <1>5 DEF Undelegate
<1>6. ASSUME NEW v \in Validators, NEW f \in Fractions, Slash(v, f) PROVE RedelInv'
    BY <1>1, <1>6 DEF Slash
<1>7. ASSUME NEW gap \in BlockGaps, NEW cut, EndBlock(gap, cut) PROVE RedelInv'
  <2>1. CompleteRedelegations /\ now' = Min2(now + gap, Horizon)
      BY <1>7 DEF EndBlock
  <2>2. now' \in 0 .. Horizon /\ now =< now'
      BY <2>1, BlockGapsAssumption, MaxTimeAssumption, UnbondingTimeAssumption
      DEF RedelInv, Min2, Horizon
  <2> QED
      BY <2>1, <2>2, CompleteKeepsRedelInv
<1>8. CASE UNCHANGED vars
    BY <1>1, <1>8 DEF vars
<1> QED
    BY <1>2, <1>3, <1>4, <1>5, <1>6, <1>7, <1>8 DEF Next, NextBlock

\* The redelegation stores agree, the ban on moving redelegated stake again holds, and
\* nothing is queued beyond one unbonding time, in every reachable state.
THEOREM RedelInvariant == Spec => []RedelInv
<1> QED
    BY InitRedelInv, NextRedelInv, PTL DEF Spec

-----------------------------------------------------------------------------
(* Slashing shrinks an entry and never below zero. *)

\* A truncated share of x is between zero and x.
LEMMA CutBounds ==
    ASSUME NEW x \in Nat, NEW p \in Nat \ {0}, NEW q \in Nat \ {0}, p =< q
    PROVE  (p * x) \div q \in 0 .. x
<1> DEFINE y == p * x
           d == y \div q
<1>1. y \in Nat /\ y =< q * x
    OBVIOUS
<1>2. d \in Nat /\ q * d =< y
  <2> HIDE DEF y
  <2> QED BY <1>1
<1>3. q * d =< q * x
    BY <1>1, <1>2
<1>4. d =< x
  <2> HIDE DEF d
  <2> SUFFICES ASSUME d > x PROVE FALSE
      BY <1>2
  <2>1. d >= x + 1
      BY <1>2
  <2>2. q * d >= q * (x + 1)
      BY <1>2, <2>1
  <2>3. q * (x + 1) = q * x + q
      OBVIOUS
  <2> QED
      BY <1>2, <1>3, <2>2, <2>3
<1> QED
    BY <1>2, <1>4

\* What is left of amt after each of the visits of one slash.
LeftEquation(amt, f, visits, g) ==
    g = [k \in 0 .. visits |->
            IF k = 0 THEN amt ELSE g[k - 1] - (f[1] * g[k - 1]) \div f[2]]
LeftAfter(amt, f, visits) == CHOOSE g : LeftEquation(amt, f, visits, g)

LEMMA SlashedIsLeft ==
    ASSUME NEW amt, NEW f, NEW visits
    PROVE  SlashedAmount(amt, f, visits) = LeftAfter(amt, f, visits)[visits]
BY DEF SlashedAmount, LeftAfter, LeftEquation

LEMMA LeftExists ==
    ASSUME NEW amt, NEW f, NEW visits \in Nat
    PROVE  LeftEquation(amt, f, visits, LeftAfter(amt, f, visits))
<1> DEFINE N == {n \in Nat : \E g : LeftEquation(amt, f, n, g)}
<1>1. 0 \in N
  <2>1. LeftEquation(amt, f, 0, [k \in 0 .. 0 |-> amt])
      BY DEF LeftEquation
  <2> QED
      BY <2>1
<1>2. ASSUME NEW n \in Nat, n \in N PROVE n + 1 \in N
  <2>1. PICK g : LeftEquation(amt, f, n, g)
      BY <1>2
  <2> DEFINE h == [k \in 0 .. n + 1 |->
                      IF k = n + 1 THEN g[n] - (f[1] * g[n]) \div f[2] ELSE g[k]]
  <2>2. ASSUME NEW k \in 0 .. n + 1
        PROVE  h[k] = IF k = 0 THEN amt ELSE h[k - 1] - (f[1] * h[k - 1]) \div f[2]
    <3>1. CASE k = n + 1
        BY <3>1
    <3>2. CASE k # n + 1
      <4>1. k \in 0 .. n /\ h[k] = g[k] /\ (k # 0 => h[k - 1] = g[k - 1])
          BY <3>2
      <4>2. g[k] = IF k = 0 THEN amt ELSE g[k - 1] - (f[1] * g[k - 1]) \div f[2]
          BY <2>1, <4>1 DEF LeftEquation
      <4> QED
          BY <4>1, <4>2
    <3> QED
        BY <3>1, <3>2
  <2>3. LeftEquation(amt, f, n + 1, h)
      BY <2>2 DEF LeftEquation
  <2> QED
      BY <2>3
<1>3. Nat \subseteq N
  <2> HIDE DEF N
  <2> QED BY <1>1, <1>2, NatSetInduction
<1> QED
    BY <1>3 DEF LeftAfter

\* However often an entry is visited, its balance stays between zero and what it was.
LEMMA SlashedAmountBounds ==
    ASSUME NEW amt \in Nat, NEW f \in Fractions, NEW visits \in Nat
    PROVE  SlashedAmount(amt, f, visits) \in 0 .. amt
<1> DEFINE g == LeftAfter(amt, f, visits)
           N == {n \in Nat : n =< visits => g[n] \in 0 .. amt}
<1>1. \A k \in 0 .. visits :
          g[k] = IF k = 0 THEN amt ELSE g[k - 1] - (f[1] * g[k - 1]) \div f[2]
  <2>1. LeftEquation(amt, f, visits, g)
      BY LeftExists
  <2> HIDE DEF g
  <2> QED BY <2>1 DEF LeftEquation
<1> HIDE DEF g
<1>2. f[1] \in Nat \ {0} /\ f[2] \in Nat \ {0} /\ f[1] =< f[2]
    BY FractionsAssumption
<1>3. 0 \in N
    BY <1>1
<1>4. ASSUME NEW n \in Nat, n \in N PROVE n + 1 \in N
  <2> SUFFICES ASSUME n + 1 =< visits PROVE g[n + 1] \in 0 .. amt
      OBVIOUS
  <2>1. g[n] \in 0 .. amt
      BY <1>4
  <2>2. g[n + 1] = g[n] - (f[1] * g[n]) \div f[2]
      BY <1>1
  <2>3. (f[1] * g[n]) \div f[2] \in 0 .. g[n]
      BY <1>2, <2>1, CutBounds
  <2> QED
      BY <2>1, <2>2, <2>3
<1>5. Nat \subseteq N
  <2> HIDE DEF N
  <2> QED BY <1>3, <1>4, NatSetInduction
<1> QED
    BY <1>5, SlashedIsLeft DEF g

-----------------------------------------------------------------------------
(* What the undelegation queue owes. *)

AmountOf(e, n) == IF e.denom = n THEN e.amt ELSE 0
Owed(queue, n) == SumFunction([key \in DOMAIN queue |-> AmountIn(queue[key], n)])

LEMMA QueuedAmountIsOwed ==
    ASSUME NEW n
    PROVE  QueuedAmount(n) = Owed(undelQueue, n) /\ QueuedAmount(n)' = Owed(undelQueue', n)
BY DEF QueuedAmount, Owed, AmountIn

LEMMA AmountOfNat ==
    ASSUME NEW e \in UndelEntries, NEW n
    PROVE  AmountOf(e, n) \in Nat
BY DEF AmountOf, UndelEntries

\* A bucket holds a natural amount, and one entry more adds that entry's amount.
LEMMA AmountInNat ==
    ASSUME NEW bucket \in Seq(UndelEntries), NEW n
    PROVE  AmountIn(bucket, n) \in Nat
<1> DEFINE fun == [i \in DOMAIN bucket |-> AmountOf(bucket[i], n)]
<1>1. DOMAIN bucket = 1 .. Len(bucket) /\ Len(bucket) \in Nat
    OBVIOUS
<1>2. IsFiniteSet(DOMAIN bucket)
    BY <1>1, FS_Interval
<1>3. \A i \in DOMAIN bucket : fun[i] \in Nat
  <2> SUFFICES ASSUME NEW i \in DOMAIN bucket PROVE AmountOf(bucket[i], n) \in Nat
      OBVIOUS
  <2>1. bucket[i] \in UndelEntries
      BY <1>1
  <2> QED
      BY <2>1, AmountOfNat
<1>4. AmountIn(bucket, n) = SumFunctionOnSet(fun, DOMAIN bucket)
    BY DEF AmountIn, SumFunction, AmountOf
<1> HIDE DEF fun
<1> QED
    BY <1>2, <1>3, <1>4, SumNat

LEMMA AmountInAppend ==
    ASSUME NEW bucket \in Seq(UndelEntries), NEW e \in UndelEntries, NEW n
    PROVE  AmountIn(Append(bucket, e), n) = AmountIn(bucket, n) + AmountOf(e, n)
<1> DEFINE longer == Append(bucket, e)
           len == Len(bucket)
           f == [i \in DOMAIN bucket |-> AmountOf(bucket[i], n)]
           g == [i \in DOMAIN longer |-> AmountOf(longer[i], n)]
<1>1. /\ longer \in Seq(UndelEntries) /\ len \in Nat
      /\ DOMAIN bucket = 1 .. len /\ DOMAIN longer = (1 .. len) \cup {len + 1}
      /\ longer[len + 1] = e /\ \A i \in 1 .. len : longer[i] = bucket[i]
    OBVIOUS
<1>2. IsFiniteSet(1 .. len) /\ len + 1 \notin 1 .. len
    BY <1>1, FS_Interval
<1>3. \A i \in 1 .. len : f[i] \in Int /\ g[i] = f[i]
  <2> SUFFICES ASSUME NEW i \in 1 .. len PROVE f[i] \in Int /\ g[i] = f[i]
      OBVIOUS
  <2>1. bucket[i] \in UndelEntries /\ i \in DOMAIN bucket /\ i \in DOMAIN longer
      BY <1>1
  <2>2. f[i] = AmountOf(bucket[i], n) /\ g[i] = AmountOf(bucket[i], n)
      BY <1>1, <2>1
  <2> HIDE DEF f, g
  <2> QED
      BY <2>1, <2>2, AmountOfNat
<1>4. g[len + 1] = AmountOf(e, n) /\ AmountOf(e, n) \in Int
    BY <1>1, AmountOfNat
<1>5. AmountIn(longer, n) = SumFunctionOnSet(g, (1 .. len) \cup {len + 1})
  <2>1. AmountIn(longer, n) = SumFunctionOnSet(g, DOMAIN longer)
      BY DEF AmountIn, SumFunction, AmountOf
  <2> QED BY <1>1, <2>1
<1>6. AmountIn(bucket, n) = SumFunctionOnSet(f, 1 .. len)
  <2>1. AmountIn(bucket, n) = SumFunctionOnSet(f, DOMAIN bucket)
      BY DEF AmountIn, SumFunction, AmountOf
  <2> QED BY <1>1, <2>1
<1> HIDE DEF f, g, len, longer
<1>7. SumFunctionOnSet(g, 1 .. len) = SumFunctionOnSet(f, 1 .. len)
    BY <1>2, <1>3, SumEqual
<1>8. SumFunctionOnSet(g, (1 .. len) \cup {len + 1}) =
          SumFunctionOnSet(g, 1 .. len) + g[len + 1]
  <2> DEFINE S == 1 .. len
             x == len + 1
  <2>1. IsFiniteSet(S) /\ x \notin S /\ g[x] \in Int /\ \A i \in S : g[i] \in Int
      BY <1>2, <1>3, <1>4
  <2> HIDE DEF S, x
  <2>2. SumFunctionOnSet(g, S \cup {x}) = SumFunctionOnSet(g, S) + g[x]
      BY <2>1, SumAdd
  <2> QED BY <2>2 DEF S, x
<1> QED
    BY <1>4, <1>5, <1>6, <1>7, <1>8 DEF longer

\* The whole queue owes a natural amount.
LEMMA OwedNat ==
    ASSUME NEW queue, QueueOf(queue, UndelEntries), IsFiniteSet(DOMAIN queue), NEW n
    PROVE  Owed(queue, n) \in Nat
<1> DEFINE f == [key \in DOMAIN queue |-> AmountIn(queue[key], n)]
<1>1. \A key \in DOMAIN queue : f[key] \in Nat
    BY AmountInNat DEF QueueOf
<1>2. Owed(queue, n) = SumFunctionOnSet(f, DOMAIN queue)
    BY DEF Owed, SumFunction
<1> HIDE DEF f
<1> QED
    BY <1>1, <1>2, SumNat

\* Queueing an entry adds its amount to what is owed.
LEMMA OwedAfterEnqueue ==
    ASSUME NEW queue, QueueOf(queue, UndelEntries), IsFiniteSet(DOMAIN queue), NEW n,
           NEW e \in UndelEntries, NEW k
    PROVE  Owed(Enqueue(queue, k, e), n) = Owed(queue, n) + AmountOf(e, n)
<1> DEFINE after == Enqueue(queue, k, e)
           old == GetOr(queue, k, <<>>)
           S == DOMAIN queue
           f == [key \in S |-> AmountIn(queue[key], n)]
           g == [key \in DOMAIN after |-> AmountIn(after[key], n)]
<1>1. /\ DOMAIN after = S \cup {k}
      /\ after[k] = Append(old, e)
      /\ \A key \in S \ {k} : after[key] = queue[key]
    BY DEF Enqueue, Put
<1>2. old \in Seq(UndelEntries)
    BY DEF GetOr, QueueOf
<1>3. AmountIn(<<>>, n) = 0
  <2> DEFINE z == [i \in DOMAIN <<>> |-> AmountOf(<<>>[i], n)]
  <2>1. DOMAIN <<>> = {}
      OBVIOUS
  <2>2. AmountIn(<<>>, n) = SumFunctionOnSet(z, DOMAIN <<>>)
      BY DEF AmountIn, SumFunction, AmountOf
  <2>3. SumFunctionOnSet(z, DOMAIN <<>>) = SumFunctionOnSet(z, {})
      BY <2>1, Zenon
  <2> HIDE DEF z
  <2> QED BY <2>2, <2>3, SumEmpty
<1>4. AmountIn(old, n) = IF k \in S THEN f[k] ELSE 0
    BY <1>3 DEF GetOr
<1>5. AmountOf(e, n) \in Nat
    BY AmountOfNat
<1>6. g[k] = AmountIn(old, n) + AmountOf(e, n) /\ g[k] \in Nat /\ AmountIn(old, n) \in Nat
  <2>1. AmountIn(Append(old, e), n) = AmountIn(old, n) + AmountOf(e, n)
      BY <1>2, AmountInAppend
  <2>2. AmountIn(old, n) \in Nat
      BY <1>2, AmountInNat
  <2>3. g[k] = AmountIn(Append(old, e), n)
      BY <1>1
  <2> HIDE DEF g, old
  <2> QED
      BY <1>5, <2>1, <2>2, <2>3
<1>7. \A key \in S : f[key] \in Int
    BY AmountInNat DEF QueueOf
<1>8. \A key \in S \ {k} : g[key] = f[key]
    BY <1>1
<1>9. Owed(queue, n) = SumFunctionOnSet(f, S)
    BY DEF Owed, SumFunction
<1>10. Owed(after, n) = SumFunctionOnSet(g, S \cup {k})
  <2>1. Owed(after, n) = SumFunctionOnSet(g, DOMAIN after)
      BY DEF Owed, SumFunction
  <2>2. SumFunctionOnSet(g, DOMAIN after) = SumFunctionOnSet(g, S \cup {k})
      BY <1>1, Zenon
  <2> QED BY <2>1, <2>2
<1> HIDE DEF f, g, S, old
<1>11. SumFunctionOnSet(g, S \cup {k}) =
           SumFunctionOnSet(f, S) + g[k] - (IF k \in S THEN f[k] ELSE 0)
  <2>1. IsFiniteSet(S) /\ g[k] \in Int
      BY <1>6 DEF S
  <2> QED BY <1>7, <1>8, <2>1, SumPut
<1>12. SumFunctionOnSet(f, S) \in Int
  <2>1. IsFiniteSet(S)
      BY DEF S
  <2> QED BY <1>7, <2>1, SumInt
<1> HIDE DEF after
<1>13. Owed(after, n) = Owed(queue, n) + AmountOf(e, n)
    BY <1>4, <1>5, <1>6, <1>9, <1>10, <1>11, <1>12
<1> QED
    BY <1>13 DEF after

\* Two buckets of the same length whose entries differ by the amounts in taken.
LEMMA AmountInDifference ==
    ASSUME NEW before \in Seq(UndelEntries), NEW after \in Seq(UndelEntries), NEW n,
           DOMAIN after = DOMAIN before, NEW taken,
           \A i \in DOMAIN before :
               /\ taken[i] \in Int
               /\ AmountOf(before[i], n) = AmountOf(after[i], n) + taken[i]
    PROVE  AmountIn(before, n) =
               AmountIn(after, n) + SumFunctionOnSet(taken, DOMAIN before)
<1> DEFINE S == DOMAIN before
           f == [i \in DOMAIN after |-> AmountOf(after[i], n)]
           h == [i \in DOMAIN before |-> AmountOf(before[i], n)]
<1>1. IsFiniteSet(S)
  <2>1. S = 1 .. Len(before) /\ Len(before) \in Nat
      OBVIOUS
  <2> QED BY <2>1, FS_Interval
<1>2. \A i \in S : f[i] \in Int /\ taken[i] \in Int /\ h[i] = f[i] + taken[i]
  <2> SUFFICES ASSUME NEW i \in S
               PROVE  f[i] \in Int /\ taken[i] \in Int /\ h[i] = f[i] + taken[i]
      OBVIOUS
  <2>1. after[i] \in UndelEntries /\ i \in DOMAIN after
      OBVIOUS
  <2>2. f[i] = AmountOf(after[i], n) /\ h[i] = AmountOf(before[i], n)
      BY <2>1
  <2> HIDE DEF f, h
  <2> QED BY <2>1, <2>2, AmountOfNat
<1>3. AmountIn(before, n) = SumFunctionOnSet(h, S)
    BY DEF AmountIn, SumFunction, AmountOf
<1>4. AmountIn(after, n) = SumFunctionOnSet(f, S)
  <2>1. AmountIn(after, n) = SumFunctionOnSet(f, DOMAIN after)
      BY DEF AmountIn, SumFunction, AmountOf
  <2>2. SumFunctionOnSet(f, DOMAIN after) = SumFunctionOnSet(f, S)
      BY Zenon
  <2> QED BY <2>1, <2>2
<1> HIDE DEF f, h, S
<1>5. SumFunctionOnSet(h, S) = SumFunctionOnSet(f, S) + SumFunctionOnSet(taken, S)
    BY <1>1, <1>2, SumOfSums
<1> QED
    BY <1>3, <1>4, <1>5 DEF S

\* The bookkeeping of one slash: entries stay entries, and what the queue owes
\* falls by what goes to the fee collector.
LEMMA SlashBooks ==
    ASSUME UndelStoresTyped, IsFiniteSet(DOMAIN undelQueue), IsFiniteSet(undelIndex),
           NEW v \in Validators, NEW f \in Fractions, SlashUndelegations(v, f), NEW n
    PROVE  /\ DOMAIN undelQueue' = DOMAIN undelQueue
           /\ QueueOf(undelQueue', UndelEntries)
           /\ \A key \in DOMAIN undelQueue :
                 /\ DOMAIN undelQueue'[key] = DOMAIN undelQueue[key]
                 /\ \A i \in DOMAIN undelQueue[key] :
                       undelQueue'[key][i] = SlashedEntry(undelQueue[key][i], v, f, key)
           /\ SlashTaken(v, f, n) \in Nat
           /\ Owed(undelQueue', n) = Owed(undelQueue, n) - SlashTaken(v, f, n)
<1>1. QueueOf(undelQueue, UndelEntries)
    BY DEF UndelStoresTyped
<1>2. /\ DOMAIN undelQueue' = DOMAIN undelQueue
      /\ \A key \in DOMAIN undelQueue :
            /\ DOMAIN undelQueue'[key] = DOMAIN undelQueue[key]
            /\ undelQueue'[key] = [i \in DOMAIN undelQueue[key] |->
                                      SlashedEntry(undelQueue[key][i], v, f, key)]
    BY DEF SlashUndelegations
<1>3. ASSUME NEW key, NEW e \in UndelEntries
      PROVE  /\ SlashedEntry(e, v, f, key) \in UndelEntries
             /\ SlashedEntry(e, v, f, key).denom = e.denom
             /\ SlashedEntry(e, v, f, key).amt \in 0 .. e.amt
  <2> DEFINE visits == Cardinality(Visits(v, key))
             left == SlashedAmount(e.amt, f, visits)
  <2>1. visits \in Nat
    <3>1. Visits(v, key) \subseteq undelIndex
        BY DEF Visits
    <3> QED BY <3>1, FS_Subset, FS_CardinalityType
  <2>2. e.amt \in Nat
      BY DEF UndelEntries
  <2>3. left \in 0 .. e.amt
    <3> HIDE DEF visits
    <3> QED BY <2>1, <2>2, SlashedAmountBounds
  <2>4. SlashedEntry(e, v, f, key) = [e EXCEPT !.amt = left]
      BY DEF SlashedEntry
  <2> HIDE DEF left
  <2> QED BY <2>2, <2>3, <2>4 DEF UndelEntries
<1>4. \A key \in DOMAIN undelQueue : undelQueue'[key] \in Seq(UndelEntries)
  <2> SUFFICES ASSUME NEW key \in DOMAIN undelQueue
               PROVE  undelQueue'[key] \in Seq(UndelEntries)
      OBVIOUS
  <2> DEFINE b == undelQueue[key]
  <2>1. b \in Seq(UndelEntries)
      BY <1>1 DEF QueueOf
  <2>2. undelQueue'[key] = [i \in DOMAIN b |-> SlashedEntry(b[i], v, f, key)]
      BY <1>2
  <2> HIDE DEF b
  <2>3. Len(b) \in Nat /\ DOMAIN b = 1 .. Len(b) /\ \A i \in DOMAIN b : b[i] \in UndelEntries
      BY <2>1
  <2>4. \A i \in DOMAIN b : SlashedEntry(b[i], v, f, key) \in UndelEntries
      BY <1>3, <2>3
  <2> QED BY <2>2, <2>3, <2>4
<1> DEFINE lost(key) == [i \in DOMAIN undelQueue[key] |->
               LET e == undelQueue[key][i]
               IN  IF e.denom = n THEN e.amt - SlashedEntry(e, v, f, key).amt ELSE 0]
           taken == [key \in DOMAIN undelQueue |-> SumFunction(lost(key))]
<1>5. ASSUME NEW key \in DOMAIN undelQueue
      PROVE  /\ taken[key] \in Nat
             /\ AmountIn(undelQueue[key], n) = AmountIn(undelQueue'[key], n) + taken[key]
  <2> DEFINE b == undelQueue[key]
             c == undelQueue'[key]
             t == lost(key)
  <2>1. /\ b \in Seq(UndelEntries) /\ c \in Seq(UndelEntries) /\ DOMAIN c = DOMAIN b
        /\ \A i \in DOMAIN b : c[i] = SlashedEntry(b[i], v, f, key)
      BY <1>1, <1>2, <1>4 DEF QueueOf
  <2>2. IsFiniteSet(DOMAIN b)
    <3>1. DOMAIN b = 1 .. Len(b) /\ Len(b) \in Nat
        BY <2>1
    <3> QED BY <3>1, FS_Interval
  <2>3. ASSUME NEW i \in DOMAIN b
        PROVE  t[i] \in Nat /\ AmountOf(b[i], n) = AmountOf(c[i], n) + t[i]
    <3>1. b[i] \in UndelEntries /\ c[i] = SlashedEntry(b[i], v, f, key)
        BY <2>1
    <3>2. t[i] = IF b[i].denom = n THEN b[i].amt - c[i].amt ELSE 0
        BY <3>1
    <3>3. b[i].amt \in Nat /\ c[i].denom = b[i].denom /\ c[i].amt \in 0 .. b[i].amt
        BY <1>3, <3>1 DEF UndelEntries
    <3> HIDE DEF b, c, t
    <3> QED BY <3>2, <3>3 DEF AmountOf
  <2>4. taken[key] = SumFunctionOnSet(t, DOMAIN b)
      BY DEF SumFunction
  <2> HIDE DEF b, c, t, taken
  <2>5. taken[key] \in Nat
      BY <2>2, <2>3, <2>4, SumNat
  <2>6. AmountIn(b, n) = AmountIn(c, n) + SumFunctionOnSet(t, DOMAIN b)
      BY <2>1, <2>3, AmountInDifference
  <2> QED BY <2>4, <2>5, <2>6 DEF b, c
<1>6. SlashTaken(v, f, n) = SumFunctionOnSet(taken, DOMAIN undelQueue)
    BY DEF SlashTaken, SumFunction
<1> HIDE DEF taken
<1>7. SlashTaken(v, f, n) \in Nat
    BY <1>5, <1>6, SumNat
<1>8. Owed(undelQueue, n) = Owed(undelQueue', n) + SlashTaken(v, f, n)
  <2> DEFINE S == DOMAIN undelQueue
             h == [key \in S |-> AmountIn(undelQueue[key], n)]
             g == [key \in DOMAIN undelQueue' |-> AmountIn(undelQueue'[key], n)]
  <2>1. \A key \in S : g[key] \in Int /\ taken[key] \in Int /\ h[key] = g[key] + taken[key]
      BY <1>2, <1>4, <1>5, AmountInNat
  <2>2. Owed(undelQueue, n) = SumFunctionOnSet(h, S)
      BY DEF Owed, SumFunction
  <2>3. Owed(undelQueue', n) = SumFunctionOnSet(g, S)
    <3>1. Owed(undelQueue', n) = SumFunctionOnSet(g, DOMAIN undelQueue')
        BY DEF Owed, SumFunction
    <3>2. SumFunctionOnSet(g, DOMAIN undelQueue') = SumFunctionOnSet(g, S)
        BY <1>2, Zenon
    <3> QED BY <3>1, <3>2
  <2>4. IsFiniteSet(S)
      OBVIOUS
  <2> HIDE DEF S, h, g
  <2>5. SumFunctionOnSet(h, S) = SumFunctionOnSet(g, S) + SumFunctionOnSet(taken, S)
      BY <2>1, <2>4, SumOfSums
  <2> QED BY <1>6, <2>2, <2>3, <2>5 DEF S
<1>9. Owed(undelQueue', n) \in Nat
  <2>1. QueueOf(undelQueue', UndelEntries) /\ IsFiniteSet(DOMAIN undelQueue')
      BY <1>2, <1>4 DEF QueueOf
  <2> QED BY <2>1, OwedNat
<1>10. Owed(undelQueue, n) \in Nat
    BY <1>1, OwedNat
<1>11. QueueOf(undelQueue', UndelEntries)
    BY <1>2, <1>4 DEF QueueOf
<1>12. Owed(undelQueue', n) = Owed(undelQueue, n) - SlashTaken(v, f, n)
    BY <1>7, <1>8, <1>9, <1>10
<1> QED
    BY <1>2, <1>7, <1>11, <1>12

\* What CompleteUndelegations pays to the delegators is what the queue stops owing.
LEMMA PayoutBooks ==
    ASSUME UndelStoresTyped, IsFiniteSet(DOMAIN undelQueue), CompleteUndelegations, NEW n
    PROVE  /\ \A d \in Delegators : Payout(d, n) \in Nat
           /\ SumFunction([d \in Delegators |-> Payout(d, n)]) \in Nat
           /\ Owed(undelQueue', n) =
                  Owed(undelQueue, n) - SumFunction([d \in Delegators |-> Payout(d, n)])
<1> DEFINE S == DOMAIN undelQueue
           Due == DueUndels
           Rest == S \ Due
           f == [key \in S |-> AmountIn(undelQueue[key], n)]
           fDue == [key \in Due |-> AmountIn(undelQueue[key], n)]
           fRest == [key \in DOMAIN undelQueue' |-> AmountIn(undelQueue'[key], n)]
           label == [key \in Due |-> key.del]
           g == [d \in Delegators |-> Payout(d, n)]
<1>1. Due \subseteq S
    BY DEF DueUndels
<1>2. IsFiniteSet(S) /\ IsFiniteSet(Due) /\ IsFiniteSet(Rest)
    BY <1>1, FS_Subset
<1>3. QueueOf(undelQueue, UndelEntries) /\ S \subseteq UndelKeys
    BY DEF UndelStoresTyped
<1>4. \A key \in S : f[key] \in Nat
    BY <1>3, AmountInNat DEF QueueOf
<1>5. \A key \in Due : fDue[key] = f[key] /\ fDue[key] \in Nat
    BY <1>1, <1>4
<1>6. DOMAIN undelQueue' = Rest /\ \A key \in Rest : undelQueue'[key] = undelQueue[key]
  <2>1. undelQueue' = Without(undelQueue, Due)
      BY DEF CompleteUndelegations
  <2> QED BY <2>1, QueuedWithout
<1>7. \A key \in Rest : fRest[key] = f[key] /\ fRest[key] \in Nat
    BY <1>4, <1>6
<1>8. Owed(undelQueue, n) = SumFunctionOnSet(f, S)
    BY DEF Owed, SumFunction
<1>9. Owed(undelQueue', n) = SumFunctionOnSet(fRest, Rest)
  <2>1. Owed(undelQueue', n) = SumFunctionOnSet(fRest, DOMAIN undelQueue')
      BY DEF Owed, SumFunction
  <2>2. SumFunctionOnSet(fRest, DOMAIN undelQueue') = SumFunctionOnSet(fRest, Rest)
      BY <1>6, Zenon
  <2> QED BY <2>1, <2>2
<1>10. \A d \in Delegators :
           /\ g[d] = Payout(d, n)
           /\ g[d] = SumFunctionOnSet(fDue, {key \in Due : label[key] = d})
  <2> SUFFICES ASSUME NEW d \in Delegators
               PROVE  Payout(d, n) = SumFunctionOnSet(fDue, {key \in Due : label[key] = d})
      OBVIOUS
  <2>1. {key \in Due : label[key] = d} = {key \in Due : key.del = d}
      OBVIOUS
  <2>2. Payout(d, n) = SumFunctionOnSet(fDue, {key \in Due : key.del = d})
      BY DEF Payout
  <2> QED BY <2>1, <2>2, Zenon
<1>11. \A key \in Due : label[key] \in Delegators
    BY <1>1, <1>3 DEF UndelKeys
<1>12. SumFunction(g) = SumFunctionOnSet(g, Delegators)
    BY DEF SumFunction
<1> HIDE DEF S, Due, f, fDue, fRest, label, g
<1>13. \A d \in Delegators : g[d] \in Nat
  <2> SUFFICES ASSUME NEW d \in Delegators PROVE g[d] \in Nat
      OBVIOUS
  <2> DEFINE P == {key \in Due : label[key] = d}
  <2>1. IsFiniteSet(P) /\ \A key \in P : fDue[key] \in Nat
      BY <1>2, <1>5, FS_Subset
  <2>2. g[d] = SumFunctionOnSet(fDue, P)
      BY <1>10
  <2> HIDE DEF P
  <2> QED BY <2>1, <2>2, SumNat
<1>14. SumFunctionOnSet(g, Delegators) \in Nat
    BY <1>13, DelegatorsAssumption, SumNat
<1>15. SumFunctionOnSet(g, Delegators) = SumFunctionOnSet(fDue, Due)
  <2>1. \A key \in Due : fDue[key] \in Int
      BY <1>5
  <2> QED BY <1>2, <1>10, <1>11, <2>1, DelegatorsAssumption, SumByLabel
<1>16. SumFunctionOnSet(f, S) = SumFunctionOnSet(f, Due) + SumFunctionOnSet(f, Rest)
  <2>1. Due \cap Rest = {} /\ Due \cup Rest = S
      BY <1>1
  <2>2. \A key \in Due \cup Rest : f[key] \in Int
      BY <1>4, <2>1
  <2>3. SumFunctionOnSet(f, Due \cup Rest) =
            SumFunctionOnSet(f, Due) + SumFunctionOnSet(f, Rest)
    <3> HIDE DEF Rest
    <3> QED BY <1>2, <2>1, <2>2, SumDisjoint
  <2>4. SumFunctionOnSet(f, Due \cup Rest) = SumFunctionOnSet(f, S)
      BY <2>1, Zenon
  <2> QED BY <2>3, <2>4
<1>17. SumFunctionOnSet(fDue, Due) = SumFunctionOnSet(f, Due)
  <2>1. \A key \in Due : f[key] \in Int /\ fDue[key] = f[key]
      BY <1>5
  <2> QED BY <1>2, <2>1, SumEqual
<1>18. SumFunctionOnSet(fRest, Rest) = SumFunctionOnSet(f, Rest)
  <2>1. \A key \in Rest : f[key] \in Int /\ fRest[key] = f[key]
      BY <1>7
  <2> HIDE DEF Rest
  <2> QED BY <1>2, <2>1, SumEqual
<1>19. SumFunctionOnSet(fRest, Rest) \in Nat
  <2> HIDE DEF Rest
  <2> QED BY <1>2, <1>7, SumNat
<1>20. Owed(undelQueue', n) = Owed(undelQueue, n) - SumFunction(g)
  <2> HIDE DEF Rest
  <2> QED BY <1>8, <1>9, <1>12, <1>14, <1>15, <1>16, <1>17, <1>18, <1>19
<1> QED
    BY <1>10, <1>12, <1>13, <1>14, <1>20 DEF g

-----------------------------------------------------------------------------
(* The undelegation stores and the balances. *)

UndelStoresFinite == IsFiniteSet(DOMAIN undelQueue) /\ IsFiniteSet(undelIndex)

\* The inductive invariant of the undelegation stores.
UndelInv ==
    /\ UndelStoresTyped
    /\ UndelStoresFinite
    /\ UndelegationIndexExact

LEMMA PendingUndelsTyped ==
    ASSUME UndelStoresTyped
    PROVE  PendingUndels \subseteq UndelEntries \X UndelKeys
<1> SUFFICES ASSUME NEW key \in DOMAIN undelQueue, NEW e \in Range(undelQueue[key])
             PROVE  e \in UndelEntries /\ key \in UndelKeys
    BY QueuedPair DEF PendingUndels
<1> QED
    BY DEF UndelStoresTyped, QueueOf, Range

LEMMA QueueKeepsUndelInv ==
    ASSUME UndelInv, now \in Nat, NEW d \in Delegators, NEW e \in UndelEntries,
           QueueUndelegation(d, e)
    PROVE  /\ UndelInv'
           /\ \A n : Owed(undelQueue', n) = Owed(undelQueue, n) + AmountOf(e, n)
<1> DEFINE k == [ct |-> CompletionTime, del |-> d]
<1>1. k \in UndelKeys
    BY UnbondingTimeAssumption DEF CompletionTime, UndelKeys
<1>2. undelQueue' = Enqueue(undelQueue, k, e)
    BY DEF QueueUndelegation
<1>3. undelIndex' = undelIndex \cup {UndelIndexKey(e, k)}
    BY DEF QueueUndelegation
<1> HIDE DEF k
<1>4. QueueOf(undelQueue, UndelEntries) /\ UndelStoresTyped /\ UndelegationIndexExact
    BY DEF UndelInv, UndelStoresTyped
<1>5. DOMAIN undelQueue' = DOMAIN undelQueue \cup {k}
    BY <1>2 DEF Enqueue, Put
<1>6. QueueOf(undelQueue', UndelEntries)
    BY <1>2, <1>4, QueuedAppend
<1>7. PendingUndels' = PendingUndels \cup {<<e, k>>}
  <2>1. Queued(Enqueue(undelQueue, k, e)) = Queued(undelQueue) \cup {<<e, k>>}
      BY <1>4, QueuedAppend
  <2> QED BY <1>2, <2>1 DEF PendingUndels
<1>8. UndelIndexKey(e, k) \in UndelIndexKeys
    BY <1>1 DEF UndelIndexKey, UndelIndexKeys, UndelKeys, UndelEntries
<1>9. UndelStoresTyped'
    BY <1>1, <1>3, <1>4, <1>5, <1>6, <1>8 DEF UndelStoresTyped, QueueOf
<1>10. UndelStoresFinite'
    BY <1>3, <1>5, FS_AddElement DEF UndelInv, UndelStoresFinite
<1>11. UndelegationIndexExact'
  <2>1. <<e, k>>[1] = e /\ <<e, k>>[2] = k
      OBVIOUS
  <2>2. \A p : p \in PendingUndels' <=> p \in PendingUndels \/ p = <<e, k>>
      BY <1>7
  <2>3. ASSUME NEW x
        PROVE  x \in undelIndex' <=>
                   \E p \in PendingUndels' : x = UndelIndexKey(p[1], p[2])
      BY <1>3, <1>4, <2>1, <2>2 DEF UndelegationIndexExact
  <2>4. undelIndex' = {UndelIndexKey(p[1], p[2]) : p \in PendingUndels'}
      BY <2>3
  <2> QED BY <2>4 DEF UndelegationIndexExact, UndelIndexKey
<1>12. ASSUME NEW n PROVE Owed(undelQueue', n) = Owed(undelQueue, n) + AmountOf(e, n)
  <2>1. IsFiniteSet(DOMAIN undelQueue)
      BY DEF UndelInv, UndelStoresFinite
  <2> QED BY <1>2, <1>4, <2>1, OwedAfterEnqueue
<1> QED
    BY <1>9, <1>10, <1>11, <1>12 DEF UndelInv

\* A slash changes amounts only: every key and every entry's validator and
\* denomination stay, and so does the index.
LEMMA SlashKeepsUndelInv ==
    ASSUME UndelInv, NEW v \in Validators, NEW f \in Fractions, SlashUndelegations(v, f)
    PROVE  /\ UndelInv'
           /\ \A n : /\ SlashTaken(v, f, n) \in Nat
                     /\ Owed(undelQueue', n) = Owed(undelQueue, n) - SlashTaken(v, f, n)
<1>1. UndelStoresTyped /\ IsFiniteSet(DOMAIN undelQueue) /\ IsFiniteSet(undelIndex)
    BY DEF UndelInv, UndelStoresFinite
<1>2. /\ DOMAIN undelQueue' = DOMAIN undelQueue
      /\ QueueOf(undelQueue', UndelEntries)
      /\ \A key \in DOMAIN undelQueue :
            /\ DOMAIN undelQueue'[key] = DOMAIN undelQueue[key]
            /\ \A i \in DOMAIN undelQueue[key] :
                  undelQueue'[key][i] = SlashedEntry(undelQueue[key][i], v, f, key)
    BY <1>1, SlashBooks
<1>3. undelIndex' = undelIndex
    BY DEF SlashUndelegations
<1>4. UndelStoresTyped'
    BY <1>1, <1>2, <1>3 DEF UndelStoresTyped, QueueOf
<1>5. UndelStoresFinite'
    BY <1>1, <1>2, <1>3 DEF UndelStoresFinite
<1>6. UndelegationIndexExact'
  <2>1. \A key, e : e \in UndelEntries =>
            UndelIndexKey(SlashedEntry(e, v, f, key), key) = UndelIndexKey(e, key)
      BY DEF UndelIndexKey, SlashedEntry, UndelEntries
  <2>2. \A key \in DOMAIN undelQueue : \A i \in DOMAIN undelQueue[key] :
            undelQueue[key][i] \in UndelEntries
      BY <1>1 DEF UndelStoresTyped, QueueOf
  <2>3. ASSUME NEW key \in DOMAIN undelQueue, NEW i \in DOMAIN undelQueue[key]
        PROVE  UndelIndexKey(undelQueue'[key][i], key) = UndelIndexKey(undelQueue[key][i], key)
      BY <1>2, <2>1, <2>2
  <2>4. ASSUME NEW p \in PendingUndels'
        PROVE  \E q \in PendingUndels : UndelIndexKey(q[1], q[2]) = UndelIndexKey(p[1], p[2])
    <3>1. PICK key \in DOMAIN undelQueue' :
              \E i \in DOMAIN undelQueue'[key] : p = <<undelQueue'[key][i], key>>
        BY QueuedAt DEF PendingUndels
    <3>2. PICK i \in DOMAIN undelQueue'[key] : p = <<undelQueue'[key][i], key>>
        BY <3>1
    <3>3. key \in DOMAIN undelQueue /\ i \in DOMAIN undelQueue[key]
        BY <1>2
    <3>4. <<undelQueue[key][i], key>> \in PendingUndels
        BY <3>3, QueuedAt DEF PendingUndels
    <3> QED BY <2>3, <3>2, <3>3, <3>4
  <2>5. ASSUME NEW p \in PendingUndels
        PROVE  \E q \in PendingUndels' : UndelIndexKey(q[1], q[2]) = UndelIndexKey(p[1], p[2])
    <3>1. PICK key \in DOMAIN undelQueue :
              \E i \in DOMAIN undelQueue[key] : p = <<undelQueue[key][i], key>>
        BY QueuedAt DEF PendingUndels
    <3>2. PICK i \in DOMAIN undelQueue[key] : p = <<undelQueue[key][i], key>>
        BY <3>1
    <3>3. key \in DOMAIN undelQueue' /\ i \in DOMAIN undelQueue'[key]
        BY <1>2
    <3>4. <<undelQueue'[key][i], key>> \in PendingUndels'
        BY <3>3, QueuedAt DEF PendingUndels
    <3> QED BY <2>3, <3>2, <3>4
  <2>6. undelIndex' = {UndelIndexKey(p[1], p[2]) : p \in PendingUndels'}
      BY <1>3, <2>4, <2>5 DEF UndelInv, UndelegationIndexExact
  <2> QED BY <2>6 DEF UndelegationIndexExact, UndelIndexKey
<1>7. ASSUME NEW n
      PROVE  /\ SlashTaken(v, f, n) \in Nat
             /\ Owed(undelQueue', n) = Owed(undelQueue, n) - SlashTaken(v, f, n)
    BY <1>1, SlashBooks
<1> QED
    BY <1>4, <1>5, <1>6, <1>7 DEF UndelInv

LEMMA CompleteKeepsUndelInv ==
    ASSUME UndelInv, CompleteUndelegations
    PROVE  UndelInv'
<1>1. UndelStoresTyped /\ UndelegationIndexExact
    BY DEF UndelInv
<1>2. /\ DOMAIN undelQueue' = DOMAIN undelQueue \ DueUndels
      /\ \A key \in DOMAIN undelQueue' : undelQueue'[key] = undelQueue[key]
      /\ PendingUndels' = {p \in PendingUndels : p[2] \notin DueUndels}
  <2>1. undelQueue' = Without(undelQueue, DueUndels)
      BY DEF CompleteUndelegations
  <2>2. /\ DOMAIN undelQueue' = DOMAIN undelQueue \ DueUndels
        /\ \A key \in DOMAIN undelQueue \ DueUndels : undelQueue'[key] = undelQueue[key]
        /\ Queued(undelQueue') = {p \in Queued(undelQueue) : p[2] \notin DueUndels}
      BY <2>1, QueuedWithout
  <2> QED
      BY <2>2 DEF PendingUndels
<1> DEFINE gone == {UndelIndexKey(p[1], p[2]) : p \in CompletedUndels}
<1>3. undelIndex' = undelIndex \ gone
    BY DEF CompleteUndelegations
<1>4. UndelStoresTyped'
    BY <1>1, <1>2, <1>3 DEF UndelStoresTyped, QueueOf
<1>5. UndelStoresFinite'
    BY <1>2, <1>3, FS_Subset DEF UndelInv, UndelStoresFinite
<1>6. UndelegationIndexExact'
  <2>1. \A p, q \in PendingUndels :
            UndelIndexKey(p[1], p[2]) = UndelIndexKey(q[1], q[2]) => p[2] = q[2]
      BY <1>1, PendingUndelsTyped DEF UndelIndexKey, UndelKeys
  <2>2. undelIndex' = {UndelIndexKey(p[1], p[2]) : p \in PendingUndels'}
      BY <1>1, <1>2, <1>3, <2>1 DEF UndelegationIndexExact, CompletedUndels
  <2> QED BY <2>2 DEF UndelegationIndexExact, UndelIndexKey
<1> QED
    BY <1>4, <1>5, <1>6 DEF UndelInv

-----------------------------------------------------------------------------
(* Custody: the module account covers the live stake and the whole queue. *)

CustodyInv == UndelInv /\ BalancesTyped /\ Custody

LEMMA InitCustodyInv ==
    ASSUME Init
    PROVE  CustodyInv
<1>1. undelQueue = NoEntry /\ undelIndex = {}
    BY DEF Init, QueuesInit
<1>2. DOMAIN NoEntry = {}
    BY DEF NoEntry
<1>3. UndelInv
  <2>1. PendingUndels = {}
      BY <1>1, <1>2 DEF PendingUndels, Queued
  <2> QED
      BY <1>1, <1>2, <2>1, FS_EmptySet
      DEF UndelInv, UndelStoresTyped, UndelStoresFinite, UndelegationIndexExact, QueueOf
<1>3a. PICK listed \in SUBSET Denoms : totalTokens = [n \in listed |-> 0]
    BY DEF Init
<1>4. BalancesTyped
    BY <1>3a, InitialWalletAssumption DEF Init, BalancesTyped
<1>5. ASSUME NEW n \in Denoms PROVE escrow[n] = GetOr(totalTokens, n, 0) + QueuedAmount(n)
  <2> DEFINE f == [key \in DOMAIN undelQueue |-> AmountIn(undelQueue[key], n)]
  <2>1. DOMAIN f = {}
      BY <1>1, <1>2
  <2>2. QueuedAmount(n) = SumFunctionOnSet(f, DOMAIN f)
      BY DEF QueuedAmount, SumFunction
  <2>3. SumFunctionOnSet(f, DOMAIN f) = SumFunctionOnSet(f, {})
      BY <2>1, Zenon
  <2> HIDE DEF f
  <2>4. QueuedAmount(n) = 0
      BY <2>2, <2>3, SumEmpty
  <2>5. GetOr(totalTokens, n, 0) = 0 /\ escrow[n] = 0
      BY <1>3a DEF GetOr, Init
  <2> QED
      BY <2>4, <2>5
<1> QED
    BY <1>3, <1>4, <1>5 DEF CustodyInv, Custody

\* In every reachable state the stores are finite and agree, and the books balance.
LEMMA StepCustodyInv ==
    ASSUME now \in 0 .. Horizon, CustodyInv, [Next]_vars
    PROVE  CustodyInv'
<1> DEFINE Total(n) == GetOr(totalTokens, n, 0)
<1>1. UndelInv /\ BalancesTyped /\ now \in Nat
    BY MaxTimeAssumption, UnbondingTimeAssumption DEF CustodyInv, Horizon
<1>2. \A n \in Denoms :
          /\ Owed(undelQueue, n) \in Nat
          /\ escrow[n] = Total(n) + Owed(undelQueue, n)
          /\ Total(n) \in Nat /\ escrow[n] \in Nat
  <2> SUFFICES ASSUME NEW n \in Denoms
               PROVE  /\ Owed(undelQueue, n) \in Nat
                      /\ escrow[n] = Total(n) + Owed(undelQueue, n)
                      /\ Total(n) \in Nat /\ escrow[n] \in Nat
      OBVIOUS
  <2>1. Owed(undelQueue, n) \in Nat
      BY <1>1, OwedNat DEF UndelInv, UndelStoresTyped, UndelStoresFinite
  <2>2. Total(n) \in Nat /\ escrow[n] \in Nat
      BY <1>1 DEF BalancesTyped, GetOr
  <2> QED
      BY <2>1, <2>2, QueuedAmountIsOwed DEF CustodyInv, Custody
<1>3. ASSUME \A n \in Denoms : escrow'[n] = Total(n)' + Owed(undelQueue', n)
      PROVE  Custody'
    BY <1>3, QueuedAmountIsOwed DEF Custody, GetOr
<1>4. ASSUME UNCHANGED undelVars PROVE UndelInv' /\ undelQueue' = undelQueue
    BY <1>1, <1>4 DEF undelVars, UndelInv, UndelStoresTyped, UndelStoresFinite, QueueOf,
       UndelegationIndexExact, PendingUndels
<1>5. ASSUME NEW n \in Denoms, CreateAlliance(n) \/ DeleteAlliance(n) PROVE CustodyInv'
  <2>1. UNCHANGED undelVars /\ UNCHANGED bankVars
      BY <1>5 DEF CreateAlliance, DeleteAlliance
  <2>2. \A m \in Denoms : Total(m)' = Total(m)
      BY <1>5 DEF CreateAlliance, DeleteAlliance, Put, Without, Restrict, GetOr
  <2>3. BalancesTyped'
    <3>1. /\ DOMAIN totalTokens' \subseteq Denoms
          /\ \A m \in DOMAIN totalTokens' : totalTokens'[m] \in Nat
        BY <1>1, <1>5 DEF BalancesTyped, CreateAlliance, DeleteAlliance, Put, Without,
           Restrict
    <3> QED
        BY <1>1, <2>1, <3>1 DEF BalancesTyped, bankVars
  <2>4. Custody'
    <3>1. \A m \in Denoms : escrow'[m] = Total(m)' + Owed(undelQueue', m)
        BY <1>2, <1>4, <2>1, <2>2 DEF bankVars
    <3> QED
        BY <1>3, <3>1
  <2> QED
      BY <1>4, <2>1, <2>3, <2>4 DEF CustodyInv
<1>6. ASSUME NEW d \in Delegators, NEW n \in Denoms, NEW amt \in Amounts,
             Delegate(d, n, amt)
      PROVE  CustodyInv'
  <2>1. UNCHANGED undelVars /\ amt \in Nat /\ n \in DOMAIN totalTokens
      BY <1>6, AmountsAssumption DEF Delegate
  <2>2. /\ amt =< wallet[d][n]
        /\ wallet' = [wallet EXCEPT ![d][n] = @ - amt]
        /\ escrow' = [escrow EXCEPT ![n] = @ + amt]
        /\ totalTokens' = [totalTokens EXCEPT ![n] = @ + amt]
        /\ collected' = collected
      BY <1>6 DEF Delegate
  <2>3. BalancesTyped'
    <3>1. wallet' \in [Delegators -> [Denoms -> Nat]]
        BY <1>1, <2>1, <2>2 DEF BalancesTyped
    <3>2. escrow' \in [Denoms -> Nat] /\ collected' \in [Denoms -> Nat]
        BY <1>1, <2>1, <2>2 DEF BalancesTyped
    <3>3. /\ DOMAIN totalTokens' \subseteq Denoms
          /\ \A m \in DOMAIN totalTokens' : totalTokens'[m] \in Nat
        BY <1>1, <2>1, <2>2 DEF BalancesTyped
    <3> QED
        BY <3>1, <3>2, <3>3 DEF BalancesTyped
  <2>4. Custody'
    <3>1. \A m \in Denoms : escrow'[m] = Total(m)' + Owed(undelQueue', m)
      <4> SUFFICES ASSUME NEW m \in Denoms
                   PROVE  escrow'[m] = Total(m)' + Owed(undelQueue', m)
          OBVIOUS
      <4>1. /\ Total(m)' = Total(m) + (IF m = n THEN amt ELSE 0)
            /\ escrow'[m] = escrow[m] + (IF m = n THEN amt ELSE 0)
          BY <1>1, <1>2, <2>1, <2>2 DEF GetOr, BalancesTyped
      <4>2. undelQueue' = undelQueue
          BY <1>4, <2>1
      <4> QED
          BY <1>2, <2>1, <4>1, <4>2
    <3> QED
        BY <1>3, <3>1
  <2> QED
      BY <1>4, <2>1, <2>3, <2>4 DEF CustodyInv
<1>7. ASSUME NEW d \in Delegators, NEW n \in Denoms, NEW amt \in Amounts,
             NEW src \in Validators, NEW dst \in Validators,
             Redelegate(d, src, dst, n, amt)
      PROVE  CustodyInv'
  <2>1. UNCHANGED undelVars /\ UNCHANGED totalTokens /\ UNCHANGED bankVars
      BY <1>7 DEF Redelegate
  <2>2. Custody'
      BY <1>2, <1>3, <1>4, <2>1 DEF bankVars, GetOr
  <2> QED
      BY <1>1, <1>4, <2>1, <2>2 DEF CustodyInv, BalancesTyped, bankVars
<1>8. ASSUME NEW d \in Delegators, NEW n \in Denoms, NEW amt \in Amounts,
             NEW v \in Validators, Undelegate(d, v, n, amt)
      PROVE  CustodyInv'
  <2> DEFINE e == [val |-> v, denom |-> n, amt |-> amt]
  <2>1. e \in UndelEntries /\ amt \in Nat /\ e.denom = n /\ e.amt = amt
      BY AmountsAssumption DEF UndelEntries
  <2>2. /\ n \in DOMAIN totalTokens /\ amt =< totalTokens[n]
        /\ totalTokens' = [totalTokens EXCEPT ![n] = @ - amt]
        /\ QueueUndelegation(d, e) /\ UNCHANGED bankVars
      BY <1>8 DEF Undelegate, Withdrawable
  <2> HIDE DEF e
  <2>3. /\ UndelInv'
        /\ \A m : Owed(undelQueue', m) = Owed(undelQueue, m) + AmountOf(e, m)
      BY <1>1, <2>1, <2>2, QueueKeepsUndelInv
  <2>4. BalancesTyped'
    <3>1. /\ DOMAIN totalTokens' \subseteq Denoms
          /\ \A m \in DOMAIN totalTokens' : totalTokens'[m] \in Nat
        BY <1>1, <2>1, <2>2 DEF BalancesTyped
    <3> QED
        BY <1>1, <2>2, <3>1 DEF BalancesTyped, bankVars
  <2>5. Custody'
    <3>1. \A m \in Denoms : escrow'[m] = Total(m)' + Owed(undelQueue', m)
      <4> SUFFICES ASSUME NEW m \in Denoms
                   PROVE  escrow'[m] = Total(m)' + Owed(undelQueue', m)
          OBVIOUS
      <4>1. Total(m)' = Total(m) - (IF m = n THEN amt ELSE 0)
          BY <1>1, <1>2, <2>1, <2>2 DEF GetOr, BalancesTyped
      <4>2. AmountOf(e, m) = IF m = n THEN amt ELSE 0
          BY <2>1 DEF AmountOf
      <4>3. escrow'[m] = escrow[m]
          BY <2>2 DEF bankVars
      <4> QED
          BY <1>2, <2>1, <2>3, <4>1, <4>2, <4>3
    <3> QED
        BY <1>3, <3>1
  <2> QED
      BY <2>3, <2>4, <2>5 DEF CustodyInv
<1>9. ASSUME NEW v \in Validators, NEW f \in Fractions, Slash(v, f) PROVE CustodyInv'
  <2>1. /\ SlashUndelegations(v, f)
        /\ escrow' = [n \in Denoms |-> escrow[n] - SlashTaken(v, f, n)]
        /\ collected' = [n \in Denoms |-> collected[n] + SlashTaken(v, f, n)]
        /\ UNCHANGED <<totalTokens, wallet>>
      BY <1>9 DEF Slash
  <2>2. /\ UndelInv'
        /\ \A n : /\ SlashTaken(v, f, n) \in Nat
                  /\ Owed(undelQueue', n) = Owed(undelQueue, n) - SlashTaken(v, f, n)
      BY <1>1, <2>1, SlashKeepsUndelInv
  <2>3. \A n \in Denoms :
            /\ escrow'[n] = Total(n)' + Owed(undelQueue', n)
            /\ escrow'[n] \in Nat /\ collected'[n] \in Nat
    <3> SUFFICES ASSUME NEW n \in Denoms
                 PROVE  /\ escrow'[n] = Total(n)' + Owed(undelQueue', n)
                        /\ escrow'[n] \in Nat /\ collected'[n] \in Nat
        OBVIOUS
    <3>1. Owed(undelQueue', n) \in Nat
        BY <2>2, OwedNat DEF UndelInv, UndelStoresTyped, UndelStoresFinite
    <3>2. Total(n)' = Total(n) /\ collected[n] \in Nat
        BY <1>1, <2>1 DEF GetOr, BalancesTyped
    <3>3. /\ escrow'[n] = escrow[n] - SlashTaken(v, f, n)
          /\ collected'[n] = collected[n] + SlashTaken(v, f, n)
        BY <2>1
    <3> QED
        BY <1>2, <2>2, <3>1, <3>2, <3>3
  <2>4. BalancesTyped'
      BY <1>1, <2>1, <2>3 DEF BalancesTyped
  <2> QED
      BY <1>3, <2>2, <2>3, <2>4 DEF CustodyInv
<1>10. ASSUME NEW gap \in BlockGaps, NEW cut \in [Denoms -> {0} \cup Amounts],
              EndBlock(gap, cut)
       PROVE  CustodyInv'
  <2> DEFINE Paid(n) == SumFunction([d \in Delegators |-> Payout(d, n)])
  <2>1. /\ CompleteUndelegations
        /\ \A n \in DOMAIN totalTokens : cut[n] = 0 \/ cut[n] < totalTokens[n]
        /\ \A n \in Denoms \ DOMAIN totalTokens : cut[n] = 0
        /\ wallet' = [d \in Delegators |-> [n \in Denoms |-> wallet[d][n] + Payout(d, n)]]
        /\ escrow' = [n \in Denoms |-> escrow[n] - Paid(n) - cut[n]]
        /\ totalTokens' = [n \in DOMAIN totalTokens |-> totalTokens[n] - cut[n]]
        /\ collected' = [n \in Denoms |-> collected[n] + cut[n]]
      BY <1>10 DEF EndBlock
  <2>2. UndelInv'
      BY <1>1, <2>1, CompleteKeepsUndelInv
  <2>3. \A n : /\ \A d \in Delegators : Payout(d, n) \in Nat
               /\ Paid(n) \in Nat
               /\ Owed(undelQueue', n) = Owed(undelQueue, n) - Paid(n)
      BY <1>1, <2>1, PayoutBooks DEF UndelInv, UndelStoresFinite
  <2>4. \A n \in Denoms : cut[n] \in Nat
    <3> SUFFICES ASSUME NEW n \in Denoms PROVE cut[n] \in Nat
        OBVIOUS
    <3>1. cut[n] \in {0} \cup Amounts
        OBVIOUS
    <3>2. \A amt \in Amounts : amt \in Nat
        BY AmountsAssumption
    <3> QED
        BY <3>1, <3>2
  <2> HIDE DEF Paid
  <2>5. \A n \in Denoms :
            /\ escrow'[n] = Total(n)' + Owed(undelQueue', n)
            /\ escrow'[n] \in Nat /\ collected'[n] \in Nat
    <3> SUFFICES ASSUME NEW n \in Denoms
                 PROVE  /\ escrow'[n] = Total(n)' + Owed(undelQueue', n)
                        /\ escrow'[n] \in Nat /\ collected'[n] \in Nat
        OBVIOUS
    <3>1. Owed(undelQueue', n) \in Nat
        BY <2>2, OwedNat DEF UndelInv, UndelStoresTyped, UndelStoresFinite
    <3>2. Total(n)' = Total(n) - cut[n] /\ Total(n)' \in Nat
        BY <1>2, <2>1, <2>4 DEF GetOr
    <3>3. collected[n] \in Nat
        BY <1>1 DEF BalancesTyped
    <3>4. escrow'[n] = escrow[n] - Paid(n) - cut[n] /\ collected'[n] = collected[n] + cut[n]
        BY <2>1
    <3> QED
        BY <1>2, <2>3, <2>4, <3>1, <3>2, <3>3, <3>4
  <2>6. BalancesTyped'
    <3>1. wallet' \in [Delegators -> [Denoms -> Nat]]
        BY <1>1, <2>1, <2>3 DEF BalancesTyped
    <3>2. \A n \in DOMAIN totalTokens' : totalTokens'[n] \in Nat
        BY <1>1, <2>1, <2>4 DEF BalancesTyped
    <3>3. escrow' \in [Denoms -> Nat] /\ collected' \in [Denoms -> Nat]
        BY <2>1, <2>5
    <3> QED
        BY <1>1, <2>1, <3>1, <3>2, <3>3 DEF BalancesTyped
  <2> QED
      BY <1>3, <2>2, <2>5, <2>6 DEF CustodyInv
<1>11. CASE UNCHANGED vars
  <2>1. UNCHANGED undelVars /\ UNCHANGED totalTokens /\ UNCHANGED bankVars
      BY <1>11 DEF vars
  <2>2. Custody'
      BY <1>2, <1>3, <1>4, <2>1 DEF bankVars, GetOr
  <2> QED
      BY <1>1, <1>4, <2>1, <2>2 DEF CustodyInv, BalancesTyped, bankVars
<1> QED
    BY <1>5, <1>6, <1>7, <1>8, <1>9, <1>10, <1>11 DEF Next, NextBlock

\* The module account holds the staked and the unbonding tokens, whatever messages, slashes
\* and payouts come (keeper/delegation.go, keeper/slash.go).
THEOREM CustodyInvariant == Spec => []CustodyInv
<1>1. Init => CustodyInv
    BY InitCustodyInv
<1>2. RedelInv /\ CustodyInv /\ [Next]_vars => CustodyInv'
    BY StepCustodyInv DEF RedelInv
<1> QED
    BY <1>1, <1>2, RedelInvariant, PTL DEF Spec

-----------------------------------------------------------------------------
(* The properties that the runs check. *)

PhaseOK == phase \in {"begin", "deliver", "gov"}

\* The block goes through its phases and no others.
LEMMA NextPhaseOK == PhaseOK /\ [Next]_vars => PhaseOK'
<1> USE DEF PhaseOK
<1> SUFFICES ASSUME PhaseOK, [Next]_vars PROVE PhaseOK'
    OBVIOUS
<1>1. InMessages \/ InGov \/ InBegin \/ phase' = "begin" => PhaseOK'
    BY DEF InMessages, InGov, InBegin
<1>2. \A n : CreateAlliance(n) \/ DeleteAlliance(n) => InGov
    BY DEF CreateAlliance, DeleteAlliance
<1>3. \A d, v, w, n, amt :
          Delegate(d, n, amt) \/ Redelegate(d, v, w, n, amt) \/ Undelegate(d, v, n, amt)
              => InMessages
    BY DEF Delegate, Redelegate, Undelegate
<1>4. \A v, f : Slash(v, f) => InBegin
    BY DEF Slash
<1>5. \A gap, cut : EndBlock(gap, cut) => phase' = "begin"
    BY DEF EndBlock
<1>6. CASE UNCHANGED vars
    BY <1>6 DEF vars
<1>7. CASE Next
    BY <1>1, <1>2, <1>3, <1>4, <1>5, <1>7 DEF Next, NextBlock
<1> QED
    BY <1>6, <1>7

\* The invariants together give the types of every variable.
LEMMA TypesFollow == PhaseOK /\ RedelInv /\ CustodyInv => TypeOK
BY DEF PhaseOK, RedelInv, CustodyInv, UndelInv, TypeOK

\* Every balance, total and queued amount is a natural number: no subtraction of the
\* keeper's books, and no slash, however often it visits a bucket, goes below zero.
THEOREM TypeCorrect == Spec => []TypeOK
<1>1. Init => PhaseOK
    BY DEF Init, PhaseOK
<1> QED
    BY <1>1, NextPhaseOK, TypesFollow, RedelInvariant, CustodyInvariant, PTL DEF Spec

\* The module account always covers the live stake and everything queued, so no payout
\* of CompleteUndelegations can fail for want of tokens.
THEOREM CustodyHolds == Spec => []Custody
<1>1. CustodyInv => Custody
    BY DEF CustodyInv
<1> QED
    BY <1>1, CustodyInvariant, PTL

\* The by-validator index is exact in every reachable state.
THEOREM IndexHolds == Spec => []UndelegationIndexExact
<1>1. CustodyInv => UndelegationIndexExact
    BY DEF CustodyInv, UndelInv
<1> QED
    BY <1>1, CustodyInvariant, PTL

\* The redelegation record, index and queue agree in every reachable state.
THEOREM StoresAgreeHolds == Spec => []RedelegationStoresAgree
<1>1. RedelInv => RedelegationStoresAgree
    BY DEF RedelInv
<1> QED
    BY <1>1, RedelInvariant, PTL

\* Redelegated stake does not move on before its redelegation completes.
THEOREM BanHolds == Spec => []NoTransitiveRedelegation
<1>1. RedelInv => NoTransitiveRedelegation
    BY DEF RedelInv
<1> QED
    BY <1>1, RedelInvariant, PTL

\* An entry of zero visits keeps its amount.
LEMMA NoVisit ==
    ASSUME NEW amt \in Nat, NEW f \in Fractions
    PROVE  SlashedAmount(amt, f, 0) = amt
<1> DEFINE g == LeftAfter(amt, f, 0)
<1>1. LeftEquation(amt, f, 0, g)
    BY LeftExists
<1> HIDE DEF g
<1>2. g[0] = amt
    BY <1>1 DEF LeftEquation
<1> QED
    BY <1>2, SlashedIsLeft DEF g

\* A bucket that is due keeps its entries unless it goes as a whole.
Kept == \A key \in DueUndels :
           key \in DOMAIN undelQueue' => undelQueue'[key] = undelQueue[key]

LEMMA StepKept ==
    ASSUME RedelInv, CustodyInv, [Next]_vars
    PROVE  Kept
<1> USE DEF Kept
<1>1. now \in Nat /\ UndelStoresTyped /\ UndelStoresFinite
    BY MaxTimeAssumption, UnbondingTimeAssumption
    DEF RedelInv, CustodyInv, UndelInv, Horizon
<1>2. ASSUME undelQueue' = undelQueue PROVE Kept
    BY <1>2
<1>3. ASSUME NEW d \in Delegators, NEW n \in Denoms, NEW amt \in Amounts,
             NEW v \in Validators, Undelegate(d, v, n, amt)
      PROVE  Kept
  <2> DEFINE k == [ct |-> CompletionTime, del |-> d]
             e == [val |-> v, denom |-> n, amt |-> amt]
  <2>1. undelQueue' = Enqueue(undelQueue, k, e)
      BY <1>3 DEF Undelegate, QueueUndelegation
  <2>2. k \notin DueUndels
      BY <1>1, UnbondingTimeAssumption DEF DueUndels, CompletionTime
  <2> HIDE DEF k, e
  <2>3. \A key \in DOMAIN undelQueue : key # k => undelQueue'[key] = undelQueue[key]
      BY <2>1 DEF Enqueue, Put
  <2> QED
      BY <2>2, <2>3 DEF DueUndels
<1>4. ASSUME NEW v \in Validators, NEW f \in Fractions, Slash(v, f) PROVE Kept
  <2>1. SlashUndelegations(v, f)
      BY <1>4 DEF Slash
  <2> SUFFICES ASSUME NEW key \in DueUndels PROVE undelQueue'[key] = undelQueue[key]
      OBVIOUS
  <2>2. key \in DOMAIN undelQueue /\ key.ct < now /\ key.ct \in Nat
      BY <1>1 DEF DueUndels, UndelStoresTyped, UndelKeys
  <2>3. Visits(v, key) = {}
      BY <1>1, <2>2 DEF Visits
  <2>4. Cardinality(Visits(v, key)) = 0
      BY <2>3, FS_EmptySet
  <2> DEFINE b == undelQueue[key]
  <2>5. b \in Seq(UndelEntries)
      BY <1>1, <2>2 DEF UndelStoresTyped, QueueOf
  <2>6. undelQueue'[key] = [i \in DOMAIN b |-> SlashedEntry(b[i], v, f, key)]
      BY <2>1, <2>2 DEF SlashUndelegations
  <2> HIDE DEF b
  <2>7. \A i \in DOMAIN b : SlashedEntry(b[i], v, f, key) = b[i]
    <3> SUFFICES ASSUME NEW i \in DOMAIN b PROVE SlashedEntry(b[i], v, f, key) = b[i]
        OBVIOUS
    <3>1. b[i] \in UndelEntries
        BY <2>5
    <3>2. SlashedAmount(b[i].amt, f, 0) = b[i].amt
        BY <3>1, NoVisit DEF UndelEntries
    <3>3. SlashedEntry(b[i], v, f, key) = [b[i] EXCEPT !.amt = b[i].amt]
        BY <2>4, <3>2 DEF SlashedEntry
    <3> QED
        BY <3>1, <3>3 DEF UndelEntries
  <2> QED
      BY <2>5, <2>6, <2>7 DEF b
<1>5. ASSUME NEW gap, NEW cut, EndBlock(gap, cut) PROVE Kept
  <2>1. undelQueue' = Without(undelQueue, DueUndels)
      BY <1>5 DEF EndBlock, CompleteUndelegations
  <2>2. DOMAIN undelQueue' = DOMAIN undelQueue \ DueUndels
      BY <2>1, QueuedWithout
  <2> QED
      BY <2>2
<1>6. ASSUME NEW n \in Denoms, CreateAlliance(n) \/ DeleteAlliance(n) PROVE Kept
    BY <1>2, <1>6 DEF CreateAlliance, DeleteAlliance, undelVars
<1>7. ASSUME NEW d \in Delegators, NEW n \in Denoms, NEW amt \in Amounts,
             \/ Delegate(d, n, amt)
             \/ \E src, dst \in Validators : Redelegate(d, src, dst, n, amt)
      PROVE  Kept
    BY <1>2, <1>7 DEF Delegate, Redelegate, undelVars
<1>8. CASE UNCHANGED vars
    BY <1>2, <1>8 DEF vars, undelVars
<1> QED
    BY <1>3, <1>4, <1>5, <1>6, <1>7, <1>8 DEF Next, NextBlock

\* No step changes a bucket that is due, except to pay it out.
THEOREM MaturedNotSlashedHolds == Spec => MaturedNotSlashed
<1>1. RedelInv /\ CustodyInv /\ [Next]_vars => [Kept]_vars
    BY StepKept
<1>2. MaturedNotSlashed <=> [][Kept]_vars
    BY DEF MaturedNotSlashed, Kept
<1> QED
    BY <1>1, <1>2, RedelInvariant, CustodyInvariant, PTL DEF Spec

-----------------------------------------------------------------------------
(* Genesis: what the chain guarantees of its unbonding stores survives an  *)
(* export and a restart, and what the import does to the queue of          *)
(* redelegations.                                                          *)

(* The import as a recursion over the positions of the exported records. *)

ImportEquation(order, g) ==
    g = [s \in SUBSET DOMAIN order |->
            IF s = {} THEN NoEntry
            ELSE ImportRedelegation(g[s \ {Max(s)}], order[Max(s)])]
Imports(order) == CHOOSE g : ImportEquation(order, g)

LEMMA ImportIsFold ==
    ASSUME NEW order
    PROVE  FoldLeft(ImportRedelegation, NoEntry, order) = Imports(order)[DOMAIN order]
BY DEF FoldLeft, MapThenFoldSet, Imports, ImportEquation

\* A set of positions has a last one.
LEMMA LastPosition ==
    ASSUME NEW n \in Nat, NEW s \in SUBSET (1 .. n), s # {}
    PROVE  Max(s) \in s
<1> DEFINE G == {T \in SUBSET s : T # {} => \E x \in T : \A y \in T : x >= y}
<1>1. IsFiniteSet(s)
  <2>1. IsFiniteSet(1 .. n)
      BY FS_Interval
  <2> QED
      BY <2>1, FS_Subset
<1>2. {} \in G
    OBVIOUS
<1>3. ASSUME NEW T \in SUBSET s, NEW x \in s \ T, T \in G PROVE T \cup {x} \in G
  <2>1. CASE T = {}
      BY <2>1
  <2>2. CASE T # {}
    <3>1. PICK m \in T : \A y \in T : m >= y
        BY <1>3, <2>2
    <3>2. CASE x =< m
      <4>1. \A y \in T \cup {x} : m >= y
          BY <3>1, <3>2
      <4> QED
          BY <4>1
    <3>3. CASE ~ (x =< m)
      <4>1. \A y \in T \cup {x} : x >= y
          BY <3>1, <3>3
      <4> QED
          BY <4>1
    <3> QED
        BY <3>2, <3>3
  <2> QED
      BY <2>1, <2>2
<1>4. s \in G
  <2> HIDE DEF G
  <2> QED BY <1>1, <1>2, <1>3, FiniteSetInduction
<1> QED
    BY <1>4 DEF Max

LEMMA LastOfInterval ==
    ASSUME NEW n \in Nat
    PROVE  Max(1 .. n + 1) = n + 1
<1>1. \E x \in 1 .. n + 1 : \A y \in 1 .. n + 1 : x >= y
    OBVIOUS
<1>2. Max(1 .. n + 1) \in 1 .. n + 1 /\ \A y \in 1 .. n + 1 : Max(1 .. n + 1) >= y
    BY <1>1 DEF Max
<1> QED
    BY <1>2

\* The recursion has a solution.
LEMMA ImportsExist ==
    ASSUME NEW order, NEW len \in Nat, DOMAIN order = 1 .. len
    PROVE  ImportEquation(order, Imports(order))
<1> DEFINE S == 1 .. len
           Step(g, s) == IF s = {} THEN NoEntry
                         ELSE ImportRedelegation(g[s \ {Max(s)}], order[Max(s)])
           Upto(g, n) == \A s \in SUBSET S : Cardinality(s) =< n => g[s] = Step(g, s)
           N == {n \in Nat : \E g : Upto(g, n)}
<1>0. IsFiniteSet(S)
    BY FS_Interval
<1>1. \A s \in SUBSET S : IsFiniteSet(s) /\ Cardinality(s) \in Nat
    BY <1>0, FS_Subset, FS_CardinalityType
<1>2. \A s \in SUBSET S : s # {} =>
          /\ Max(s) \in s
          /\ s \ {Max(s)} \in SUBSET S
          /\ Cardinality(s \ {Max(s)}) = Cardinality(s) - 1
    BY <1>1, FS_RemoveElement, LastPosition
<1>3. 0 \in N
  <2>1. Upto([s \in SUBSET S |-> NoEntry], 0)
      BY <1>1, FS_EmptySet
  <2> QED
      BY <2>1
<1>4. ASSUME NEW n \in Nat, n \in N PROVE n + 1 \in N
  <2>1. PICK g : Upto(g, n)
      BY <1>4
  <2> DEFINE h == [s \in SUBSET S |-> IF Cardinality(s) =< n THEN g[s] ELSE Step(g, s)]
  <2>2. ASSUME NEW s \in SUBSET S, Cardinality(s) =< n + 1
        PROVE  h[s] = Step(h, s)
    <3>1. CASE s = {}
      <4>1. Cardinality(s) =< n
          BY <3>1, FS_EmptySet
      <4> QED
          BY <2>1, <3>1, <4>1
    <3>2. CASE s # {}
      <4>1. Cardinality(s \ {Max(s)}) =< n /\ s \ {Max(s)} \in SUBSET S
          BY <1>1, <1>2, <2>2, <3>2
      <4>2. h[s \ {Max(s)}] = g[s \ {Max(s)}]
          BY <4>1
      <4>3. h[s] = Step(g, s)
          BY <2>1
      <4> HIDE DEF h
      <4> QED
          BY <3>2, <4>2, <4>3
    <3> QED
        BY <3>1, <3>2
  <2>3. Upto(h, n + 1)
      BY <2>2
  <2>4. \E f : Upto(f, n + 1)
    <3> HIDE DEF h, Upto
    <3> QED BY <2>3
  <2> HIDE DEF Upto
  <2> QED
      BY <2>4
<1>5. Nat \subseteq N
  <2> HIDE DEF N
  <2> QED BY <1>3, <1>4, NatSetInduction
<1>6. PICK g : Upto(g, Cardinality(S))
    BY <1>1, <1>5
<1>7. \A s \in SUBSET S : Cardinality(s) =< Cardinality(S)
    BY <1>0, FS_Subset
<1> DEFINE h == [s \in SUBSET S |-> g[s]]
<1>8. \A s \in SUBSET S : g[s] = Step(h, s)
    BY <1>2, <1>6, <1>7
<1>9. h = [s \in SUBSET S |-> Step(h, s)]
  <2> DEFINE r == [s \in SUBSET S |-> Step(h, s)]
  <2>1. \A s \in SUBSET S : h[s] = r[s]
      BY <1>8
  <2>2. h = [s \in SUBSET S |-> h[s]] /\ r = [s \in SUBSET S |-> r[s]]
      OBVIOUS
  <2>3. h = r
    <3> HIDE DEF h, r
    <3> QED BY <2>1, <2>2
  <2> HIDE DEF h, Step
  <2> QED
      BY <2>3
<1>10. ImportEquation(order, h)
    BY <1>9, Zenon DEF ImportEquation
<1> HIDE DEF h
<1> QED
    BY <1>10 DEF Imports

\* The import, record by record.
LEMMA ImportAt ==
    ASSUME NEW order, NEW len \in Nat, DOMAIN order = 1 .. len
    PROVE  /\ Imports(order)[1 .. 0] = NoEntry
           /\ \A k \in 0 .. len - 1 :
                 Imports(order)[1 .. k + 1] =
                     ImportRedelegation(Imports(order)[1 .. k], order[k + 1])
<1> DEFINE g == Imports(order)
           S == 1 .. len
           rhs == [s \in SUBSET S |->
                      IF s = {} THEN NoEntry
                      ELSE ImportRedelegation(g[s \ {Max(s)}], order[Max(s)])]
<1>0. ImportEquation(order, g)
    BY ImportsExist
<1>1. g = rhs
    BY <1>0, Zenon DEF ImportEquation
<1>2. rhs[{}] = NoEntry
    OBVIOUS
<1>3. \A T \in SUBSET S : T # {} =>
          rhs[T] = ImportRedelegation(g[T \ {Max(T)}], order[Max(T)])
    OBVIOUS
<1> HIDE DEF rhs, g
<1>4. g[1 .. 0] = NoEntry
  <2>1. 1 .. 0 = {}
      OBVIOUS
  <2> QED BY <1>1, <1>2, <2>1
<1>5. ASSUME NEW k \in 0 .. len - 1
      PROVE  g[1 .. k + 1] = ImportRedelegation(g[1 .. k], order[k + 1])
  <2> DEFINE T == 1 .. k + 1
  <2>1. T \in SUBSET S /\ T # {} /\ T \ {k + 1} = 1 .. k
      OBVIOUS
  <2>2. Max(T) = k + 1
      BY LastOfInterval
  <2>3. rhs[T] = ImportRedelegation(g[T \ {Max(T)}], order[Max(T)])
      BY <1>3, <2>1
  <2> HIDE DEF T
  <2>4. g[T] = ImportRedelegation(g[1 .. k], order[k + 1])
      BY <1>1, <2>1, <2>2, <2>3, Zenon
  <2> QED BY <2>4 DEF T
<1> QED
    BY <1>4, <1>5 DEF g

-----------------------------------------------------------------------------
(* What a queue holds for one record. *)

ShareOf(e, key) == IF RedelKey(e, key.ct) = key THEN e.amt ELSE 0
QueuedIn(bucket, key) == SumFunction([i \in DOMAIN bucket |-> ShareOf(bucket[i], key)])
HeldFor(queue, key) == QueuedIn(GetOr(queue, key.ct, <<>>), key)

LEMMA ShareOfNat ==
    ASSUME NEW e \in RedelEntries, NEW key
    PROVE  ShareOf(e, key) \in Nat
BY DEF ShareOf, RedelEntries

\* For a key that is queued, this is the sum that the balance of a record is held against.
LEMMA QueuedForIsHeld ==
    ASSUME NEW key
    PROVE  /\ key.ct \in DOMAIN redelQueue => QueuedFor(key) = HeldFor(redelQueue, key)
           /\ key.ct \in DOMAIN redelQueue' => QueuedFor(key)' = HeldFor(redelQueue', key)
<1>1. \A q : key.ct \in DOMAIN q => GetOr(q, key.ct, <<>>) = q[key.ct]
    BY DEF GetOr
<1> QED
    BY <1>1 DEF QueuedFor, HeldFor, QueuedIn, ShareOf, RedelKey

\* No share of a bucket where no entry is of this record.
LEMMA QueuedInNone ==
    ASSUME NEW bucket \in Seq(RedelEntries), NEW key,
           \A i \in DOMAIN bucket : RedelKey(bucket[i], key.ct) # key
    PROVE  QueuedIn(bucket, key) = 0
<1> DEFINE f == [i \in DOMAIN bucket |-> ShareOf(bucket[i], key)]
<1>1. IsFiniteSet(DOMAIN bucket)
  <2>1. DOMAIN bucket = 1 .. Len(bucket) /\ Len(bucket) \in Nat
      OBVIOUS
  <2> QED BY <2>1, FS_Interval
<1>2. \A i \in DOMAIN bucket : f[i] = 0
    BY DEF ShareOf
<1>3. QueuedIn(bucket, key) = SumFunctionOnSet(f, DOMAIN bucket)
    BY DEF QueuedIn, SumFunction
<1> HIDE DEF f
<1> QED
    BY <1>1, <1>2, <1>3, SumZero

\* One entry more adds its share.
LEMMA QueuedInAppend ==
    ASSUME NEW bucket \in Seq(RedelEntries), NEW e \in RedelEntries, NEW key
    PROVE  /\ QueuedIn(bucket, key) \in Nat
           /\ QueuedIn(Append(bucket, e), key) = QueuedIn(bucket, key) + ShareOf(e, key)
<1> DEFINE longer == Append(bucket, e)
           len == Len(bucket)
           f == [i \in DOMAIN bucket |-> ShareOf(bucket[i], key)]
           g == [i \in DOMAIN longer |-> ShareOf(longer[i], key)]
<1>1. /\ longer \in Seq(RedelEntries) /\ len \in Nat
      /\ DOMAIN bucket = 1 .. len /\ DOMAIN longer = (1 .. len) \cup {len + 1}
      /\ longer[len + 1] = e /\ \A i \in 1 .. len : longer[i] = bucket[i]
    OBVIOUS
<1>2. IsFiniteSet(1 .. len) /\ len + 1 \notin 1 .. len
    BY <1>1, FS_Interval
<1>3. \A i \in 1 .. len : f[i] \in Nat /\ f[i] \in Int /\ g[i] = f[i]
  <2> SUFFICES ASSUME NEW i \in 1 .. len PROVE f[i] \in Nat /\ f[i] \in Int /\ g[i] = f[i]
      OBVIOUS
  <2>1. bucket[i] \in RedelEntries /\ i \in DOMAIN bucket /\ i \in DOMAIN longer
      BY <1>1
  <2>2. f[i] = ShareOf(bucket[i], key) /\ g[i] = ShareOf(bucket[i], key)
      BY <1>1, <2>1
  <2> HIDE DEF f, g
  <2> QED
      BY <2>1, <2>2, ShareOfNat
<1>4. g[len + 1] = ShareOf(e, key) /\ ShareOf(e, key) \in Nat
    BY <1>1, ShareOfNat
<1>5. QueuedIn(longer, key) = SumFunctionOnSet(g, (1 .. len) \cup {len + 1})
  <2>1. QueuedIn(longer, key) = SumFunctionOnSet(g, DOMAIN longer)
      BY DEF QueuedIn, SumFunction
  <2> QED BY <1>1, <2>1
<1>6. QueuedIn(bucket, key) = SumFunctionOnSet(f, 1 .. len)
  <2>1. QueuedIn(bucket, key) = SumFunctionOnSet(f, DOMAIN bucket)
      BY DEF QueuedIn, SumFunction
  <2> QED BY <1>1, <2>1
<1> HIDE DEF f, g, len, longer
<1>7. SumFunctionOnSet(g, 1 .. len) = SumFunctionOnSet(f, 1 .. len)
    BY <1>2, <1>3, SumEqual
<1>8. SumFunctionOnSet(f, 1 .. len) \in Nat
    BY <1>2, <1>3, SumNat
<1>9. SumFunctionOnSet(g, (1 .. len) \cup {len + 1}) =
          SumFunctionOnSet(g, 1 .. len) + g[len + 1]
  <2> DEFINE S == 1 .. len
             x == len + 1
  <2>1. IsFiniteSet(S) /\ x \notin S /\ g[x] \in Int /\ \A i \in S : g[i] \in Int
      BY <1>2, <1>3, <1>4
  <2> HIDE DEF S, x
  <2>2. SumFunctionOnSet(g, S \cup {x}) = SumFunctionOnSet(g, S) + g[x]
      BY <2>1, SumAdd
  <2> QED BY <2>2 DEF S, x
<1> QED
    BY <1>4, <1>5, <1>6, <1>7, <1>8, <1>9 DEF longer

LEMMA HeldForEnqueue ==
    ASSUME NEW queue, QueueOf(queue, RedelEntries), NEW e \in RedelEntries, NEW ct, NEW key
    PROVE  /\ HeldFor(queue, key) \in Nat
           /\ HeldFor(Enqueue(queue, ct, e), key) =
                  HeldFor(queue, key) + (IF RedelKey(e, ct) = key THEN e.amt ELSE 0)
<1> DEFINE old == GetOr(queue, ct, <<>>)
           after == Enqueue(queue, ct, e)
<1>1. \A c : GetOr(queue, c, <<>>) \in Seq(RedelEntries)
    BY DEF GetOr, QueueOf
<1>2. HeldFor(queue, key) \in Nat
    BY <1>1, QueuedInAppend DEF HeldFor
<1>3. CASE key.ct = ct
  <2>1. GetOr(after, ct, <<>>) = Append(old, e)
      BY DEF GetOr, Enqueue, Put
  <2>2. old \in Seq(RedelEntries)
      BY <1>1
  <2> HIDE DEF old, after
  <2>3. QueuedIn(Append(old, e), key) = QueuedIn(old, key) + ShareOf(e, key)
      BY <2>2, QueuedInAppend
  <2>4. HeldFor(after, key) = QueuedIn(old, key) + ShareOf(e, key)
      BY <1>3, <2>1, <2>3 DEF HeldFor
  <2>5. HeldFor(queue, key) = QueuedIn(old, key)
      BY <1>3 DEF HeldFor, old
  <2>6. ShareOf(e, key) = IF RedelKey(e, ct) = key THEN e.amt ELSE 0
      BY <1>3 DEF ShareOf
  <2>7. HeldFor(after, key) =
            HeldFor(queue, key) + (IF RedelKey(e, ct) = key THEN e.amt ELSE 0)
      BY <2>4, <2>5, <2>6
  <2> QED
      BY <1>2, <2>7 DEF after
<1>4. CASE key.ct # ct
  <2>1. GetOr(after, key.ct, <<>>) = GetOr(queue, key.ct, <<>>)
      BY <1>4 DEF GetOr, Enqueue, Put
  <2>2. RedelKey(e, ct) # key
      BY <1>4 DEF RedelKey
  <2> HIDE DEF after
  <2>3. HeldFor(after, key) = HeldFor(queue, key)
      BY <2>1 DEF HeldFor
  <2>4. HeldFor(after, key) =
            HeldFor(queue, key) + (IF RedelKey(e, ct) = key THEN e.amt ELSE 0)
      BY <1>2, <2>2, <2>3
  <2> QED
      BY <1>2, <2>4 DEF after
<1> QED
    BY <1>3, <1>4

-----------------------------------------------------------------------------
(* What InitGenesis makes of the records. *)

\* A record is exported as an entry that would have made it.
LEMMA ExportedTyped ==
    ASSUME RedelStoresTyped, NEW key \in DOMAIN redels
    PROVE  /\ key \in RedelKeys
           /\ ExportedEntry(key) \in RedelEntries
           /\ RedelKey(ExportedEntry(key), key.ct) = key
           /\ \A ct : RedelKey(ExportedEntry(key), ct) = key => ct = key.ct
           /\ ExportedEntry(key).amt = redels[key].amt
BY DEF RedelStoresTyped, RedelKeys, RedelEntries, ExportedEntry, RedelKey

\* An injective enumeration of a finite set reaches every element.
LEMMA OrderIsOnto ==
    ASSUME NEW S, IsFiniteSet(S), NEW order \in SetToSeqs(S)
    PROVE  /\ Cardinality(S) \in Nat
           /\ DOMAIN order = 1 .. Cardinality(S)
           /\ \A i \in DOMAIN order : order[i] \in S
           /\ \A i, j \in DOMAIN order : i # j => order[i] # order[j]
           /\ \A x \in S : \E i \in DOMAIN order : order[i] = x
<1> DEFINE D == 1 .. Cardinality(S)
<1>1. Cardinality(S) \in Nat
    BY FS_CardinalityType
<1>2. IsFiniteSet(D) /\ Cardinality(D) = Cardinality(S)
    BY <1>1, FS_Interval
<1>3. order \in [D -> S] /\ \A i, j \in D : i # j => order[i] # order[j]
    BY DEF SetToSeqs
<1>4. order \in Injection(D, S)
    BY <1>3 DEF Injection, IsInjective
<1>5. order \in Surjection(D, S)
  <2> HIDE DEF D
  <2> QED BY <1>2, <1>4, FS_Injection
<1> QED
    BY <1>1, <1>3, <1>5 DEF Surjection

\* One record more: twice its entry, and its balance twice.
ImportedShare(key, other) == IF key = other THEN 2 * redels[key].amt ELSE 0

LEMMA ImportOne ==
    ASSUME RedelStoresTyped, NEW key \in DOMAIN redels,
           NEW queue, QueueOf(queue, RedelEntries), NEW other,
           NEW after, after = ImportRedelegation(queue, key)
    PROVE  /\ DOMAIN after = DOMAIN queue \cup {key.ct}
           /\ QueueOf(after, RedelEntries)
           /\ Queued(after) = Queued(queue) \cup {<<ExportedEntry(key), key.ct>>}
           /\ HeldFor(queue, other) \in Nat
           /\ HeldFor(after, other) = HeldFor(queue, other) + ImportedShare(key, other)
<1> DEFINE e == ExportedEntry(key)
           ct == key.ct
           once == Enqueue(queue, ct, e)
<1>1. /\ e \in RedelEntries
      /\ RedelKey(e, ct) = key
      /\ e.amt = redels[key].amt
    BY ExportedTyped
<1>2. after = Enqueue(once, ct, e)
    BY DEF ImportRedelegation
<1> HIDE DEF e, ct
<1>3. DOMAIN once = DOMAIN queue \cup {ct} /\ DOMAIN after = DOMAIN once \cup {ct}
    BY <1>2 DEF Enqueue, Put
<1>4. QueueOf(once, RedelEntries) /\ Queued(once) = Queued(queue) \cup {<<e, ct>>}
    BY <1>1, QueuedAppend
<1>5. /\ HeldFor(queue, other) \in Nat
      /\ HeldFor(once, other) =
             HeldFor(queue, other) + (IF RedelKey(e, ct) = other THEN e.amt ELSE 0)
    BY <1>1, HeldForEnqueue
<1> HIDE DEF once
<1>6. QueueOf(after, RedelEntries) /\ Queued(after) = Queued(once) \cup {<<e, ct>>}
    BY <1>1, <1>2, <1>4, QueuedAppend
<1>7. HeldFor(after, other) =
          HeldFor(once, other) + (IF RedelKey(e, ct) = other THEN e.amt ELSE 0)
    BY <1>1, <1>2, <1>4, HeldForEnqueue
<1>8. HeldFor(after, other) =
          HeldFor(queue, other) + ImportedShare(key, other)
  <2>1. e.amt \in Nat
      BY <1>1 DEF RedelEntries
  <2> QED
      BY <1>1, <1>5, <1>7, <2>1 DEF ImportedShare
<1>9. /\ DOMAIN after = DOMAIN queue \cup {ct}
      /\ Queued(after) = Queued(queue) \cup {<<e, ct>>}
    BY <1>3, <1>4, <1>6
<1> QED
    BY <1>5, <1>6, <1>8, <1>9 DEF e, ct

\* After k records the queue holds their entries and nothing else.
LEMMA ImportedUpTo ==
    ASSUME RedelStoresTyped, IsFiniteSet(DOMAIN redels),
           NEW order \in SetToSeqs(DOMAIN redels), NEW other
    PROVE  LET Keys(k) == {order[i] : i \in 1 .. k}
               Part(k) == Imports(order)[1 .. k]
           IN  \A k \in 0 .. Cardinality(DOMAIN redels) :
                   /\ DOMAIN Part(k) = {key.ct : key \in Keys(k)}
                   /\ QueueOf(Part(k), RedelEntries)
                   /\ Queued(Part(k)) = {<<ExportedEntry(key), key.ct>> : key \in Keys(k)}
                   /\ HeldFor(Part(k), other) =
                         IF other \in Keys(k) THEN 2 * redels[other].amt ELSE 0
<1> DEFINE len == Cardinality(DOMAIN redels)
           Keys(k) == {order[i] : i \in 1 .. k}
           Part(k) == Imports(order)[1 .. k]
           Good(k) == /\ DOMAIN Part(k) = {key.ct : key \in Keys(k)}
                      /\ QueueOf(Part(k), RedelEntries)
                      /\ Queued(Part(k)) = {<<ExportedEntry(key), key.ct>> : key \in Keys(k)}
                      /\ HeldFor(Part(k), other) =
                            IF other \in Keys(k) THEN 2 * redels[other].amt ELSE 0
           N == {k \in Nat : k =< len => Good(k)}
<1>1. /\ len \in Nat
      /\ DOMAIN order = 1 .. len
      /\ \A i \in 1 .. len : order[i] \in DOMAIN redels
      /\ \A i, j \in 1 .. len : i # j => order[i] # order[j]
    BY OrderIsOnto
<1> HIDE DEF len
<1>2. Part(0) = NoEntry
    BY <1>1, ImportAt
<1>3. \A k \in 0 .. len - 1 : Part(k + 1) = ImportRedelegation(Part(k), order[k + 1])
    BY <1>1, ImportAt
<1> HIDE DEF Part
<1>4. Good(0)
  <2>1. Keys(0) = {}
      OBVIOUS
  <2>2. DOMAIN NoEntry = {}
      BY DEF NoEntry
  <2>3. Queued(NoEntry) = {}
      BY <2>2 DEF Queued
  <2>4. HeldFor(NoEntry, other) = 0
    <3>1. GetOr(NoEntry, other.ct, <<>>) = <<>>
        BY <2>2 DEF GetOr
    <3>2. QueuedIn(<<>>, other) = 0
      <4>1. <<>> \in Seq(RedelEntries) /\ DOMAIN <<>> = {}
          OBVIOUS
      <4> QED BY <4>1, QueuedInNone
    <3> QED BY <3>1, <3>2 DEF HeldFor
  <2> QED
      BY <1>2, <2>1, <2>2, <2>3, <2>4 DEF QueueOf
<1>5. ASSUME NEW k \in Nat, k \in N PROVE k + 1 \in N
  <2> SUFFICES ASSUME k + 1 =< len PROVE Good(k + 1)
      OBVIOUS
  <2> DEFINE key == order[k + 1]
             after == ImportRedelegation(Part(k), key)
  <2>1. k \in 0 .. len - 1 /\ k + 1 \in 1 .. len /\ Good(k)
      BY <1>1, <1>5
  <2>2. key \in DOMAIN redels /\ key \notin Keys(k)
      BY <1>1, <2>1
  <2>3. Keys(k + 1) = Keys(k) \cup {key}
    <3>1. 1 .. k + 1 = (1 .. k) \cup {k + 1}
        OBVIOUS
    <3> QED BY <3>1
  <2>4. Part(k + 1) = after
      BY <1>3, <2>1
  <2> HIDE DEF Keys, key
  <2>5. /\ DOMAIN after = DOMAIN Part(k) \cup {key.ct}
        /\ QueueOf(after, RedelEntries)
        /\ Queued(after) = Queued(Part(k)) \cup {<<ExportedEntry(key), key.ct>>}
        /\ HeldFor(Part(k), other) \in Nat
        /\ HeldFor(after, other) = HeldFor(Part(k), other) + ImportedShare(key, other)
    <3>1. QueueOf(Part(k), RedelEntries)
        BY <2>1
    <3> QED
        BY <2>2, <3>1, ImportOne
  <2> HIDE DEF after
  <2>6. HeldFor(after, other) =
            IF other \in Keys(k) \cup {key} THEN 2 * redels[other].amt ELSE 0
    <3>1. redels[key].amt \in Nat
        BY <2>2 DEF RedelStoresTyped
    <3>2. CASE key = other
        BY <2>1, <2>2, <2>5, <3>1, <3>2 DEF ImportedShare
    <3>3. CASE key # other
        BY <2>1, <2>5, <3>3 DEF ImportedShare
    <3> QED
        BY <3>2, <3>3
  <2>7. /\ DOMAIN after = {x.ct : x \in Keys(k) \cup {key}}
        /\ Queued(after) = {<<ExportedEntry(x), x.ct>> : x \in Keys(k) \cup {key}}
      BY <2>1, <2>5
  <2> QED
      BY <2>3, <2>4, <2>5, <2>6, <2>7
<1>6. Nat \subseteq N
  <2> HIDE DEF N
  <2>1. 0 \in N
      BY <1>4 DEF N
  <2> QED BY <1>5, <2>1, NatSetInduction
<1>7. \A k \in 0 .. len : Good(k)
  <2> HIDE DEF Good
  <2> QED BY <1>1, <1>6
<1> QED
    BY <1>7, Zenon DEF Part, len

\* InitGenesis rebuilds the redelegation queue: each record is queued under its own
\* completion time, with its balance counted twice.
LEMMA ImportMakes ==
    ASSUME RedelStoresTyped, IsFiniteSet(DOMAIN redels), ImportRedelegations
    PROVE  /\ DOMAIN redelQueue' = {key.ct : key \in DOMAIN redels}
           /\ QueueOf(redelQueue', RedelEntries)
           /\ PendingRedels' = {<<ExportedEntry(key), key.ct>> : key \in DOMAIN redels}
           /\ \A key \in DOMAIN redels : HeldFor(redelQueue', key) = 2 * redels[key].amt
<1> DEFINE len == Cardinality(DOMAIN redels)
<1>1. PICK order \in SetToSeqs(DOMAIN redels) :
          redelQueue' = FoldLeft(ImportRedelegation, NoEntry, order)
    BY DEF ImportRedelegations
<1>2. /\ len \in Nat
      /\ DOMAIN order = 1 .. len
      /\ \A i \in DOMAIN order : order[i] \in DOMAIN redels
      /\ \A key \in DOMAIN redels : \E i \in DOMAIN order : order[i] = key
    BY OrderIsOnto
<1>3. redelQueue' = Imports(order)[1 .. len]
  <2>1. FoldLeft(ImportRedelegation, NoEntry, order) = Imports(order)[DOMAIN order]
      BY ImportIsFold
  <2> QED BY <1>1, <1>2, <2>1
<1>4. {order[i] : i \in 1 .. len} = DOMAIN redels
    BY <1>2
<1>5. ASSUME NEW other
      PROVE  /\ DOMAIN redelQueue' = {key.ct : key \in DOMAIN redels}
             /\ QueueOf(redelQueue', RedelEntries)
             /\ Queued(redelQueue') = {<<ExportedEntry(key), key.ct>> : key \in DOMAIN redels}
             /\ HeldFor(redelQueue', other) =
                    IF other \in DOMAIN redels THEN 2 * redels[other].amt ELSE 0
  <2>1. len \in 0 .. len
      BY <1>2
  <2> QED
      BY <1>3, <1>4, <2>1, ImportedUpTo
<1>6. PendingRedels' = Queued(redelQueue')
    BY DEF PendingRedels
<1> QED
    BY <1>5, <1>6

-----------------------------------------------------------------------------
(* The redelegation stores over steps of the chain and restarts. *)

\* What a step of the chain does to the redelegations.
Adds(e) ==
    /\ e.src # e.dst
    /\ ~HasRedelegation(e.del, e.src, e.denom)
    /\ AddRedelegation(e)
    /\ now' = now

RedelStep ==
    \/ UNCHANGED <<now, redelVars>>
    \/ \E e \in RedelEntries : Adds(e)
    \/ CompleteRedelegations /\ now' \in 0 .. Horizon /\ now =< now'

LEMMA StepOnRedels ==
    ASSUME now \in 0 .. Horizon, [Next]_vars
    PROVE  RedelStep
<1>1. ASSUME NEW n \in Denoms, CreateAlliance(n) \/ DeleteAlliance(n) PROVE RedelStep
    BY <1>1 DEF RedelStep, CreateAlliance, DeleteAlliance
<1>2. ASSUME NEW d \in Delegators, NEW n \in Denoms, NEW amt \in Amounts,
             Delegate(d, n, amt)
      PROVE  RedelStep
    BY <1>2 DEF RedelStep, Delegate
<1>3. ASSUME NEW d \in Delegators, NEW n \in Denoms, NEW amt \in Amounts,
             NEW src \in Validators, NEW dst \in Validators,
             Redelegate(d, src, dst, n, amt)
      PROVE  RedelStep
  <2> DEFINE e == [del |-> d, src |-> src, dst |-> dst, denom |-> n, amt |-> amt]
  <2>1. e \in RedelEntries
      BY AmountsAssumption DEF RedelEntries
  <2>2. e.src # e.dst /\ ~HasRedelegation(e.del, e.src, e.denom)
      BY <1>3 DEF Redelegate
  <2>3. AddRedelegation(e) /\ now' = now
      BY <1>3 DEF Redelegate
  <2> HIDE DEF e
  <2> QED
      BY <2>1, <2>2, <2>3 DEF RedelStep, Adds
<1>4. ASSUME NEW d \in Delegators, NEW n \in Denoms, NEW amt \in Amounts,
             NEW v \in Validators, Undelegate(d, v, n, amt)
      PROVE  RedelStep
    BY <1>4 DEF RedelStep, Undelegate
<1>5. ASSUME NEW v \in Validators, NEW f \in Fractions, Slash(v, f) PROVE RedelStep
    BY <1>5 DEF RedelStep, Slash
<1>6. ASSUME NEW gap \in BlockGaps, NEW cut, EndBlock(gap, cut) PROVE RedelStep
  <2>1. CompleteRedelegations /\ now' = Min2(now + gap, Horizon)
      BY <1>6 DEF EndBlock
  <2>2. now' \in 0 .. Horizon /\ now =< now'
      BY <2>1, BlockGapsAssumption, MaxTimeAssumption, UnbondingTimeAssumption
      DEF Min2, Horizon
  <2> QED
      BY <2>1, <2>2 DEF RedelStep
<1>7. CASE UNCHANGED vars
    BY <1>7 DEF RedelStep, vars
<1> QED
    BY <1>1, <1>2, <1>3, <1>4, <1>5, <1>6, <1>7 DEF Next, NextBlock

\* A record names the source of one of the entries merged into it, so importing it under
\* that source creates no redelegation that was not pending.
SourcesPending ==
    \A key \in DOMAIN redels :
        \E p \in PendingRedels : RedelKey(p[1], p[2]) = key /\ p[1].src = redels[key].src

\* The inductive invariant of the records under restarts.
RecordInv ==
    /\ RedelInv
    /\ IsFiniteSet(DOMAIN redels)
    /\ SourcesPending

\* AddRedelegation, on one record.
LEMMA AddOnRecords ==
    ASSUME RedelStoresTyped, now \in Nat, NEW e \in RedelEntries, AddRedelegation(e)
    PROVE  LET key == RedelKey(e, CompletionTime)
           IN  /\ DOMAIN redels' = DOMAIN redels \cup {key}
               /\ \A x \in DOMAIN redels : x # key => redels'[x] = redels[x]
               /\ key \in DOMAIN redels =>
                      /\ redels'[key].src = redels[key].src
                      /\ redels'[key].amt = redels[key].amt + e.amt
               /\ key \notin DOMAIN redels =>
                      redels'[key].src = e.src /\ redels'[key].amt = e.amt
               /\ PendingRedels' = PendingRedels \cup {<<e, CompletionTime>>}
               /\ redelQueue' = Enqueue(redelQueue, CompletionTime, e)
<1> DEFINE ct == CompletionTime
           key == RedelKey(e, ct)
           old == GetOr(redels, key, [src |-> e.src, amt |-> 0])
<1>1. /\ redels' = Put(redels, key, [src |-> old.src, amt |-> old.amt + e.amt])
      /\ redelQueue' = Enqueue(redelQueue, ct, e)
    BY DEF AddRedelegation
<1> HIDE DEF ct, key
<1>2. key \in DOMAIN redels => old = redels[key]
    BY DEF GetOr
<1>3. key \notin DOMAIN redels => old = [src |-> e.src, amt |-> 0]
    BY DEF GetOr
<1> HIDE DEF old
<1>4. /\ DOMAIN redels' = DOMAIN redels \cup {key}
      /\ \A x \in DOMAIN redels : x # key => redels'[x] = redels[x]
      /\ redels'[key] = [src |-> old.src, amt |-> old.amt + e.amt]
    BY <1>1 DEF Put
<1>5. key \notin DOMAIN redels => redels'[key].src = e.src /\ redels'[key].amt = e.amt
    BY <1>3, <1>4 DEF RedelEntries
<1>6. PendingRedels' = PendingRedels \cup {<<e, ct>>}
    BY <1>1, QueuedAppend DEF PendingRedels, RedelStoresTyped
<1> QED
    BY <1>1, <1>2, <1>4, <1>5, <1>6 DEF ct, key

LEMMA AddKeepsRecordInv ==
    ASSUME RecordInv, NEW e \in RedelEntries, Adds(e)
    PROVE  RecordInv'
<1> DEFINE c == CompletionTime
           key == RedelKey(e, c)
<1>1. now \in Nat /\ RedelStoresTyped /\ RedelegationStoresAgree
    BY MaxTimeAssumption, UnbondingTimeAssumption DEF RecordInv, RedelInv, Horizon
<1>2. RedelInv'
    BY AddKeepsRedelInv DEF RecordInv, Adds
<1>3. /\ DOMAIN redels' = DOMAIN redels \cup {key}
      /\ \A x \in DOMAIN redels : x # key => redels'[x] = redels[x]
      /\ key \in DOMAIN redels => redels'[key].src = redels[key].src
      /\ key \notin DOMAIN redels => redels'[key].src = e.src
      /\ PendingRedels' = PendingRedels \cup {<<e, c>>}
    BY <1>1, AddOnRecords DEF Adds
<1>4. IsFiniteSet(DOMAIN redels')
    BY <1>3, FS_AddElement DEF RecordInv
<1>5. SourcesPending'
  <2> SUFFICES ASSUME NEW x \in DOMAIN redels'
               PROVE  \E p \in PendingRedels' :
                          RedelKey(p[1], p[2]) = x /\ p[1].src = redels'[x].src
      BY DEF SourcesPending, RedelKey
  <2>1. CASE x \in DOMAIN redels
    <3>1. redels'[x].src = redels[x].src
        BY <1>3, <2>1
    <3>2. PICK p \in PendingRedels : RedelKey(p[1], p[2]) = x /\ p[1].src = redels[x].src
        BY <2>1 DEF RecordInv, SourcesPending
    <3> QED
        BY <1>3, <3>1, <3>2
  <2>2. CASE x \notin DOMAIN redels
    <3>1. x = key /\ redels'[x].src = e.src
        BY <1>3, <2>2
    <3>2. <<e, c>> \in PendingRedels' /\ <<e, c>>[1] = e /\ <<e, c>>[2] = c
        BY <1>3
    <3> QED
        BY <3>1, <3>2
  <2> QED
      BY <2>1, <2>2
<1> QED
    BY <1>2, <1>4, <1>5 DEF RecordInv

\* CompleteRedelegations deletes whole records with whole queue keys.
LEMMA CompleteOnRecords ==
    ASSUME RedelStoresTyped, RedelegationStoresAgree, CompleteRedelegations
    PROVE  /\ DOMAIN redels' = {key \in DOMAIN redels : key.ct \notin DueRedels}
           /\ \A key \in DOMAIN redels' : redels'[key] = redels[key]
           /\ PendingRedels' = {p \in PendingRedels : p[2] \notin DueRedels}
           /\ \A key \in DOMAIN redels' :
                 HeldFor(redelQueue', key) = HeldFor(redelQueue, key)
<1> DEFINE gone == {RedelKey(p[1], p[2]) : p \in CompletedRedels}
<1>1. DOMAIN redels' = DOMAIN redels \ gone /\ \A key \in DOMAIN redels' : redels'[key] = redels[key]
    BY DEF CompleteRedelegations, Without, Restrict
<1>2. redelQueue' = Without(redelQueue, DueRedels)
    BY DEF CompleteRedelegations
<1>3. /\ DOMAIN redelQueue' = DOMAIN redelQueue \ DueRedels
      /\ \A ct \in DOMAIN redelQueue \ DueRedels : redelQueue'[ct] = redelQueue[ct]
      /\ Queued(redelQueue') = {p \in Queued(redelQueue) : p[2] \notin DueRedels}
    BY <1>2, QueuedWithout
<1>4. \A key \in DOMAIN redels : key \in gone <=> key.ct \in DueRedels
  <2> SUFFICES ASSUME NEW key \in DOMAIN redels
               PROVE  key \in gone <=> key.ct \in DueRedels
      OBVIOUS
  <2>1. PICK p \in PendingRedels : key = RedelKey(p[1], p[2])
      BY DEF RedelegationStoresAgree
  <2>2. \A x, ct : RedelKey(x, ct).ct = ct
      BY DEF RedelKey
  <2>3. key.ct \in DueRedels => key \in gone
      BY <2>1, <2>2 DEF CompletedRedels
  <2>4. key \in gone => key.ct \in DueRedels
      BY <2>2 DEF CompletedRedels
  <2> QED
      BY <2>3, <2>4
<1>5. DOMAIN redels' = {key \in DOMAIN redels : key.ct \notin DueRedels}
    BY <1>1, <1>4
<1>6. \A key \in DOMAIN redels' : HeldFor(redelQueue', key) = HeldFor(redelQueue, key)
  <2> SUFFICES ASSUME NEW key \in DOMAIN redels'
               PROVE  GetOr(redelQueue', key.ct, <<>>) = GetOr(redelQueue, key.ct, <<>>)
      BY DEF HeldFor
  <2>1. key.ct \notin DueRedels
      BY <1>5
  <2> QED
      BY <1>3, <2>1 DEF GetOr
<1> QED
    BY <1>1, <1>3, <1>5, <1>6 DEF PendingRedels

LEMMA CompleteKeepsRecordInv ==
    ASSUME RecordInv, CompleteRedelegations, now' \in 0 .. Horizon, now =< now'
    PROVE  RecordInv'
<1>1. /\ DOMAIN redels' = {key \in DOMAIN redels : key.ct \notin DueRedels}
      /\ \A key \in DOMAIN redels' : redels'[key] = redels[key]
      /\ PendingRedels' = {p \in PendingRedels : p[2] \notin DueRedels}
    BY CompleteOnRecords DEF RecordInv, RedelInv
<1>2. RedelInv'
    BY CompleteKeepsRedelInv DEF RecordInv
<1>3. IsFiniteSet(DOMAIN redels')
    BY <1>1, FS_Subset DEF RecordInv
<1>4. SourcesPending'
  <2> SUFFICES ASSUME NEW x \in DOMAIN redels'
               PROVE  \E p \in PendingRedels' :
                          RedelKey(p[1], p[2]) = x /\ p[1].src = redels'[x].src
      BY DEF SourcesPending, RedelKey
  <2>1. PICK p \in PendingRedels : RedelKey(p[1], p[2]) = x /\ p[1].src = redels[x].src
      BY <1>1 DEF RecordInv, SourcesPending
  <2>2. p[2] = x.ct
      BY <2>1 DEF RedelKey
  <2> QED
      BY <1>1, <2>1, <2>2
<1> QED
    BY <1>2, <1>3, <1>4 DEF RecordInv

LEMMA NextRecordInv == RecordInv /\ [Next]_vars => RecordInv'
<1> SUFFICES ASSUME RecordInv, [Next]_vars PROVE RecordInv'
    OBVIOUS
<1>1. CASE UNCHANGED <<now, redelVars>>
    BY <1>1, NextRedelInv DEF RecordInv, SourcesPending, PendingRedels, redelVars
<1>2. CASE \E e \in RedelEntries : Adds(e)
    BY <1>2, AddKeepsRecordInv
<1>3. CASE CompleteRedelegations /\ now' \in 0 .. Horizon /\ now =< now'
    BY <1>3, CompleteKeepsRecordInv
<1> QED
    BY <1>1, <1>2, <1>3, StepOnRedels DEF RedelStep, RecordInv, RedelInv

LEMMA InitRecordInv == Init => RecordInv
<1> SUFFICES ASSUME Init PROVE RecordInv
    OBVIOUS
<1>1. DOMAIN redels = {}
    BY DEF Init, QueuesInit, NoEntry
<1> QED
    BY <1>1, InitRedelInv, FS_EmptySet DEF RecordInv, SourcesPending

-----------------------------------------------------------------------------
(* The balance of the records. *)

\* The balances of recs against the entries of queue, where the records of twice were
\* imported.
Balanced(recs, queue, twice) ==
    \A key \in DOMAIN recs :
        HeldFor(queue, key) = IF key \in twice THEN 2 * recs[key].amt ELSE recs[key].amt

\* A redelegation is added to a record that was not imported: imported records are due
\* before it is.
LEMMA AddKeepsBalanced ==
    ASSUME RecordInv, NEW twice, Balanced(redels, redelQueue, twice),
           \A key \in twice : key.ct # CompletionTime,
           NEW e \in RedelEntries, Adds(e)
    PROVE  Balanced(redels', redelQueue', twice)
<1> DEFINE c == CompletionTime
           new == RedelKey(e, c)
<1>1. now \in Nat /\ RedelStoresTyped /\ RedelegationStoresAgree
    BY MaxTimeAssumption, UnbondingTimeAssumption DEF RecordInv, RedelInv, Horizon
<1>2. /\ DOMAIN redels' = DOMAIN redels \cup {new}
      /\ \A x \in DOMAIN redels : x # new => redels'[x] = redels[x]
      /\ new \in DOMAIN redels => redels'[new].amt = redels[new].amt + e.amt
      /\ new \notin DOMAIN redels => redels'[new].amt = e.amt
      /\ redelQueue' = Enqueue(redelQueue, c, e)
    BY <1>1, AddOnRecords DEF Adds
<1>3. \A x \in DOMAIN redels : redels[x].amt \in Nat
    BY <1>1 DEF RedelStoresTyped
<1>4. e.amt \in Nat
    BY DEF RedelEntries
<1>5. new \notin twice
    BY DEF RedelKey
<1>6. QueueOf(redelQueue, RedelEntries)
    BY <1>1 DEF RedelStoresTyped
<1>7. new \notin DOMAIN redels => HeldFor(redelQueue, new) = 0
  <2> SUFFICES ASSUME new \notin DOMAIN redels PROVE HeldFor(redelQueue, new) = 0
      OBVIOUS
  <2> DEFINE bucket == GetOr(redelQueue, c, <<>>)
  <2>1. new.ct = c
      BY DEF RedelKey
  <2>2. bucket \in Seq(RedelEntries)
      BY <1>6 DEF GetOr, QueueOf
  <2>3. \A i \in DOMAIN bucket : <<bucket[i], c>> \in PendingRedels
      BY QueuedAt DEF GetOr, PendingRedels
  <2>4. \A i \in DOMAIN bucket : RedelKey(bucket[i], c) \in DOMAIN redels
    <3>1. \A p \in PendingRedels : RedelKey(p[1], p[2]) \in DOMAIN redels
        BY <1>1 DEF RedelegationStoresAgree
    <3>2. \A y : <<y, c>>[1] = y /\ <<y, c>>[2] = c
        OBVIOUS
    <3> HIDE DEF bucket, new, c
    <3> QED BY <2>3, <3>1, <3>2
  <2> HIDE DEF bucket, new, c
  <2>5. \A i \in DOMAIN bucket : RedelKey(bucket[i], new.ct) # new
      BY <2>1, <2>4
  <2>6. QueuedIn(bucket, new) = 0
      BY <2>2, <2>5, QueuedInNone
  <2> QED
      BY <2>1, <2>6 DEF HeldFor, bucket
<1> HIDE DEF new, c
<1> SUFFICES ASSUME NEW x \in DOMAIN redels'
             PROVE  HeldFor(redelQueue', x) =
                        IF x \in twice THEN 2 * redels'[x].amt ELSE redels'[x].amt
    BY DEF Balanced
<1>8. /\ HeldFor(redelQueue, x) \in Nat
      /\ HeldFor(redelQueue', x) =
             HeldFor(redelQueue, x) + (IF new = x THEN e.amt ELSE 0)
    BY <1>2, <1>6, HeldForEnqueue DEF new
<1>9. CASE x # new
  <2>1. x \in DOMAIN redels /\ redels'[x] = redels[x]
      BY <1>2, <1>9
  <2>2. HeldFor(redelQueue', x) = HeldFor(redelQueue, x)
      BY <1>8, <1>9
  <2> QED
      BY <2>1, <2>2 DEF Balanced
<1>10. CASE x = new /\ new \in DOMAIN redels
  <2>1. HeldFor(redelQueue, x) = redels[x].amt
      BY <1>5, <1>10 DEF Balanced
  <2> QED
      BY <1>2, <1>3, <1>4, <1>5, <1>8, <1>10, <2>1
<1>11. CASE x = new /\ new \notin DOMAIN redels
    BY <1>2, <1>4, <1>5, <1>7, <1>8, <1>11
<1> QED
    BY <1>9, <1>10, <1>11

LEMMA StepKeepsBalanced ==
    ASSUME RecordInv, NEW twice, Balanced(redels, redelQueue, twice),
           \A key \in twice : key.ct # CompletionTime, [Next]_vars
    PROVE  Balanced(redels', redelQueue', twice)
<1>1. CASE UNCHANGED <<now, redelVars>>
    BY <1>1 DEF redelVars
<1>2. CASE \E e \in RedelEntries : Adds(e)
    BY <1>2, AddKeepsBalanced
<1>3. CASE CompleteRedelegations /\ now' \in 0 .. Horizon /\ now =< now'
  <2>1. /\ DOMAIN redels' \subseteq DOMAIN redels
        /\ \A key \in DOMAIN redels' : redels'[key] = redels[key]
        /\ \A key \in DOMAIN redels' : HeldFor(redelQueue', key) = HeldFor(redelQueue, key)
      BY <1>3, CompleteOnRecords DEF RecordInv, RedelInv
  <2> QED
      BY <2>1 DEF Balanced
<1> QED
    BY <1>1, <1>2, <1>3, StepOnRedels DEF RedelStep, RecordInv, RedelInv

\* Balanced, of this state or of the next, is what RedelegationBalance and
\* ImportedBalance say.
LEMMA BalancedMeans ==
    ASSUME RedelegationStoresAgree
    PROVE  \A key \in DOMAIN redels : QueuedFor(key) = HeldFor(redelQueue, key)
<1> SUFFICES ASSUME NEW key \in DOMAIN redels PROVE key.ct \in DOMAIN redelQueue
    BY QueuedForIsHeld
<1>1. PICK p \in PendingRedels : key = RedelKey(p[1], p[2])
    BY DEF RedelegationStoresAgree
<1>2. p[2] \in DOMAIN redelQueue
    BY QueuedPair DEF PendingRedels
<1> QED
    BY <1>1, <1>2 DEF RedelKey

\* Without restarts, the balance of a record is the sum of the queue entries merged into
\* it (addRedelegation, delegation.go:444).
THEOREM BalanceHolds == Spec => []RedelegationBalance
<1> DEFINE Inv == RecordInv /\ Balanced(redels, redelQueue, {})
<1>1. Init => Inv
  <2> SUFFICES ASSUME Init PROVE Inv
      OBVIOUS
  <2>1. DOMAIN redels = {}
      BY DEF Init, QueuesInit, NoEntry
  <2> QED
      BY <2>1, InitRecordInv DEF Balanced
<1>2. Inv /\ [Next]_vars => Inv'
  <2> SUFFICES ASSUME Inv, [Next]_vars PROVE Inv'
      OBVIOUS
  <2>1. Balanced(redels', redelQueue', {})
      BY StepKeepsBalanced
  <2>2. RecordInv'
      BY NextRecordInv
  <2> QED
      BY <2>1, <2>2
<1>3. Inv => RedelegationBalance
    BY BalancedMeans DEF RecordInv, RedelInv, Balanced, RedelegationBalance
<1> QED
    BY <1>1, <1>2, <1>3, PTL DEF Spec

-----------------------------------------------------------------------------
(* Restarts. *)

\* What restarts need of a committed state, and what they leave behind: everything
\* pending was queued in an earlier block, so no redelegation of this block is merged
\* into a record that was imported.
ImportInv ==
    /\ imported \subseteq DOMAIN redels
    /\ \A key \in imported : key.ct < CompletionTime
    /\ committed => \A p \in PendingRedels : p[2] < CompletionTime
    /\ Balanced(redels, redelQueue, imported)

\* The inductive invariant.
GenesisInv == RecordInv /\ ImportInv /\ CustodyInv /\ PhaseOK

LEMMA InitGenesisInv == GenesisInit => GenesisInv
<1> SUFFICES ASSUME GenesisInit PROVE GenesisInv
    OBVIOUS
<1>1. Init /\ imported = {}
    BY DEF GenesisInit
<1>2. DOMAIN redels = {} /\ DOMAIN redelQueue = {}
    BY <1>1 DEF Init, QueuesInit, NoEntry
<1>3. PendingRedels = {}
    BY <1>2 DEF PendingRedels, Queued
<1>4. ImportInv
    BY <1>1, <1>2, <1>3 DEF ImportInv, Balanced
<1>5. PhaseOK
    BY <1>1 DEF Init, PhaseOK
<1> QED
    BY <1>1, <1>4, <1>5, InitRecordInv, InitCustodyInv DEF GenesisInv

\* A step of the chain.
LEMMA RunKeepsImportInv ==
    ASSUME RecordInv, ImportInv, Run
    PROVE  ImportInv'
<1>1. /\ now \in 0 .. Horizon /\ now \in Nat /\ RedelStoresTyped /\ RedelegationStoresAgree
      /\ CompletionBound
    BY MaxTimeAssumption, UnbondingTimeAssumption DEF RecordInv, RedelInv, Horizon
<1>2. Next /\ committed' = (now' # now) /\ imported' = imported \cap DOMAIN redels'
    BY DEF Run
<1>3. RedelStep
    BY <1>1, <1>2, StepOnRedels
<1>4. now' \in Nat /\ now =< now'
    BY <1>1, <1>3, MaxTimeAssumption, UnbondingTimeAssumption DEF RedelStep, Adds, Horizon
<1>5. \A p \in PendingRedels : p[2] \in Nat /\ p[2] =< now + UnbondingTime
    BY <1>1, PendingRedelsTyped DEF CompletionBound
<1>6. imported' \subseteq DOMAIN redels'
    BY <1>2
<1>7. ASSUME NEW key \in imported' PROVE key.ct < CompletionTime'
  <2>1. key \in DOMAIN redels /\ key.ct < CompletionTime
      BY <1>2 DEF ImportInv
  <2>2. key.ct \in Nat
      BY <1>1, <2>1 DEF RedelStoresTyped, RedelKeys
  <2> QED
      BY <1>1, <1>4, <2>1, <2>2, UnbondingTimeAssumption DEF CompletionTime
<1>8. ASSUME committed', NEW p \in PendingRedels' PROVE p[2] < CompletionTime'
  <2>1. now < now'
    <3>1. now' # now
        BY <1>2, <1>8, Zenon
    <3> QED
        BY <1>1, <1>4, <3>1
  <2>2. CompleteRedelegations
      BY <1>1, <1>3, <2>1 DEF RedelStep, Adds
  <2>3. p \in PendingRedels
      BY <1>1, <2>2, CompleteOnRecords, <1>8
  <2> QED
      BY <1>1, <1>4, <1>5, <2>1, <2>3, UnbondingTimeAssumption DEF CompletionTime
<1>9. Balanced(redels', redelQueue', imported')
  <2>1. PICK twice : twice = imported
      OBVIOUS
  <2>2. Balanced(redels, redelQueue, twice)
      BY <2>1 DEF ImportInv
  <2>3. \A key \in twice : key.ct # CompletionTime
    <3>1. \A key \in imported : key.ct \in Nat /\ key.ct < CompletionTime
        BY <1>1 DEF ImportInv, RedelStoresTyped, RedelKeys
    <3> QED
        BY <1>1, <2>1, <3>1, UnbondingTimeAssumption DEF CompletionTime
  <2>4. Balanced(redels', redelQueue', twice)
      BY <1>2, <2>2, <2>3, StepKeepsBalanced
  <2>5. imported' = twice \cap DOMAIN redels'
      BY <1>2, <2>1
  <2> QED
      BY <2>4, <2>5 DEF Balanced
<1> QED
    BY <1>6, <1>7, <1>8, <1>9 DEF ImportInv

\* InitGenesis rebuilds the redelegation stores so that they agree again, and the ban on
\* moving redelegated stake on still holds.
LEMMA RestartKeepsRecordInv ==
    ASSUME RecordInv, Restart
    PROVE  RecordInv'
<1>1. /\ RedelStoresTyped /\ RedelegationStoresAgree /\ CompletionBound
      /\ NoTransitiveRedelegation /\ SourcesPending /\ IsFiniteSet(DOMAIN redels)
    BY DEF RecordInv, RedelInv
<1>2. now' = now /\ redels' = redels
    BY DEF Restart, ImportRedelegations
<1>3. redelIndex' = {RedelIndexKey(ExportedEntry(key), key.ct) : key \in DOMAIN redels}
    BY DEF Restart, ImportRedelegations
<1>4. /\ DOMAIN redelQueue' = {key.ct : key \in DOMAIN redels}
      /\ QueueOf(redelQueue', RedelEntries)
      /\ PendingRedels' = {<<ExportedEntry(key), key.ct>> : key \in DOMAIN redels}
    BY <1>1, ImportMakes DEF Restart
<1>5. \A key \in DOMAIN redels :
          /\ key \in RedelKeys
          /\ ExportedEntry(key) \in RedelEntries
          /\ RedelKey(ExportedEntry(key), key.ct) = key
    BY <1>1, ExportedTyped
<1>6. ASSUME NEW q \in PendingRedels'
      PROVE  \E p \in PendingRedels :
                 /\ p[2] = q[2] /\ p[1].del = q[1].del /\ p[1].denom = q[1].denom
                 /\ p[1].dst = q[1].dst /\ p[1].src = q[1].src
  <2>1. PICK key \in DOMAIN redels : q = <<ExportedEntry(key), key.ct>>
      BY <1>4
  <2>2. PICK p \in PendingRedels : RedelKey(p[1], p[2]) = key /\ p[1].src = redels[key].src
      BY <1>1 DEF SourcesPending
  <2>3. /\ q[2] = key.ct /\ q[1].del = key.del /\ q[1].denom = key.denom
        /\ q[1].dst = key.dst /\ q[1].src = redels[key].src
      BY <2>1 DEF ExportedEntry
  <2>4. key.del = p[1].del /\ key.denom = p[1].denom /\ key.dst = p[1].dst /\ key.ct = p[2]
      BY <2>2 DEF RedelKey
  <2> QED
      BY <2>2, <2>3, <2>4
<1>7. RedelStoresTyped'
  <2>1. redelIndex' \subseteq RedelIndexKeys
      BY <1>3, <1>5 DEF RedelIndexKey, RedelIndexKeys, RedelEntries, RedelKeys
  <2>2. DOMAIN redelQueue' \subseteq Nat
      BY <1>4, <1>5 DEF RedelKeys
  <2> QED
      BY <1>1, <1>2, <1>4, <2>1, <2>2 DEF RedelStoresTyped, QueueOf
<1>8. RedelegationStoresAgree'
  <2> DEFINE Pair(key) == <<ExportedEntry(key), key.ct>>
  <2>1. \A key : Pair(key)[1] = ExportedEntry(key) /\ Pair(key)[2] = key.ct
      OBVIOUS
  <2>2. DOMAIN redels' = {RedelKey(p[1], p[2]) : p \in PendingRedels'}
    <3>1. \A p : p \in PendingRedels' <=> \E key \in DOMAIN redels : p = Pair(key)
        BY <1>4
    <3> HIDE DEF Pair
    <3>2. \A x : (\E p \in PendingRedels' : x = RedelKey(p[1], p[2])) <=> x \in DOMAIN redels
        BY <1>5, <2>1, <3>1
    <3> QED
        BY <1>2, <3>2
  <2>3. redelIndex' = {RedelIndexKey(p[1], p[2]) : p \in PendingRedels'}
    <3>1. \A p : p \in PendingRedels' <=> \E key \in DOMAIN redels : p = Pair(key)
        BY <1>4
    <3> HIDE DEF Pair
    <3>2. \A x : (\E p \in PendingRedels' : x = RedelIndexKey(p[1], p[2])) <=>
              \E key \in DOMAIN redels : x = RedelIndexKey(ExportedEntry(key), key.ct)
        BY <2>1, <3>1
    <3> QED
        BY <1>3, <3>2
  <2> QED
      BY <2>2, <2>3 DEF RedelegationStoresAgree, RedelKey, RedelIndexKey
<1>9. CompletionBound'
    BY <1>1, <1>2, <1>6 DEF CompletionBound
<1>10. NoTransitiveRedelegation'
  <2> SUFFICES ASSUME NEW p \in PendingRedels', NEW q \in PendingRedels',
                      p[1].del = q[1].del, p[1].denom = q[1].denom, p[1].dst = q[1].src
               PROVE  q[2] =< p[2]
      BY DEF NoTransitiveRedelegation
  <2>1. PICK r \in PendingRedels :
            /\ r[2] = p[2] /\ r[1].del = p[1].del /\ r[1].denom = p[1].denom
            /\ r[1].dst = p[1].dst
      BY <1>6
  <2>2. PICK s \in PendingRedels :
            /\ s[2] = q[2] /\ s[1].del = q[1].del /\ s[1].denom = q[1].denom
            /\ s[1].src = q[1].src
      BY <1>6
  <2>3. s[2] =< r[2]
      BY <1>1, <2>1, <2>2 DEF NoTransitiveRedelegation
  <2> QED
      BY <2>1, <2>2, <2>3
<1>11. SourcesPending'
  <2> SUFFICES ASSUME NEW x \in DOMAIN redels'
               PROVE  \E p \in PendingRedels' :
                          RedelKey(p[1], p[2]) = x /\ p[1].src = redels'[x].src
      BY DEF SourcesPending, RedelKey
  <2> DEFINE e == ExportedEntry(x)
  <2>1. <<e, x.ct>> \in PendingRedels' /\ RedelKey(e, x.ct) = x
      BY <1>2, <1>4, <1>5
  <2>2. e.src = redels'[x].src
      BY <1>2 DEF ExportedEntry
  <2>3. <<e, x.ct>>[1] = e /\ <<e, x.ct>>[2] = x.ct
      OBVIOUS
  <2> HIDE DEF e
  <2> QED
      BY <2>1, <2>2, <2>3
<1>12. IsFiniteSet(DOMAIN redels') /\ now' \in 0 .. Horizon
    BY <1>2 DEF RecordInv, RedelInv
<1> QED
    BY <1>7, <1>8, <1>9, <1>10, <1>11, <1>12 DEF RecordInv, RedelInv

LEMMA RestartKeepsImportInv ==
    ASSUME RecordInv, ImportInv, Restart
    PROVE  ImportInv'
<1>1. RedelStoresTyped /\ RedelegationStoresAgree /\ IsFiniteSet(DOMAIN redels)
    BY DEF RecordInv, RedelInv
<1>2. /\ now' = now /\ redels' = redels /\ imported' = DOMAIN redels
      /\ committed /\ committed' = committed
    BY DEF Restart, ImportRedelegations
<1>3. \A p \in PendingRedels : p[2] < CompletionTime
    BY <1>2 DEF ImportInv
<1>4. \A key \in DOMAIN redels : key.ct < CompletionTime
  <2> SUFFICES ASSUME NEW key \in DOMAIN redels PROVE key.ct < CompletionTime
      OBVIOUS
  <2>1. PICK p \in PendingRedels : key = RedelKey(p[1], p[2])
      BY <1>1 DEF RedelegationStoresAgree
  <2>2. key.ct = p[2]
      BY <2>1 DEF RedelKey
  <2> QED
      BY <1>3, <2>2
<1>5. /\ PendingRedels' = {<<ExportedEntry(key), key.ct>> : key \in DOMAIN redels}
      /\ \A key \in DOMAIN redels : HeldFor(redelQueue', key) = 2 * redels[key].amt
    BY <1>1, ImportMakes DEF Restart
<1>6. CompletionTime' = CompletionTime
    BY <1>2 DEF CompletionTime
<1>7. \A p \in PendingRedels' : p[2] < CompletionTime'
    BY <1>4, <1>5, <1>6
<1>8. Balanced(redels', redelQueue', imported')
    BY <1>2, <1>5 DEF Balanced
<1> QED
    BY <1>2, <1>4, <1>6, <1>7, <1>8 DEF ImportInv

\* Undelegations are copied and their index was exact, so nothing of them changes.
LEMMA RestartKeepsCustodyInv ==
    ASSUME CustodyInv, Restart
    PROVE  CustodyInv' /\ UNCHANGED <<undelVars, phase>>
<1>1. UNCHANGED <<totalTokens, bankVars, phase>> /\ undelQueue' = undelQueue
    BY DEF Restart, ImportUndelegations
<1>2. undelIndex' = undelIndex
    BY DEF CustodyInv, UndelInv, UndelegationIndexExact, Restart, ImportUndelegations
<1> QED
    BY <1>1, <1>2 DEF CustodyInv, UndelInv, UndelStoresTyped, QueueOf, UndelStoresFinite,
       UndelegationIndexExact, PendingUndels, BalancesTyped, Custody, QueuedAmount, AmountIn,
       bankVars, undelVars

LEMMA NextGenesisInv == GenesisInv /\ [GenesisNext]_genesisVars => GenesisInv'
<1> SUFFICES ASSUME GenesisInv, [GenesisNext]_genesisVars PROVE GenesisInv'
    OBVIOUS
<1>1. now \in 0 .. Horizon
    BY DEF GenesisInv, RecordInv, RedelInv
<1>2. CASE Run
  <2>1. [Next]_vars
      BY <1>2 DEF Run
  <2>2. RecordInv' /\ CustodyInv' /\ PhaseOK'
      BY <1>1, <2>1, NextRecordInv, StepCustodyInv, NextPhaseOK DEF GenesisInv
  <2>3. ImportInv'
      BY <1>2, RunKeepsImportInv DEF GenesisInv
  <2> QED
      BY <2>2, <2>3 DEF GenesisInv
<1>3. CASE Restart
    BY <1>3, RestartKeepsRecordInv, RestartKeepsImportInv, RestartKeepsCustodyInv
    DEF GenesisInv, PhaseOK
<1>4. CASE UNCHANGED genesisVars
  <2>1. [Next]_vars
      BY <1>4 DEF genesisVars
  <2>2. RecordInv' /\ CustodyInv' /\ PhaseOK'
      BY <1>1, <2>1, NextRecordInv, StepCustodyInv, NextPhaseOK DEF GenesisInv
  <2>3. UNCHANGED <<now, redels, redelQueue, imported, committed>>
      BY <1>4 DEF genesisVars, vars, redelVars
  <2>4. ImportInv'
      BY <2>3 DEF GenesisInv, ImportInv, PendingRedels, CompletionTime
  <2> QED
      BY <2>2, <2>4 DEF GenesisInv
<1> QED
    BY <1>2, <1>3, <1>4 DEF GenesisNext

\* All that the import writes stays matched through blocks, messages and restarts
\* (InitGenesis, keeper/genesis.go): the invariant the theorems below read off.
THEOREM GenesisInvariant == GenesisSpec => []GenesisInv
<1> QED
    BY InitGenesisInv, NextGenesisInv, PTL DEF GenesisSpec

-----------------------------------------------------------------------------
(* What the chain guarantees with restarts. *)

\* Every store and balance keeps its type: no restart makes an amount negative.
THEOREM GenesisTypeCorrect == GenesisSpec => []TypeOK
<1>1. GenesisInv => TypeOK
    BY TypesFollow DEF GenesisInv, RecordInv
<1> QED
    BY <1>1, GenesisInvariant, PTL

\* The module account covers the live stake and everything queued, across restarts.
THEOREM GenesisCustody == GenesisSpec => []Custody
<1>1. GenesisInv => Custody
    BY DEF GenesisInv, CustodyInv
<1> QED
    BY <1>1, GenesisInvariant, PTL

\* The index of undelegations that InitGenesis rebuilds is the exact one.
THEOREM GenesisIndex == GenesisSpec => []UndelegationIndexExact
<1>1. GenesisInv => UndelegationIndexExact
    BY DEF GenesisInv, CustodyInv, UndelInv
<1> QED
    BY <1>1, GenesisInvariant, PTL

\* The record, index and queue of redelegations agree after every restart, although
\* each record is queued twice.
THEOREM GenesisStoresAgree == GenesisSpec => []RedelegationStoresAgree
<1>1. GenesisInv => RedelegationStoresAgree
    BY DEF GenesisInv, RecordInv, RedelInv
<1> QED
    BY <1>1, GenesisInvariant, PTL

\* Redelegated stake stays where it is, although the export forgets all sources of a
\* record but one.
THEOREM GenesisBan == GenesisSpec => []NoTransitiveRedelegation
<1>1. GenesisInv => NoTransitiveRedelegation
    BY DEF GenesisInv, RecordInv, RedelInv
<1> QED
    BY <1>1, GenesisInvariant, PTL

\* The queue holds the balance of a record twice if a restart made it, however often the
\* chain restarted, and once if not.
THEOREM GenesisBalance == GenesisSpec => []ImportedBalance
<1>1. GenesisInv => ImportedBalance
    BY BalancedMeans DEF GenesisInv, RecordInv, RedelInv, ImportInv, Balanced, ImportedBalance
<1> QED
    BY <1>1, GenesisInvariant, PTL

\* No step, a restart included, changes an undelegation that is due.
THEOREM GenesisMatured == GenesisSpec => MaturedNotSlashed
<1>1. GenesisInv /\ [GenesisNext]_genesisVars => [Kept]_vars
  <2> SUFFICES ASSUME GenesisInv, [GenesisNext]_genesisVars PROVE Kept
      OBVIOUS
  <2>1. CASE Restart
      BY <2>1, RestartKeepsCustodyInv DEF GenesisInv, Kept, undelVars
  <2>2. CASE [Next]_vars
      BY <2>2, StepKept DEF GenesisInv, RecordInv
  <2> QED
      BY <2>1, <2>2 DEF GenesisNext, Run, genesisVars
<1>2. MaturedNotSlashed <=> [][Kept]_vars
    BY DEF MaturedNotSlashed, Kept
<1> QED
    BY <1>1, <1>2, GenesisInvariant, PTL DEF GenesisSpec
=============================================================================
