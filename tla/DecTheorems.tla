---------------------------- MODULE DecTheorems ----------------------------
(***************************************************************************)
(* Bounds on the rounding arithmetic of module Dec, for every scale.       *)
(***************************************************************************)
EXTENDS Dec, SumTheorems

\* Integer division, by its quotient and remainder.
LEMMA Division ==
    ASSUME NEW a \in Int, NEW d \in Nat \ {0}
    PROVE  /\ a \div d \in Int /\ a % d \in 0 .. d - 1
           /\ a = d * (a \div d) + (a % d)
<1>1. a \div d \in Int /\ a % d \in Int
    OBVIOUS
<1>2. 0 =< a % d /\ a % d < d
    OBVIOUS
<1>3. a = d * (a \div d) + (a % d)
    OBVIOUS
<1> QED
    BY <1>1, <1>2, <1>3

\* The product of naturals is one.
LEMMA ProductNat ==
    ASSUME NEW a \in Nat, NEW b \in Nat
    PROVE  a * b \in Nat
OBVIOUS

\* A product grows with its factors.
LEMMA ProductMonotone ==
    ASSUME NEW a \in Nat, NEW b \in Nat, NEW c \in Nat, a =< b
    PROVE  a * c =< b * c
<1>1. b - a \in Nat
    OBVIOUS
<1>2. (b - a) * c \in Nat
    BY <1>1, ProductNat
<1>3. (b - a) * c = b * c - a * c
    OBVIOUS
<1> QED
    BY <1>2, <1>3

\* A quotient of naturals is a natural, and compares to n as the dividend to n times the
\* divisor.
LEMMA QuotientBound ==
    ASSUME NEW a \in Nat, NEW d \in Nat \ {0}, NEW n \in Nat
    PROVE  /\ a \div d \in Nat
           /\ a =< n * d => a \div d =< n
           /\ a < n * d => a \div d < n
           /\ a >= n * d => a \div d >= n
<1> DEFINE q == a \div d
           r == a % d
<1>1. q \in Int /\ r \in 0 .. d - 1 /\ a = d * q + r
    BY Division
<1> HIDE DEF q, r
<1>2. q >= 0
  <2> SUFFICES ASSUME q < 0 PROVE FALSE
      BY <1>1
  <2>1. -q - 1 \in Nat
      BY <1>1
  <2>2. (-q - 1) * d \in Nat
      BY <2>1, ProductNat
  <2>3. (-q - 1) * d = -(d * q) - d
      BY <1>1
  <2> QED
      BY <1>1, <2>2, <2>3
<1>3. ASSUME q > n PROVE a >= n * d + d
  <2>1. q - n - 1 \in Nat
      BY <1>1, <1>3
  <2>2. (q - n - 1) * d \in Nat
      BY <2>1, ProductNat
  <2>3. (q - n - 1) * d = d * q - n * d - d
      BY <1>1
  <2> QED
      BY <1>1, <2>2, <2>3
<1>4. ASSUME q >= n PROVE a >= n * d
  <2>1. q - n \in Nat
      BY <1>1, <1>4
  <2>2. (q - n) * d \in Nat
      BY <2>1, ProductNat
  <2>3. (q - n) * d = d * q - n * d
      BY <1>1
  <2> QED
      BY <1>1, <2>2, <2>3
<1>5. ASSUME q < n PROVE a < n * d
  <2>1. n - q - 1 \in Nat
      BY <1>1, <1>5
  <2>2. (n - q - 1) * d \in Nat
      BY <2>1, ProductNat
  <2>3. (n - q - 1) * d = n * d - d * q - d
      BY <1>1
  <2> QED
      BY <1>1, <2>2, <2>3
<1>6. n * d \in Nat
    BY ProductNat
<1> QED
    BY <1>1, <1>2, <1>3, <1>4, <1>5, <1>6 DEF q

\* Whole intervals of length d that fit into a, put end to end, are no longer than a.
LEMMA WholeIntervals ==
    ASSUME NEW a \in Nat, NEW d \in Nat \ {0}
    PROVE  a \div d \in Nat /\ d * (a \div d) \in 0 .. a
<1>1. a \div d \in Nat
    BY QuotientBound, 0 \in Nat
<1>2. a % d \in 0 .. d - 1 /\ a = d * (a \div d) + (a % d)
    BY Division, a \in Int
<1>3. d * (a \div d) \in Nat
    BY <1>1, ProductNat
<1> QED
    BY <1>1, <1>2, <1>3

\* Whole divisors that are added to the dividend are added to the quotient.
LEMMA QuotientShift ==
    ASSUME NEW a \in Int, NEW k \in Int, NEW d \in Nat \ {0}
    PROVE  (a + k * d) \div d = a \div d + k
<1> DEFINE b == a + k * d
           z == b \div d - a \div d - k
<1>1. b \in Int
    OBVIOUS
<1>2. a \div d \in Int /\ a % d \in 0 .. d - 1 /\ a = d * (a \div d) + (a % d)
    BY Division
<1>3. b \div d \in Int /\ b % d \in 0 .. d - 1 /\ b = d * (b \div d) + (b % d)
  <2> HIDE DEF b
  <2> QED BY <1>1, Division
<1>4. z \in Int
    BY <1>2, <1>3
<1>5. d * z = (a % d) - (b % d)
  <2>1. d * z = d * (b \div d) - d * (a \div d) - k * d
    <3>1. \A x, y \in Int : d * (x - y - k) = d * x - d * y - k * d
        OBVIOUS
    <3> HIDE DEF b
    <3> QED
        BY <1>2, <1>3, <3>1
  <2>2. d * (b \div d) \in Int /\ d * (a \div d) \in Int /\ k * d \in Int
    <3> HIDE DEF b
    <3> QED BY <1>2, <1>3
  <2> HIDE DEF z
  <2> QED
      BY <1>2, <1>3, <2>1, <2>2
<1>6. -d < d * z /\ d * z < d
  <2> HIDE DEF z, b
  <2> QED BY <1>2, <1>3, <1>5
<1> HIDE DEF z
<1>7. z < 1
  <2> SUFFICES ASSUME z >= 1 PROVE FALSE
      BY <1>4
  <2>1. d * (z - 1) \in Nat /\ d * (z - 1) = d * z - d
      BY <1>4, ProductNat
  <2>2. d * z \in Int
      BY <1>4
  <2> QED
      BY <1>6, <2>1, <2>2
<1>8. z > -1
  <2> SUFFICES ASSUME -z >= 1 PROVE FALSE
      BY <1>4
  <2>1. d * (-z - 1) \in Nat /\ d * (-z - 1) = -(d * z) - d
      BY <1>4, ProductNat
  <2>2. d * z \in Int
      BY <1>4
  <2> QED
      BY <1>6, <2>1, <2>2
<1>9. z = 0
    BY <1>4, <1>7, <1>8
<1> HIDE DEF b
<1> QED
    BY <1>2, <1>3, <1>9 DEF z, b

-----------------------------------------------------------------------------
\* Rounding moves to one of the two nearest whole numbers, and not at all without a rest.
LEMMA RoundsNear ==
    ASSUME NEW n \in Int, NEW rest \in Nat, NEW d \in Nat \ {0}
    PROVE  /\ RoundHalfEven(n, rest, d) \in {n, n + 1}
           /\ rest = 0 => RoundHalfEven(n, rest, d) = n
BY DEF RoundHalfEven

\* A product of Decs that are not negative is not negative, and never more than one factor
\* if the other is at most one.
LEMMA MulBound ==
    ASSUME NEW a \in Nat, NEW b \in Nat
    PROVE  /\ Mul(a, b) \in Nat
           /\ a =< Scale => Mul(a, b) =< b
<1> DEFINE n == (a * b) \div Scale
           rest == (a * b) % Scale
<1>1. Scale \in Nat \ {0} /\ a * b \in Nat
    BY ScaleAssumption, ProductNat
<1>2. n \in Nat /\ rest \in Nat
    BY <1>1, QuotientBound, Division
<1>3. Mul(a, b) = RoundHalfEven(n, rest, Scale)
    BY DEF Mul
<1>4. Mul(a, b) \in {n, n + 1} /\ (rest = 0 => Mul(a, b) = n)
  <2> HIDE DEF n, rest
  <2> QED BY <1>1, <1>2, <1>3, RoundsNear
<1>5. ASSUME a =< Scale PROVE Mul(a, b) =< b
  <2>1. CASE a * b = b * Scale
    <3>1. n =< b
        BY <1>1, <2>1, QuotientBound
    <3>2. rest = 0
        BY <1>1, <2>1
    <3> HIDE DEF n, rest
    <3> QED
        BY <1>2, <1>4, <3>1, <3>2
  <2>2. CASE a * b # b * Scale
    <3>1. a * b =< Scale * b
        BY <1>1, <1>5, ProductMonotone
    <3>2. a * b < b * Scale
        BY <1>1, <2>2, <3>1
    <3>3. n < b
        BY <1>1, <3>2, QuotientBound
    <3> HIDE DEF n, rest
    <3> QED
        BY <1>2, <1>4, <3>3
  <2> QED
      BY <2>1, <2>2
<1> QED
    BY <1>2, <1>4, <1>5

\* The whole quotient of Decs and the rest that rounding looks at: within a bound on the
\* exact quotient, a rest that is not zero leaves room for one more.
LEMMA QuotientParts ==
    ASSUME NEW a \in Nat, NEW b \in Nat \ {0}, NEW m \in Nat
    PROVE  LET n    == (a * Scale) \div b
               rest == (((a * Scale) % b) * Scale) \div b
           IN  /\ n \in Nat /\ rest \in Nat
               /\ a * Scale =< m * b => n < m \/ (n = m /\ rest = 0)
<1> DEFINE scaled == a * Scale
           n == scaled \div b
           left == scaled % b
           rest == (left * Scale) \div b
<1>1. Scale \in Nat \ {0} /\ scaled \in Nat
    BY ScaleAssumption, ProductNat
<1>2. n \in Nat /\ left \in Nat
    BY <1>1, QuotientBound, Division
<1>3. left * Scale \in Nat
    BY <1>1, <1>2, ProductNat
<1>4. rest \in Nat /\ (left = 0 => rest = 0)
  <2>1. rest \in Nat
      BY <1>3, QuotientBound
  <2>2. 0 * Scale = 0 /\ 0 \div b = 0
      BY <1>1
  <2> QED
      BY <2>1, <2>2
<1>5. CASE scaled = m * b
  <2>1. (0 + m * b) \div b = 0 \div b + m
      BY QuotientShift, 0 \in Int, m \in Int
  <2>2. scaled = b * n + left
      BY <1>1, Division
  <2>3. n = m
      BY <1>1, <1>5, <2>1, 0 \div b = 0, 0 + m * b = m * b
  <2>4. b * m \in Nat /\ b * m = m * b
      BY ProductNat
  <2>5. left = 0
    <3> HIDE DEF n, left, scaled
    <3> QED
        BY <1>2, <1>5, <2>2, <2>3, <2>4
  <2> QED
      BY <1>2, <1>4, <2>3, <2>5
<1>6. CASE scaled < m * b
  <2>1. n < m
      BY <1>1, <1>6, QuotientBound
  <2> QED
      BY <1>2, <1>4, <2>1
<1>7. ASSUME scaled =< m * b PROVE scaled = m * b \/ scaled < m * b
  <2>1. m * b \in Nat
      BY ProductNat
  <2> HIDE DEF scaled
  <2> QED
      BY <1>1, <1>7, <2>1
<1> QED
    BY <1>2, <1>4, <1>5, <1>6, <1>7

\* A quotient of Decs that are not negative is not negative, and at most m if the exact
\* quotient is: rounding, to the nearest or up, does not pass a Dec.
LEMMA QuoBound ==
    ASSUME NEW a \in Nat, NEW b \in Nat \ {0}, NEW m \in Nat
    PROVE  /\ Quo(a, b) \in Nat
           /\ a * Scale =< m * b => Quo(a, b) =< m
<1> DEFINE n == (a * Scale) \div b
           rest == (((a * Scale) % b) * Scale) \div b
<1>1. n \in Nat /\ rest \in Nat /\ (a * Scale =< m * b => n < m \/ (n = m /\ rest = 0))
    BY QuotientParts
<1>2. Quo(a, b) = RoundHalfEven(n, rest, Scale)
    BY DEF Quo
<1> HIDE DEF n, rest
<1>3. Quo(a, b) \in {n, n + 1} /\ (rest = 0 => Quo(a, b) = n)
    BY <1>1, <1>2, ScaleAssumption, RoundsNear
<1> QED
    BY <1>1, <1>3

\* The same of a quotient rounded up.
LEMMA QuoRoundUpBound ==
    ASSUME NEW a \in Nat, NEW b \in Nat \ {0}, NEW m \in Nat
    PROVE  /\ QuoRoundUp(a, b) \in Nat
           /\ a * Scale =< m * b => QuoRoundUp(a, b) =< m
<1> DEFINE n == (a * Scale) \div b
           rest == (((a * Scale) % b) * Scale) \div b
<1>1. n \in Nat /\ rest \in Nat /\ (a * Scale =< m * b => n < m \/ (n = m /\ rest = 0))
    BY QuotientParts
<1>2. QuoRoundUp(a, b) = n + (IF rest = 0 THEN 0 ELSE 1)
    BY DEF QuoRoundUp
<1> HIDE DEF n, rest
<1> QED
    BY <1>1, <1>2

\* Products of Decs that are not negative commute.
LEMMA MulCommutes ==
    ASSUME NEW a \in Nat, NEW b \in Nat
    PROVE  Mul(a, b) = Mul(b, a)
<1>1. a * b = b * a
    OBVIOUS
<1> QED
    BY <1>1 DEF Mul

-----------------------------------------------------------------------------
(* Powers, round by round. *)

PowerStart(a, n) == [d |-> a, left |-> n, tmp |-> Scale]
PowerEquation(a, n, g) ==
    g = [k \in 0 .. n |-> IF k = 0 THEN PowerStart(a, n) ELSE PowerRound(g[k - 1])]
PowerRounds(a, n) == CHOOSE g : PowerEquation(a, n, g)

LEMMA PowerIsLastRound ==
    ASSUME NEW a, NEW n
    PROVE  Power(a, n) = IF n = 0 THEN Scale
                         ELSE Mul(PowerRounds(a, n)[n].d, PowerRounds(a, n)[n].tmp)
BY DEF Power, PowerRounds, PowerEquation, PowerStart

\* The rounds are well defined, as recursion on their number.
LEMMA PowerRoundsExist ==
    ASSUME NEW a, NEW n \in Nat
    PROVE  PowerEquation(a, n, PowerRounds(a, n))
<1> DEFINE Upto(g, k) == \A j \in 0 .. k :
                             g[j] = IF j = 0 THEN PowerStart(a, n) ELSE PowerRound(g[j - 1])
           N == {k \in Nat : \E g : Upto(g, k)}
<1>1. 0 \in N
  <2>1. Upto([j \in {0} |-> PowerStart(a, n)], 0)
      OBVIOUS
  <2> QED
      BY <2>1
<1>2. ASSUME NEW k \in Nat, k \in N PROVE k + 1 \in N
  <2>1. PICK g : Upto(g, k)
      BY <1>2
  <2> DEFINE h == [j \in 0 .. k + 1 |-> IF j = k + 1 THEN PowerRound(g[k]) ELSE g[j]]
  <2>2. ASSUME NEW j \in 0 .. k + 1
        PROVE  h[j] = IF j = 0 THEN PowerStart(a, n) ELSE PowerRound(h[j - 1])
    <3>1. CASE j = k + 1
        BY <3>1
    <3>2. CASE j # k + 1
      <4>1. j \in 0 .. k /\ h[j] = g[j] /\ (j # 0 => h[j - 1] = g[j - 1])
          BY <3>2
      <4>2. g[j] = IF j = 0 THEN PowerStart(a, n) ELSE PowerRound(g[j - 1])
          BY <2>1, <4>1
      <4> QED
          BY <4>1, <4>2
    <3> QED
        BY <3>1, <3>2
  <2>3. Upto(h, k + 1)
      BY <2>2
  <2> HIDE DEF Upto, h
  <2> QED
      BY <2>3
<1>3. Nat \subseteq N
  <2> HIDE DEF N
  <2> QED BY <1>1, <1>2, NatSetInduction
<1>4. PICK g : Upto(g, n)
    BY <1>3
<1>5. PowerEquation(a, n, [k \in 0 .. n |-> g[k]])
    BY <1>4 DEF PowerEquation
<1> QED
    BY <1>5 DEF PowerRounds

\* A power of a Dec that is not negative is not negative, and never more than the Dec if
\* that is at most one.
LEMMA PowerBound ==
    ASSUME NEW a \in Nat, NEW n \in Nat
    PROVE  /\ Power(a, n) \in Nat
           /\ a =< Scale => Power(a, n) =< Scale
           /\ a =< Scale /\ n > 0 => Power(a, n) =< a
<1> DEFINE OK(s) == /\ s.d \in Nat /\ s.tmp \in Nat
                    /\ a =< Scale => s.d =< a /\ s.tmp =< Scale
           g == PowerRounds(a, n)
           N == {k \in Nat : k =< n => OK(g[k])}
<1>0. Scale \in Nat \ {0}
    BY ScaleAssumption
<1>1. \A k \in 0 .. n : g[k] = IF k = 0 THEN PowerStart(a, n) ELSE PowerRound(g[k - 1])
  <2>1. PowerEquation(a, n, g)
      BY PowerRoundsExist
  <2> HIDE DEF g
  <2>2. PICK f : f = g
      OBVIOUS
  <2>3. f = [k \in 0 .. n |-> IF k = 0 THEN PowerStart(a, n) ELSE PowerRound(f[k - 1])]
      BY <2>1, <2>2 DEF PowerEquation
  <2> QED
      BY <2>2, <2>3
<1> HIDE DEF g
<1>2. 0 \in N
    BY <1>0, <1>1 DEF PowerStart
<1>3. ASSUME NEW s, OK(s) PROVE OK(PowerRound(s))
  <2>1. s.d \in Nat /\ s.tmp \in Nat
      BY <1>3
  <2>2. Mul(s.d, s.d) \in Nat /\ (s.d =< Scale => Mul(s.d, s.d) =< s.d)
      BY <2>1, MulBound
  <2>3. Mul(s.tmp, s.d) \in Nat /\ (s.tmp =< Scale => Mul(s.tmp, s.d) =< s.d)
      BY <2>1, MulBound
  <2> QED
      BY <1>0, <1>3, <2>2, <2>3 DEF PowerRound
<1>4. ASSUME NEW k \in Nat, k \in N PROVE k + 1 \in N
  <2> SUFFICES ASSUME k + 1 =< n PROVE OK(g[k + 1])
      OBVIOUS
  <2>1. OK(g[k])
      BY <1>4
  <2>2. g[k + 1] = PowerRound(g[k])
      BY <1>1
  <2> HIDE DEF OK
  <2> QED
      BY <1>3, <2>1, <2>2
<1>5. Nat \subseteq N
  <2> HIDE DEF N
  <2> QED BY <1>2, <1>4, NatSetInduction
<1>6. OK(g[n])
    BY <1>5
<1>7. Mul(g[n].d, g[n].tmp) \in Nat /\ (a =< Scale => Mul(g[n].d, g[n].tmp) =< a)
  <2>1. g[n].d \in Nat /\ g[n].tmp \in Nat
      BY <1>6
  <2>2. /\ Mul(g[n].tmp, g[n].d) \in Nat
        /\ g[n].tmp =< Scale => Mul(g[n].tmp, g[n].d) =< g[n].d
      BY <2>1, MulBound
  <2>3. Mul(g[n].d, g[n].tmp) = Mul(g[n].tmp, g[n].d)
      BY <2>1, MulCommutes
  <2> QED
      BY <1>0, <1>6, <2>2, <2>3
<1> QED
    BY <1>0, <1>7, PowerIsLastRound DEF g
=============================================================================
