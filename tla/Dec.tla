-------------------------------- MODULE Dec --------------------------------
(***************************************************************************)
(* sdk.Dec, the fixed-point decimals of the Cosmos SDK.  A Dec is the      *)
(* number of its units: one is Scale.  The SDK has Scale = 10^18; TLC's    *)
(* integers have 32 bits, so the models are checked with a smaller one.    *)
(***************************************************************************)
EXTENDS Integers

CONSTANT Scale

ASSUME ScaleAssumption == Scale \in Nat \ {0}

FromInt(n) == n * Scale

TruncateInt(a) == a \div Scale

\* n + rest / d rounded to a whole number, halves to the even one: banker's rounding
\* of chopPrecisionAndRound.
RoundHalfEven(n, rest, d) ==
    IF 2 * rest < d \/ (2 * rest = d /\ n % 2 = 0) THEN n ELSE n + 1

\* a is any Dec, b is not negative: the sign is set aside while rounding.
Mul(a, b) ==
    LET product(x) == RoundHalfEven((x * b) \div Scale, (x * b) % Scale, Scale)
    IN  IF a < 0 THEN -product(-a) ELSE product(a)

\* a is not negative, b is any Dec but zero, for which Quo panics.  The product of a
\* and Scale^2 is divided by b without a remainder, then the last Scale rounded away.
Quo(a, b) ==
    LET scaled == a * Scale
        ratio(x) == RoundHalfEven(scaled \div x, ((scaled % x) * Scale) \div x, Scale)
    IN  IF b < 0 THEN -ratio(-b) ELSE ratio(b)

\* The same with the last Scale rounded up; a is not negative, b is positive.
QuoRoundUp(a, b) ==
    LET scaled == a * Scale
    IN  scaled \div b + (IF ((scaled % b) * Scale) \div b = 0 THEN 0 ELSE 1)

MulInt(a, n) == a * n

\* A round of the loop of Power, while more than one factor is left: d is squared, and
\* goes into tmp when the number of factors is odd.
PowerRound(s) ==
    IF s.left =< 1 THEN s
    ELSE [d |-> Mul(s.d, s.d), left |-> s.left \div 2,
          tmp |-> IF s.left % 2 = 1 THEN Mul(s.tmp, s.d) ELSE s.tmp]

\* a to the power of n by repeated squaring; n rounds are more than the loop takes.
Power(a, n) ==
    LET after[k \in 0 .. n] ==
            IF k = 0 THEN [d |-> a, left |-> n, tmp |-> Scale] ELSE PowerRound(after[k - 1])
    IN  IF n = 0 THEN Scale ELSE Mul(after[n].d, after[n].tmp)
=============================================================================
