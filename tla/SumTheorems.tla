---------------------------- MODULE SumTheorems ----------------------------
(***************************************************************************)
(* Facts about SumFunctionOnSet and SumFunction of module Functions, over  *)
(* finite index sets and integer summands.  Induction is stated over sets  *)
(* (of naturals, of finite subsets), so that every use is first order.     *)
(***************************************************************************)
EXTENDS Integers, Functions, FiniteSetTheorems, WellFoundedInduction, TLAPS

\* A set that contains zero and is closed under successor contains every natural.
LEMMA NatSetInduction ==
    ASSUME NEW S, 0 \in S, \A n \in Nat : n \in S => n + 1 \in S
    PROVE  Nat \subseteq S
<1> DEFINE R == OpToRel(<, Nat)
           Bad == Nat \ S
<1> SUFFICES ASSUME Bad # {} PROVE FALSE
    OBVIOUS
<1>1. \A j, k \in Nat : j < k => <<j, k>> \in R
    BY DEF OpToRel
<1>2. IsWellFoundedOn(R, Nat)
    BY NatLessThanWellFounded
<1>3. Bad \subseteq Nat
    OBVIOUS
<1> HIDE DEF R
<1>4. \E m \in Bad : \A k \in Bad : ~ (<<k, m>> \in R)
  <2> HIDE DEF Bad
  <2> QED BY <1>2, <1>3, WFMin
<1>5. PICK m \in Bad : \A k \in Bad : ~ (<<k, m>> \in R)
    BY <1>4
<1>6. m - 1 \in Nat /\ m - 1 < m
    OBVIOUS
<1>7. m - 1 \notin Bad
    BY <1>1, <1>5, <1>6
<1> QED
    BY <1>6, <1>7

\* A family of sets that contains {} and grows one element at a time contains S.
LEMMA FiniteSetInduction ==
    ASSUME NEW S, IsFiniteSet(S), NEW G, {} \in G,
           \A T \in SUBSET S : \A x \in S \ T : T \in G => T \cup {x} \in G
    PROVE  S \in G
<1> DEFINE N == {n \in Nat : \A T \in SUBSET S : Cardinality(T) = n => T \in G}
<1>1. \A T \in SUBSET S : IsFiniteSet(T) /\ Cardinality(T) \in Nat
    BY FS_Subset, FS_CardinalityType
<1>2. 0 \in N
    BY <1>1, FS_EmptySet
<1>3. ASSUME NEW n \in Nat, n \in N PROVE n + 1 \in N
  <2> SUFFICES ASSUME NEW T \in SUBSET S, Cardinality(T) = n + 1 PROVE T \in G
      OBVIOUS
  <2>1. T # {}
      BY FS_EmptySet, Cardinality({}) = 0, n + 1 # 0
  <2>2. PICK x \in T : TRUE
      BY <2>1
  <2>3. Cardinality(T \ {x}) = n
    <3>1. IsFiniteSet(T)
        BY <1>1
    <3>2. Cardinality(T \ {x}) = Cardinality(T) - 1
        BY <3>1, <2>2, FS_RemoveElement
    <3> QED
        BY <3>2
  <2>4. T \ {x} \in G
      BY <1>3, <2>3
  <2>5. T \ {x} \in SUBSET S /\ x \in S \ (T \ {x})
      BY <2>2
  <2>6. (T \ {x}) \cup {x} \in G
      BY <2>4, <2>5
  <2>7. (T \ {x}) \cup {x} = T
      BY <2>2
  <2> QED
      BY <2>6, <2>7
<1>4. Nat \subseteq N
  <2> HIDE DEF N
  <2> QED BY <1>2, <1>3, NatSetInduction
<1> QED
    BY <1>1, <1>4

-----------------------------------------------------------------------------
\* The element that a sum takes out of s first, and the recursion of a sum over S.
First(s) == CHOOSE x \in s : TRUE
SumEquation(fun, S, g) ==
    g = [s \in SUBSET S |-> IF s = {} THEN 0 ELSE fun[First(s)] + g[s \ {First(s)}]]
Iter(fun, S) == CHOOSE g : SumEquation(fun, S, g)

LEMMA SumIsIter ==
    ASSUME NEW fun, NEW S
    PROVE  SumFunctionOnSet(fun, S) = Iter(fun, S)[S]
BY DEF SumFunctionOnSet, FoldFunctionOnSet, MapThenFoldSet, Iter, SumEquation, First

\* The recursion has a solution over every finite set.
LEMMA IterExists ==
    ASSUME NEW fun, NEW S, IsFiniteSet(S)
    PROVE  SumEquation(fun, S, Iter(fun, S))
<1> DEFINE Upto(g, n) ==
               \A s \in SUBSET S : Cardinality(s) =< n =>
                   g[s] = IF s = {} THEN 0 ELSE fun[First(s)] + g[s \ {First(s)}]
           N == {n \in Nat : \E g : Upto(g, n)}
<1>1. \A s \in SUBSET S : IsFiniteSet(s) /\ Cardinality(s) \in Nat
    BY FS_Subset, FS_CardinalityType
<1>2. \A s \in SUBSET S : s # {} =>
          /\ First(s) \in s
          /\ s \ {First(s)} \in SUBSET S
          /\ Cardinality(s \ {First(s)}) = Cardinality(s) - 1
    BY <1>1, FS_RemoveElement DEF First
<1>3. 0 \in N
  <2>1. Upto([s \in SUBSET S |-> 0], 0)
      BY <1>1, FS_EmptySet
  <2> QED
      BY <2>1
<1>4. ASSUME NEW n \in Nat, n \in N PROVE n + 1 \in N
  <2>1. PICK g : Upto(g, n)
      BY <1>4
  <2> DEFINE h == [s \in SUBSET S |->
                      IF Cardinality(s) =< n THEN g[s]
                      ELSE fun[First(s)] + g[s \ {First(s)}]]
  <2>2. ASSUME NEW s \in SUBSET S, Cardinality(s) =< n + 1
        PROVE  h[s] = IF s = {} THEN 0 ELSE fun[First(s)] + h[s \ {First(s)}]
    <3>1. CASE s = {}
      <4>1. Cardinality(s) =< n
          BY <3>1, FS_EmptySet
      <4> QED
          BY <2>1, <3>1, <4>1
    <3>2. CASE s # {}
      <4>1. Cardinality(s \ {First(s)}) =< n /\ s \ {First(s)} \in SUBSET S
          BY <1>1, <1>2, <2>2, <3>2
      <4>2. h[s \ {First(s)}] = g[s \ {First(s)}]
          BY <4>1
      <4>3. CASE Cardinality(s) =< n
        <5>1. h[s] = g[s] /\ g[s] = fun[First(s)] + g[s \ {First(s)}]
            BY <2>1, <3>2, <4>3
        <5> QED
            BY <3>2, <4>2, <5>1
      <4>4. CASE ~ (Cardinality(s) =< n)
          BY <3>2, <4>2, <4>4
      <4> QED
          BY <4>3, <4>4
    <3> QED
        BY <3>1, <3>2
  <2>3. Upto(h, n + 1)
      BY <2>2
  <2>4. \E f : Upto(f, n + 1)
    <3> HIDE DEF h, Upto
    <3> QED BY <2>3
  <2> QED
      BY <2>4
<1>5. Nat \subseteq N
  <2> HIDE DEF N
  <2> QED BY <1>3, <1>4, NatSetInduction
<1>6. PICK g : Upto(g, Cardinality(S))
    BY <1>1, <1>5
<1>7. \A s \in SUBSET S : Cardinality(s) =< Cardinality(S)
    BY FS_Subset
<1> DEFINE h == [s \in SUBSET S |-> g[s]]
<1>8. SumEquation(fun, S, h)
    BY <1>2, <1>6, <1>7 DEF SumEquation
<1> QED
    BY <1>8 DEF Iter

-----------------------------------------------------------------------------
\* A family of sets with {} that contains a set whenever it contains the set without
\* its first element contains every subset of a finite set.
LEMMA FirstInduction ==
    ASSUME NEW S, IsFiniteSet(S), NEW G, {} \in G,
           \A T \in SUBSET S : T # {} /\ T \ {First(T)} \in G => T \in G
    PROVE  \A T \in SUBSET S : T \in G
<1> DEFINE N == {n \in Nat : \A T \in SUBSET S : Cardinality(T) = n => T \in G}
<1>1. \A T \in SUBSET S : IsFiniteSet(T) /\ Cardinality(T) \in Nat
    BY FS_Subset, FS_CardinalityType
<1>2. 0 \in N
    BY <1>1, FS_EmptySet
<1>3. ASSUME NEW n \in Nat, n \in N PROVE n + 1 \in N
  <2> SUFFICES ASSUME NEW T \in SUBSET S, Cardinality(T) = n + 1 PROVE T \in G
      OBVIOUS
  <2>1. T # {}
      BY FS_EmptySet, Cardinality({}) = 0, n + 1 # 0
  <2>2. First(T) \in T
      BY <2>1 DEF First
  <2>3. Cardinality(T \ {First(T)}) = n
    <3>1. IsFiniteSet(T)
        BY <1>1
    <3>2. Cardinality(T \ {First(T)}) = Cardinality(T) - 1
        BY <3>1, <2>2, FS_RemoveElement
    <3> QED
        BY <3>2
  <2>4. T \ {First(T)} \in SUBSET S
      OBVIOUS
  <2> QED
      BY <1>3, <2>1, <2>3, <2>4
<1>4. Nat \subseteq N
  <2> HIDE DEF N
  <2> QED BY <1>2, <1>3, NatSetInduction
<1> QED
    BY <1>1, <1>4

\* What the solution over S gives at each subset of S.
LEMMA IterAt ==
    ASSUME NEW fun, NEW S, IsFiniteSet(S)
    PROVE  /\ Iter(fun, S)[{}] = 0
           /\ \A T \in SUBSET S : T # {} =>
                 Iter(fun, S)[T] = fun[First(T)] + Iter(fun, S)[T \ {First(T)}]
<1> DEFINE g == Iter(fun, S)
           rhs == [s \in SUBSET S |-> IF s = {} THEN 0 ELSE fun[First(s)] + g[s \ {First(s)}]]
<1>0. SumEquation(fun, S, g)
    BY IterExists
<1>1. g = rhs
    BY <1>0, Zenon DEF SumEquation
<1>2. rhs[{}] = 0
    OBVIOUS
<1>3. \A T \in SUBSET S : T # {} => rhs[T] = fun[First(T)] + g[T \ {First(T)}]
    OBVIOUS
<1> HIDE DEF rhs
<1> QED
    BY <1>1, <1>2, <1>3

\* The solution over S, restricted to the subsets of T, is the solution over T.
LEMMA IterAgree ==
    ASSUME NEW fun, NEW S, IsFiniteSet(S), NEW T \in SUBSET S
    PROVE  SumFunctionOnSet(fun, T) = Iter(fun, S)[T]
<1> DEFINE G == {U \in SUBSET T : Iter(fun, T)[U] = Iter(fun, S)[U]}
<1>1. IsFiniteSet(T)
    BY FS_Subset
<1>3. {} \in G
    BY <1>1, IterAt
<1>4. ASSUME NEW U \in SUBSET T, U # {}, U \ {First(U)} \in G
      PROVE  U \in G
  <2>1. Iter(fun, T)[U] = fun[First(U)] + Iter(fun, T)[U \ {First(U)}]
      BY <1>1, <1>4, IterAt
  <2>2. U \in SUBSET S
      OBVIOUS
  <2>3. Iter(fun, S)[U] = fun[First(U)] + Iter(fun, S)[U \ {First(U)}]
      BY <1>4, <2>2, IterAt
  <2> QED
      BY <1>4, <2>1, <2>3
<1>5. T \in G
  <2> HIDE DEF G
  <2> QED BY <1>1, <1>3, <1>4, FirstInduction
<1> QED
    BY <1>5, SumIsIter

\* An empty sum is zero.
LEMMA SumEmpty ==
    ASSUME NEW fun
    PROVE  SumFunctionOnSet(fun, {}) = 0
<1>1. IsFiniteSet({})
    BY FS_EmptySet
<1> QED
    BY <1>1, IterAt, SumIsIter

\* The sum takes the first element out.
LEMMA SumFirst ==
    ASSUME NEW fun, NEW S, IsFiniteSet(S), S # {}
    PROVE  SumFunctionOnSet(fun, S) = fun[First(S)] + SumFunctionOnSet(fun, S \ {First(S)})
<1>1. SumFunctionOnSet(fun, S) = Iter(fun, S)[S]
    BY SumIsIter
<1>2. Iter(fun, S)[S] = fun[First(S)] + Iter(fun, S)[S \ {First(S)}]
    BY IterAt
<1>3. SumFunctionOnSet(fun, S \ {First(S)}) = Iter(fun, S)[S \ {First(S)}]
    BY IterAgree
<1> QED
    BY <1>1, <1>2, <1>3

\* A sum of integers is an integer.
LEMMA SumInt ==
    ASSUME NEW fun, NEW S, IsFiniteSet(S), \A x \in S : fun[x] \in Int
    PROVE  SumFunctionOnSet(fun, S) \in Int
<1> DEFINE G == {T \in SUBSET S : SumFunctionOnSet(fun, T) \in Int}
<1>1. {} \in G
    BY SumEmpty
<1>2. ASSUME NEW T \in SUBSET S, T # {}, T \ {First(T)} \in G PROVE T \in G
  <2>1. First(T) \in S
      BY <1>2 DEF First
  <2>2. IsFiniteSet(T)
      BY FS_Subset
  <2> QED
      BY <1>2, <2>1, <2>2, SumFirst
<1>3. S \in G
  <2> HIDE DEF G
  <2> QED BY <1>1, <1>2, FirstInduction
<1> QED
    BY <1>3

\* A sum of integers takes any element out.
LEMMA SumRemove ==
    ASSUME NEW fun, NEW S, IsFiniteSet(S), \A s \in S : fun[s] \in Int, NEW x \in S
    PROVE  SumFunctionOnSet(fun, S) = fun[x] + SumFunctionOnSet(fun, S \ {x})
<1> DEFINE Removes(T) == \A y \in T :
               SumFunctionOnSet(fun, T) = fun[y] + SumFunctionOnSet(fun, T \ {y})
           N == {n \in Nat : \A T \in SUBSET S : Cardinality(T) = n => Removes(T)}
<1>1. \A T \in SUBSET S :
          /\ IsFiniteSet(T)
          /\ Cardinality(T) \in Nat
          /\ SumFunctionOnSet(fun, T) \in Int
    BY FS_Subset, FS_CardinalityType, SumInt
<1>2. 0 \in N
  <2>1. \A T \in SUBSET S : Cardinality(T) = 0 => T = {}
      BY <1>1, FS_EmptySet
  <2> QED
      BY <2>1
<1>3. ASSUME NEW n \in Nat, n \in N PROVE n + 1 \in N
  <2> SUFFICES ASSUME NEW T \in SUBSET S, Cardinality(T) = n + 1, NEW y \in T
               PROVE  SumFunctionOnSet(fun, T) = fun[y] + SumFunctionOnSet(fun, T \ {y})
      OBVIOUS
  <2> DEFINE f == First(T)
             R == T \ {f, y}
  <2>1. f \in T
      BY DEF First
  <2>2. SumFunctionOnSet(fun, T) = fun[f] + SumFunctionOnSet(fun, T \ {f})
      BY <1>1, SumFirst
  <2>3. ASSUME NEW z \in T PROVE Removes(T \ {z})
    <3>1. IsFiniteSet(T) /\ T \ {z} \in SUBSET S
        BY <1>1
    <3>2. Cardinality(T \ {z}) = n
      <4>1. IsFiniteSet(T)
          BY <1>1
      <4>2. Cardinality(T \ {z}) = Cardinality(T) - 1
          BY <4>1, FS_RemoveElement
      <4> QED
          BY <4>2
    <3> QED
        BY <1>3, <3>1, <3>2
  <2> HIDE DEF f
  <2>4. CASE y = f
      BY <2>2, <2>4
  <2>5. CASE y # f
    <3>1. SumFunctionOnSet(fun, T \ {f}) = fun[y] + SumFunctionOnSet(fun, R)
      <4>1. y \in T \ {f} /\ (T \ {f}) \ {y} = R
          BY <2>5
      <4> QED
          BY <2>1, <2>3, <4>1
    <3>2. SumFunctionOnSet(fun, T \ {y}) = fun[f] + SumFunctionOnSet(fun, R)
      <4>1. f \in T \ {y} /\ (T \ {y}) \ {f} = R
          BY <2>1, <2>5
      <4> QED
          BY <2>3, <4>1
    <3>3. fun[f] \in Int /\ fun[y] \in Int /\ SumFunctionOnSet(fun, R) \in Int
        BY <1>1, <2>1
    <3> QED
        BY <2>2, <3>1, <3>2, <3>3
  <2> QED
      BY <2>4, <2>5
<1>4. Nat \subseteq N
  <2> HIDE DEF N
  <2> QED BY <1>2, <1>3, NatSetInduction
<1> QED
    BY <1>1, <1>4

\* Sums whose summands agree are equal.
LEMMA SumEqual ==
    ASSUME NEW f, NEW g, NEW S, IsFiniteSet(S), \A x \in S : f[x] \in Int /\ g[x] = f[x]
    PROVE  SumFunctionOnSet(g, S) = SumFunctionOnSet(f, S)
<1> DEFINE G == {T \in SUBSET S : SumFunctionOnSet(g, T) = SumFunctionOnSet(f, T)}
<1>1. {} \in G
    BY SumEmpty
<1>2. ASSUME NEW T \in SUBSET S, T # {}, T \ {First(T)} \in G PROVE T \in G
  <2>1. First(T) \in T /\ IsFiniteSet(T)
      BY <1>2, FS_Subset DEF First
  <2> QED
      BY <1>2, <2>1, SumFirst
<1>3. S \in G
  <2> HIDE DEF G
  <2> QED BY <1>1, <1>2, FirstInduction
<1> QED
    BY <1>3

\* The sum of a pointwise sum is the sum of the sums.
LEMMA SumOfSums ==
    ASSUME NEW f, NEW g, NEW h, NEW S, IsFiniteSet(S),
           \A x \in S : f[x] \in Int /\ g[x] \in Int /\ h[x] = f[x] + g[x]
    PROVE  SumFunctionOnSet(h, S) = SumFunctionOnSet(f, S) + SumFunctionOnSet(g, S)
<1> DEFINE G == {T \in SUBSET S : SumFunctionOnSet(h, T) =
                                   SumFunctionOnSet(f, T) + SumFunctionOnSet(g, T)}
<1>1. {} \in G
    BY SumEmpty
<1>2. ASSUME NEW T \in SUBSET S, T # {}, T \ {First(T)} \in G PROVE T \in G
  <2> DEFINE R == T \ {First(T)}
  <2>1. First(T) \in T /\ IsFiniteSet(T) /\ IsFiniteSet(R)
      BY <1>2, FS_Subset DEF First
  <2>2. SumFunctionOnSet(f, R) \in Int /\ SumFunctionOnSet(g, R) \in Int
      BY <2>1, SumInt
  <2>3. /\ SumFunctionOnSet(f, T) = f[First(T)] + SumFunctionOnSet(f, R)
        /\ SumFunctionOnSet(g, T) = g[First(T)] + SumFunctionOnSet(g, R)
        /\ SumFunctionOnSet(h, T) = h[First(T)] + SumFunctionOnSet(h, R)
      BY <1>2, <2>1, SumFirst
  <2>4. SumFunctionOnSet(h, R) = SumFunctionOnSet(f, R) + SumFunctionOnSet(g, R)
      BY <1>2
  <2>5. h[First(T)] = f[First(T)] + g[First(T)] /\ f[First(T)] \in Int /\ g[First(T)] \in Int
      BY <2>1
  <2> QED
      BY <2>2, <2>3, <2>4, <2>5
<1>3. S \in G
  <2> HIDE DEF G
  <2> QED BY <1>1, <1>2, FirstInduction
<1> QED
    BY <1>3

\* A sum of naturals is a natural.
LEMMA SumNat ==
    ASSUME NEW f, NEW S, IsFiniteSet(S), \A x \in S : f[x] \in Nat
    PROVE  SumFunctionOnSet(f, S) \in Nat
<1> DEFINE G == {T \in SUBSET S : SumFunctionOnSet(f, T) \in Nat}
<1>1. {} \in G
    BY SumEmpty
<1>2. ASSUME NEW T \in SUBSET S, T # {}, T \ {First(T)} \in G PROVE T \in G
  <2>1. First(T) \in S /\ IsFiniteSet(T)
      BY <1>2, FS_Subset DEF First
  <2> QED
      BY <1>2, <2>1, SumFirst
<1>3. S \in G
  <2> HIDE DEF G
  <2> QED BY <1>1, <1>2, FirstInduction
<1> QED
    BY <1>3

\* A sum of zeros is zero.
LEMMA SumZero ==
    ASSUME NEW f, NEW S, IsFiniteSet(S), \A x \in S : f[x] = 0
    PROVE  SumFunctionOnSet(f, S) = 0
<1> DEFINE G == {T \in SUBSET S : SumFunctionOnSet(f, T) = 0}
<1>1. {} \in G
    BY SumEmpty
<1>2. ASSUME NEW T \in SUBSET S, T # {}, T \ {First(T)} \in G PROVE T \in G
  <2>1. First(T) \in S /\ IsFiniteSet(T)
      BY <1>2, FS_Subset DEF First
  <2> QED
      BY <1>2, <2>1, SumFirst
<1>3. S \in G
  <2> HIDE DEF G
  <2> QED BY <1>1, <1>2, FirstInduction
<1> QED
    BY <1>3

-----------------------------------------------------------------------------
\* A sum with one more summand.
LEMMA SumAdd ==
    ASSUME NEW f, NEW S, IsFiniteSet(S), NEW x, x \notin S, f[x] \in Int,
           \A s \in S : f[s] \in Int
    PROVE  SumFunctionOnSet(f, S \cup {x}) = SumFunctionOnSet(f, S) + f[x]
<1> DEFINE T == S \cup {x}
<1>1. IsFiniteSet(T)
    BY FS_AddElement
<1>2. x \in T /\ \A t \in T : f[t] \in Int
    OBVIOUS
<1>3. T \ {x} = S
    OBVIOUS
<1> HIDE DEF T
<1>4. SumFunctionOnSet(f, T) = f[x] + SumFunctionOnSet(f, T \ {x})
    BY <1>1, <1>2, SumRemove
<1>5. SumFunctionOnSet(f, S) \in Int
    BY SumInt
<1>6. SumFunctionOnSet(f, T \ {x}) = SumFunctionOnSet(f, S)
    BY <1>3, Zenon
<1>7. SumFunctionOnSet(f, T) = SumFunctionOnSet(f, S) + f[x]
    BY <1>4, <1>5, <1>6
<1> QED
    BY <1>7, Zenon DEF T

\* A sum where one summand changes or is added.
LEMMA SumPut ==
    ASSUME NEW f, NEW g, NEW S, IsFiniteSet(S), NEW x, g[x] \in Int,
           \A s \in S : f[s] \in Int,
           \A s \in S \ {x} : g[s] = f[s]
    PROVE  SumFunctionOnSet(g, S \cup {x}) =
               SumFunctionOnSet(f, S) + g[x] - (IF x \in S THEN f[x] ELSE 0)
<1> DEFINE R == S \ {x}
<1>1. IsFiniteSet(R) /\ IsFiniteSet(S \cup {x})
    BY FS_AddElement, FS_RemoveElement
<1>2. SumFunctionOnSet(g, R) = SumFunctionOnSet(f, R) /\ SumFunctionOnSet(f, R) \in Int
    BY <1>1, SumEqual, SumInt
<1>3. SumFunctionOnSet(g, S \cup {x}) = g[x] + SumFunctionOnSet(g, R)
  <2>1. x \notin R /\ \A s \in R : g[s] \in Int
      OBVIOUS
  <2>2. S \cup {x} = R \cup {x}
      OBVIOUS
  <2>3. SumFunctionOnSet(g, R \cup {x}) = SumFunctionOnSet(g, R) + g[x]
    <3> HIDE DEF R
    <3> QED BY <1>1, <2>1, SumAdd
  <2>4. SumFunctionOnSet(g, S \cup {x}) = SumFunctionOnSet(g, R \cup {x})
      BY <2>2, Zenon
  <2> HIDE DEF R
  <2> QED
      BY <1>2, <2>3, <2>4
<1>4. CASE x \in S
  <2>1. SumFunctionOnSet(f, S) = f[x] + SumFunctionOnSet(f, R)
      BY <1>4, SumRemove
  <2> QED
      BY <1>2, <1>3, <1>4, <2>1
<1>5. CASE x \notin S
  <2>1. R = S
      BY <1>5
  <2>2. SumFunctionOnSet(f, R) = SumFunctionOnSet(f, S)
      BY <2>1, Zenon
  <2> HIDE DEF R
  <2> QED
      BY <1>2, <1>3, <1>5, <2>2
<1> QED
    BY <1>4, <1>5

\* A sum over two disjoint sets.
LEMMA SumDisjoint ==
    ASSUME NEW f, NEW A, NEW B, IsFiniteSet(A), IsFiniteSet(B), A \cap B = {},
           \A x \in A \cup B : f[x] \in Int
    PROVE  SumFunctionOnSet(f, A \cup B) = SumFunctionOnSet(f, A) + SumFunctionOnSet(f, B)
<1> DEFINE G == {T \in SUBSET B : SumFunctionOnSet(f, A \cup T) =
                                   SumFunctionOnSet(f, A) + SumFunctionOnSet(f, T)}
<1>1. {} \in G
  <2>1. SumFunctionOnSet(f, A) \in Int /\ A \cup {} = A
      BY SumInt
  <2> QED
      BY <2>1, SumEmpty
<1>2. ASSUME NEW T \in SUBSET B, NEW x \in B \ T, T \in G PROVE T \cup {x} \in G
  <2>1. IsFiniteSet(T) /\ IsFiniteSet(A \cup T)
      BY FS_Subset, FS_Union
  <2>2. SumFunctionOnSet(f, T \cup {x}) = SumFunctionOnSet(f, T) + f[x]
    <3>1. x \notin T /\ f[x] \in Int /\ \A y \in T : f[y] \in Int
        OBVIOUS
    <3> QED
        BY <2>1, <3>1, SumAdd
  <2> DEFINE U == A \cup T
  <2>3. SumFunctionOnSet(f, U \cup {x}) = SumFunctionOnSet(f, U) + f[x]
    <3>1. x \notin U /\ f[x] \in Int /\ \A y \in U : f[y] \in Int
        OBVIOUS
    <3> HIDE DEF U
    <3> QED
        BY <2>1, <3>1, SumAdd DEF U
  <2>4. A \cup (T \cup {x}) = U \cup {x} /\ T \cup {x} \in SUBSET B
      OBVIOUS
  <2>5. SumFunctionOnSet(f, A) \in Int /\ SumFunctionOnSet(f, T) \in Int
      BY <2>1, SumInt
  <2>6. f[x] \in Int
      OBVIOUS
  <2>7. SumFunctionOnSet(f, U) = SumFunctionOnSet(f, A) + SumFunctionOnSet(f, T)
      BY <1>2
  <2>8. SumFunctionOnSet(f, A \cup (T \cup {x})) = SumFunctionOnSet(f, U \cup {x})
      BY <2>4, Zenon
  <2>9. SumFunctionOnSet(f, A \cup (T \cup {x})) =
            SumFunctionOnSet(f, A) + SumFunctionOnSet(f, T \cup {x})
    <3> HIDE DEF U
    <3> QED BY <2>2, <2>3, <2>5, <2>6, <2>7, <2>8
  <2> QED
      BY <2>4, <2>9
<1>3. B \in G
  <2> HIDE DEF G
  <2> QED BY <1>1, <1>2, FiniteSetInduction
<1> QED
    BY <1>3

\* A sum split by a label is the sum over the labels.
LEMMA SumByLabel ==
    ASSUME NEW f, NEW S, IsFiniteSet(S), \A x \in S : f[x] \in Int,
           NEW K, IsFiniteSet(K), NEW label, \A x \in S : label[x] \in K,
           NEW g, \A k \in K : g[k] = SumFunctionOnSet(f, {x \in S : label[x] = k})
    PROVE  SumFunctionOnSet(g, K) = SumFunctionOnSet(f, S)
<1> DEFINE Part(J) == {x \in S : label[x] \in J}
           G == {J \in SUBSET K : SumFunctionOnSet(g, J) = SumFunctionOnSet(f, Part(J))}
<1>1. {} \in G
  <2>1. Part({}) = {}
      OBVIOUS
  <2> QED
      BY <2>1, SumEmpty
<1>2. \A k \in K : g[k] \in Int
  <2> SUFFICES ASSUME NEW k \in K PROVE g[k] \in Int
      OBVIOUS
  <2> DEFINE P == {x \in S : label[x] = k}
  <2>1. IsFiniteSet(P) /\ \A x \in P : f[x] \in Int
      BY FS_Subset
  <2>2. g[k] = SumFunctionOnSet(f, P)
      OBVIOUS
  <2> HIDE DEF P
  <2> QED
      BY <2>1, <2>2, SumInt
<1>3. ASSUME NEW J \in SUBSET K, NEW k \in K \ J, J \in G PROVE J \cup {k} \in G
  <2> DEFINE P == {x \in S : label[x] = k}
             Q == Part(J)
  <2>1. IsFiniteSet(J) /\ IsFiniteSet(P) /\ IsFiniteSet(Q)
      BY FS_Subset
  <2>2. Part(J \cup {k}) = Q \cup P /\ Q \cap P = {} /\ Q \cup P \subseteq S
      OBVIOUS
  <2>3. SumFunctionOnSet(f, Q \cup P) = SumFunctionOnSet(f, Q) + SumFunctionOnSet(f, P)
    <3>1. \A x \in Q \cup P : f[x] \in Int
        OBVIOUS
    <3> HIDE DEF P, Q
    <3> QED BY <2>1, <2>2, <3>1, SumDisjoint
  <2>4. SumFunctionOnSet(g, J \cup {k}) = SumFunctionOnSet(g, J) + g[k]
    <3>1. k \notin J /\ g[k] \in Int /\ \A y \in J : g[y] \in Int
        BY <1>2
    <3> QED
        BY <2>1, <3>1, SumAdd
  <2>5. g[k] = SumFunctionOnSet(f, P)
      OBVIOUS
  <2>6. SumFunctionOnSet(g, J) = SumFunctionOnSet(f, Q)
      BY <1>3
  <2> HIDE DEF P, Q
  <2> QED
      BY <2>2, <2>3, <2>4, <2>5, <2>6
<1>4. K \in G
  <2> HIDE DEF G
  <2> QED BY <1>1, <1>3, FiniteSetInduction
<1>5. Part(K) = S
    OBVIOUS
<1> QED
    BY <1>4, <1>5
-----------------------------------------------------------------------------
(* Scaling and comparison.                                                  *)

\* A constant factor can be taken out of a sum.
LEMMA SumTimes ==
    ASSUME NEW f, NEW h, NEW c \in Int, NEW S, IsFiniteSet(S),
           \A x \in S : f[x] \in Int /\ h[x] = f[x] * c
    PROVE  SumFunctionOnSet(h, S) = SumFunctionOnSet(f, S) * c
<1> DEFINE G == {T \in SUBSET S : SumFunctionOnSet(h, T) = SumFunctionOnSet(f, T) * c}
<1>1. {} \in G
    BY SumEmpty
<1>2. ASSUME NEW T \in SUBSET S, T # {}, T \ {First(T)} \in G PROVE T \in G
  <2> DEFINE R == T \ {First(T)}
  <2>1. First(T) \in T /\ IsFiniteSet(T) /\ IsFiniteSet(R)
      BY <1>2, FS_Subset DEF First
  <2>2. SumFunctionOnSet(f, R) \in Int /\ h[First(T)] \in Int
      BY <2>1, SumInt
  <2>3. /\ SumFunctionOnSet(f, T) = f[First(T)] + SumFunctionOnSet(f, R)
        /\ SumFunctionOnSet(h, T) = h[First(T)] + SumFunctionOnSet(h, R)
    <3>1. \A x \in T : f[x] \in Int /\ h[x] \in Int
        OBVIOUS
    <3> QED
        BY <1>2, <2>1, <3>1, SumFirst
  <2>4. SumFunctionOnSet(h, R) = SumFunctionOnSet(f, R) * c
      BY <1>2
  <2>5. h[First(T)] = f[First(T)] * c /\ f[First(T)] \in Int
      BY <2>1
  <2>6. \A x, y \in Int : (x + y) * c = x * c + y * c
      OBVIOUS
  <2> QED
      BY <2>2, <2>3, <2>4, <2>5, <2>6
<1>3. S \in G
  <2> HIDE DEF G
  <2> QED BY <1>1, <1>2, FirstInduction
<1> QED
    BY <1>3

\* A sum grows with its summands.
LEMMA SumAtMost ==
    ASSUME NEW f, NEW g, NEW S, IsFiniteSet(S),
           \A x \in S : f[x] \in Int /\ g[x] \in Int /\ f[x] =< g[x]
    PROVE  SumFunctionOnSet(f, S) =< SumFunctionOnSet(g, S)
<1> DEFINE d == [x \in S |-> g[x] - f[x]]
<1>1. \A x \in S : d[x] \in Nat /\ f[x] \in Int /\ g[x] = f[x] + d[x]
    OBVIOUS
<1> HIDE DEF d
<1>2. SumFunctionOnSet(d, S) \in Nat /\ SumFunctionOnSet(f, S) \in Int
    BY <1>1, SumNat, SumInt
<1>3. SumFunctionOnSet(g, S) = SumFunctionOnSet(f, S) + SumFunctionOnSet(d, S)
    BY <1>1, SumOfSums
<1> QED
    BY <1>2, <1>3

\* No summand exceeds the sum, if none is negative.
LEMMA SumMember ==
    ASSUME NEW f, NEW S, IsFiniteSet(S), \A x \in S : f[x] \in Nat, NEW x \in S
    PROVE  f[x] =< SumFunctionOnSet(f, S)
<1>1. SumFunctionOnSet(f, S) = f[x] + SumFunctionOnSet(f, S \ {x})
    BY SumRemove
<1>2. SumFunctionOnSet(f, S \ {x}) \in Nat
    BY SumNat, FS_Subset
<1> QED
    BY <1>1, <1>2

\* Summands outside of A that are zero do not count.
LEMMA SumOnPart ==
    ASSUME NEW f, NEW h, NEW S, IsFiniteSet(S), NEW A \in SUBSET S,
           \A x \in A : f[x] \in Int /\ h[x] = f[x], \A x \in S \ A : h[x] = 0
    PROVE  SumFunctionOnSet(h, S) = SumFunctionOnSet(f, A)
<1> DEFINE R == S \ A
<1>1. IsFiniteSet(A) /\ IsFiniteSet(R) /\ A \cap R = {} /\ S = A \cup R
    BY FS_Subset
<1>2. \A x \in R : h[x] = 0
    OBVIOUS
<1> HIDE DEF R
<1>3. \A x \in A \cup R : h[x] \in Int
    BY <1>2
<1>4. SumFunctionOnSet(h, A \cup R) = SumFunctionOnSet(h, A) + SumFunctionOnSet(h, R)
    BY <1>1, <1>3, SumDisjoint
<1>5. SumFunctionOnSet(h, A) = SumFunctionOnSet(f, A)
    BY <1>1, SumEqual
<1>6. SumFunctionOnSet(h, R) = 0
    BY <1>1, <1>2, SumZero
<1>7. SumFunctionOnSet(f, A) \in Int
    BY <1>1, SumInt
<1> QED
    BY <1>1, <1>4, <1>5, <1>6, <1>7

-----------------------------------------------------------------------------
(* Recursion over the subsets of a finite set, with any choice of elements.  *)

Picks(pick, S) == \A T \in SUBSET S : T # {} => pick[T] \in T

Grows(G, pick, S) ==
    {} \in G /\ \A T \in SUBSET S : T # {} /\ T \ {pick[T]} \in G => T \in G

\* A family of sets with {} that contains a set whenever it contains the set without
\* the element picked from it contains every subset of a finite set.
LEMMA PickInduction ==
    ASSUME NEW S, IsFiniteSet(S), NEW pick, Picks(pick, S), NEW G, Grows(G, pick, S)
    PROVE  \A T \in SUBSET S : T \in G
<1> USE DEF Picks, Grows
<1> DEFINE N == {n \in Nat : \A T \in SUBSET S : Cardinality(T) = n => T \in G}
<1>1. \A T \in SUBSET S : IsFiniteSet(T) /\ Cardinality(T) \in Nat
    BY FS_Subset, FS_CardinalityType
<1>2. 0 \in N
    BY <1>1, FS_EmptySet
<1>3. ASSUME NEW n \in Nat, n \in N PROVE n + 1 \in N
  <2> SUFFICES ASSUME NEW T \in SUBSET S, Cardinality(T) = n + 1 PROVE T \in G
      OBVIOUS
  <2>1. T # {}
      BY FS_EmptySet, Cardinality({}) = 0, n + 1 # 0
  <2>2. pick[T] \in T /\ T \ {pick[T]} \in SUBSET S
      BY <2>1
  <2>3. PICK x \in T : x = pick[T]
      BY <2>2
  <2>4. Cardinality(T \ {x}) = n
    <3>1. Cardinality(T \ {x}) = Cardinality(T) - 1
        BY <1>1, <2>3, FS_RemoveElement
    <3> QED
        BY <3>1
  <2> QED
      BY <1>3, <2>1, <2>2, <2>3, <2>4
<1>4. Nat \subseteq N
  <2> HIDE DEF N
  <2> QED BY <1>2, <1>3, NatSetInduction
<1> QED
    BY <1>1, <1>4

StaysIn(D, step, S) == \A x \in S, d \in D : step[x][d] \in D

Recursion(g, base, pick, step, S) ==
    g = [T \in SUBSET S |-> IF T = {} THEN base ELSE step[pick[T]][g[T \ {pick[T]}]]]

\* A recursion that stays in D has a solution.
LEMMA SubsetRecursion ==
    ASSUME NEW S, IsFiniteSet(S), NEW pick, Picks(pick, S),
           NEW D, NEW base \in D, NEW step, StaysIn(D, step, S)
    PROVE  \E g : Recursion(g, base, pick, step, S) /\ \A T \in SUBSET S : g[T] \in D
<1> DEFINE Round(g, T) == IF T = {} THEN base ELSE step[pick[T]][g[T \ {pick[T]}]]
           Upto(g, n) == \A T \in SUBSET S : Cardinality(T) =< n => g[T] = Round(g, T)
           N == {n \in Nat : \E g : Upto(g, n)}
<1>1. \A T \in SUBSET S : IsFiniteSet(T) /\ Cardinality(T) \in Nat
    BY FS_Subset, FS_CardinalityType
<1>2. \A T \in SUBSET S : T # {} =>
          /\ pick[T] \in T /\ T \ {pick[T]} \in SUBSET S
          /\ Cardinality(T \ {pick[T]}) = Cardinality(T) - 1
    BY <1>1, FS_RemoveElement DEF Picks
<1>3. 0 \in N
  <2>1. Upto([T \in SUBSET S |-> base], 0)
      BY <1>1, FS_EmptySet
  <2> QED
      BY <2>1
<1>4. ASSUME NEW n \in Nat, n \in N PROVE n + 1 \in N
  <2>1. PICK g : Upto(g, n)
      BY <1>4
  <2> DEFINE h == [T \in SUBSET S |-> IF Cardinality(T) =< n THEN g[T] ELSE Round(g, T)]
  <2>2. ASSUME NEW T \in SUBSET S, Cardinality(T) =< n + 1
        PROVE  h[T] = Round(h, T)
    <3>1. CASE T = {}
      <4>1. Cardinality(T) =< n
          BY <3>1, FS_EmptySet
      <4> QED
          BY <2>1, <3>1, <4>1
    <3>2. CASE T # {}
      <4>1. Cardinality(T \ {pick[T]}) =< n /\ T \ {pick[T]} \in SUBSET S
          BY <1>1, <1>2, <2>2, <3>2
      <4>2. h[T \ {pick[T]}] = g[T \ {pick[T]}]
          BY <4>1
      <4>3. h[T] = Round(g, T)
          BY <2>1
      <4> QED
          BY <3>2, <4>2, <4>3
    <3> QED
        BY <3>1, <3>2
  <2>3. Upto(h, n + 1)
      BY <2>2
  <2>4. \E f : Upto(f, n + 1)
    <3> HIDE DEF h, Upto
    <3> QED BY <2>3
  <2> HIDE DEF Upto
  <2> QED
      BY <2>4, n + 1 \in Nat
<1>5. Nat \subseteq N
  <2> HIDE DEF N
  <2> QED BY <1>3, <1>4, NatSetInduction
<1>6. PICK g : Upto(g, Cardinality(S))
    BY <1>1, <1>5
<1>7. \A T \in SUBSET S : Cardinality(T) =< Cardinality(S)
    BY FS_Subset
<1> DEFINE h == [T \in SUBSET S |-> g[T]]
           G == {T \in SUBSET S : h[T] \in D}
<1>8. h = [T \in SUBSET S |-> Round(h, T)]
    BY <1>2, <1>6, <1>7
<1>9. \A T \in SUBSET S : h[T] = Round(h, T)
    BY <1>2, <1>6, <1>7
<1> HIDE DEF h
<1>10. {} \in G
    BY <1>9
<1>11. ASSUME NEW T \in SUBSET S, T # {}, T \ {pick[T]} \in G PROVE T \in G
  <2>1. pick[T] \in S /\ h[T \ {pick[T]}] \in D
      BY <1>2, <1>11
  <2> QED
      BY <1>9, <1>11, <2>1 DEF StaysIn
<1>12. \A T \in SUBSET S : T \in G
  <2> HIDE DEF G
  <2>1. Grows(G, pick, S)
      BY <1>10, <1>11 DEF Grows
  <2> QED
      BY <2>1, PickInduction
<1> QED
    BY <1>8, <1>12 DEF Recursion
=============================================================================
