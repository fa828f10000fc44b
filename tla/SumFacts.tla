------------------------------ MODULE SumFacts ------------------------------
(***************************************************************************)
(* Facts about sums over finite sets, as MapThenSumSet computes them, and  *)
(* about the remainder of a division.  The models add up counters with the *)
(* one and wrap them with the other.                                       *)
(*                                                                         *)
(* The library defines a sum by recursion and leaves open which element is *)
(* added first.  Every fact about all finite sets is proved here by the    *)
(* least number of elements for which it would fail (LeastNumber).         *)
(***************************************************************************)
EXTENDS Integers, FiniteSetsExt, FiniteSetTheorems, WellFoundedInduction, TLAPS

Sum(f, S) == MapThenSumSet(LAMBDA x : f[x], S)

\* Every set of natural numbers that is not empty has a least element.
LEMMA LeastNumber ==
    ASSUME NEW B, B \subseteq Nat, B # {}
    PROVE  \E n \in B : \A m \in B : n <= m
<1>1. PICK n \in B : \A m \in B : ~ (<<m, n>> \in OpToRel(<, Nat))
  BY NatLessThanWellFounded, WFMin
<1>2. \A m \in B : ~ (m < n)
  BY <1>1 DEF OpToRel
<1> QED
  BY <1>2

\* A collection of finite sets that is not empty has one with the fewest
\* elements.
LEMMA SmallestSet ==
    ASSUME NEW C, C # {}, \A s \in C : IsFiniteSet(s)
    PROVE  \E s \in C : \A u \in C : Cardinality(s) <= Cardinality(u)
<1> DEFINE B == {Cardinality(s) : s \in C}
<1>1. B \subseteq Nat /\ B # {}
  BY FS_CardinalityType
<1>2. PICK n \in B : \A m \in B : n <= m
  BY <1>1, LeastNumber
<1> QED
  BY <1>2

-----------------------------------------------------------------------------
(***************************************************************************)
(* The recursive function behind MapThenSumSet.                            *)
(***************************************************************************)
Chosen(s) == CHOOSE x \in s : TRUE
Summed(f, g, s) == IF s = {} THEN 0 ELSE f[Chosen(s)] + g[s \ {Chosen(s)}]
Iter(f, S) == CHOOSE iter : iter = [s \in SUBSET S |-> Summed(f, iter, s)]

\* A sum is a value of that function.
LEMMA SumIsIter == ASSUME NEW f, NEW S PROVE Sum(f, S) = Iter(f, S)[S]
  BY DEF Sum, MapThenSumSet, MapThenFoldSet, Iter, Summed, Chosen

\* What is left of a finite set without one of its elements.
LEMMA OneLess ==
    ASSUME NEW s, IsFiniteSet(s), NEW x \in s
    PROVE  /\ IsFiniteSet(s \ {x})
           /\ Cardinality(s \ {x}) \in Nat /\ Cardinality(s) \in Nat
           /\ Cardinality(s \ {x}) < Cardinality(s)
<1>1. IsFiniteSet(s \ {x}) /\ Cardinality(s \ {x}) = Cardinality(s) - 1
  BY FS_RemoveElement
<1>2. Cardinality(s) \in Nat /\ Cardinality(s \ {x}) \in Nat
  BY <1>1, FS_CardinalityType
<1> QED
  BY <1>1, <1>2

\* The element the library adds first is one of the set.
LEMMA ChosenIn == ASSUME NEW s, s # {} PROVE Chosen(s) \in s
  BY DEF Chosen

\* The equation of the recursive function has a solution.
LEMMA IterExists ==
    ASSUME NEW f, NEW S, IsFiniteSet(S)
    PROVE  \E g : g = [s \in SUBSET S |-> Summed(f, g, s)]
<1> DEFINE Good(g, n) == \A s \in SUBSET S : Cardinality(s) <= n => g[s] = Summed(f, g, s)
           B == {n \in Nat : ~ \E g : Good(g, n)}
<1>1. \A s \in SUBSET S : IsFiniteSet(s) /\ Cardinality(s) \in Nat
                            /\ Cardinality(s) <= Cardinality(S)
  BY FS_Subset, FS_CardinalityType
<1>2. Cardinality(S) \in Nat
  BY FS_CardinalityType
<1>3. B = {}
  <2>1. SUFFICES ASSUME B # {} PROVE FALSE
    OBVIOUS
  <2>2. PICK n \in B : \A m \in B : n <= m
    BY <2>1, LeastNumber
  <2>3. \E g : Good(g, n)
    <3>1. CASE n = 0
      <4> DEFINE g == [s \in SUBSET S |-> 0]
      <4>1. ASSUME NEW s \in SUBSET S, Cardinality(s) <= n PROVE g[s] = Summed(f, g, s)
        <5>1. s = {}
          BY <1>1, <3>1, <4>1, FS_EmptySet
        <5> QED
          BY <5>1 DEF Summed
      <4> QED
        BY <4>1
    <3>2. CASE n # 0
      <4>1. n - 1 \in Nat /\ n - 1 \notin B
        BY <2>2, <3>2
      <4>2. PICK g : Good(g, n - 1)
        BY <4>1
      <4> DEFINE h == [s \in SUBSET S |-> Summed(f, g, s)]
      <4>3. ASSUME NEW s \in SUBSET S, Cardinality(s) <= n PROVE h[s] = Summed(f, h, s)
        <5>1. CASE s = {}
          BY <5>1 DEF Summed
        <5>2. CASE s # {}
          <6> DEFINE u == s \ {Chosen(s)}
          <6>1. u \in SUBSET S /\ Cardinality(u) <= n - 1
            BY <1>1, <4>3, <5>2, OneLess, ChosenIn
          <6>2. h[u] = g[u]
            BY <4>2, <6>1
          <6> QED
            BY <5>2, <6>2 DEF Summed
        <5> QED
          BY <5>1, <5>2
      <4>4. Good(h, n)
        BY <4>3
      <4> QED
        BY <4>4
    <3> QED
      BY <3>1, <3>2
  <2> QED
    BY <2>3
<1>4. PICK g : Good(g, Cardinality(S))
  BY <1>2, <1>3
<1> DEFINE h == [s \in SUBSET S |-> g[s]]
<1>5. ASSUME NEW s \in SUBSET S PROVE h[s] = Summed(f, h, s)
  <2>1. g[s] = Summed(f, g, s)
    BY <1>1, <1>4
  <2>2. CASE s = {}
    BY <2>1, <2>2 DEF Summed
  <2>3. CASE s # {}
    <3>1. s \ {Chosen(s)} \in SUBSET S
      OBVIOUS
    <3> QED
      BY <2>1, <2>3, <3>1 DEF Summed
  <2> QED
    BY <2>2, <2>3
<1>6. h = [s \in SUBSET S |-> Summed(f, h, s)]
  BY <1>5
<1> QED
  BY <1>6

\* So it is a solution itself.
LEMMA IterEquation ==
    ASSUME NEW f, NEW S, IsFiniteSet(S)
    PROVE  \A s \in SUBSET S : Iter(f, S)[s] = Summed(f, Iter(f, S), s)
<1>1. Iter(f, S) = [s \in SUBSET S |-> Summed(f, Iter(f, S), s)]
  BY IterExists DEF Iter
<1> QED
  BY <1>1

\* The sums over a set and over a part of it go through the same values.
LEMMA IterAgrees ==
    ASSUME NEW f, NEW S, IsFiniteSet(S), NEW T \in SUBSET S
    PROVE  Iter(f, S)[T] = Iter(f, T)[T]
<1> DEFINE C == {s \in SUBSET T : Iter(f, S)[s] # Iter(f, T)[s]}
<1>1. IsFiniteSet(T) /\ \A s \in SUBSET T : IsFiniteSet(s)
  BY FS_Subset
<1>2. C = {}
  <2>1. SUFFICES ASSUME C # {} PROVE FALSE
    OBVIOUS
  <2>2. PICK s \in C : \A u \in C : Cardinality(s) <= Cardinality(u)
    BY <1>1, <2>1, SmallestSet
  <2>3. /\ Iter(f, S)[s] = Summed(f, Iter(f, S), s)
        /\ Iter(f, T)[s] = Summed(f, Iter(f, T), s)
    <3>1. s \in SUBSET S /\ s \in SUBSET T
      OBVIOUS
    <3> QED
      BY <1>1, <3>1, IterEquation
  <2>4. s # {}
    BY <2>3 DEF Summed
  <2>5. s \ {Chosen(s)} \in SUBSET T /\ s \ {Chosen(s)} \notin C
    <3>1. Cardinality(s \ {Chosen(s)}) < Cardinality(s)
          /\ Cardinality(s \ {Chosen(s)}) \in Nat /\ Cardinality(s) \in Nat
      BY <1>1, <2>4, ChosenIn, OneLess
    <3> QED
      BY <2>2, <3>1
  <2> QED
    BY <2>3, <2>4, <2>5 DEF Summed
<1> QED
  BY <1>2

-----------------------------------------------------------------------------
(***************************************************************************)
(* Sums.                                                                   *)
(***************************************************************************)

\* Nothing adds up to 0.
LEMMA SumEmpty == ASSUME NEW f PROVE Sum(f, {}) = 0
<1>1. Iter(f, {})[{}] = Summed(f, Iter(f, {}), {})
  BY FS_EmptySet, IterEquation
<1> QED
  BY <1>1, SumIsIter DEF Summed

\* The first step of a sum.
LEMMA SumStep ==
    ASSUME NEW f, NEW S, IsFiniteSet(S), S # {}
    PROVE  Sum(f, S) = f[Chosen(S)] + Sum(f, S \ {Chosen(S)})
<1>1. Iter(f, S)[S] = Summed(f, Iter(f, S), S)
  BY IterEquation
<1>2. Iter(f, S)[S \ {Chosen(S)}] = Iter(f, S \ {Chosen(S)})[S \ {Chosen(S)}]
  BY IterAgrees
<1> QED
  BY <1>1, <1>2, SumIsIter DEF Summed

\* A sum of integers is an integer.
LEMMA SumInt ==
    ASSUME NEW f, NEW S, IsFiniteSet(S), \A x \in S : f[x] \in Int
    PROVE  Sum(f, S) \in Int
<1> DEFINE C == {s \in SUBSET S : Sum(f, s) \notin Int}
<1>1. \A s \in SUBSET S : IsFiniteSet(s)
  BY FS_Subset
<1>2. C = {}
  <2>1. SUFFICES ASSUME C # {} PROVE FALSE
    OBVIOUS
  <2>2. PICK s \in C : \A u \in C : Cardinality(s) <= Cardinality(u)
    BY <1>1, <2>1, SmallestSet
  <2>3. s # {}
    BY SumEmpty
  <2>4. Chosen(s) \in s /\ s \ {Chosen(s)} \in SUBSET S
    BY <2>3, ChosenIn
  <2>5. s \ {Chosen(s)} \notin C
    BY <1>1, <2>2, <2>4, OneLess
  <2> QED
    BY <1>1, <2>3, <2>4, <2>5, SumStep
<1> QED
  BY <1>2

\* A sum may begin with any element.
LEMMA SumSplit ==
    ASSUME NEW f, NEW S, IsFiniteSet(S), \A x \in S : f[x] \in Int, NEW x \in S
    PROVE  Sum(f, S) = f[x] + Sum(f, S \ {x})
<1> DEFINE C == {s \in SUBSET S : \E y \in s : Sum(f, s) # f[y] + Sum(f, s \ {y})}
<1>1. \A s \in SUBSET S : IsFiniteSet(s) /\ Sum(f, s) \in Int
  BY FS_Subset, SumInt
<1>2. C = {}
  <2>1. SUFFICES ASSUME C # {} PROVE FALSE
    OBVIOUS
  <2>2. PICK s \in C : \A u \in C : Cardinality(s) <= Cardinality(u)
    BY <1>1, <2>1, SmallestSet
  <2>3. PICK y \in s : Sum(f, s) # f[y] + Sum(f, s \ {y})
    OBVIOUS
  <2> DEFINE c == Chosen(s)
  <2>4. c \in s /\ Sum(f, s) = f[c] + Sum(f, s \ {c})
    BY <1>1, <2>3, ChosenIn, SumStep
  <2>5. c # y
    BY <2>3, <2>4
  <2>6. s \ {c} \in SUBSET S /\ s \ {c} \notin C
    <3>1. Cardinality(s \ {c}) < Cardinality(s)
          /\ Cardinality(s \ {c}) \in Nat /\ Cardinality(s) \in Nat
      BY <1>1, <2>4, OneLess
    <3> HIDE DEF C, c
    <3>2. s \ {c} \notin C
      BY <2>2, <3>1
    <3> QED
      BY <3>2 DEF C
  <2>7. s \ {y} \in SUBSET S /\ s \ {y} \notin C
    <3>1. Cardinality(s \ {y}) < Cardinality(s)
          /\ Cardinality(s \ {y}) \in Nat /\ Cardinality(s) \in Nat
      BY <1>1, <2>3, OneLess
    <3> HIDE DEF C
    <3>2. s \ {y} \notin C
      BY <2>2, <3>1
    <3> QED
      BY <3>2 DEF C
  <2>8. Sum(f, s \ {c}) = f[y] + Sum(f, (s \ {c}) \ {y})
    BY <2>5, <2>6
  <2>9. Sum(f, s \ {y}) = f[c] + Sum(f, (s \ {y}) \ {c})
    BY <2>4, <2>5, <2>7
  <2>10. (s \ {c}) \ {y} = (s \ {y}) \ {c} /\ (s \ {y}) \ {c} \in SUBSET S
    OBVIOUS
  <2>11. f[c] \in Int /\ f[y] \in Int /\ Sum(f, (s \ {y}) \ {c}) \in Int
    BY <1>1, <2>4, <2>10
  <2> DEFINE w == Sum(f, (s \ {y}) \ {c})
  <2>12. Sum(f, s \ {c}) = f[y] + w /\ Sum(f, s \ {y}) = f[c] + w
    BY <2>8, <2>9, <2>10
  <2>13. f[c] \in Int /\ f[y] \in Int /\ w \in Int
    BY <2>11
  <2> HIDE DEF c, w
  <2>14. f[c] + (f[y] + w) = f[y] + (f[c] + w)
    BY <2>13
  <2> QED
    BY <2>3, <2>4, <2>12, <2>14
<1> QED
  BY <1>2

\* An element that is new to the set adds its value.
LEMMA SumAdd ==
    ASSUME NEW f, NEW S, IsFiniteSet(S), NEW x, x \notin S,
           \A y \in S \cup {x} : f[y] \in Int
    PROVE  Sum(f, S \cup {x}) = Sum(f, S) + f[x]
<1>1. IsFiniteSet(S \cup {x}) /\ (S \cup {x}) \ {x} = S
  BY FS_AddElement
<1>2. Sum(f, S) \in Int
  BY SumInt
<1> QED
  BY <1>1, <1>2, SumSplit

\* Only the values at the elements of the set matter.
LEMMA SumSame ==
    ASSUME NEW f, NEW g, NEW S, IsFiniteSet(S), \A x \in S : f[x] = g[x]
    PROVE  Sum(f, S) = Sum(g, S)
<1> DEFINE C == {s \in SUBSET S : Sum(f, s) # Sum(g, s)}
<1>1. \A s \in SUBSET S : IsFiniteSet(s)
  BY FS_Subset
<1>2. C = {}
  <2>1. SUFFICES ASSUME C # {} PROVE FALSE
    OBVIOUS
  <2>2. PICK s \in C : \A u \in C : Cardinality(s) <= Cardinality(u)
    BY <1>1, <2>1, SmallestSet
  <2>3. s # {}
    BY SumEmpty
  <2>4. Chosen(s) \in s /\ s \ {Chosen(s)} \in SUBSET S
    BY <2>3, ChosenIn
  <2>5. s \ {Chosen(s)} \notin C
    BY <1>1, <2>2, <2>4, OneLess
  <2> QED
    BY <1>1, <2>3, <2>4, <2>5, SumStep
<1> QED
  BY <1>2

\* When one value changes the sum changes by as much.
LEMMA SumUpdate ==
    ASSUME NEW f, NEW g, NEW S, IsFiniteSet(S), NEW x \in S,
           \A y \in S : f[y] \in Int, g[x] \in Int,
           \A y \in S \ {x} : g[y] = f[y]
    PROVE  Sum(g, S) = Sum(f, S) + (g[x] - f[x])
<1>1. IsFiniteSet(S \ {x})
  BY FS_RemoveElement
<1>2. \A y \in S : g[y] \in Int
  OBVIOUS
<1>3. Sum(f, S) = f[x] + Sum(f, S \ {x}) /\ Sum(g, S) = g[x] + Sum(g, S \ {x})
  BY <1>2, SumSplit
<1>4. Sum(g, S \ {x}) = Sum(f, S \ {x})
  BY <1>1, SumSame
<1>5. Sum(f, S \ {x}) \in Int
  BY <1>1, SumInt
<1> QED
  BY <1>3, <1>4, <1>5

\* Zeros add up to 0.
LEMMA SumZero ==
    ASSUME NEW f, NEW S, IsFiniteSet(S), \A x \in S : f[x] = 0
    PROVE  Sum(f, S) = 0
<1> DEFINE C == {s \in SUBSET S : Sum(f, s) # 0}
<1>1. \A s \in SUBSET S : IsFiniteSet(s)
  BY FS_Subset
<1>2. C = {}
  <2>1. SUFFICES ASSUME C # {} PROVE FALSE
    OBVIOUS
  <2>2. PICK s \in C : \A u \in C : Cardinality(s) <= Cardinality(u)
    BY <1>1, <2>1, SmallestSet
  <2>3. s # {}
    BY SumEmpty
  <2>4. Chosen(s) \in s /\ s \ {Chosen(s)} \in SUBSET S
    BY <2>3, ChosenIn
  <2>5. s \ {Chosen(s)} \notin C
    BY <1>1, <2>2, <2>4, OneLess
  <2> QED
    BY <1>1, <2>3, <2>4, <2>5, SumStep
<1> QED
  BY <1>2

\* A sum of natural numbers is one.
LEMMA SumNat ==
    ASSUME NEW f, NEW S, IsFiniteSet(S), \A x \in S : f[x] \in Nat
    PROVE  Sum(f, S) \in Nat
<1> DEFINE C == {s \in SUBSET S : Sum(f, s) \notin Nat}
<1>1. \A s \in SUBSET S : IsFiniteSet(s)
  BY FS_Subset
<1>2. C = {}
  <2>1. SUFFICES ASSUME C # {} PROVE FALSE
    OBVIOUS
  <2>2. PICK s \in C : \A u \in C : Cardinality(s) <= Cardinality(u)
    BY <1>1, <2>1, SmallestSet
  <2>3. s # {}
    BY SumEmpty
  <2>4. Chosen(s) \in s /\ s \ {Chosen(s)} \in SUBSET S
    BY <2>3, ChosenIn
  <2>5. s \ {Chosen(s)} \notin C
    BY <1>1, <2>2, <2>4, OneLess
  <2> QED
    BY <1>1, <2>3, <2>4, <2>5, SumStep
<1> QED
  BY <1>2

\* Zeros outside of a part of the set do not matter.
LEMMA SumPart ==
    ASSUME NEW f, NEW S, IsFiniteSet(S), \A x \in S : f[x] \in Int,
           NEW T \in SUBSET S, \A x \in S \ T : f[x] = 0
    PROVE  Sum(f, S) = Sum(f, T)
<1> DEFINE C == {s \in SUBSET S : T \subseteq s /\ Sum(f, s) # Sum(f, T)}
<1>1. \A s \in SUBSET S : IsFiniteSet(s)
  BY FS_Subset
<1>2. C = {}
  <2>1. SUFFICES ASSUME C # {} PROVE FALSE
    OBVIOUS
  <2>2. PICK s \in C : \A u \in C : Cardinality(s) <= Cardinality(u)
    BY <1>1, <2>1, SmallestSet
  <2>3. PICK x \in s : x \notin T
    OBVIOUS
  <2>4. s \ {x} \in SUBSET S /\ T \subseteq s \ {x} /\ s \ {x} \notin C
    BY <1>1, <2>2, <2>3, OneLess
  <2>5. f[x] = 0 /\ Sum(f, s) = f[x] + Sum(f, s \ {x})
    BY <1>1, <2>3, SumSplit
  <2>6. Sum(f, s \ {x}) \in Int
    BY <1>1, <2>4, SumInt
  <2> QED
    BY <2>4, <2>5, <2>6
<1> QED
  BY <1>2

-----------------------------------------------------------------------------
(***************************************************************************)
(* Remainders.                                                             *)
(***************************************************************************)

\* A product with a positive number of Ms is at least M.
LEMMA Multiple ==
    ASSUME NEW M \in Nat \ {0}, NEW q \in Int, NEW p \in Int, q < p
    PROVE  /\ M * q \in Int /\ M * p \in Int
           /\ M * q + M <= M * p
<1>1. PICK d \in Nat : p = q + 1 + d
  <2>1. p - q - 1 \in Nat
    OBVIOUS
  <2> QED
    BY <2>1
<1>2. M * p = M * q + M + M * d
  BY <1>1
<1>3. M * d >= 0 /\ M * d \in Int /\ M * q \in Int /\ M * p \in Int
  OBVIOUS
<1> QED
  BY <1>2, <1>3

\* Quotient and remainder are unique.
LEMMA Remainder ==
    ASSUME NEW M \in Nat \ {0}, NEW q \in Int, NEW p \in Int,
           NEW r \in 0 .. M - 1, NEW s \in 0 .. M - 1, M * q + r = M * p + s
    PROVE  q = p /\ r = s
<1>1. CASE q = p
  BY <1>1
<1>2. CASE q < p
  BY <1>2, Multiple
<1>3. CASE p < q
  BY <1>3, Multiple
<1> QED
  BY <1>1, <1>2, <1>3

\* Adding multiples of M does not change the remainder ...
LEMMA SameRemainder ==
    ASSUME NEW M \in Nat \ {0}, NEW a \in Int, NEW b \in Int, NEW k \in Int,
           a = b + M * k
    PROVE  (a % M) = (b % M)
<1> DEFINE q == a \div M
           p == b \div M
           r == a % M
           s == b % M
<1>1. q \in Int /\ p \in Int /\ r \in 0 .. M - 1 /\ s \in 0 .. M - 1
  OBVIOUS
<1>2. a = M * q + r /\ b = M * p + s
  OBVIOUS
<1> HIDE DEF q, p, r, s
<1>3. M * q + r = M * (p + k) + s
  BY <1>1, <1>2
<1>4. r = s
  BY <1>1, <1>3, Remainder
<1> QED
  BY <1>4 DEF r, s

\* ... and nothing else keeps it.
LEMMA RemainderGap ==
    ASSUME NEW M \in Nat \ {0}, NEW a \in Int, NEW b \in Int, (a % M) = (b % M)
    PROVE  \E k \in Int : a = b + M * k
<1> DEFINE q == a \div M
           p == b \div M
<1>1. q \in Int /\ p \in Int /\ (a % M) \in Int
  OBVIOUS
<1>2. a = M * q + (a % M) /\ b = M * p + (b % M)
  OBVIOUS
<1> HIDE DEF q, p
<1>3. a = b + M * (q - p) /\ q - p \in Int
  BY <1>1, <1>2
<1> QED
  BY <1>3

\* Wrapping a number before something is added to it does not show after the
\* next wrap.
LEMMA WrapOnce ==
    ASSUME NEW M \in Nat \ {0}, NEW a \in Int, NEW b \in Int
    PROVE  ((a % M) + b) % M = (a + b) % M
<1> DEFINE q == a \div M
<1>1. q \in Int /\ (a % M) \in Int /\ a = M * q + (a % M)
  OBVIOUS
<1> DEFINE r == a % M
<1> HIDE DEF q, r
<1> DEFINE sum == a + b
           wrapped == r + b
<1>2. sum = wrapped + M * q /\ wrapped \in Int /\ sum \in Int
  BY <1>1 DEF r
<1> HIDE DEF sum, wrapped
<1>3. (sum % M) = (wrapped % M)
  BY <1>1, <1>2, SameRemainder
<1> QED
  BY <1>3 DEF sum, wrapped, r

\* The same number may be added on both sides.
LEMMA AddBoth ==
    ASSUME NEW M \in Nat \ {0}, NEW a \in Int, NEW b \in Int, NEW c \in Int,
           (a % M) = (b % M)
    PROVE  (a + c) % M = (b + c) % M
<1>1. ((a % M) + c) % M = (a + c) % M
  BY WrapOnce
<1>2. ((b % M) + c) % M = (b + c) % M
  BY WrapOnce
<1> QED
  BY <1>1, <1>2
=============================================================================
