---------------------------- MODULE NumberFacts ----------------------------
(***************************************************************************)
(* What the proofs of several components need of finite sets of numbers    *)
(* and rows: that one of them is the least, and that they add up to an     *)
(* integer.  Each is proved from a set with the fewest elements that would *)
(* not have the property.                                                  *)
(***************************************************************************)
EXTENDS Integers, FiniteSets, Functions, FiniteSetTheorems, WellFoundedInduction, TLAPS

\* The well-foundedness of the natural numbers, without an operator parameter.
LEMMA LeastNumber ==
    ASSUME NEW T, T \subseteq Nat, T # {}
    PROVE  \E n \in T : \A m \in T : n <= m
<1>1. PICK R : IsWellFoundedOn(R, Nat) /\ \A m, n \in Nat : m < n => <<m, n>> \in R
  <2>1. \A m, n \in Nat : m < n => <<m, n>> \in OpToRel(<, Nat)
      BY DEF OpToRel
  <2> QED
      BY <2>1, NatLessThanWellFounded
<1>2. IsWellFoundedOn(R, Nat)
    BY <1>1
<1>3. PICK n \in T : \A m \in T : ~(<<m, n>> \in R)
    BY <1>2, WFMin
<1>4. \A m \in T : ~(m < n)
    BY <1>1, <1>3
<1> QED
    BY <1>3, <1>4

----------------------------------------------------------------------------
(* Orders *)

\* R puts any two elements of S in one order, and keeps it from one to the next.
IsOrderOn(R, S) ==
    /\ \A s, t \in S : s # t => <<s, t>> \in R \/ <<t, s>> \in R
    /\ \A s, t, u \in S : <<s, t>> \in R /\ <<t, u>> \in R => <<s, u>> \in R

IsFirst(m, R, S) == \A t \in S \ {m} : <<m, t>> \in R

HasFirst(R, S) == \E m \in S : IsFirst(m, R, S)

\* The first of a set is the first of all but x, or x.
LEMMA FirstWithOneMore ==
    ASSUME NEW R, NEW S, NEW x \in S, IsOrderOn(R, S), S \ {x} # {} => HasFirst(R, S \ {x})
    PROVE  HasFirst(R, S)
<1>1. CASE S \ {x} = {}
    BY <1>1 DEF HasFirst, IsFirst
<1>2. CASE S \ {x} # {}
  <2>1. PICK m \in S \ {x} : \A t \in (S \ {x}) \ {m} : <<m, t>> \in R
      BY <1>2 DEF HasFirst, IsFirst
  <2>2. CASE <<m, x>> \in R
    <3>1. IsFirst(m, R, S)
        BY <2>1, <2>2 DEF IsFirst
    <3> QED
        BY <3>1 DEF HasFirst
  <2>3. CASE <<x, m>> \in R
    <3>1. \A t \in S \ {x} : <<x, t>> \in R
        BY <2>1, <2>3 DEF IsOrderOn
    <3> QED
        BY <3>1 DEF HasFirst, IsFirst
  <2> QED
      BY <2>1, <2>2, <2>3 DEF IsOrderOn
<1> QED
    BY <1>1, <1>2

\* Of finitely many elements in an order one is the first.
LEMMA FirstOfFinite ==
    ASSUME NEW R, NEW S, IsFiniteSet(S), S # {}, IsOrderOn(R, S)
    PROVE  HasFirst(R, S)
<1> DEFINE Bad(n) == \E T \in SUBSET S :
                       T # {} /\ IsFiniteSet(T) /\ Cardinality(T) = n /\ ~HasFirst(R, T)
           Sizes == {n \in Nat : Bad(n)}
<1> SUFFICES ASSUME ~HasFirst(R, S) PROVE FALSE
    OBVIOUS
<1>1. Cardinality(S) \in Sizes
    BY FS_CardinalityType
<1>2. PICK n \in Sizes : \A m \in Sizes : n <= m
    BY <1>1, LeastNumber
<1>3. PICK T \in SUBSET S :
        T # {} /\ IsFiniteSet(T) /\ Cardinality(T) = n /\ ~HasFirst(R, T)
    BY <1>2
<1>4. PICK x \in T : TRUE
    BY <1>3
<1>5. /\ IsFiniteSet(T \ {x}) /\ Cardinality(T \ {x}) = n - 1
      /\ n \in Nat
    BY <1>2, <1>3, <1>4, FS_RemoveElement
<1>6. n - 1 \notin Sizes /\ n - 1 \in Nat
    BY <1>2, <1>5, FS_CardinalityType
<1>7. T \ {x} # {} => HasFirst(R, T \ {x})
    BY <1>5, <1>6
<1>8. IsOrderOn(R, T)
    BY DEF IsOrderOn
<1> QED
    BY <1>3, <1>4, <1>7, <1>8, FirstWithOneMore

HasLargest(T) == \E n \in T : \A m \in T : m <= n

LEMMA LargestNumber ==
    ASSUME NEW S, S \subseteq Int, S # {}, IsFiniteSet(S)
    PROVE  HasLargest(S)
<1> DEFINE R == {p \in S \X S : p[2] < p[1]}
<1>1. IsOrderOn(R, S)
    BY DEF IsOrderOn
<1>2. PICK m \in S : IsFirst(m, R, S)
    BY <1>1, FirstOfFinite DEF HasFirst
<1>3. \A t \in S \ {m} : t < m
    BY <1>2 DEF IsFirst
<1> HIDE DEF R
<1> QED
    BY <1>3 DEF HasLargest

HasSmallest(T) == \E n \in T : \A m \in T : n <= m

LEMMA SmallestNumber ==
    ASSUME NEW S, S \subseteq Int, S # {}, IsFiniteSet(S)
    PROVE  HasSmallest(S)
<1> DEFINE R == {p \in S \X S : p[1] < p[2]}
<1>1. IsOrderOn(R, S)
    BY DEF IsOrderOn
<1>2. PICK m \in S : IsFirst(m, R, S)
    BY <1>1, FirstOfFinite DEF HasFirst
<1>3. \A t \in S \ {m} : m < t
    BY <1>2 DEF IsFirst
<1> HIDE DEF R
<1> QED
    BY <1>3 DEF HasSmallest

----------------------------------------------------------------------------
(* Sums *)

Picked(s) == CHOOSE x \in s : TRUE

\* g adds up f over every set of at most n arguments of it.
AddsUp(g, f, n) ==
    /\ g \in [SUBSET DOMAIN f -> Int]
    /\ \A s \in SUBSET DOMAIN f : Cardinality(s) <= n =>
           g[s] = IF s = {} THEN 0 ELSE f[Picked(s)] + g[s \ {Picked(s)}]

LEMMA AddsUpOneMore ==
    ASSUME NEW f, IsFiniteSet(DOMAIN f), \A x \in DOMAIN f : f[x] \in Int,
           NEW n \in Nat, NEW g, AddsUp(g, f, n)
    PROVE  \E h : AddsUp(h, f, n + 1)
<1> DEFINE sum(s) == f[Picked(s)] + g[s \ {Picked(s)}]
           h == [s \in SUBSET DOMAIN f |-> IF Cardinality(s) <= n THEN g[s] ELSE sum(s)]
<1>1. \A s \in SUBSET DOMAIN f : Cardinality(s) \in Nat /\ (Cardinality(s) = 0 <=> s = {})
    BY FS_Subset, FS_CardinalityType, FS_EmptySet
<1>2. ASSUME NEW s \in SUBSET DOMAIN f, s # {}
      PROVE  /\ Picked(s) \in s
             /\ Cardinality(s \ {Picked(s)}) = Cardinality(s) - 1
             /\ sum(s) \in Int
  <2>1. Picked(s) \in s
      BY <1>2 DEF Picked
  <2>2. Cardinality(s \ {Picked(s)}) = Cardinality(s) - 1
      BY <2>1, FS_Subset, FS_RemoveElement
  <2>3. f[Picked(s)] \in Int /\ g[s \ {Picked(s)}] \in Int
      BY <2>1 DEF AddsUp
  <2> QED
      BY <2>1, <2>2, <2>3
<1>3. \A s \in SUBSET DOMAIN f : h[s] \in Int
  <2> SUFFICES ASSUME NEW s \in SUBSET DOMAIN f PROVE h[s] \in Int
      OBVIOUS
  <2>1. CASE Cardinality(s) <= n
      BY <2>1 DEF AddsUp
  <2>2. CASE ~(Cardinality(s) <= n)
      BY <1>1, <1>2, <2>2
  <2> QED
      BY <2>1, <2>2
<1>4. ASSUME NEW s \in SUBSET DOMAIN f, Cardinality(s) <= n + 1
      PROVE  h[s] = IF s = {} THEN 0 ELSE f[Picked(s)] + h[s \ {Picked(s)}]
  <2>1. CASE s = {}
      BY <1>1, <2>1 DEF AddsUp
  <2>2. CASE s # {}
    <3>1. Cardinality(s \ {Picked(s)}) <= n
        BY <1>1, <1>2, <1>4, <2>2
    <3>2. h[s \ {Picked(s)}] = g[s \ {Picked(s)}]
        BY <3>1
    <3>3. h[s] = sum(s)
        BY <2>2 DEF AddsUp
    <3> QED
        BY <2>2, <3>2, <3>3
  <2> QED
      BY <2>1, <2>2
<1>5. AddsUp(h, f, n + 1)
  <2> HIDE DEF h
  <2>1. h \in [SUBSET DOMAIN f -> Int]
      BY <1>3 DEF h
  <2> QED
      BY <1>4, <2>1 DEF AddsUp
<1> QED
    BY <1>5

\* Finitely many integers have a sum.
LEMMA SomethingAddsUp ==
    ASSUME NEW f, IsFiniteSet(DOMAIN f), \A x \in DOMAIN f : f[x] \in Int, NEW n \in Nat
    PROVE  \E g : AddsUp(g, f, n)
<1> DEFINE Bad == {m \in Nat : ~\E g : AddsUp(g, f, m)}
<1> SUFFICES ASSUME Bad # {} PROVE FALSE
    OBVIOUS
<1>1. PICK m \in Bad : \A k \in Bad : m <= k
    BY LeastNumber
<1>2. m # 0
  <2> DEFINE g == [s \in SUBSET DOMAIN f |-> 0]
  <2>1. \A s \in SUBSET DOMAIN f : Cardinality(s) <= 0 => s = {}
      BY FS_Subset, FS_CardinalityType, FS_EmptySet
  <2>2. AddsUp(g, f, 0)
      BY <2>1 DEF AddsUp
  <2> QED
      BY <1>1, <2>2
<1>3. m - 1 \in Nat /\ m - 1 \notin Bad
    BY <1>1, <1>2
<1>4. \E g : AddsUp(g, f, m - 1)
    BY <1>3
<1>5. \E h : AddsUp(h, f, (m - 1) + 1)
    BY <1>3, <1>4, AddsUpOneMore
<1> QED
    BY <1>1, <1>5

IsSum(g, f) ==
    g = [s \in SUBSET DOMAIN f |->
            IF s = {} THEN 0
            ELSE f[CHOOSE x \in s : TRUE] + g[s \ {CHOOSE x \in s : TRUE}]]

LEMMA SumsAreIntegers ==
    ASSUME NEW f, IsFiniteSet(DOMAIN f), \A x \in DOMAIN f : f[x] \in Int,
           NEW g, IsSum(g, f)
    PROVE  \A s \in SUBSET DOMAIN f : g[s] \in Int
<1> DEFINE Bad == {n \in Nat : \E s \in SUBSET DOMAIN f : Cardinality(s) = n /\ g[s] \notin Int}
<1> SUFFICES ASSUME NEW r \in SUBSET DOMAIN f, g[r] \notin Int PROVE FALSE
    OBVIOUS
<1>1. \A s \in SUBSET DOMAIN f : IsFiniteSet(s) /\ Cardinality(s) \in Nat
    BY FS_Subset, FS_CardinalityType
<1>2. PICK n \in Bad : \A m \in Bad : n <= m
  <2>1. Cardinality(r) \in Bad
      BY <1>1
  <2> QED
      BY <2>1, LeastNumber
<1>3. PICK s \in SUBSET DOMAIN f : Cardinality(s) = n /\ g[s] \notin Int
    BY <1>2
<1>4. s # {}
    BY <1>3 DEF IsSum
<1>5. Picked(s) \in s
    BY <1>4 DEF Picked
<1>6. Cardinality(s \ {Picked(s)}) = n - 1 /\ n - 1 \in Nat
  <2>1. Cardinality(s \ {Picked(s)}) = Cardinality(s) - 1
      BY <1>1, <1>5, FS_RemoveElement
  <2>2. Cardinality(s \ {Picked(s)}) \in Nat
      BY <1>1
  <2> QED
      BY <1>3, <2>1, <2>2
<1>7. g[s \ {Picked(s)}] \in Int
    BY <1>2, <1>6
<1>8. g[s] = f[Picked(s)] + g[s \ {Picked(s)}]
    BY <1>4 DEF IsSum, Picked
<1> QED
    BY <1>3, <1>5, <1>7, <1>8

\* The sum of finitely many integers is an integer.
LEMMA SumIsInteger ==
    ASSUME NEW f, IsFiniteSet(DOMAIN f), \A x \in DOMAIN f : f[x] \in Int
    PROVE  SumFunction(f) \in Int
<1> DEFINE iter[s \in SUBSET DOMAIN f] ==
               IF s = {} THEN 0
               ELSE f[CHOOSE x \in s : TRUE] + iter[s \ {CHOOSE x \in s : TRUE}]
<1>1. SumFunction(f) = iter[DOMAIN f]
    BY DEF SumFunction, SumFunctionOnSet, FoldFunctionOnSet, MapThenFoldSet
<1>2. Cardinality(DOMAIN f) \in Nat
    BY FS_CardinalityType
<1>3. PICK g : AddsUp(g, f, Cardinality(DOMAIN f))
    BY <1>2, SomethingAddsUp
<1>4. \A s \in SUBSET DOMAIN f : Cardinality(s) <= Cardinality(DOMAIN f)
    BY FS_Subset
<1>5. g = [s \in SUBSET DOMAIN f |->
             IF s = {} THEN 0
             ELSE f[CHOOSE x \in s : TRUE] + g[s \ {CHOOSE x \in s : TRUE}]]
    BY <1>3, <1>4 DEF AddsUp, Picked
<1>6. IsSum(iter, f)
    BY <1>5, Zenon DEF IsSum
<1> HIDE DEF iter
<1>7. \A s \in SUBSET DOMAIN f : iter[s] \in Int
    BY <1>6, SumsAreIntegers
<1> QED
    BY <1>1, <1>7

----------------------------------------------------------------------------
(* Recurrences *)

\* f starts with c[1] and goes on with c[i] plus k times what was before.
IsRecurrence(f, n, c, k) ==
    f = [i \in 1 .. n |-> IF i = 1 THEN c[1] ELSE c[i] + k * f[i - 1]]

LEMMA RecurrenceExists ==
    ASSUME NEW n \in Nat, NEW c, NEW k
    PROVE  \E f : IsRecurrence(f, n, c, k)
<1> DEFINE Bad == {m \in Nat : ~\E f : IsRecurrence(f, m, c, k)}
<1> SUFFICES ASSUME Bad # {} PROVE FALSE
    OBVIOUS
<1>1. PICK m \in Bad : \A l \in Bad : m <= l
    BY LeastNumber
<1>2. CASE m = 0
  <2> DEFINE f == [i \in 1 .. 0 |-> 0]
  <2>1. f = [i \in 1 .. 0 |-> IF i = 1 THEN c[1] ELSE c[i] + k * f[i - 1]]
      OBVIOUS
  <2> QED
      BY <1>1, <1>2, <2>1 DEF IsRecurrence
<1>3. CASE m > 0
  <2>1. m - 1 \in Nat /\ m - 1 \notin Bad
      BY <1>1, <1>3
  <2>2. PICK g : g = [i \in 1 .. m - 1 |-> IF i = 1 THEN c[1] ELSE c[i] + k * g[i - 1]]
      BY <2>1 DEF IsRecurrence
  <2> DEFINE f == [i \in 1 .. m |-> IF i = 1 THEN c[1] ELSE c[i] + k * g[i - 1]]
  <2>3. \A i \in 1 .. m - 1 : f[i] = g[i]
      BY <2>2
  <2>4. \A i \in 1 .. m : i # 1 => i - 1 \in 1 .. m - 1
      BY <1>1
  <2>5. \A i \in 1 .. m : f[i] = IF i = 1 THEN c[1] ELSE c[i] + k * f[i - 1]
      BY <2>3, <2>4
  <2>6. f = [i \in 1 .. m |-> f[i]]
      OBVIOUS
  <2> HIDE DEF f
  <2>7. IsRecurrence(f, m, c, k)
      BY <2>5, <2>6 DEF IsRecurrence
  <2> QED
      BY <1>1, <2>7
<1> QED
    BY <1>1, <1>2, <1>3

LEMMA RecurrenceIsInteger ==
    ASSUME NEW n \in Nat, NEW c \in [1 .. n -> Int], NEW k \in Int,
           NEW f, IsRecurrence(f, n, c, k)
    PROVE  \A i \in 1 .. n : f[i] \in Int
<1> DEFINE Bad == {i \in 1 .. n : f[i] \notin Int}
<1> SUFFICES ASSUME Bad # {} PROVE FALSE
    OBVIOUS
<1>1. PICK i \in Bad : \A j \in Bad : i <= j
  <2>1. Bad \subseteq Nat
      OBVIOUS
  <2> QED
      BY <2>1, LeastNumber
<1>2. i # 1
    BY <1>1 DEF IsRecurrence
<1>3. i - 1 \in 1 .. n /\ i - 1 \notin Bad
    BY <1>1, <1>2
<1>4. f[i] = c[i] + k * f[i - 1] /\ c[i] \in Int
    BY <1>1, <1>2 DEF IsRecurrence
<1> QED
    BY <1>1, <1>3, <1>4

----------------------------------------------------------------------------
(* Division *)

\* Division that rounds up gives the least multiple that reaches u.
LEMMA LeastMultiple ==
    ASSUME NEW u \in Int, u > 0, NEW pack \in Nat \ {0}, NEW scale \in Nat \ {0},
           NEW q, q = (u + pack * scale - 1) \div (pack * scale)
    PROVE  /\ q \in Nat \ {0}
           /\ (q * pack) * scale >= u
           /\ (q * pack - pack) * scale < u
<1> DEFINE b == pack * scale
<1>1. b \in Nat \ {0}
    OBVIOUS
<1>2. q \in Nat \ {0} /\ b * q >= u /\ b * (q - 1) < u
  <2>1. q = (u + b - 1) \div b
      OBVIOUS
  <2> HIDE DEF b
  <2> QED
      BY <1>1, <2>1
<1>3. b * q = (q * pack) * scale /\ b * (q - 1) = (q * pack - pack) * scale
    BY <1>2
<1> QED
    BY <1>2, <1>3
=============================================================================
