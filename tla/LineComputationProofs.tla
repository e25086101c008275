----------------------- MODULE LineComputationProofs -----------------------
(***************************************************************************)
(* What the computation of a line promises, proved for any rules, demands, *)
(* suppliers, stocks and orders, any window and any number of changes.     *)
(***************************************************************************)
EXTENDS LineComputation, NumberFacts, SequenceTheorems

----------------------------------------------------------------------------
(* Forecast *)

LEMMA TensArePositive == \A i \in 1 .. Window : Tens[i] \in Nat \ {0}
<1>1. Window \in Nat
    BY LineConstants
<1>2. Tens = [i \in 1 .. Window |-> IF i = 1 THEN 1 ELSE 10 * Tens[i - 1]]
  <2> DEFINE c == [i \in 1 .. Window |-> IF i = 1 THEN 1 ELSE 0]
  <2>1. c \in [1 .. Window -> Int]
      OBVIOUS
  <2>2. PICK g : IsRecurrence(g, Window, c, 10)
      BY <1>1, RecurrenceExists
  <2>3. \A i \in 1 .. Window : g[i] \in Int
    <3> HIDE DEF c
    <3> QED
        BY <1>1, <2>1, <2>2, RecurrenceIsInteger
  <2>4. \A i \in 1 .. Window : i # 1 => i - 1 \in 1 .. Window
      BY <1>1
  <2>5. g = [i \in 1 .. Window |-> IF i = 1 THEN 1 ELSE 10 * g[i - 1]]
      BY <2>2, <2>3, <2>4 DEF IsRecurrence
  <2> QED
      BY <2>5, Zenon DEF Tens
<1> DEFINE Bad == {i \in 1 .. Window : Tens[i] \notin Nat \ {0}}
<1> SUFFICES ASSUME Bad # {} PROVE FALSE
    OBVIOUS
<1>3. PICK i \in Bad : \A j \in Bad : i <= j
  <2>1. Bad \subseteq Nat
      OBVIOUS
  <2> QED
      BY <2>1, LeastNumber
<1>4. i # 1
    BY <1>2, <1>3
<1>5. i - 1 \in 1 .. Window /\ i - 1 \notin Bad
    BY <1>1, <1>3, <1>4
<1>6. Tens[i] = 10 * Tens[i - 1]
    BY <1>2, <1>3, <1>4
<1> QED
    BY <1>3, <1>5, <1>6

LEMMA UnitIsPositive == WeightSum \in Nat \ {0} /\ Unit \in Nat \ {0}
<1>1. Window \in Nat \ {0}
    BY LineConstants
<1>2. WeightSum \in Nat \ {0}
    BY <1>1 DEF WeightSum
<1>3. Tens[Window] \in Nat \ {0}
    BY <1>1, TensArePositive
<1> QED
    BY <1>2, <1>3 DEF Unit

\* Both algorithms give an integer over Unit.
LEMMA ForecastIsInteger ==
    ASSUME NEW d \in [1 .. Window -> Int], NEW algo
    PROVE  ForecastOf(algo, d) \in Int
<1>1. Window \in Nat \ {0} /\ WeightSum \in Int /\ Tens[Window] \in Int
    BY LineConstants, TensArePositive, UnitIsPositive
<1>2. Wma(d) \in Int
  <2> DEFINE f == [i \in 1 .. Window |-> i * d[i]]
  <2>1. IsFiniteSet(DOMAIN f)
      BY <1>1, FS_Interval
  <2>2. \A i \in DOMAIN f : f[i] \in Int
      OBVIOUS
  <2>3. SumFunction(f) \in Int
    <3> HIDE DEF f
    <3> QED
        BY <2>1, <2>2, SumIsInteger
  <2> QED
      BY <1>1, <2>3 DEF Wma
<1>3. Ses(d) \in Int
  <2> DEFINE state[i \in 1 .. Window] ==
                 IF i = 1 THEN d[1] ELSE 3 * d[i] * Tens[i - 1] + 7 * state[i - 1]
             c == [i \in 1 .. Window |-> IF i = 1 THEN d[1] ELSE 3 * d[i] * Tens[i - 1]]
  <2>1. Smoothed(d) = state
      BY DEF Smoothed
  <2>2. \A i \in 1 .. Window : i # 1 => i - 1 \in 1 .. Window
      BY <1>1
  <2>3. c \in [1 .. Window -> Int]
    <3>1. ASSUME NEW i \in 1 .. Window, i # 1 PROVE 3 * d[i] * Tens[i - 1] \in Int
        BY <3>1, <2>2, TensArePositive
    <3> QED
        BY <1>1, <3>1
  <2>4. \A g : IsRecurrence(g, Window, c, 7) <=>
                 g = [i \in 1 .. Window |->
                        IF i = 1 THEN d[1] ELSE 3 * d[i] * Tens[i - 1] + 7 * g[i - 1]]
    <3>1. \A i \in 1 .. Window : c[i] = IF i = 1 THEN d[1] ELSE 3 * d[i] * Tens[i - 1]
        OBVIOUS
    <3>2. 1 \in 1 .. Window
        BY <1>1
    <3> HIDE DEF c
    <3> QED
        BY <3>1, <3>2 DEF IsRecurrence
  <2>5. \E g : IsRecurrence(g, Window, c, 7)
      BY <1>1, RecurrenceExists
  <2>6. IsRecurrence(state, Window, c, 7)
    <3> HIDE DEF c
    <3>1. state = [i \in 1 .. Window |->
                     IF i = 1 THEN d[1] ELSE 3 * d[i] * Tens[i - 1] + 7 * state[i - 1]]
        BY <2>4, <2>5, Zenon
    <3> QED
        BY <2>4, <3>1
  <2>7. state[Window] \in Int
    <3> HIDE DEF state, c
    <3> QED
        BY <1>1, <2>3, <2>6, RecurrenceIsInteger
  <2> HIDE DEF state
  <2> QED
      BY <1>1, <2>1, <2>7 DEF Ses
<1> QED
    BY <1>2, <1>3 DEF ForecastOf

LEMMA ConsecutiveIsSeries ==
    ASSUME NEW series \in Seq(DayRows)
    PROVE  Consecutive(series) \in Seq(DayRows)
<1> DEFINE good(n) == \A i \in 1 .. n :
                          /\ series[i].complete
                          /\ i > 1 => series[i].day = series[i - 1].day + 1
           G == {n \in 0 .. Len(series) : good(n)}
<1>1. Consecutive(series) = SubSeq(series, 1, Max(G))
    BY DEF Consecutive
<1>2. Max(G) \in 0 .. Len(series)
  <2>1. Len(series) \in Nat
      OBVIOUS
  <2>2. 0 \in G
      BY <2>1
  <2>3. G \subseteq 0 .. Len(series)
      OBVIOUS
  <2> HIDE DEF G
  <2>4. G \subseteq Int /\ IsFiniteSet(G)
    <3>1. IsFiniteSet(0 .. Len(series))
        BY <2>1, FS_Interval
    <3>2. G \subseteq Int
        BY <2>1, <2>3
    <3> QED
        BY <2>3, <3>1, <3>2, FS_Subset
  <2>5. PICK n \in G : \A m \in G : m <= n
      BY <2>2, <2>4, LargestNumber DEF HasLargest
  <2>6. \A m \in G : n >= m
      BY <2>4, <2>5
  <2>7. Max(G) \in G
      BY <2>5, <2>6 DEF Max
  <2> QED
      BY <2>3, <2>7
<1> HIDE DEF G
<1>3. \A i \in 1 .. Max(G) : series[i] \in DayRows
    BY <1>2, LenProperties, ElementOfSeq
<1> QED
    BY <1>1, <1>2, <1>3, SubSeqProperties

LEMMA DemandsAreIntegers ==
    ASSUME NEW days \in Seq(DayRows), NEW first \in Nat \ {0},
           first + Window - 1 <= Len(days)
    PROVE  Demands(days, first) \in [1 .. Window -> Int]
<1>1. Window \in Nat \ {0} /\ Len(days) \in Nat
    BY LineConstants
<1>2. ASSUME NEW i \in 1 .. Window PROVE days[first + i - 1].demand \in Int
  <2>1. first + i - 1 \in 1 .. Len(days)
      BY <1>1
  <2>2. days[first + i - 1] \in DayRows
      BY <2>1, ElementOfSeq
  <2> QED
      BY <2>2 DEF DayRows
<1> QED
    BY <1>2 DEF Demands

LEMMA ErrorIsInteger ==
    ASSUME NEW days \in Seq(DayRows), Len(days) >= 2 * Window, NEW algo
    PROVE  ErrorSum(algo, days) \in Int
<1>1. Window \in Nat \ {0} /\ Len(days) \in Nat /\ Unit \in Int
    BY LineConstants, UnitIsPositive
<1> DEFINE D == ValidationDays(days)
           f == [i \in D |-> Distance(ForecastOf(algo, Demands(days, i - Window)),
                                     days[i].demand * Unit)]
<1>2. D \subseteq 1 .. Len(days) /\ IsFiniteSet(D) /\ \A i \in D : i > Window
  <2>1. IsFiniteSet(D)
      BY <1>1, FS_Interval DEF ValidationDays
  <2> QED
      BY <1>1, <2>1 DEF ValidationDays
<1>3. ASSUME NEW i \in D PROVE f[i] \in Int
  <2>1. i - Window \in Nat \ {0} /\ (i - Window) + Window - 1 <= Len(days)
      BY <1>1, <1>2
  <2>2. ForecastOf(algo, Demands(days, i - Window)) \in Int
      BY <2>1, DemandsAreIntegers, ForecastIsInteger
  <2>3. days[i] \in DayRows
      BY <1>2, ElementOfSeq
  <2>4. days[i].demand * Unit \in Int
      BY <1>1, <2>3 DEF DayRows
  <2> QED
      BY <2>2, <2>4 DEF Distance
<1>4. DOMAIN f = D
    OBVIOUS
<1>5. ErrorSum(algo, days) = SumFunction(f)
    BY DEF ErrorSum
<1> HIDE DEF f, D
<1> QED
    BY <1>2, <1>3, <1>4, <1>5, SumIsInteger

\* The algorithm selected is one, and no other has a smaller error.
LEMMA SelectedIsFirst ==
    ASSUME NEW days \in Seq(DayRows), Len(days) >= 2 * Window
    PROVE  /\ SelectAlgorithm(days) \in Algorithms
           /\ \A a \in Algorithms : ErrorSum(SelectAlgorithm(days), days) <= ErrorSum(a, days)
<1>1. \A a \in Algorithms : ErrorSum(a, days) \in Int
    BY ErrorIsInteger
<1>2. \A a, b \in Algorithms : WapeSum(a, days) = WapeSum(b, days)
    BY DEF WapeSum
<1>3. \A a \in Algorithms : WapeSum(a, days) \in Int
  <2> DEFINE f == [a \in Algorithms |-> ErrorSum(a, days)]
  <2>1. IsFiniteSet(DOMAIN f) /\ \A a \in DOMAIN f : f[a] \in Int
    <3>1. Algorithms = {"wma_28_v1"} \cup {"ses_a03_v1"}
        BY DEF Algorithms
    <3>2. IsFiniteSet(Algorithms)
        BY <3>1, FS_Singleton, FS_Union
    <3> QED
        BY <1>1, <3>2
  <2>2. SumFunction(f) \in Int
    <3> HIDE DEF f
    <3> QED
        BY <2>1, SumIsInteger
  <2> QED
      BY <2>2 DEF WapeSum
<1>4. \A a, b \in Algorithms :
          Precedes(a, b, days) <=>
              \/ ErrorSum(a, days) < ErrorSum(b, days)
              \/ ErrorSum(a, days) = ErrorSum(b, days) /\ a = "wma_28_v1"
    BY <1>2, <1>3 DEF Precedes
<1>5. \E a \in Algorithms : \A b \in Algorithms \ {a} : Precedes(a, b, days)
  <2>1. /\ {"wma_28_v1", "ses_a03_v1"} \subseteq Algorithms
        /\ \A b \in Algorithms : b = "wma_28_v1" \/ b = "ses_a03_v1"
      BY DEF Algorithms
  <2>2. \/ Precedes("wma_28_v1", "ses_a03_v1", days)
        \/ Precedes("ses_a03_v1", "wma_28_v1", days)
      BY <1>1, <1>4, <2>1
  <2> QED
      BY <2>1, <2>2
<1>6. /\ SelectAlgorithm(days) \in Algorithms
      /\ \A b \in Algorithms \ {SelectAlgorithm(days)} : Precedes(SelectAlgorithm(days), b, days)
    BY <1>5 DEF SelectAlgorithm
<1> QED
    BY <1>1, <1>4, <1>6

\* A forecast is a record of integers, and its algorithm is the selected one.
LEMMA ForecastIsTyped ==
    ASSUME NEW series \in Seq(DayRows)
    PROVE  /\ Forecast(series) \in ForecastType
           /\ Forecast(series) # Fallback =>
                  \A a \in Algorithms :
                      ErrorSum(Forecast(series).algorithm, Consecutive(series))
                          <= ErrorSum(a, Consecutive(series))
<1> DEFINE days == Consecutive(series)
<1>1. days \in Seq(DayRows)
    BY ConsecutiveIsSeries
<1>2. Window \in Nat \ {0} /\ Scale \in Nat \ {0} /\ Unit \in Nat \ {0} /\ Len(days) \in Nat
    BY <1>1, LineConstants, UnitIsPositive
<1>3. CASE Len(days) < 2 * Window
    BY <1>3 DEF Forecast, Fallback, ForecastType
<1>4. CASE Len(days) >= 2 * Window
  <2> DEFINE algo == SelectAlgorithm(days)
             num == ForecastOf(algo, Demands(days, Len(days) - Window + 1))
  <2>1. algo \in Algorithms /\ \A a \in Algorithms : ErrorSum(algo, days) <= ErrorSum(a, days)
      BY <1>1, <1>4, SelectedIsFirst
  <2>2. /\ Len(days) - Window + 1 \in Nat \ {0}
        /\ (Len(days) - Window + 1) + Window - 1 <= Len(days)
      BY <1>2, <1>4
  <2>3. num \in Int
      BY <1>1, <2>2, DemandsAreIntegers, ForecastIsInteger
  <2>4. Rounded(num) \in Int
    <3> HIDE DEF num
    <3> QED
        BY <1>2, <2>3 DEF Rounded
  <2>5. days[Len(days)].day \in Int
    <3>1. days[Len(days)] \in DayRows
        BY <1>1, <1>2, <1>4, ElementOfSeq
    <3> QED
        BY <3>1 DEF DayRows
  <2>6. Forecast(series) = [algorithm |-> algo, daily |-> Rounded(num), upto |-> days[Len(days)].day]
      BY <1>2, <1>4 DEF Forecast
  <2> HIDE DEF algo, num, days
  <2>7. Forecast(series).algorithm = algo
      BY <2>6
  <2>8. Forecast(series) \in ForecastType
      BY <2>1, <2>4, <2>5, <2>6 DEF ForecastType
  <2> QED
      BY <2>1, <2>7, <2>8 DEF days
<1> QED
    BY <1>2, <1>3, <1>4

----------------------------------------------------------------------------
(* Supplier *)

\* The supplier selected is eligible and comes before every other one that is.
LEMMA SelectedSupplier ==
    ASSUME NEW relations \in SUBSET RelationRows, IsFiniteSet(relations),
           \A s, t \in relations : s.id = t.id => s = t
    PROVE  \/ /\ {s \in relations : Eligible(s)} = {}
              /\ SelectSupplier(relations) = NoSupplier
           \/ /\ SelectSupplier(relations) \in {s \in relations : Eligible(s)}
              /\ \A t \in {s \in relations : Eligible(s)} \ {SelectSupplier(relations)} :
                     Before(SelectSupplier(relations), t)
<1> DEFINE eligible == {s \in relations : Eligible(s)}
           R == {p \in eligible \X eligible : Before(p[1], p[2])}
<1>1. CASE eligible = {}
    BY <1>1 DEF SelectSupplier
<1>2. CASE eligible # {}
  <2>1. \A s \in eligible :
            /\ s \in RelationRows /\ s \in relations
            /\ {s.priority, s.lead, s.price, s.id, FirstDigit(s.price)} \subseteq Int
      BY DEF RelationRows, FirstDigit
  <2>2. ASSUME NEW s \in eligible, NEW t \in eligible, s # t
        PROVE  Before(s, t) \/ Before(t, s)
    <3>1. s.id # t.id
        BY <2>1, <2>2
    <3> QED
        BY <2>1, <2>2, <3>1 DEF Before, StringLess
  <2>3. ASSUME NEW s \in eligible, NEW t \in eligible, NEW u \in eligible,
               Before(s, t), Before(t, u)
        PROVE  Before(s, u)
      BY <2>1, <2>3 DEF Before, StringLess
  <2>4. IsOrderOn(R, eligible)
    <3> HIDE DEF eligible
    <3> QED
        BY <2>2, <2>3 DEF IsOrderOn
  <2>5. IsFiniteSet(eligible)
      BY FS_Subset
  <2>6. PICK s \in eligible : IsFirst(s, R, eligible)
    <3> HIDE DEF eligible, R
    <3> QED
        BY <1>2, <2>4, <2>5, FirstOfFinite DEF HasFirst
  <2>7. \A t \in eligible \ {s} : Before(s, t)
      BY <2>6 DEF IsFirst
  <2>8. SelectSupplier(relations) = CHOOSE r \in eligible : \A t \in eligible \ {r} : Before(r, t)
      BY <1>2 DEF SelectSupplier
  <2> HIDE DEF eligible, R
  <2>9. /\ SelectSupplier(relations) \in eligible
        /\ \A t \in eligible \ {SelectSupplier(relations)} : Before(SelectSupplier(relations), t)
      BY <2>6, <2>7, <2>8
  <2> QED
      BY <2>9 DEF eligible
<1> QED
    BY <1>1, <1>2

----------------------------------------------------------------------------
(* Rules *)

LEMMA LevelOfScope ==
    /\ \A r \in RuleRows : Level(r) \in DOMAIN ScopeOrder /\ ScopeOrder[Level(r)] = r.scope
    /\ DOMAIN ScopeOrder = 1 .. 4
    /\ \A i, j \in 1 .. 4 : ScopeOrder[i] = ScopeOrder[j] => i = j
<1>1. DOMAIN ScopeOrder = 1 .. 4
    BY DEF ScopeOrder
<1>2. \A i, j \in 1 .. 4 : ScopeOrder[i] = ScopeOrder[j] => i = j
    BY DEF ScopeOrder
<1>3. ASSUME NEW r \in RuleRows
      PROVE  Level(r) \in DOMAIN ScopeOrder /\ ScopeOrder[Level(r)] = r.scope
  <2>1. r.scope \in {"product", "category", "warehouse", "global"}
      BY DEF RuleRows
  <2>2. /\ ScopeOrder[1] = "product" /\ ScopeOrder[2] = "category"
        /\ ScopeOrder[3] = "warehouse" /\ ScopeOrder[4] = "global"
      BY DEF ScopeOrder
  <2>3. \E i \in DOMAIN ScopeOrder : ScopeOrder[i] = r.scope
      BY <1>1, <2>1, <2>2
  <2> QED
      BY <2>3 DEF Level
<1> QED
    BY <1>1, <1>2, <1>3

\* Where there are candidates there is a newest one.
LEMMA WinnersExist ==
    ASSUME WorldSound(world), NEW type, NEW scope, Candidates(type, scope) # {}
    PROVE  Winners(type, scope) # {}
<1> DEFINE C == Candidates(type, scope)
           R == {p \in C \X C : p[2].version <= p[1].version}
<1>1. IsFiniteSet(C) /\ \A r \in C : r.version \in Nat
  <2>1. C \subseteq world.rules
      BY DEF Candidates
  <2>2. IsFiniteSet(world.rules) /\ world.rules \subseteq RuleRows
      BY DEF WorldSound, WorldType
  <2> HIDE DEF C
  <2>3. IsFiniteSet(C)
      BY <2>1, <2>2, FS_Subset
  <2> QED
      BY <2>1, <2>2, <2>3 DEF RuleRows
<1> HIDE DEF C
<1>2. IsOrderOn(R, C)
    BY <1>1 DEF IsOrderOn
<1>3. C # {}
    BY DEF C
<1>4. PICK r \in C : IsFirst(r, R, C)
  <2> HIDE DEF R
  <2> QED
      BY <1>1, <1>2, <1>3, FirstOfFinite DEF HasFirst
<1>5. \A s \in C \ {r} : s.version <= r.version
    BY <1>4 DEF IsFirst
<1>6. \A s \in C : s.version <= r.version
    BY <1>1, <1>5
<1> QED
    BY <1>6 DEF Winners, NewestIn, C

\* A rule that is resolved is in force, and there is none it yields to; and
\* without a rule in force nothing is.
LEMMA ResolvedIsFirst ==
    ASSUME WorldSound(world), NEW type
    PROVE  /\ InForce(type) # {} => ResolveRule(type) # None
           /\ ResolveRule(type) \notin {None, Conflict} =>
                  /\ ResolveRule(type) \in InForce(type)
                  /\ \A s \in InForce(type) \ {ResolveRule(type)} : ~Yields(ResolveRule(type), s)
<1> DEFINE W(i) == Winners(type, ScopeOrder[i])
           levels == {i \in DOMAIN ScopeOrder : W(i) # {}}
           top == Min(levels)
<1>1. \A r \in world.rules : r \in RuleRows /\ r.version \in Nat
    BY DEF WorldSound, WorldType, RuleRows
<1>2. ASSUME NEW s \in InForce(type)
      PROVE  /\ s \in RuleRows /\ Level(s) \in 1 .. 4
             /\ s \in Candidates(type, ScopeOrder[Level(s)])
             /\ Level(s) \in levels
  <2>1. s \in world.rules /\ s.type = type /\ s.here /\ Covers(s)
      BY <1>2 DEF InForce
  <2>2. Level(s) \in DOMAIN ScopeOrder /\ ScopeOrder[Level(s)] = s.scope
      BY <1>1, <2>1, LevelOfScope
  <2>3. s \in Candidates(type, ScopeOrder[Level(s)])
      BY <2>1, <2>2 DEF Candidates
  <2>4. W(Level(s)) # {}
      BY <2>3, WinnersExist
  <2> QED
      BY <1>1, <2>1, <2>2, <2>3, <2>4, LevelOfScope
<1>3. ASSUME NEW i \in levels, NEW r \in W(i)
      PROVE  /\ r \in InForce(type) /\ r \in RuleRows /\ Level(r) = i
             /\ \A s \in Candidates(type, ScopeOrder[i]) : s.version <= r.version
  <2>1. r \in Candidates(type, ScopeOrder[i])
      BY <1>3 DEF Winners, NewestIn
  <2>2. \A s \in Candidates(type, ScopeOrder[i]) : s.version <= r.version
      BY <1>3 DEF Winners, NewestIn
  <2>3. r \in InForce(type) /\ r.scope = ScopeOrder[i] /\ r \in RuleRows
      BY <1>1, <2>1 DEF Candidates, InForce
  <2>4. Level(r) = i
      BY <2>3, LevelOfScope
  <2> QED
      BY <2>2, <2>3, <2>4
<1>4. InForce(type) # {} => levels # {}
    BY <1>2
<1>5. levels # {} => top \in levels /\ \A i \in levels : top <= i
  <2>1. levels \subseteq 1 .. 4
      BY LevelOfScope
  <2> HIDE DEF levels
  <2>2. levels \subseteq Nat
      BY <2>1
  <2>3. levels # {} => \E n \in levels : \A m \in levels : n <= m
      BY <2>2, LeastNumber
  <2> QED
      BY <2>3 DEF Min
<1>6. ResolveRule(type) = IF levels = {} THEN None
                          ELSE IF Cardinality(W(top)) = 1 THEN CHOOSE r \in W(top) : TRUE
                          ELSE Conflict
    BY DEF ResolveRule
<1>7. \A r \in RuleRows : r # None
    BY DEF RuleRows, None
<1>8. Conflict # None
    BY DEF Conflict, None
<1> HIDE DEF levels, W
<1>9. ASSUME levels # {}, Cardinality(W(top)) = 1
      PROVE  /\ ResolveRule(type) \in InForce(type)
             /\ ResolveRule(type) # None
             /\ \A s \in InForce(type) \ {ResolveRule(type)} : ~Yields(ResolveRule(type), s)
  <2> DEFINE r == CHOOSE x \in W(top) : TRUE
  <2>1. IsFiniteSet(W(top))
    <3>1. IsFiniteSet(world.rules) /\ W(top) \subseteq world.rules
        BY DEF W, Winners, NewestIn, Candidates, WorldSound
    <3> QED
        BY <3>1, FS_Subset
  <2>2. PICK x : W(top) = {x}
      BY <1>9, <2>1, FS_Singleton
  <2>3. W(top) = {r} /\ ResolveRule(type) = r
      BY <1>6, <1>9, <2>2
  <2> HIDE DEF r
  <2>4. top \in levels /\ \A i \in levels : top <= i
      BY <1>5, <1>9
  <2>5. /\ r \in InForce(type) /\ r \in RuleRows /\ Level(r) = top
        /\ \A s \in Candidates(type, ScopeOrder[top]) : s.version <= r.version
      BY <1>3, <2>3, <2>4
  <2>6. ASSUME NEW s \in InForce(type) \ {r} PROVE ~Yields(r, s)
    <3>1. /\ s \in RuleRows /\ Level(s) \in 1 .. 4 /\ Level(s) \in levels
          /\ s \in Candidates(type, ScopeOrder[Level(s)])
        BY <1>2, <2>6
    <3>2. top <= Level(s) /\ top \in 1 .. 4
        BY <1>2, <2>4, <2>5, <3>1
    <3>3. CASE top < Level(s)
        BY <2>5, <3>1, <3>2, <3>3 DEF Yields
    <3>4. CASE top = Level(s)
      <4>1. s.version <= r.version
          BY <2>5, <3>1, <3>4
      <4>2. s.version # r.version
        <5> SUFFICES ASSUME s.version = r.version PROVE s \in W(top)
            BY <2>3, <2>6
        <5> QED
            BY <2>5, <3>1, <3>4 DEF W, Winners, NewestIn
      <4>3. s.version \in Nat /\ r.version \in Nat
          BY <2>5, <3>1 DEF RuleRows
      <4> QED
          BY <2>5, <3>2, <3>4, <4>1, <4>2, <4>3 DEF Yields
    <3> QED
        BY <3>1, <3>2, <3>3, <3>4
  <2> QED
      BY <1>7, <2>3, <2>5, <2>6
<1> QED
    BY <1>4, <1>6, <1>8, <1>9

----------------------------------------------------------------------------
(* Quantity *)

LEMMA SupplierTerms ==
    ASSUME NEW c \in ChoiceType
    PROVE  /\ c.supplier.lead \in Nat /\ c.supplier.moq \in Nat /\ c.supplier.pack \in Nat \ {0}
           /\ c.safety \in Nat /\ c.review \in Nat /\ c.forecast.daily \in Int
<1>1. c.supplier \in RelationRows \/ c.supplier = NoSupplier
    BY DEF ChoiceType
<1>2. c.supplier.lead \in Nat /\ c.supplier.moq \in Nat /\ c.supplier.pack \in Nat \ {0}
    BY <1>1 DEF RelationRows, NoSupplier
<1> QED
    BY <1>2 DEF ChoiceType, ForecastType

LEMMA NetIsInteger ==
    ASSUME WorldSound(world), NEW c \in ChoiceType, NEW stock \in StockRows, NEW inbound \in Int
    PROVE  Net(c, stock, inbound) \in Int
<1>1. world.window \in Nat
    BY DEF WorldSound, WorldType
<1>2. PlanningWindow(c) \in Nat
  <2> DEFINE m == c.supplier.lead + c.review
  <2>1. m \in Nat
      BY SupplierTerms
  <2>2. PlanningWindow(c) = CHOOSE x \in {world.window, m} : \A y \in {world.window, m} : x >= y
      BY DEF PlanningWindow, Max
  <2>3. \E x \in {world.window, m} : \A y \in {world.window, m} : x >= y
    <3> HIDE DEF m
    <3> QED
        BY <1>1, <2>1
  <2> HIDE DEF m
  <2>4. PlanningWindow(c) \in {world.window, m}
      BY <2>2, <2>3
  <2> QED
      BY <1>1, <2>1, <2>4
<1>3. Scale \in Int /\ c.forecast.daily \in Int /\ c.safety \in Int
    BY LineConstants, SupplierTerms
<1>4. stock.on_hand \in Int /\ stock.reserved \in Int
    BY DEF StockRows
<1>5. c.forecast.daily * PlanningWindow(c) \in Int
    BY <1>2, <1>3
<1>6. c.safety - (stock.on_hand - stock.reserved) - inbound \in Int
    BY <1>3, <1>4
<1>7. (c.safety - (stock.on_hand - stock.reserved) - inbound) * Scale \in Int
    BY <1>3, <1>6
<1> QED
    BY <1>5, <1>7 DEF Net

\* The quantity is nothing without need, and otherwise the least whole number of
\* packs that covers the need and the minimum.
LEMMA QuantityIsLeast ==
    ASSUME WorldSound(world), NEW c \in ChoiceType, NEW stock \in StockRows, NEW inbound \in Int
    PROVE  LET net == Net(c, stock, inbound)
               qty == Quantity(c, stock, inbound)
               pack == c.supplier.pack
           IN  /\ qty \in Nat
               /\ qty = 0 <=> ~(net > 0)
               /\ qty % pack = 0
               /\ net > 0 => /\ qty * Scale >= net /\ qty >= c.supplier.moq
                             /\ ~((qty - pack) * Scale >= net /\ qty - pack >= c.supplier.moq)
<1> DEFINE net == Net(c, stock, inbound)
           qty == Quantity(c, stock, inbound)
           pack == c.supplier.pack
           moq == c.supplier.moq
           u == Max({net, moq * Scale})
           q == Packs(u, pack)
<1>1. /\ net \in Int /\ pack \in Nat \ {0} /\ moq \in Nat /\ Scale \in Nat \ {0}
      /\ moq * Scale \in Int
  <2>1. net \in Int
      BY NetIsInteger
  <2>2. pack \in Nat \ {0} /\ moq \in Nat /\ Scale \in Nat \ {0}
      BY SupplierTerms, LineConstants
  <2> HIDE DEF net, pack, moq
  <2> QED
      BY <2>1, <2>2
<1>2. qty = IF net <= 0 THEN 0 ELSE q * pack
    BY DEF Quantity
<1>3. CASE net <= 0
  <2>1. qty = 0 /\ 0 % pack = 0
    <3> HIDE DEF net, pack, q, qty
    <3> QED
        BY <1>1, <1>2, <1>3
  <2> HIDE DEF net, pack, qty
  <2>2. /\ qty \in Nat
        /\ qty = 0 <=> ~(net > 0)
        /\ qty % pack = 0
        /\ ~(net > 0)
      BY <1>1, <1>3, <2>1
  <2> QED
      BY <2>2 DEF net, pack, qty
<1>4. CASE net > 0
  <2>1. u \in {net, moq * Scale} /\ u >= net /\ u >= moq * Scale
    <3>1. u = CHOOSE x \in {net, moq * Scale} : \A y \in {net, moq * Scale} : x >= y
        BY DEF Max
    <3> HIDE DEF net, moq, u
    <3>2. \E x \in {net, moq * Scale} : \A y \in {net, moq * Scale} : x >= y
        BY <1>1
    <3> QED
        BY <3>1, <3>2
  <2>2. q = (u + pack * Scale - 1) \div (pack * Scale)
      BY DEF Packs, CeilDiv
  <2> HIDE DEF net, moq, u, pack, q, qty
  <2>3. u \in Int /\ u > 0
      BY <1>1, <1>4, <2>1
  <2>4. q \in Nat \ {0} /\ (q * pack) * Scale >= u /\ (q * pack - pack) * Scale < u
      BY <1>1, <2>2, <2>3, LeastMultiple
  <2>5. qty = q * pack
      BY <1>1, <1>2, <1>4
  <2>6. qty \in Nat \ {0} /\ qty % pack = 0
      BY <1>1, <2>4, <2>5
  <2>7. qty * Scale >= u /\ (qty - pack) * Scale < u
      BY <2>4, <2>5
  <2>8. qty * Scale >= net
    <3>1. qty * Scale \in Int
        BY <1>1, <2>6
    <3> QED
        BY <1>1, <2>1, <2>3, <2>7, <3>1
  <2>9. qty >= moq
    <3>1. qty * Scale >= moq * Scale
        BY <1>1, <2>1, <2>3, <2>6, <2>7
    <3> QED
        BY <1>1, <2>6, <3>1
  <2>10. ~((qty - pack) * Scale >= net /\ qty - pack >= moq)
    <3>1. CASE u = net
        BY <1>1, <2>6, <2>7, <3>1
    <3>2. CASE u = moq * Scale
        BY <1>1, <2>6, <2>7, <3>2
    <3> QED
        BY <2>1, <3>1, <3>2
  <2> QED
      BY <1>4, <2>6, <2>8, <2>9, <2>10 DEF net, moq, pack, qty
<1> QED
    BY <1>1, <1>3, <1>4

----------------------------------------------------------------------------
(* The invariant *)

LEMMA InitHolds == Init => IInv
<1> SUFFICES ASSUME Init PROVE IInv
    OBVIOUS
<1>1. NoChoice \in ChoiceType
    BY DEF NoChoice, ChoiceType, Fallback, ForecastType
<1>2. NoStock \in StockRows
    BY DEF NoStock, StockRows
<1>3. WorldSound(world)
    BY LineConstants DEF Init
<1>4. run \in RunType /\ run.step = "rules"
  <2>1. run.step = "rules" /\ run.code = "none" /\ run.kind \in {"draft", "scan"}
      BY LineConstants DEF Init
  <2>2. run.choice \in ChoiceType /\ run.stock \in StockRows /\ run.inbound \in Int
      BY <1>1, <1>2 DEF Init
  <2>3. run \in [step : {"rules"}, code : {"none"}, choice : {NoChoice}, stock : {NoStock},
                inbound : {0}, kind : Kinds]
      BY DEF Init
  <2> QED
      BY <2>1, <2>2, <2>3 DEF RunType, Steps, Codes
<1>5. line \in LineType
  <2>1. 0 \in 0 .. MaxQty
      BY LineConstants
  <2>2. <<NoStock, {}>> \in StockRows \X SUBSET OrderRows
      BY <1>2
  <2> QED
      BY <1>1, <1>2, <2>1, <2>2 DEF Init, NoLine, LineType
<1>6. Typed
    BY <1>3, <1>4, <1>5, LineConstants DEF Init, Typed
<1> QED
    BY <1>4, <1>6 DEF IInv, Chosen, Counted, At, Done

\* What only depends on a part of the world stays as long as that part does.
LEMMA RulesStay ==
    ASSUME world'.rules = world.rules, NEW type
    PROVE  ResolveRule(type)' = ResolveRule(type)
BY DEF ResolveRule, Winners, Candidates

LEMMA QuantityStays ==
    ASSUME world'.window = world.window, NEW c, NEW s, NEW i,
           run'.choice = c, run'.stock = s, run'.inbound = i
    PROVE  /\ Quantity(run.choice, run.stock, run.inbound)' = Quantity(c, s, i)
           /\ Illegal(run.choice, run.stock, run.inbound)' = Illegal(c, s, i)
BY DEF Illegal, Quantity, Net, PlanningWindow

LEMMA InboundIsInteger == ASSUME WorldSound(world) PROVE Inbound \in Int
<1> DEFINE f == [o \in world.orders |-> o.remaining]
<1>1. IsFiniteSet(DOMAIN f) /\ \A o \in DOMAIN f : f[o] \in Int
    BY DEF WorldSound, WorldType, OrderRows
<1>2. SumFunction(f) \in Int
  <2> HIDE DEF f
  <2> QED
      BY <1>1, SumIsInteger
<1> QED
    BY <1>2 DEF Inbound, InboundOf

\* The value of a rule that decides, or nothing.
LEMMA ResolvedIsTyped ==
    ASSUME WorldSound(world), NEW type
    PROVE  ResolveRule(type).value \in Nat
<1>1. CASE ResolveRule(type) \in {None, Conflict}
    BY <1>1 DEF None, Conflict
<1>2. CASE ResolveRule(type) \notin {None, Conflict}
  <2>1. ResolveRule(type) \in InForce(type)
      BY <1>2, ResolvedIsFirst
  <2>2. ResolveRule(type) \in RuleRows
      BY <2>1 DEF InForce, WorldSound, WorldType
  <2> QED
      BY <2>2 DEF RuleRows
<1> QED
    BY <1>1, <1>2

LEMMA Blocked ==
    ASSUME IInv, NEW code \in Codes, Block(code), ~Done, UNCHANGED <<world, line, changes, between>>
    PROVE  IInv'
<1>1. run' \in RunType /\ run'.step = "blocked"
    BY DEF Block, IInv, Typed, RunType, Steps
<1>2. line = NoLine
    BY DEF IInv, Typed, Done
<1>3. Typed'
    BY <1>1, <1>2 DEF IInv, Typed, WorldSound, At
<1>4. Chosen' /\ Counted'
    BY <1>1 DEF Chosen, Counted, At, Done
<1> QED
    BY <1>3, <1>4 DEF IInv

LEMMA ResolveRulesKeeps == ASSUME IInv, ResolveRules PROVE IInv'
<1> DEFINE safety == ResolveRule("safety_stock")
           policy == ResolveRule("replenishment_policy")
           next == [run.choice EXCEPT !.safety = safety.value, !.review = policy.value]
<1>1. At("rules") /\ UNCHANGED <<world, line, changes, between>>
    BY DEF ResolveRules
<1>2. CASE \E code \in Codes : Block(code)
    BY <1>1, <1>2, Blocked DEF At, Done
<1>3. CASE safety \notin {None, Conflict} /\ policy # Conflict /\ Go("forecast", next)
  <2>1. safety.value \in Nat /\ policy.value \in Nat
      BY ResolvedIsTyped DEF IInv, Typed
  <2> HIDE DEF safety, policy
  <2>2. run \in RunType /\ run.choice \in ChoiceType
      BY DEF IInv, Typed, RunType
  <2>3. next \in ChoiceType /\ next.safety = safety.value /\ next.review = policy.value
      BY <2>1, <2>2 DEF ChoiceType
  <2> HIDE DEF next
  <2>4. run' \in RunType /\ run'.step = "forecast" /\ run'.choice = next
      BY <1>3, <2>2, <2>3 DEF Go, RunType, Steps
  <2>5. line = NoLine
      BY <1>1 DEF IInv, Typed, At
  <2>6. Typed'
      BY <1>1, <2>4, <2>5 DEF IInv, Typed, WorldSound, At
  <2>7. Chosen'
    <3>1. /\ ResolveRule("safety_stock")' = safety
          /\ ResolveRule("replenishment_policy")' = policy
        BY <1>1, RulesStay DEF safety, policy
    <3> QED
        BY <1>3, <2>3, <2>4, <3>1 DEF Chosen
  <2>8. Counted'
      BY <2>4 DEF Counted, At, Done
  <2> QED
      BY <2>6, <2>7, <2>8 DEF IInv
<1>4. {"no_rule", "rule_conflict"} \subseteq Codes
    BY DEF Codes
<1> QED
    BY <1>2, <1>3, <1>4 DEF ResolveRules

\* A step that only adds to the choice, once the rules are resolved.
LEMMA ForecastDemandKeeps == ASSUME IInv, ForecastDemand PROVE IInv'
<1> DEFINE next == [run.choice EXCEPT !.forecast = Forecast(world.series)]
<1>1. At("forecast") /\ Go("supplier", next) /\ UNCHANGED <<world, line, changes, between>>
    BY DEF ForecastDemand
<1>2. run \in RunType /\ run.choice \in ChoiceType /\ world.series \in Seq(DayRows)
    BY DEF IInv, Typed, RunType, WorldSound, WorldType
<1>3. Forecast(world.series) \in ForecastType
    BY <1>2, ForecastIsTyped
<1>4. /\ next \in ChoiceType /\ next.forecast = Forecast(world.series)
      /\ next.safety = run.choice.safety /\ next.review = run.choice.review
    BY <1>2, <1>3 DEF ChoiceType
<1> HIDE DEF next
<1>5. run' \in RunType /\ run'.step = "supplier" /\ run'.choice = next
    BY <1>1, <1>2, <1>4 DEF Go, RunType, Steps
<1>6. line = NoLine
    BY <1>1 DEF IInv, Typed, At
<1>7. Typed'
    BY <1>1, <1>5, <1>6 DEF IInv, Typed, WorldSound, At
<1>8. Chosen'
  <2>1. \A type : ResolveRule(type)' = ResolveRule(type)
      BY <1>1, RulesStay
  <2> QED
      BY <1>1, <1>4, <1>5, <2>1 DEF IInv, Chosen, At
<1>9. Counted'
    BY <1>5 DEF Counted, At, Done
<1> QED
    BY <1>7, <1>8, <1>9 DEF IInv

LEMMA ChooseSupplierKeeps == ASSUME IInv, ChooseSupplier PROVE IInv'
<1> DEFINE next == [run.choice EXCEPT !.supplier = SelectSupplier(world.relations)]
<1>1. At("supplier") /\ Go("stock", next) /\ UNCHANGED <<world, line, changes, between>>
    BY DEF ChooseSupplier
<1>2. run \in RunType /\ run.choice \in ChoiceType
    BY DEF IInv, Typed, RunType
<1>3. SelectSupplier(world.relations) \in RelationRows \cup {NoSupplier}
  <2>1. /\ world.relations \in SUBSET RelationRows /\ IsFiniteSet(world.relations)
        /\ \A s, t \in world.relations : s.id = t.id => s = t
      BY DEF IInv, Typed, WorldSound, WorldType
  <2> QED
      BY <2>1, SelectedSupplier
<1>4. /\ next \in ChoiceType /\ next.supplier = SelectSupplier(world.relations)
      /\ next.safety = run.choice.safety /\ next.review = run.choice.review
      /\ next.forecast = run.choice.forecast
    BY <1>2, <1>3 DEF ChoiceType
<1> HIDE DEF next
<1>5. run' \in RunType /\ run'.step = "stock" /\ run'.choice = next
    BY <1>1, <1>2, <1>4 DEF Go, RunType, Steps
<1>6. line = NoLine
    BY <1>1 DEF IInv, Typed, At
<1>7. Typed'
    BY <1>1, <1>5, <1>6 DEF IInv, Typed, WorldSound, At
<1>8. Chosen'
  <2>1. \A type : ResolveRule(type)' = ResolveRule(type)
      BY <1>1, RulesStay
  <2> QED
      BY <1>1, <1>4, <1>5, <2>1 DEF IInv, Chosen, At
<1>9. Counted'
    BY <1>5 DEF Counted, At, Done
<1> QED
    BY <1>7, <1>8, <1>9 DEF IInv

LEMMA ReadStockKeeps == ASSUME IInv, ReadStock PROVE IInv'
<1>1. /\ At("stock") /\ UNCHANGED <<world, line, changes, between>>
      /\ run' = [run EXCEPT !.step = "inbound", !.stock = world.stock]
    BY DEF ReadStock
<1>2. run \in RunType /\ world.stock \in StockRows
    BY DEF IInv, Typed, WorldSound, WorldType
<1>3. /\ run' \in RunType /\ run'.step = "inbound" /\ run'.choice = run.choice
      /\ run'.stock = world.stock
    BY <1>1, <1>2 DEF RunType, Steps
<1>4. line = NoLine
    BY <1>1 DEF IInv, Typed, At
<1>5. Typed'
    BY <1>1, <1>3, <1>4 DEF IInv, Typed, WorldSound, At
<1>6. Chosen'
  <2>1. \A type : ResolveRule(type)' = ResolveRule(type)
      BY <1>1, RulesStay
  <2> QED
      BY <1>1, <1>3, <2>1 DEF IInv, Chosen, At
<1>7. Counted'
  <2>1. run'.stock.version <= world'.stock.version
      BY <1>1, <1>2, <1>3 DEF StockRows
  <2> QED
      BY <1>3, <2>1 DEF Counted, At, Done
<1> QED
    BY <1>5, <1>6, <1>7 DEF IInv

LEMMA ReadInboundKeeps == ASSUME IInv, ReadInbound PROVE IInv'
<1>1. At("inbound") /\ UNCHANGED <<world, line, changes, between>>
    BY DEF ReadInbound
<1>2. CASE \E code \in Codes : Block(code)
    BY <1>1, <1>2, Blocked DEF At, Done
<1>3. CASE /\ ~Illegal(run.choice, run.stock, Inbound) /\ run.choice.supplier # NoSupplier
           /\ run' = [run EXCEPT !.step = "hash", !.inbound = Inbound]
  <2>1. run \in RunType /\ Inbound \in Int
      BY InboundIsInteger DEF IInv, Typed
  <2>2. /\ run' \in RunType /\ run'.step = "hash" /\ run'.choice = run.choice
        /\ run'.stock = run.stock /\ run'.inbound = Inbound
      BY <1>3, <2>1 DEF RunType, Steps
  <2>3. line = NoLine
      BY <1>1 DEF IInv, Typed, At
  <2>4. Typed'
      BY <1>1, <2>2, <2>3 DEF IInv, Typed, WorldSound, At
  <2>5. Chosen'
    <3>1. \A type : ResolveRule(type)' = ResolveRule(type)
        BY <1>1, RulesStay
    <3> QED
        BY <1>1, <2>2, <3>1 DEF IInv, Chosen, At
  <2>6. Counted'
    <3>1. run'.stock.version <= world'.stock.version
        BY <1>1, <2>2 DEF IInv, Counted, At
    <3>2. ~Illegal(run.choice, run.stock, run.inbound)'
      <4>1. Illegal(run.choice, run.stock, run.inbound)' = Illegal(run.choice, run.stock, Inbound)
          BY <1>1, <2>2, QuantityStays
      <4> QED
          BY <1>3, <4>1
    <3>3. run'.choice.supplier # NoSupplier
        BY <1>3, <2>2
    <3>4. run'.inbound = Inbound'
        BY <1>1, <2>2 DEF Inbound, InboundOf
    <3> QED
        BY <2>2, <3>1, <3>2, <3>3, <3>4 DEF Counted, At, Done
  <2> QED
      BY <2>4, <2>5, <2>6 DEF IInv
<1>4. {"illegal_input", "no_supplier"} \subseteq Codes
    BY DEF Codes
<1> QED
    BY <1>2, <1>3, <1>4 DEF ReadInbound

LEMMA TakeHashKeeps == ASSUME IInv, TakeHash PROVE IInv'
<1> DEFINE qty == Quantity(run.choice, run.stock, run.inbound)
<1>1. /\ At("hash") /\ UNCHANGED <<world, changes, between>>
      /\ run' = [run EXCEPT !.step = "done"]
      /\ line' = [qty |-> qty, choice |-> run.choice, stock |-> run.stock,
                  inbound |-> run.inbound, hash |-> <<run.stock, world.orders>>]
    BY DEF TakeHash, Hash
<1>2. /\ run \in RunType /\ run.choice \in ChoiceType /\ run.stock \in StockRows
      /\ run.inbound \in Int /\ WorldSound(world)
    BY DEF IInv, Typed, RunType
<1>3. /\ run' \in RunType /\ run'.step = "done" /\ run'.choice = run.choice
      /\ run'.stock = run.stock /\ run'.inbound = run.inbound
    BY <1>1, <1>2 DEF RunType, Steps
<1>4. ~Illegal(run.choice, run.stock, run.inbound) /\ run.choice.supplier # NoSupplier
    BY <1>1 DEF IInv, Counted, At
<1>5. qty \in 0 .. MaxQty
  <2>1. qty \in Nat
      BY <1>2, QuantityIsLeast
  <2>2. ~(qty > MaxQty)
      BY <1>4 DEF Illegal
  <2> HIDE DEF qty
  <2> QED
      BY <2>1, <2>2, LineConstants
<1> HIDE DEF qty
<1>6. world.orders \in SUBSET OrderRows
    BY <1>2 DEF WorldSound, WorldType
<1>7. line' \in LineType
    BY <1>1, <1>2, <1>5, <1>6 DEF LineType
<1>8. Typed'
    BY <1>1, <1>3, <1>7 DEF IInv, Typed, WorldSound, At
<1>9. Chosen'
  <2>1. \A type : ResolveRule(type)' = ResolveRule(type)
      BY <1>1, RulesStay
  <2> QED
      BY <1>1, <1>3, <2>1 DEF IInv, Chosen, At
<1>10. Counted'
  <2>1. run'.stock.version <= world'.stock.version
      BY <1>1, <1>3 DEF IInv, Counted, At
  <2>2. /\ Quantity(run.choice, run.stock, run.inbound)' = qty
        /\ ~Illegal(run.choice, run.stock, run.inbound)'
      BY <1>1, <1>3, <1>4, QuantityStays DEF qty
  <2>3. /\ line'.choice = run'.choice /\ line'.stock = run'.stock /\ line'.inbound = run'.inbound
        /\ line'.qty = qty /\ line'.hash[1] = run'.stock /\ line'.hash[2] = world.orders
      BY <1>1, <1>3
  <2>4. Unnoticed(run.stock)' => line'.inbound = InboundOf(line.hash[2])'
    <3> SUFFICES ASSUME Unnoticed(run.stock)' PROVE line'.inbound = InboundOf(line.hash[2])'
        OBVIOUS
    <3>1. Unnoticed(run.stock)
        BY <1>1, <1>3 DEF Unnoticed
    <3>2. run.inbound = Inbound
        BY <1>1, <3>1 DEF IInv, Counted
    <3> QED
        BY <1>3, <2>3, <3>2 DEF Inbound, InboundOf
  <2> QED
      BY <1>3, <1>4, <2>1, <2>2, <2>3, <2>4 DEF Counted, At, Done
<1> QED
    BY <1>8, <1>9, <1>10 DEF IInv

\* Other transactions change the stock and the orders, and leave traces: a receipt
\* a newer stock, the others their names if they come between the two readings.
LEMMA OthersKeep ==
    ASSUME IInv, NEW kind \in {"receive", "place", "cancel"}, Change(kind),
           UNCHANGED <<run, line>>, WorldSound(world)',
           world'.rules = world.rules, world'.relations = world.relations,
           world'.series = world.series, world'.window = world.window,
           IF kind = "receive" THEN world'.stock.version = world.stock.version + 1
                               ELSE world'.stock = world.stock
    PROVE  IInv'
<1>1. /\ changes' = changes + 1 /\ changes < MaxChanges
      /\ between' = IF At("hash") THEN between \cup {kind} ELSE between
    BY DEF Change
<1>2. run \in RunType /\ world.stock.version \in Nat /\ run.stock.version \in Nat
    BY DEF IInv, Typed, RunType, WorldSound, WorldType, StockRows
<1>3. Typed'
    BY <1>1, LineConstants DEF IInv, Typed, At
<1>4. Chosen'
  <2>1. \A type : ResolveRule(type)' = ResolveRule(type)
      BY RulesStay
  <2> QED
      BY <2>1 DEF IInv, Chosen
<1>5. Counted'
  <2>1. world'.stock.version >= world.stock.version /\ world'.stock.version \in Nat
      BY <1>2
  <2>2. run.step \in {"inbound", "hash", "done"} =>
            /\ run.stock.version <= world'.stock.version
            /\ kind = "receive" => run.stock.version < world'.stock.version
      BY <1>2, <2>1 DEF IInv, Counted
  <2>3. /\ Illegal(run.choice, run.stock, run.inbound)' =
               Illegal(run.choice, run.stock, run.inbound)
        /\ Quantity(run.choice, run.stock, run.inbound)' =
               Quantity(run.choice, run.stock, run.inbound)
      BY QuantityStays
  <2>4. kind = "receive" /\ run.step \in {"inbound", "hash", "done"} => ~Unnoticed(run.stock)'
      BY <1>2, <2>1, <2>2 DEF Unnoticed
  <2>5. kind # "receive" /\ At("hash") => ~Unnoticed(run.stock)'
      BY <1>1 DEF Unnoticed
  <2>6. kind # "receive" /\ Done /\ Unnoticed(run.stock)' => Unnoticed(run.stock)
      BY <1>1 DEF Unnoticed, Done, At
  <2>7. InboundOf(line.hash[2])' = InboundOf(line.hash[2])
      BY DEF InboundOf
  <2>8. At("hash") /\ Unnoticed(run.stock)' => FALSE
      BY <2>4, <2>5 DEF At
  <2>9. Done /\ Unnoticed(run.stock)' => line.inbound = InboundOf(line.hash[2])
      BY <2>4, <2>6 DEF IInv, Counted, Done, At
  <2> QED
      BY <2>2, <2>3, <2>7, <2>8, <2>9 DEF IInv, Counted, At, Done
<1> QED
    BY <1>3, <1>4, <1>5 DEF IInv

LEMMA ReceiveKeeps == ASSUME IInv, NEW o \in world.orders, Receive(o) PROVE IInv'
<1>1. /\ Change("receive") /\ UNCHANGED <<run, line>>
      /\ world' = [world EXCEPT
                      !.stock.on_hand = @ + 1,
                      !.stock.version = @ + 1,
                      !.orders = (@ \ {o}) \cup
                          {p \in {[o EXCEPT !.remaining = o.remaining - 1]} : p.remaining > 0}]
    BY DEF Receive
<1> DEFINE q == [o EXCEPT !.remaining = o.remaining - 1]
           rest == {p \in {q} : p.remaining > 0}
<1>2. /\ WorldSound(world) /\ world \in WorldType /\ world.stock \in StockRows
      /\ world.orders \in SUBSET OrderRows /\ o \in OrderRows
    BY DEF IInv, Typed, WorldSound, WorldType
<1>3. rest \in SUBSET OrderRows /\ IsFiniteSet(rest)
  <2>1. IsFiniteSet({q})
      BY FS_Singleton
  <2>2. IsFiniteSet(rest)
      BY <2>1, FS_Subset
  <2>3. q.remaining > 0 => q \in OrderRows
      BY <1>2 DEF OrderRows
  <2> QED
      BY <2>2, <2>3
<1>4. IsFiniteSet((world.orders \ {o}) \cup rest)
  <2>1. IsFiniteSet(world.orders \ {o})
      BY <1>2, FS_Subset DEF WorldSound
  <2> HIDE DEF rest
  <2> QED
      BY <1>3, <2>1, FS_Union
<1>5. world'.orders = (world.orders \ {o}) \cup rest
    BY <1>1, <1>2 DEF WorldType
<1> HIDE DEF rest
<1>6. /\ world'.rules = world.rules /\ world'.relations = world.relations
      /\ world'.series = world.series /\ world'.window = world.window
      /\ world'.stock = [world.stock EXCEPT !.on_hand = @ + 1, !.version = @ + 1]
    BY <1>1, <1>2 DEF WorldType
<1>7. world'.stock \in StockRows /\ world'.stock.version = world.stock.version + 1
  <2>1. PICK s \in StockRows : s = world.stock
      BY <1>2
  <2>2. world'.stock = [s EXCEPT !.on_hand = s.on_hand + 1, !.version = s.version + 1]
      BY <1>6, <2>1
  <2>3. s.on_hand + 1 \in Nat /\ s.version + 1 \in Nat
      BY DEF StockRows
  <2> QED
      BY <2>1, <2>2, <2>3 DEF StockRows
<1>8. world' \in WorldType
  <2>1. DOMAIN world' = DOMAIN world /\ world' = [x \in DOMAIN world' |-> world'[x]]
      BY <1>1, <1>2 DEF WorldType
  <2> QED
      BY <1>2, <1>3, <1>5, <1>6, <1>7, <2>1 DEF WorldType
<1>9. WorldSound(world)'
    BY <1>2, <1>4, <1>5, <1>6, <1>8 DEF WorldSound
<1> QED
    BY <1>1, <1>6, <1>7, <1>9, OthersKeep

LEMMA OrdersReplaced ==
    ASSUME WorldSound(world), NEW O \in SUBSET OrderRows, IsFiniteSet(O),
           world' = [world EXCEPT !.orders = O]
    PROVE  /\ WorldSound(world)'
           /\ world'.rules = world.rules /\ world'.relations = world.relations
           /\ world'.series = world.series /\ world'.window = world.window
           /\ world'.stock = world.stock
<1>1. world' \in WorldType
    BY DEF WorldSound, WorldType
<1>2. /\ world'.rules = world.rules /\ world'.relations = world.relations
      /\ world'.series = world.series /\ world'.window = world.window
      /\ world'.stock = world.stock /\ world'.orders = O
    BY DEF WorldSound, WorldType
<1> QED
    BY <1>1, <1>2 DEF WorldSound

LEMMA PlaceKeeps == ASSUME IInv, Place PROVE IInv'
<1> DEFINE O == world.orders \cup {[id |-> 10 + changes, remaining |-> 2]}
<1>1. Change("place") /\ UNCHANGED <<run, line>> /\ world' = [world EXCEPT !.orders = O]
    BY DEF Place
<1>2. O \in SUBSET OrderRows /\ IsFiniteSet(O)
  <2>1. changes \in Nat /\ world.orders \in SUBSET OrderRows /\ IsFiniteSet(world.orders)
      BY DEF IInv, Typed, WorldSound, WorldType
  <2>2. [id |-> 10 + changes, remaining |-> 2] \in OrderRows
      BY <2>1 DEF OrderRows
  <2> QED
      BY <2>1, <2>2, FS_AddElement
<1>3. WorldSound(world)
    BY DEF IInv, Typed
<1> HIDE DEF O
<1>4. /\ WorldSound(world)'
      /\ world'.rules = world.rules /\ world'.relations = world.relations
      /\ world'.series = world.series /\ world'.window = world.window
      /\ world'.stock = world.stock
    BY <1>1, <1>2, <1>3, OrdersReplaced
<1> QED
    BY <1>1, <1>4, OthersKeep

LEMMA CancelKeeps == ASSUME IInv, NEW o \in world.orders, Cancel(o) PROVE IInv'
<1> DEFINE O == world.orders \ {o}
<1>1. Change("cancel") /\ UNCHANGED <<run, line>> /\ world' = [world EXCEPT !.orders = O]
    BY DEF Cancel
<1>2. O \in SUBSET OrderRows /\ IsFiniteSet(O)
    BY FS_Subset DEF IInv, Typed, WorldSound, WorldType
<1>3. WorldSound(world)
    BY DEF IInv, Typed
<1> HIDE DEF O
<1>4. /\ WorldSound(world)'
      /\ world'.rules = world.rules /\ world'.relations = world.relations
      /\ world'.series = world.series /\ world'.window = world.window
      /\ world'.stock = world.stock
    BY <1>1, <1>2, <1>3, OrdersReplaced
<1> QED
    BY <1>1, <1>4, OthersKeep

LEMMA StutteringKeeps == ASSUME IInv, UNCHANGED vars PROVE IInv'
<1>1. \A type : ResolveRule(type)' = ResolveRule(type)
    BY RulesStay DEF vars
<1>2. /\ Illegal(run.choice, run.stock, run.inbound)' =
             Illegal(run.choice, run.stock, run.inbound)
      /\ Quantity(run.choice, run.stock, run.inbound)' =
             Quantity(run.choice, run.stock, run.inbound)
    BY QuantityStays DEF vars
<1>3. Typed'
    BY DEF vars, IInv, Typed, WorldSound, At
<1>4. Chosen'
    BY <1>1 DEF vars, IInv, Chosen
<1>5. Counted'
    BY <1>2 DEF vars, IInv, Counted, At, Done, Unnoticed, Inbound, InboundOf
<1> QED
    BY <1>3, <1>4, <1>5 DEF IInv

\* What the computation has read and chosen belongs together, whatever is received,
\* ordered and cancelled meanwhile (plan_service._compute_line).
THEOREM Invariance == Spec => []IInv
<1>1. Init => IInv
    BY InitHolds
<1>2. IInv /\ [Next]_vars => IInv'
  <2> SUFFICES ASSUME IInv, [Next]_vars PROVE IInv'
      OBVIOUS
  <2>1. CASE Compute
      BY <2>1, ResolveRulesKeeps, ForecastDemandKeeps, ChooseSupplierKeeps, ReadStockKeeps,
         ReadInboundKeeps, TakeHashKeeps DEF Compute
  <2>2. CASE Place
      BY <2>2, PlaceKeeps
  <2>3. CASE \E o \in world.orders : Receive(o) \/ Cancel(o)
      BY <2>3, ReceiveKeeps, CancelKeeps
  <2>4. CASE UNCHANGED vars
      BY <2>4, StutteringKeeps
  <2> QED
      BY <2>1, <2>2, <2>3, <2>4 DEF Next
<1> QED
    BY <1>1, <1>2, PTL DEF Spec

----------------------------------------------------------------------------
(* The theorems *)

\* The variables keep their types, quantities their limit, and a line is only there
\* once it has been computed.
THEOREM TypeCorrect == Spec => []TypeOK
<1>1. IInv => TypeOK
  <2> SUFFICES ASSUME IInv PROVE TypeOK
      OBVIOUS
  <2>1. run.step \in Steps /\ run.code \in Codes
      BY DEF IInv, Typed, RunType
  <2>2. line.qty \in 0 .. MaxQty
      BY DEF IInv, Typed, LineType
  <2>3. \A o \in world.orders : o.remaining \in Nat \ {0}
      BY DEF IInv, Typed, WorldSound, WorldType, OrderRows
  <2> QED
      BY <2>1, <2>2, <2>3 DEF IInv, Typed, TypeOK
<1> QED
    BY <1>1, Invariance, PTL

\* As long as the hash of a line is unchanged its quantity is what would be computed
\* now, if no order was placed or cancelled between the two readings of the orders
\* (plan_service._compute_line, recompute_line_hash).
THEOREM HashVouches == Spec => []HashVouchesForQuantity
<1>1. IInv => HashVouchesForQuantity
  <2> SUFFICES ASSUME IInv, Done, line.hash = Hash(world.stock),
                      between \cap {"place", "cancel"} = {}
               PROVE  line.qty = Quantity(line.choice, world.stock, Inbound)
      BY DEF HashVouchesForQuantity, Stands, UpToDate
  <2>1. line.hash[1] = world.stock /\ line.hash[2] = world.orders
      BY DEF Hash
  <2>2. /\ line.choice = run.choice /\ run.inbound = line.inbound /\ line.hash[1] = run.stock
        /\ line.qty = Quantity(run.choice, run.stock, run.inbound)
        /\ Unnoticed(run.stock) => line.inbound = InboundOf(line.hash[2])
      BY DEF IInv, Counted
  <2>3. Unnoticed(run.stock)
      BY <2>1, <2>2 DEF Unnoticed
  <2> QED
      BY <2>1, <2>2, <2>3 DEF Inbound
<1> QED
    BY <1>1, Invariance, PTL

\* The quantity of a line is the least whole number of packs that covers its need and
\* the supplier's minimum, and zero without need (replenishment.compute_replenishment).
THEOREM QuantityIsTheLeast == Spec => []OrderIsLeast
<1>1. IInv => OrderIsLeast
  <2> SUFFICES ASSUME IInv, Done PROVE OrderIsLeast
      BY DEF OrderIsLeast
  <2>1. /\ line.choice \in ChoiceType /\ line.stock \in StockRows /\ line.inbound \in Int
        /\ WorldSound(world)
      BY DEF IInv, Typed, LineType
  <2>2. line.qty = Quantity(line.choice, line.stock, line.inbound)
      BY DEF IInv, Counted
  <2> QED
      BY <2>1, <2>2, QuantityIsLeast DEF OrderIsLeast, Covered
<1> QED
    BY <1>1, Invariance, PTL

\* Nothing that qualifies comes before what a line rests on: no narrower or newer
\* rule in force, no supplier of better rank or shorter lead time, no algorithm with a
\* smaller error (rules.resolve_rule, supplier.select_supplier, forecast._select_algorithm).
THEOREM ChoicesComeFirst == Spec => []ChoicesAreFirst
<1>1. IInv => ChoicesAreFirst
  <2> SUFFICES ASSUME IInv, Done PROVE ChoicesAreFirst
      BY DEF ChoicesAreFirst
  <2>1. /\ run.step = "done" /\ WorldSound(world) /\ line.choice = run.choice
        /\ world.series \in Seq(DayRows) /\ run.choice.supplier # NoSupplier
      BY DEF IInv, Typed, Counted, WorldSound, WorldType, Done, At
  <2>2. /\ ResolveRule("safety_stock") \notin {None, Conflict}
        /\ ResolveRule("replenishment_policy") # Conflict
        /\ run.choice.safety = ResolveRule("safety_stock").value
        /\ run.choice.review = ResolveRule("replenishment_policy").value
        /\ run.choice.forecast = Forecast(world.series)
        /\ run.choice.supplier = SelectSupplier(world.relations)
      BY <2>1 DEF IInv, Chosen
  <2>3. RuleIsFirst("safety_stock", line.choice.safety)
      BY <2>1, <2>2, ResolvedIsFirst DEF RuleIsFirst
  <2>4. InForce("replenishment_policy") # {} =>
            RuleIsFirst("replenishment_policy", line.choice.review)
      BY <2>1, <2>2, ResolvedIsFirst DEF RuleIsFirst
  <2>5. SupplierIsFirst
    <3> DEFINE eligible == {s \in world.relations : Eligible(s)}
               chosen == SelectSupplier(world.relations)
    <3>1. /\ world.relations \in SUBSET RelationRows /\ IsFiniteSet(world.relations)
          /\ \A s, t \in world.relations : s.id = t.id => s = t
        BY <2>1 DEF WorldSound, WorldType
    <3>2. chosen \in eligible /\ \A t \in eligible \ {chosen} : Before(chosen, t)
        BY <2>1, <2>2, <3>1, SelectedSupplier
    <3>3. \A t \in eligible : t.priority \in Int /\ t.lead \in Int
        BY <3>1 DEF RelationRows
    <3> HIDE DEF eligible, chosen
    <3>4. \A t \in eligible : /\ chosen.priority <= t.priority
                              /\ chosen.priority = t.priority => chosen.lead <= t.lead
        BY <3>2, <3>3 DEF Before
    <3> QED
        BY <2>1, <2>2, <3>4 DEF SupplierIsFirst, eligible, chosen
  <2>6. ForecastIsFirst
      BY <2>1, <2>2, ForecastIsTyped DEF ForecastIsFirst
  <2> QED
      BY <2>3, <2>4, <2>5, <2>6 DEF ChoicesAreFirst
<1> QED
    BY <1>1, Invariance, PTL
=============================================================================
