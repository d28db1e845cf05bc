---- MODULE PointForecastProofs ----
(***************************************************************************)
(* Proofs about PointForecast and the rules it answers by, for any set of  *)
(* questions: any location, any archive, any finite values.                *)
(***************************************************************************)
EXTENDS PointForecast, FiniteSetTheorems, FunctionTheorems, TLAPS

----------------------------------------------------------------------------
(* Putting a finite set in order *)

\* The order tells any two elements apart, and never goes in a circle.
StrictOrder(S, order) ==
  /\ \A x \in S : <<x, x>> \notin order
  /\ \A x, y \in S : x = y \/ <<x, y>> \in order \/ <<y, x>> \in order
  /\ \A x, y, z \in S : <<x, y>> \in order /\ <<y, z>> \in order => <<x, z>> \in order

Before(S, order, x) == {y \in S : <<y, x>> \in order}
Rank(S, order, x) == Cardinality(Before(S, order, x))

\* How many elements come before one is a number below their number, and more of them come
\* before a later one.
LEMMA RankGrows ==
  ASSUME NEW S, IsFiniteSet(S), NEW order, StrictOrder(S, order)
  PROVE  /\ \A x \in S : Rank(S, order, x) \in 0..(Cardinality(S) - 1)
         /\ \A x, y \in S : <<x, y>> \in order => Rank(S, order, x) < Rank(S, order, y)
<1>1. ASSUME NEW x \in S
      PROVE  /\ IsFiniteSet(Before(S, order, x))
             /\ Rank(S, order, x) \in 0..(Cardinality(S) - 1)
  <2>1. x \notin Before(S, order, x) /\ Before(S, order, x) \in SUBSET (S \ {x})
    BY DEF Before, StrictOrder
  <2>2. IsFiniteSet(S \ {x}) /\ Cardinality(S \ {x}) = Cardinality(S) - 1
    BY FS_RemoveElement
  <2>3. /\ IsFiniteSet(Before(S, order, x))
        /\ Cardinality(Before(S, order, x)) <= Cardinality(S \ {x})
    BY <2>1, <2>2, FS_Subset
  <2>4. Cardinality(Before(S, order, x)) \in Nat /\ Cardinality(S) \in Nat
    BY <2>3, FS_CardinalityType
  <2> QED BY <2>2, <2>3, <2>4 DEF Rank
<1>2. ASSUME NEW x \in S, NEW y \in S, <<x, y>> \in order
      PROVE  Rank(S, order, x) < Rank(S, order, y)
  <2>1. x \notin Before(S, order, x)
    BY DEF Before, StrictOrder
  <2>2. Before(S, order, x) \cup {x} \in SUBSET Before(S, order, y)
    BY <1>2 DEF Before, StrictOrder
  <2>3. /\ IsFiniteSet(Before(S, order, x)) /\ IsFiniteSet(Before(S, order, y))
        /\ Rank(S, order, x) \in Int /\ Rank(S, order, y) \in Int
    BY <1>1
  <2>4. Cardinality(Before(S, order, x) \cup {x}) = Cardinality(Before(S, order, x)) + 1
    BY <2>1, <2>3, FS_AddElement
  <2>5. Cardinality(Before(S, order, x) \cup {x}) <= Cardinality(Before(S, order, y))
    BY <2>2, <2>3, FS_Subset
  <2> QED BY <2>3, <2>4, <2>5 DEF Rank
<1> QED BY <1>1, <1>2

\* Exactly one element has so many before it.
LEMMA RankTaken ==
  ASSUME NEW S, IsFiniteSet(S), NEW order, StrictOrder(S, order)
  PROVE  /\ \A x, y \in S : Rank(S, order, x) = Rank(S, order, y) => x = y
         /\ \A k \in 0..(Cardinality(S) - 1) : \E x \in S : Rank(S, order, x) = k
<1> DEFINE rank == [x \in S |-> Rank(S, order, x)]
<1>1. ASSUME NEW x \in S, NEW y \in S, x # y
      PROVE  Rank(S, order, x) # Rank(S, order, y)
  <2>1. <<x, y>> \in order \/ <<y, x>> \in order
    BY <1>1 DEF StrictOrder
  <2>2. /\ <<x, y>> \in order => Rank(S, order, x) < Rank(S, order, y)
        /\ <<y, x>> \in order => Rank(S, order, y) < Rank(S, order, x)
        /\ Rank(S, order, x) \in Int /\ Rank(S, order, y) \in Int
    BY RankGrows
  <2> QED BY <2>1, <2>2
<1>2. rank \in [S -> 0..(Cardinality(S) - 1)]
  BY RankGrows
<1>3. rank \in Injection(S, 0..(Cardinality(S) - 1))
  BY <1>1, <1>2 DEF Injection, IsInjective
<1>4. Cardinality(S) \in Nat
  BY FS_CardinalityType
<1>5. /\ IsFiniteSet(0..(Cardinality(S) - 1))
      /\ Cardinality(0..(Cardinality(S) - 1)) = Cardinality(S)
  BY <1>4, FS_Interval
<1>6. rank \in Surjection(S, 0..(Cardinality(S) - 1))
  BY <1>3, <1>5, FS_Injection
<1>7. \A k \in 0..(Cardinality(S) - 1) : \E x \in S : rank[x] = k
  BY <1>6 DEF Surjection
<1> QED BY <1>1, <1>7

\* InOrder lists every element, each behind those that the order puts before it.
LEMMA InOrderSorts ==
  ASSUME NEW S, IsFiniteSet(S), NEW order, StrictOrder(S, order)
  PROVE  /\ Cardinality(S) \in Nat
         /\ DOMAIN InOrder(S, order) = 1..Cardinality(S)
         /\ InOrder(S, order) \in [1..Cardinality(S) -> S]
         /\ \A x \in S : \E k \in 1..Cardinality(S) : InOrder(S, order)[k] = x
         /\ \A i, j \in 1..Cardinality(S) :
              i < j => <<InOrder(S, order)[i], InOrder(S, order)[j]>> \in order
<1> DEFINE n == Cardinality(S)
           sorted == InOrder(S, order)
<1>1. n \in Nat
  BY FS_CardinalityType
<1>2. ASSUME NEW k \in 1..n
      PROVE  sorted[k] \in S /\ Rank(S, order, sorted[k]) = k - 1
  <2>1. \E x \in S : Rank(S, order, x) = k - 1
    BY <1>1, RankTaken
  <2>2. sorted[k] = CHOOSE x \in S : Rank(S, order, x) = k - 1
    BY DEF InOrder, Rank, Before
  <2> QED BY <2>1, <2>2
<1>3. DOMAIN sorted = 1..n /\ sorted \in [1..n -> S]
  BY <1>2 DEF InOrder
<1>4. ASSUME NEW x \in S PROVE \E k \in 1..n : sorted[k] = x
  <2>1. Rank(S, order, x) \in 0..(n - 1)
    BY RankGrows
  <2>2. Rank(S, order, x) + 1 \in 1..n
    BY <1>1, <2>1
  <2>3. /\ sorted[Rank(S, order, x) + 1] \in S
        /\ Rank(S, order, sorted[Rank(S, order, x) + 1]) = Rank(S, order, x)
    BY <1>2, <2>1, <2>2
  <2> QED BY <2>2, <2>3, RankTaken
<1>5. ASSUME NEW i \in 1..n, NEW j \in 1..n, i < j
      PROVE  <<sorted[i], sorted[j]>> \in order
  <2>1. /\ sorted[i] \in S /\ Rank(S, order, sorted[i]) = i - 1
        /\ sorted[j] \in S /\ Rank(S, order, sorted[j]) = j - 1
    BY <1>2
  <2>2. sorted[i] # sorted[j] /\ <<sorted[j], sorted[i]>> \notin order
    BY <1>1, <1>5, <2>1, RankGrows
  <2> QED BY <2>1, <2>2 DEF StrictOrder
<1> QED BY <1>1, <1>3, <1>4, <1>5

\* It is the only list that does.
LEMMA InOrderUnique ==
  ASSUME NEW S, IsFiniteSet(S), NEW order, StrictOrder(S, order),
         NEW n \in Nat, NEW list \in [1..n -> S],
         \A x \in S : \E k \in 1..n : list[k] = x,
         \A i, j \in 1..n : i < j => <<list[i], list[j]>> \in order
  PROVE  n = Cardinality(S) /\ list = InOrder(S, order)
<1>1. ASSUME NEW i \in 1..n, NEW j \in 1..n, list[i] = list[j]
      PROVE  i = j
  <2>1. <<list[i], list[i]>> \notin order
    BY DEF StrictOrder
  <2>2. ~(i < j) /\ ~(j < i)
    BY <1>1, <2>1
  <2> QED BY <2>2
<1>2. list \in Bijection(1..n, S)
  BY <1>1 DEF Bijection, Injection, Surjection, IsInjective
<1>3. IsFiniteSet(1..n) /\ Cardinality(1..n) = n
  BY FS_Interval
<1>4. n = Cardinality(S)
  BY <1>2, <1>3, FS_Bijection DEF ExistsBijection
<1>5. ASSUME NEW k \in 1..n PROVE Rank(S, order, list[k]) = k - 1
  <2> DEFINE start == [i \in 1..(k - 1) |-> list[i]]
  <2>1. ASSUME NEW y \in Before(S, order, list[k]) PROVE \E i \in 1..(k - 1) : start[i] = y
    <3>1. PICK i \in 1..n : list[i] = y
      BY DEF Before
    <3>2. <<list[i], list[k]>> \in order
      BY <3>1 DEF Before
    <3>3. ~(k < i) /\ i # k
      BY <3>2 DEF StrictOrder
    <3> QED BY <3>1, <3>3
  <2>2. ASSUME NEW i \in 1..(k - 1) PROVE start[i] \in Before(S, order, list[k])
    BY DEF Before
  <2>3. \A i, j \in 1..(k - 1) : start[i] = start[j] => i = j
    BY <1>1
  <2>4. start \in Bijection(1..(k - 1), Before(S, order, list[k]))
    BY <2>1, <2>2, <2>3 DEF Bijection, Injection, Surjection, IsInjective
  <2>5. IsFiniteSet(1..(k - 1)) /\ Cardinality(1..(k - 1)) = k - 1
    BY FS_Interval
  <2> QED BY <2>4, <2>5, FS_Bijection DEF ExistsBijection, Rank
<1>6. ASSUME NEW k \in 1..n PROVE InOrder(S, order)[k] = list[k]
  <2>1. /\ list[k] \in S /\ Rank(S, order, list[k]) = k - 1
        /\ \A x \in S : Rank(S, order, x) = k - 1 => x = list[k]
    BY <1>5, RankTaken
  <2>2. InOrder(S, order)[k] = CHOOSE x \in S : Rank(S, order, x) = k - 1
    BY <1>4 DEF InOrder, Rank, Before
  <2> QED BY <2>1, <2>2
<1>7. InOrder(S, order) \in [1..n -> S]
  BY <1>4, InOrderSorts
<1>8. InOrder(S, order) = list
  BY <1>6, <1>7
<1> QED BY <1>4, <1>8

\* Numbers in ascending order
LEMMA AscendingSorts ==
  ASSUME NEW S \in SUBSET Int, IsFiniteSet(S)
  PROVE  /\ Cardinality(S) \in Nat
         /\ DOMAIN Ascending(S) = 1..Cardinality(S)
         /\ Ascending(S) \in [1..Cardinality(S) -> S]
         /\ \A x \in S : \E k \in 1..Cardinality(S) : Ascending(S)[k] = x
         /\ \A i, j \in 1..Cardinality(S) : i < j => Ascending(S)[i] < Ascending(S)[j]
<1> DEFINE less == {pair \in S \X S : pair[1] < pair[2]}
<1>1. StrictOrder(S, less)
  BY DEF StrictOrder
<1>2. Ascending(S) = InOrder(S, less)
  BY DEF Ascending
<1>3. \A x, y : <<x, y>> \in less => x < y
  OBVIOUS
<1> HIDE DEF less
<1>4. /\ Cardinality(S) \in Nat
      /\ DOMAIN InOrder(S, less) = 1..Cardinality(S)
      /\ InOrder(S, less) \in [1..Cardinality(S) -> S]
      /\ \A x \in S : \E k \in 1..Cardinality(S) : InOrder(S, less)[k] = x
      /\ \A i, j \in 1..Cardinality(S) :
           i < j => <<InOrder(S, less)[i], InOrder(S, less)[j]>> \in less
  BY <1>1, InOrderSorts
<1> QED BY <1>2, <1>3, <1>4

\* A finite set of numbers has a least and a greatest one.
LEMMA LeastAndGreatest ==
  ASSUME NEW S \in SUBSET Int, IsFiniteSet(S), S # {}
  PROVE  /\ Min(S) \in S /\ \A x \in S : Min(S) <= x
         /\ Max(S) \in S /\ \A x \in S : x <= Max(S)
<1> DEFINE n == Cardinality(S)
           sorted == Ascending(S)
<1>1. n \in Nat /\ n # 0
  BY FS_CardinalityType, FS_EmptySet
<1>2. /\ \A k \in 1..n : sorted[k] \in S
      /\ \A x \in S : \E k \in 1..n : sorted[k] = x
      /\ \A i, j \in 1..n : i < j => sorted[i] < sorted[j]
  BY AscendingSorts
<1> HIDE DEF n, sorted
<1>3. sorted[1] \in S /\ \A x \in S : sorted[1] <= x
  <2>1. 1 \in 1..n
    BY <1>1
  <2>2. ASSUME NEW x \in S PROVE sorted[1] <= x
    <3>1. PICK k \in 1..n : sorted[k] = x
      BY <1>2
    <3>2. k = 1 \/ 1 < k
      BY <1>1
    <3>3. x \in Int
      OBVIOUS
    <3>4. sorted[1] \in Int /\ (1 < k => sorted[1] < sorted[k])
      BY <1>2, <2>1
    <3> QED BY <3>1, <3>2, <3>3, <3>4
  <2> QED BY <1>2, <2>1, <2>2
<1>4. sorted[n] \in S /\ \A x \in S : x <= sorted[n]
  <2>1. n \in 1..n
    BY <1>1
  <2>2. ASSUME NEW x \in S PROVE x <= sorted[n]
    <3>1. PICK k \in 1..n : sorted[k] = x
      BY <1>2
    <3>2. k = n \/ k < n
      BY <1>1
    <3>3. x \in Int
      OBVIOUS
    <3>4. sorted[n] \in Int /\ (k < n => sorted[k] < sorted[n])
      BY <1>2, <2>1
    <3> QED BY <3>1, <3>2, <3>3, <3>4
  <2> QED BY <1>2, <2>1, <2>2
<1>5. Min(S) \in S /\ \A x \in S : Min(S) <= x
  BY <1>3 DEF Min
<1>6. Max(S) \in S /\ \A x \in S : x <= Max(S)
  BY <1>4 DEF Max
<1> QED BY <1>5, <1>6

\* What a list holds is finite.
LEMMA FiniteRange ==
  ASSUME NEW n \in Nat, NEW f
  PROVE  IsFiniteSet({f[i] : i \in 1..n}) /\ Cardinality({f[i] : i \in 1..n}) <= n
<1> DEFINE R == {f[i] : i \in 1..n}
<1>1. [i \in 1..n |-> f[i]] \in Surjection(1..n, R)
  BY DEF Surjection
<1>2. IsFiniteSet(1..n) /\ Cardinality(1..n) = n
  BY FS_Interval
<1> QED BY <1>1, <1>2, FS_Surjection

\* The limits of Clamp, and Max and Min of two
LEMMA TwoNumbers ==
  ASSUME NEW x \in Int, NEW y \in Int
  PROVE  /\ x < y => Max({x, y}) = y /\ Min({x, y}) = x
         /\ ~(x < y) => Max({x, y}) = x /\ Min({x, y}) = y
<1>1. {x, y} \in SUBSET Int /\ {x, y} # {} /\ IsFiniteSet({x, y})
  <2>1. IsFiniteSet({x}) /\ {x, y} = {x} \cup {y}
    BY FS_Singleton
  <2> QED BY <2>1, FS_AddElement
<1>2. /\ Min({x, y}) \in {x, y} /\ \A z \in {x, y} : Min({x, y}) <= z
      /\ Max({x, y}) \in {x, y} /\ \A z \in {x, y} : z <= Max({x, y})
  BY <1>1, LeastAndGreatest
<1> QED BY <1>2

LEMMA ClampLimits ==
  ASSUME NEW low \in Int, NEW high \in Int, low <= high, NEW x \in Int
  PROVE  Clamp(low, high, x) = IF x < low THEN low ELSE IF x > high THEN high ELSE x
<1>1. Max({low, x}) = IF low < x THEN x ELSE low
  BY TwoNumbers
<1>2. Max({low, x}) \in Int
  BY <1>1
<1>3. Min({high, Max({low, x})}) = IF high < Max({low, x}) THEN high ELSE Max({low, x})
  BY <1>2, TwoNumbers
<1> QED BY <1>1, <1>3 DEF Clamp

----------------------------------------------------------------------------
(* The rules both providers share *)

LEMMA HalfEvenInt ==
  ASSUME NEW n \in Int, NEW d \in Nat \ {0}
  PROVE  HalfEven(n, d) \in Int
<1>1. n \div d \in Int
  OBVIOUS
<1> QED BY <1>1 DEF HalfEven

LEMMA DecimalsInt ==
  ASSUME NEW n \in Int, NEW d \in Nat \ {0}
  PROVE  OneDecimal(n, d) \in Int /\ TwoDecimals(n, d) \in Int
<1>1. 100 * d \in Nat \ {0} /\ 10 * d \in Nat \ {0}
  OBVIOUS
<1>2. HalfEven(n, 100 * d) \in Int /\ HalfEven(n, 10 * d) \in Int
  BY <1>1, HalfEvenInt
<1> QED BY <1>2 DEF OneDecimal, TwoDecimals

\* The limits of percentages and confidences are rounded already: rounding stays between them.
LEMMA PercentStays ==
  ASSUME NEW n \in Int, 2000 <= n, n <= 96000
  PROVE  OneDecimal(n, 1) \in Int /\ 2000 <= OneDecimal(n, 1) /\ OneDecimal(n, 1) <= 96000
BY SMT DEF OneDecimal, HalfEven

LEMMA PercentOfTenthsStays ==
  ASSUME NEW n \in Int, 150000 <= n, n <= 980000
  PROVE  OneDecimal(n, 10) \in Int /\ 15000 <= OneDecimal(n, 10) /\ OneDecimal(n, 10) <= 98000
BY SMT DEF OneDecimal, HalfEven

LEMMA ConfidenceStays ==
  ASSUME NEW n \in Int, 550 <= n, n <= 950
  PROVE  TwoDecimals(n, 1) \in Int /\ 550 <= TwoDecimals(n, 1) /\ TwoDecimals(n, 1) <= 950
BY SMT DEF TwoDecimals, HalfEven

LEMMA ConfidenceOfTenthsStays ==
  ASSUME NEW n \in Int, 6200 <= n, n <= 9500
  PROVE  TwoDecimals(n, 10) \in Int /\ 620 <= TwoDecimals(n, 10) /\ TwoDecimals(n, 10) <= 950
BY SMT DEF TwoDecimals, HalfEven

\* Every condition has one meaning.
LEMMA ConditionMeans ==
  ASSUME NEW wind \in Int, NEW humidity \in Int, NEW rain \in Int
  PROVE  /\ Condition(wind, humidity, rain) \in {"clear", "breezy", "humid", "rain_watch"}
         /\ Condition(wind, humidity, rain) = "rain_watch" <=> rain >= 45000
         /\ wind >= 8000 => Condition(wind, humidity, rain) \in {"breezy", "rain_watch"}
<1>1. CASE rain >= 45000
  BY <1>1 DEF Condition
<1>2. CASE rain < 45000 /\ wind >= 8000
  BY <1>2 DEF Condition
<1>3. CASE rain < 45000 /\ wind < 8000
  BY <1>3 DEF Condition
<1> QED BY <1>1, <1>2, <1>3

\* A step whose condition is the one of its own wind, humidity and rain
Conditioned(step) ==
  /\ step.wind \in Int /\ step.humidity \in Int /\ step.rain \in Int
  /\ step.condition = Condition(step.wind, step.humidity, step.rain)

\* The signals of any timeline agree with the conditions of its steps: the extremes are
\* those of some step, and every threshold of a signal lies on the right side of the one of
\* the condition.
LEMMA SignalsOfSteps ==
  ASSUME NEW n \in Nat \ {0}, NEW timeline, DOMAIN timeline = 1..n,
         \A i \in 1..n : Conditioned(timeline[i])
  PROVE  LET Conditions == {timeline[i].condition : i \in DOMAIN timeline}
             Windiest == {i \in DOMAIN timeline :
                            \A j \in DOMAIN timeline : timeline[j].wind <= timeline[i].wind}
         IN /\ Signals(timeline).precipitation = "elevated" => "rain_watch" \in Conditions
            /\ "rain_watch" \in Conditions => Signals(timeline).precipitation # "low"
            /\ Signals(timeline).wind = "moderate" =>
                 \A i \in Windiest : timeline[i].condition \in {"breezy", "rain_watch"}
<1> DEFINE rains == {timeline[i].rain : i \in 1..n}
           winds == {timeline[i].wind : i \in 1..n}
<1>1. rains \in SUBSET Int /\ winds \in SUBSET Int /\ rains # {} /\ winds # {}
  BY DEF Conditioned
<1>2. IsFiniteSet(rains)
  <2>1. IsFiniteSet({[k \in 1..n |-> timeline[k].rain][i] : i \in 1..n})
    BY FiniteRange
  <2> QED BY <2>1
<1>3. IsFiniteSet(winds)
  <2>1. IsFiniteSet({[k \in 1..n |-> timeline[k].wind][i] : i \in 1..n})
    BY FiniteRange
  <2> QED BY <2>1
<1>4. /\ Max(rains) \in rains /\ Max(rains) \in Int /\ \A x \in rains : x <= Max(rains)
      /\ Max(winds) \in winds /\ Max(winds) \in Int /\ \A x \in winds : x <= Max(winds)
  BY <1>1, <1>2, <1>3, LeastAndGreatest
<1>5. /\ Signals(timeline).precipitation =
           IF Max(rains) >= 55000 THEN "elevated"
           ELSE IF Max(rains) >= 35000 THEN "moderate" ELSE "low"
      /\ Signals(timeline).wind = IF Max(winds) >= 9000 THEN "moderate" ELSE "low"
  BY DEF Signals
<1>6. ASSUME Signals(timeline).precipitation = "elevated"
      PROVE  \E i \in 1..n : timeline[i].condition = "rain_watch"
  <2>1. Max(rains) >= 55000
    BY <1>5, <1>6
  <2>2. PICK i \in 1..n : timeline[i].rain = Max(rains)
    BY <1>4
  <2>3. timeline[i].rain \in Int /\ timeline[i].rain >= 45000
    BY <1>4, <2>1, <2>2
  <2> QED BY <2>3, ConditionMeans DEF Conditioned
<1>7. ASSUME NEW i \in 1..n, timeline[i].condition = "rain_watch"
      PROVE  Signals(timeline).precipitation # "low"
  <2>1. timeline[i].rain \in Int /\ timeline[i].rain >= 45000
    BY <1>7, ConditionMeans DEF Conditioned
  <2>2. timeline[i].rain <= Max(rains)
    BY <1>4
  <2>3. Max(rains) >= 35000
    BY <1>4, <2>1, <2>2
  <2> QED BY <1>5, <2>3
<1>8. ASSUME Signals(timeline).wind = "moderate", NEW i \in 1..n,
             \A j \in 1..n : timeline[j].wind <= timeline[i].wind
      PROVE  timeline[i].condition \in {"breezy", "rain_watch"}
  <2>1. Max(winds) >= 9000
    BY <1>5, <1>8
  <2>2. PICK j \in 1..n : timeline[j].wind = Max(winds)
    BY <1>4
  <2>3. timeline[i].wind \in Int /\ timeline[i].wind >= 8000
    BY <1>4, <1>8, <2>1, <2>2 DEF Conditioned
  <2> QED BY <2>3, ConditionMeans DEF Conditioned
<1> QED BY <1>6, <1>7, <1>8

----------------------------------------------------------------------------
(* Sampling *)

\* Rounding n/d gives an integer no further from it than any other.
LEMMA RoundsRow ==
  ASSUME NEW n \in Int
  PROVE  LET q == HalfEven(n, 180000)
         IN q \in Int /\ 180000 * q - n <= 90000 /\ n - 180000 * q <= 90000
BY DEF HalfEven

LEMMA RoundsColumn ==
  ASSUME NEW n \in Int
  PROVE  LET q == HalfEven(n, 360000)
         IN q \in Int /\ 360000 * q - n <= 180000 /\ n - 360000 * q <= 180000
BY DEF HalfEven

LEMMA ProductLimits ==
  ASSUME NEW a \in Nat, NEW b \in Nat, NEW limit \in Nat, a <= limit
  PROVE  a * b \in Int /\ 0 <= a * b /\ a * b <= limit * b
<1>1. limit - a \in Nat
  OBVIOUS
<1>2. limit * b = a * b + (limit - a) * b
  OBVIOUS
<1>3. (limit - a) * b \in Nat /\ a * b \in Nat /\ limit * b \in Nat
  BY <1>1
<1> QED BY <1>2, <1>3

\* A meridian circle from the equator to a pole and from pole to pole, a circle of latitude
QuarterCircle == 90000
HalfCircle == 180000
FullCircle == 360000

LEMMA NearestRow ==
  ASSUME NEW rows \in Nat, rows > 1, NEW n \in Int, 0 <= n, n <= HalfCircle * (rows - 1)
  PROVE  /\ HalfEven(n, HalfCircle) \in 0..(rows - 1)
         /\ \A r \in 0..(rows - 1) :
              /\ Abs(n - HalfCircle * r) \in Int
              /\ Abs(n - HalfCircle * HalfEven(n, HalfCircle)) <= Abs(n - HalfCircle * r)
<1> DEFINE q == HalfEven(n, HalfCircle)
<1>1. q \in Int /\ HalfCircle * q - n <= 90000 /\ n - HalfCircle * q <= 90000
  BY RoundsRow DEF HalfCircle
<1> HIDE DEF q
<1>2. q \in 0..(rows - 1)
  BY <1>1 DEF HalfCircle
<1>3. \A r \in 0..(rows - 1) :
        Abs(n - HalfCircle * r) \in Int /\ Abs(n - HalfCircle * q) <= Abs(n - HalfCircle * r)
  BY <1>1 DEF Abs, HalfCircle
<1> QED BY <1>2, <1>3 DEF q

\* The shorter way around a globe of so many columns
Around(n, columns, c) ==
  Min({Abs(n - FullCircle * c), FullCircle * columns - Abs(n - FullCircle * c)})

LEMMA AroundIs ==
  ASSUME NEW columns \in Nat, NEW n \in Int, NEW c \in Int,
         NEW apart \in Int, apart = Abs(n - FullCircle * c)
  PROVE  /\ apart = n - FullCircle * c \/ apart = FullCircle * c - n
         /\ apart >= 0
         /\ \/ Around(n, columns, c) = apart /\ apart < FullCircle * columns - apart
            \/ Around(n, columns, c) = FullCircle * columns - apart /\ apart >= FullCircle * columns - apart
<1>1. (apart = n - FullCircle * c \/ apart = FullCircle * c - n) /\ apart >= 0
  BY DEF Abs, FullCircle
<1>2. Around(n, columns, c) = Min({apart, FullCircle * columns - apart})
  BY DEF Around
<1>3. PICK other \in Int : other = FullCircle * columns - apart
  BY DEF FullCircle
<1>4. \/ Min({apart, other}) = apart /\ apart < other
      \/ Min({apart, other}) = other /\ ~(apart < other)
  <2>1. CASE apart < other
    BY <2>1, TwoNumbers
  <2>2. CASE ~(apart < other)
    BY <2>2, TwoNumbers
  <2> QED BY <2>1, <2>2
<1>5. Around(n, columns, c) = Min({apart, other})
  BY <1>2, <1>3
<1> QED BY <1>1, <1>3, <1>4, <1>5

LEMMA NearestColumn ==
  ASSUME NEW columns \in Nat \ {0}, NEW n \in Int, 0 <= n, n <= FullCircle * columns
  PROVE  /\ HalfEven(n, FullCircle) % columns \in 0..(columns - 1)
         /\ \A c \in 0..(columns - 1) :
              /\ Around(n, columns, c) \in Int
              /\ Around(n, columns, HalfEven(n, FullCircle) % columns) <= Around(n, columns, c)
<1> DEFINE q == HalfEven(n, FullCircle)
           column == q % columns
<1>1. q \in Int /\ FullCircle * q - n <= 180000 /\ n - FullCircle * q <= 180000
  BY RoundsColumn DEF FullCircle
<1> HIDE DEF q
<1>2. q \in 0..columns
  BY <1>1 DEF FullCircle
<1>3. column = IF q = columns THEN 0 ELSE q
  <2>1. CASE q = columns
    BY <2>1
  <2>2. CASE q # columns
    BY <1>2, <2>2
  <2> QED BY <2>1, <2>2
<1> HIDE DEF column
<1>4. column \in 0..(columns - 1)
  BY <1>2, <1>3
<1>5. ASSUME NEW c \in 0..(columns - 1)
      PROVE  Around(n, columns, c) \in Int /\ Around(n, columns, column) <= Around(n, columns, c)
  <2>1. Abs(n - FullCircle * c) \in Int /\ Abs(n - FullCircle * column) \in Int
    BY <1>4 DEF Abs, FullCircle
  <2>2. PICK x \in Int : x = Abs(n - FullCircle * c)
    BY <2>1
  <2>3. PICK y \in Int : y = Abs(n - FullCircle * column)
    BY <2>1
  <2>4. /\ x = n - FullCircle * c \/ x = FullCircle * c - n
        /\ x >= 0
        /\ \/ Around(n, columns, c) = x /\ x < FullCircle * columns - x
           \/ Around(n, columns, c) = FullCircle * columns - x /\ x >= FullCircle * columns - x
    BY <2>2, AroundIs
  <2>5. /\ y = n - FullCircle * column \/ y = FullCircle * column - n
        /\ y >= 0
        /\ \/ Around(n, columns, column) = y /\ y < FullCircle * columns - y
           \/ Around(n, columns, column) = FullCircle * columns - y /\ y >= FullCircle * columns - y
    BY <1>4, <2>3, AroundIs
  <2> DEFINE A == Around(n, columns, c)
             B == Around(n, columns, column)
  <2>6. A \in Int /\ B \in Int
    BY <2>4, <2>5 DEF FullCircle
  <2>7. B <= 180000
    <3>1. CASE q = columns
      BY <1>1, <1>2, <1>3, <2>5, <3>1 DEF FullCircle
    <3>2. CASE q # columns
      BY <1>1, <1>2, <1>3, <2>5, <3>2 DEF FullCircle
    <3> QED BY <3>1, <3>2
  <2>8. CASE c = column
    BY <2>6, <2>8
  <2>9. CASE c # column
    <3>1. A >= 180000
      <4>1. CASE q = columns
        BY <1>1, <1>2, <1>3, <2>4, <2>9, <4>1 DEF FullCircle
      <4>2. CASE q # columns
        BY <1>1, <1>2, <1>3, <2>4, <2>9, <4>2 DEF FullCircle
      <4> QED BY <4>1, <4>2
    <3> QED BY <2>6, <2>7, <3>1
  <2> QED BY <2>6, <2>8, <2>9
<1> QED BY <1>4, <1>5 DEF column, q

\* The least value of a distance over the indices of an axis
LEMMA LeastDistance ==
  ASSUME NEW n \in Nat \ {0}, NEW distance \in [0..(n - 1) -> Int], NEW i \in 0..(n - 1),
         \A j \in 0..(n - 1) : distance[i] <= distance[j]
  PROVE  Min({distance[j] : j \in 0..(n - 1)}) = distance[i]
<1> DEFINE D == {distance[j] : j \in 0..(n - 1)}
<1>1. D \in SUBSET Int /\ D # {}
  OBVIOUS
<1>2. IsFiniteSet(D)
  <2>1. distance \in Surjection(0..(n - 1), D)
    BY DEF Surjection
  <2> QED BY <2>1, FS_Interval, FS_Surjection
<1>3. Min(D) \in D /\ \A x \in D : Min(D) <= x
  BY <1>1, <1>2, LeastAndGreatest
<1>4. Min(D) <= distance[i] /\ distance[i] <= Min(D)
  BY <1>3
<1> QED BY <1>1, <1>3, <1>4

\* The row of a location is one that is nearest to it.
LEMMA RowIsNearest ==
  ASSUME NEW array, NEW rows \in Nat \ {0}, array.rows = rows,
         NEW latitude \in Int, -QuarterCircle <= latitude, latitude <= QuarterCircle,
         NEW longitude
  PROVE  /\ GridIndices(array, latitude, longitude).row \in 0..(rows - 1)
         /\ GridIndices(array, latitude, longitude).row \in NearestRows(array, latitude)
<1>1. array.rows = rows
  OBVIOUS
<1>2. PICK n \in Int : n = (QuarterCircle - latitude) * (rows - 1) /\ 0 <= n /\ n <= HalfCircle * (rows - 1)
  <2>1. /\ QuarterCircle - latitude \in Nat /\ QuarterCircle - latitude <= HalfCircle
        /\ rows - 1 \in Nat /\ HalfCircle \in Nat
    BY DEF HalfCircle, QuarterCircle
  <2>2. /\ (QuarterCircle - latitude) * (rows - 1) \in Int /\ 0 <= (QuarterCircle - latitude) * (rows - 1)
        /\ (QuarterCircle - latitude) * (rows - 1) <= HalfCircle * (rows - 1)
    BY <2>1, ProductLimits
  <2> QED BY <2>2
<1>3. CASE rows = 1
  BY <1>1, <1>3 DEF GridIndices, NearestRows
<1>4. CASE rows > 1
  <2> DEFINE q == HalfEven(n, HalfCircle)
             distance == [r \in 0..(rows - 1) |-> RowDistance(array, latitude, r)]
  <2>1. /\ q \in 0..(rows - 1)
        /\ \A r \in 0..(rows - 1) :
             Abs(n - HalfCircle * r) \in Int /\ Abs(n - HalfCircle * q) <= Abs(n - HalfCircle * r)
    BY <1>2, <1>4, NearestRow
  <2>2. GridIndices(array, latitude, longitude).row = Clamp(0, rows - 1, q)
    BY <1>1, <1>2, <1>4 DEF GridIndices, HalfCircle, QuarterCircle
  <2>3. \A r \in 0..(rows - 1) : RowDistance(array, latitude, r) = Abs(n - HalfCircle * r)
    BY <1>1, <1>2 DEF RowDistance, HalfCircle, QuarterCircle
  <2> HIDE DEF q
  <2>4. GridIndices(array, latitude, longitude).row = q
    <3>1. q \in Int /\ 0 <= q /\ q <= rows - 1 /\ rows - 1 \in Int /\ 0 <= rows - 1
      BY <2>1
    <3>2. Clamp(0, rows - 1, q) = q
      BY <3>1, ClampLimits
    <3> QED BY <2>2, <3>2
  <2>5. distance \in [0..(rows - 1) -> Int]
    BY <2>1, <2>3
  <2>10. \A r \in 0..(rows - 1) : distance[q] <= distance[r]
    BY <2>1, <2>3
  <2>6. distance[q] = RowDistance(array, latitude, q)
    BY <2>1
  <2>7. {distance[r] : r \in 0..(rows - 1)} =
        {RowDistance(array, latitude, r) : r \in 0..(rows - 1)}
    OBVIOUS
  <2> HIDE DEF distance
  <2>8. Min({distance[r] : r \in 0..(rows - 1)}) = distance[q]
    <3>1. q \in 0..(rows - 1)
      BY <2>1
    <3> QED BY <2>5, <2>10, <3>1, LeastDistance
  <2>9. q \in NearestRows(array, latitude)
    <3>1. Min({RowDistance(array, latitude, r) : r \in 0..(rows - 1)}) =
          RowDistance(array, latitude, q)
      BY <2>6, <2>7, <2>8
    <3>2. NearestRows(array, latitude) =
            {r \in 0..(rows - 1) :
               RowDistance(array, latitude, r) =
                 Min({RowDistance(array, latitude, s) : s \in 0..(rows - 1)})}
      BY <1>1, <1>4 DEF NearestRows
    <3> QED BY <2>1, <3>1, <3>2
  <2> QED BY <1>1, <2>1, <2>4, <2>9
<1> QED BY <1>3, <1>4

\* So is its column, around the globe: west of the first meridian it may be column 0.
LEMMA ColumnIsNearest ==
  ASSUME NEW array, NEW columns \in Nat \ {0}, array.columns = columns,
         NEW latitude, NEW longitude \in Int
  PROVE  /\ GridIndices(array, latitude, longitude).column \in 0..(columns - 1)
         /\ GridIndices(array, latitude, longitude).column \in NearestColumns(array, longitude)
<1>1. array.columns = columns
  OBVIOUS
<1>2. PICK n \in Int : n = (longitude % 360000) * columns /\ 0 <= n /\ n <= FullCircle * columns
  <2>1. longitude % 360000 \in Nat /\ longitude % 360000 <= FullCircle /\ FullCircle \in Nat
    BY DEF FullCircle
  <2>2. /\ (longitude % 360000) * columns \in Int /\ 0 <= (longitude % 360000) * columns
        /\ (longitude % 360000) * columns <= FullCircle * columns
    BY <2>1, ProductLimits
  <2> QED BY <2>2
<1> DEFINE column == HalfEven(n, FullCircle) % columns
           distance == [c \in 0..(columns - 1) |-> ColumnDistance(array, longitude, c)]
<1>3. /\ column \in 0..(columns - 1)
      /\ \A c \in 0..(columns - 1) :
           /\ Around(n, columns, c) \in Int
           /\ Around(n, columns, column) <= Around(n, columns, c)
  BY <1>2, NearestColumn
<1>4. GridIndices(array, latitude, longitude).column = column
  BY <1>1, <1>2 DEF GridIndices, FullCircle
<1>5. \A c \in 0..(columns - 1) : ColumnDistance(array, longitude, c) = Around(n, columns, c)
  BY <1>1, <1>2 DEF ColumnDistance, Around, FullCircle
<1> HIDE DEF column
<1>6. distance \in [0..(columns - 1) -> Int]
  BY <1>3, <1>5
<1>11. \A c \in 0..(columns - 1) : distance[column] <= distance[c]
  BY <1>3, <1>5
<1>7. \A c \in 0..(columns - 1) : distance[c] = ColumnDistance(array, longitude, c)
  OBVIOUS
<1>8. {distance[c] : c \in 0..(columns - 1)} =
      {ColumnDistance(array, longitude, c) : c \in 0..(columns - 1)}
  OBVIOUS
<1> HIDE DEF distance
<1>9. Min({distance[c] : c \in 0..(columns - 1)}) = distance[column]
  <2>1. column \in 0..(columns - 1)
    BY <1>3
  <2> QED BY <1>6, <1>11, <2>1, LeastDistance
<1>10. column \in NearestColumns(array, longitude)
  BY <1>1, <1>3, <1>7, <1>8, <1>9 DEF NearestColumns
<1> QED BY <1>1, <1>3, <1>4, <1>10

----------------------------------------------------------------------------
(* Loading an archive and selecting from it *)

ArchiveOK(archive) == archive \in ArchiveType /\ archive.upTo <= Len(archive.entries)

\* The entries that tarfile lists are the first ones of the archive.
LEMMA ListedAreFirst ==
  ASSUME NEW archive, ArchiveOK(archive)
  PROVE  /\ Len(Listed(archive)) \in Nat
         /\ DOMAIN Listed(archive) = 1..Len(Listed(archive))
         /\ DOMAIN Listed(archive) \subseteq DOMAIN archive.entries
         /\ \A i \in DOMAIN Listed(archive) :
              Listed(archive)[i] = archive.entries[i] /\ Listed(archive)[i] \in EntryType
<1>1. /\ archive.entries \in Seq(EntryType) /\ archive.upTo \in Nat
      /\ archive.upTo <= Len(archive.entries)
  BY DEF ArchiveOK, ArchiveType
<1>2. CASE archive.ends = "between"
  <2> DEFINE first == SubSeq(archive.entries, 1, archive.upTo)
  <2>1. /\ Len(first) = archive.upTo /\ DOMAIN first = 1..archive.upTo
        /\ \A i \in 1..archive.upTo : first[i] = archive.entries[i]
    BY <1>1
  <2>2. Listed(archive) = first
    BY <1>2 DEF Listed
  <2>3. 1..archive.upTo \subseteq DOMAIN archive.entries
    BY <1>1
  <2> QED BY <1>1, <2>1, <2>2, <2>3
<1>3. CASE archive.ends # "between"
  BY <1>1, <1>3 DEF Listed
<1> QED BY <1>2, <1>3

\* Where the entries are that get loaded
Places(archive) ==
  {i \in DOMAIN Listed(archive) : ~Unlisted(archive) /\ Array(Listed(archive)[i])}
Order(archive) == InOrder(Places(archive), ByName(Listed(archive), Places(archive)))

LEMMA ArrayEntry ==
  ASSUME NEW entry \in EntryType, Array(entry)
  PROVE  entry.lead \in Nat /\ entry.batch \in Nat /\ entry.array \in ArrayType
BY DEF EntryType, Array

LEMMA ByNameTellsApart ==
  ASSUME NEW entries, NEW places \in SUBSET Int,
         \A i \in places : entries[i].lead \in Int /\ entries[i].batch \in Int
  PROVE  /\ StrictOrder(places, ByName(entries, places))
         /\ \A i, j \in places : <<i, j>> \in ByName(entries, places) <=>
              \/ entries[i].lead < entries[j].lead
              \/ entries[i].lead = entries[j].lead /\ entries[i].batch < entries[j].batch
              \/ entries[i].lead = entries[j].lead /\ entries[i].batch = entries[j].batch /\ i < j
<1>1. \A i, j \in places : <<i, j>> \in ByName(entries, places) <=>
        \/ entries[i].lead < entries[j].lead
        \/ entries[i].lead = entries[j].lead /\ entries[i].batch < entries[j].batch
        \/ entries[i].lead = entries[j].lead /\ entries[i].batch = entries[j].batch /\ i < j
  BY DEF ByName
<1>2. \A x \in places : <<x, x>> \notin ByName(entries, places)
  BY <1>1
<1>3. ASSUME NEW x \in places, NEW y \in places
      PROVE  x = y \/ <<x, y>> \in ByName(entries, places) \/ <<y, x>> \in ByName(entries, places)
  BY <1>1
<1>4. ASSUME NEW x \in places, NEW y \in places, NEW z \in places,
             <<x, y>> \in ByName(entries, places), <<y, z>> \in ByName(entries, places)
      PROVE  <<x, z>> \in ByName(entries, places)
  <2> DEFINE lead(i) == entries[i].lead
             batch(i) == entries[i].batch
  <2>1. /\ lead(x) \in Int /\ lead(y) \in Int /\ lead(z) \in Int
        /\ batch(x) \in Int /\ batch(y) \in Int /\ batch(z) \in Int
        /\ x \in Int /\ y \in Int /\ z \in Int
    OBVIOUS
  <2>2. \/ lead(x) < lead(y)
        \/ lead(x) = lead(y) /\ batch(x) < batch(y)
        \/ lead(x) = lead(y) /\ batch(x) = batch(y) /\ x < y
    BY <1>1, <1>4
  <2>3. \/ lead(y) < lead(z)
        \/ lead(y) = lead(z) /\ batch(y) < batch(z)
        \/ lead(y) = lead(z) /\ batch(y) = batch(z) /\ y < z
    BY <1>1, <1>4
  <2> HIDE DEF lead, batch
  <2>4. \/ lead(x) < lead(z)
        \/ lead(x) = lead(z) /\ batch(x) < batch(z)
        \/ lead(x) = lead(z) /\ batch(x) = batch(z) /\ x < z
    BY <2>1, <2>2, <2>3
  <2> QED BY <1>1, <2>4 DEF lead, batch
<1> QED BY <1>1, <1>2, <1>3, <1>4 DEF StrictOrder

\* Each array of the archive is loaded once, in the order of names.
LEMMA PlacesInOrder ==
  ASSUME NEW archive, ArchiveOK(archive)
  PROVE  LET n == Cardinality(Places(archive))
             entries == Listed(archive)
         IN /\ n \in Nat /\ IsFiniteSet(Places(archive)) /\ Places(archive) \in SUBSET Nat
            /\ StrictOrder(Places(archive), ByName(entries, Places(archive)))
            /\ DOMAIN Order(archive) = 1..n /\ Order(archive) \in [1..n -> Places(archive)]
            /\ \A i \in Places(archive) : \E k \in 1..n : Order(archive)[k] = i
            /\ \A i, j \in 1..n :
                 i < j => <<Order(archive)[i], Order(archive)[j]>> \in ByName(entries, Places(archive))
<1> DEFINE places == Places(archive)
           entries == Listed(archive)
<1>1. places \in SUBSET (1..Len(entries)) /\ Len(entries) \in Nat
  BY ListedAreFirst DEF Places
<1>2. IsFiniteSet(places)
  <2>1. IsFiniteSet(1..Len(entries))
    BY <1>1, FS_Interval
  <2> QED BY <1>1, <2>1, FS_Subset
<1>3. \A i \in places : entries[i].lead \in Int /\ entries[i].batch \in Int
  <2> SUFFICES ASSUME NEW i \in places PROVE entries[i].lead \in Int /\ entries[i].batch \in Int
    OBVIOUS
  <2>1. entries[i] \in EntryType /\ Array(entries[i])
    BY ListedAreFirst DEF Places
  <2> QED BY <2>1, ArrayEntry
<1> HIDE DEF places, entries
<1>4. places \in SUBSET Int /\ places \in SUBSET Nat
  BY <1>1
<1>5. StrictOrder(places, ByName(entries, places))
  BY <1>3, <1>4, ByNameTellsApart
<1>6. /\ Cardinality(places) \in Nat
      /\ DOMAIN InOrder(places, ByName(entries, places)) = 1..Cardinality(places)
      /\ InOrder(places, ByName(entries, places)) \in [1..Cardinality(places) -> places]
      /\ \A x \in places : \E k \in 1..Cardinality(places) :
           InOrder(places, ByName(entries, places))[k] = x
      /\ \A i, j \in 1..Cardinality(places) :
           i < j => <<InOrder(places, ByName(entries, places))[i],
                      InOrder(places, ByName(entries, places))[j]>> \in ByName(entries, places)
  BY <1>2, <1>5, InOrderSorts
<1> QED BY <1>2, <1>4, <1>5, <1>6 DEF Order, places, entries

\* The entries that tarfile takes for files
Files(archive) ==
  IF Unlisted(archive) THEN {} ELSE {i \in DOMAIN Listed(archive) : File(Listed(archive)[i])}

LEMMA LoadedMembers ==
  ASSUME NEW archive
  PROVE  /\ LoadTarMembers(archive).members =
              [k \in DOMAIN Order(archive) |-> Listed(archive)[Order(archive)[k]]]
         /\ LoadTarMembers(archive).warnings =
              Cardinality(Files(archive) \ Places(archive)) + IF Unlisted(archive) THEN 1 ELSE 0
<1> DEFINE files == Files(archive)
<1>1. {i \in files : Array(Listed(archive)[i])} = Places(archive)
  BY DEF Places, Array, File, Files
<1> HIDE DEF files
<1>2. LoadTarMembers(archive) =
        LET arrays == {i \in files : Array(Listed(archive)[i])}
            order == InOrder(arrays, ByName(Listed(archive), arrays))
        IN [members |-> [k \in DOMAIN order |-> Listed(archive)[order[k]]],
            warnings |-> Cardinality(files \ arrays) + IF Unlisted(archive) THEN 1 ELSE 0]
  BY Zenon DEF LoadTarMembers, files, Files
<1>3. LoadTarMembers(archive) =
        [members |-> [k \in DOMAIN Order(archive) |-> Listed(archive)[Order(archive)[k]]],
         warnings |-> Cardinality(files \ Places(archive))
                      + IF Unlisted(archive) THEN 1 ELSE 0]
  BY <1>1, <1>2, Zenon DEF Order
<1> QED BY <1>3 DEF files

\* The batch that is used, its members and their lead times
BatchUsed(members) ==
  IF \E i \in DOMAIN members : members[i].batch = 0 THEN 0 ELSE members[1].batch
OfBatch(members) == {i \in DOMAIN members : members[i].batch = BatchUsed(members)}
LeadsUsed(members) == {members[i].lead : i \in OfBatch(members)}
\* Where the first member of each lead time is
Firsts(members) ==
  [k \in DOMAIN Ascending(LeadsUsed(members)) |->
     Min({i \in OfBatch(members) : members[i].lead = Ascending(LeadsUsed(members))[k]})]

\* There is one selected member for each lead time of the batch, in ascending order, and it
\* is the first of them.
LEMMA OnePerLead ==
  ASSUME NEW n \in Nat \ {0}, NEW members, DOMAIN members = 1..n,
         \A i \in 1..n : members[i].lead \in Int
  PROVE  LET m == Cardinality(LeadsUsed(members))
             selected == SelectBatchMembers(members)
         IN /\ m \in Nat \ {0} /\ DOMAIN selected = 1..m
            /\ \A k \in 1..m : \E i \in OfBatch(members) :
                 /\ selected[k] = members[i]
                 /\ \A j \in OfBatch(members) : members[j].lead = members[i].lead => i <= j
            /\ \A k, l \in 1..m : k < l => selected[k].lead < selected[l].lead
            /\ \A lead \in LeadsUsed(members) : \E k \in 1..m : selected[k].lead = lead
            /\ DOMAIN Firsts(members) = 1..m
            /\ \A k \in 1..m : /\ Firsts(members)[k] \in OfBatch(members)
                               /\ selected[k] = members[Firsts(members)[k]]
<1> DEFINE m == Cardinality(LeadsUsed(members))
           leads == Ascending(LeadsUsed(members))
           With(lead) == {i \in OfBatch(members) : members[i].lead = lead}
           selected == SelectBatchMembers(members)
<1>1. OfBatch(members) \in SUBSET (1..n) /\ OfBatch(members) # {}
  <2>1. CASE \E i \in DOMAIN members : members[i].batch = 0
    BY <2>1 DEF OfBatch, BatchUsed
  <2>2. CASE ~\E i \in DOMAIN members : members[i].batch = 0
    <3>1. 1 \in DOMAIN members /\ BatchUsed(members) = members[1].batch
      BY <2>2 DEF BatchUsed
    <3> QED BY <3>1 DEF OfBatch
  <2> QED BY <2>1, <2>2
<1>2. LeadsUsed(members) \in SUBSET Int /\ LeadsUsed(members) # {}
  BY <1>1 DEF LeadsUsed
<1>3. IsFiniteSet(LeadsUsed(members))
  <2> DEFINE all == {[k \in 1..n |-> members[k].lead][i] : i \in 1..n}
  <2>1. IsFiniteSet(all)
    BY FiniteRange
  <2>2. LeadsUsed(members) \in SUBSET all
    BY <1>1 DEF LeadsUsed
  <2> QED BY <2>1, <2>2, FS_Subset
<1>4. m \in Nat \ {0}
  BY <1>2, <1>3, FS_CardinalityType, FS_EmptySet
<1>5. /\ DOMAIN leads = 1..m /\ leads \in [1..m -> LeadsUsed(members)]
      /\ \A lead \in LeadsUsed(members) : \E k \in 1..m : leads[k] = lead
      /\ \A k, l \in 1..m : k < l => leads[k] < leads[l]
  BY <1>2, <1>3, AscendingSorts
<1>6. selected = [k \in DOMAIN leads |-> members[Min(With(leads[k]))]]
  BY DEF SelectBatchMembers, BatchUsed, OfBatch, LeadsUsed
<1>13. Firsts(members) = [k \in DOMAIN leads |-> Min(With(leads[k]))]
  BY DEF Firsts
<1> HIDE DEF m, leads, With, selected
<1>7. ASSUME NEW lead \in LeadsUsed(members)
      PROVE  Min(With(lead)) \in With(lead) /\ \A j \in With(lead) : Min(With(lead)) <= j
  <2>1. With(lead) # {}
    BY DEF With, LeadsUsed
  <2>2. With(lead) \in SUBSET (1..n) /\ With(lead) \in SUBSET Int
    BY <1>1 DEF With
  <2>3. IsFiniteSet(1..n)
    BY FS_Interval
  <2>4. IsFiniteSet(With(lead))
    BY <2>2, <2>3, FS_Subset
  <2> QED BY <2>1, <2>2, <2>4, LeastAndGreatest
<1>8. ASSUME NEW k \in 1..m
      PROVE  /\ Min(With(leads[k])) \in OfBatch(members)
             /\ selected[k] = members[Min(With(leads[k]))]
             /\ selected[k].lead = leads[k]
             /\ \A j \in OfBatch(members) :
                  members[j].lead = leads[k] => Min(With(leads[k])) <= j
  <2>1. leads[k] \in LeadsUsed(members)
    BY <1>5
  <2>2. /\ Min(With(leads[k])) \in With(leads[k])
        /\ \A j \in With(leads[k]) : Min(With(leads[k])) <= j
    BY <1>7, <2>1
  <2>3. selected[k] = members[Min(With(leads[k]))]
    BY <1>5, <1>6
  <2> QED BY <2>2, <2>3 DEF With
<1>9. DOMAIN selected = 1..m
  BY <1>5, <1>6
<1>10. \A k \in 1..m : \E i \in OfBatch(members) :
         /\ selected[k] = members[i]
         /\ \A j \in OfBatch(members) : members[j].lead = members[i].lead => i <= j
  BY <1>8
<1>11. \A k, l \in 1..m : k < l => selected[k].lead < selected[l].lead
  BY <1>5, <1>8
<1>12. \A lead \in LeadsUsed(members) : \E k \in 1..m : selected[k].lead = lead
  BY <1>5, <1>8
<1>14. /\ DOMAIN Firsts(members) = 1..m
       /\ \A k \in 1..m : /\ Firsts(members)[k] \in OfBatch(members)
                          /\ selected[k] = members[Firsts(members)[k]]
  BY <1>5, <1>8, <1>13
<1> QED BY <1>4, <1>9, <1>10, <1>11, <1>12, <1>14 DEF m, selected

\* Only lead times and batches count.
LEMMA SameChoice ==
  ASSUME NEW members, NEW others, DOMAIN others = DOMAIN members, 1 \in DOMAIN members,
         \A i \in DOMAIN members : /\ others[i].lead = members[i].lead
                                   /\ others[i].batch = members[i].batch
  PROVE  /\ LeadsUsed(others) = LeadsUsed(members) /\ OfBatch(others) = OfBatch(members)
         /\ Firsts(others) = Firsts(members)
<1>1. BatchUsed(others) = BatchUsed(members)
  BY DEF BatchUsed
<1>2. OfBatch(others) = OfBatch(members) /\ OfBatch(members) \subseteq DOMAIN members
  BY <1>1 DEF OfBatch
<1>3. LeadsUsed(others) = LeadsUsed(members)
  BY <1>2 DEF LeadsUsed
<1>4. \A lead : {i \in OfBatch(others) : others[i].lead = lead} =
                {i \in OfBatch(members) : members[i].lead = lead}
  BY <1>2
<1>5. Firsts(others) = Firsts(members)
  <2> DEFINE leads == Ascending(LeadsUsed(members))
             With(k) == {i \in OfBatch(members) : members[i].lead = leads[k]}
             OthersWith(k) == {i \in OfBatch(others) : others[i].lead = leads[k]}
  <2>1. Firsts(others) = [k \in DOMAIN leads |-> Min(OthersWith(k))]
    BY <1>3, Zenon DEF Firsts
  <2>2. Firsts(members) = [k \in DOMAIN leads |-> Min(With(k))]
    BY Zenon DEF Firsts
  <2>3. \A k : OthersWith(k) = With(k)
    BY <1>4
  <2> HIDE DEF leads, With, OthersWith
  <2> QED BY <2>1, <2>2, <2>3
<1> QED BY <1>2, <1>3, <1>5

Members(archive) == LoadTarMembers(archive).members
Selected(archive) == SelectBatchMembers(Members(archive))
Warnings(archive) == LoadTarMembers(archive).warnings

\* Members are arrays of the archive in the order of names.
LEMMA MembersInOrder ==
  ASSUME NEW archive, ArchiveOK(archive)
  PROVE  LET n == Cardinality(Places(archive))
             members == Members(archive)
             entries == Listed(archive)
         IN /\ n \in Nat /\ DOMAIN members = 1..n
            /\ \A k \in 1..n :
                 /\ Order(archive)[k] \in Places(archive)
                 /\ members[k] = entries[Order(archive)[k]]
                 /\ members[k] \in EntryType /\ Array(members[k])
                 /\ members[k].lead \in Nat /\ members[k].batch \in Nat
                 /\ members[k].array \in ArrayType
<1> DEFINE n == Cardinality(Places(archive))
           entries == Listed(archive)
<1>1. n \in Nat /\ DOMAIN Order(archive) = 1..n /\ Order(archive) \in [1..n -> Places(archive)]
  BY PlacesInOrder
<1>2. Members(archive) = [k \in DOMAIN Order(archive) |-> entries[Order(archive)[k]]]
  BY LoadedMembers DEF Members
<1>3. DOMAIN Members(archive) = 1..n
  BY <1>1, <1>2
<1>4. ASSUME NEW k \in 1..n
      PROVE  /\ Order(archive)[k] \in Places(archive)
             /\ Members(archive)[k] = entries[Order(archive)[k]]
             /\ Members(archive)[k] \in EntryType /\ Array(Members(archive)[k])
  <2>1. Order(archive)[k] \in Places(archive)
    BY <1>1
  <2>2. entries[Order(archive)[k]] \in EntryType /\ Array(entries[Order(archive)[k]])
    BY <2>1, ListedAreFirst DEF Places
  <2>3. Members(archive)[k] = entries[Order(archive)[k]]
    BY <1>1, <1>2
  <2> QED BY <2>1, <2>2, <2>3
<1>5. \A k \in 1..n : /\ Members(archive)[k].lead \in Nat /\ Members(archive)[k].batch \in Nat
                      /\ Members(archive)[k].array \in ArrayType
  BY <1>4, ArrayEntry
<1> QED BY <1>1, <1>3, <1>4, <1>5

\* A forecast that is served has a step for every selected member, and all could be sampled.
LEMMA ServedForecast ==
  ASSUME NEW archive, ArchiveOK(archive), NEW latitude, NEW longitude,
         ForecastFromTar(archive, latitude, longitude).status = "served"
  PROVE  LET n == Cardinality(Places(archive))
             m == Cardinality(LeadsUsed(Members(archive)))
             selected == Selected(archive)
             Point(i) == GridIndices(selected[i].array, latitude, longitude)
             forecast == ForecastFromTar(archive, latitude, longitude)
         IN /\ n \in Nat \ {0} /\ m \in Nat \ {0} /\ DOMAIN selected = 1..m
            /\ archive.ends # "compressed" /\ ~Unlisted(archive)
            /\ \A i \in 1..m : Readable(selected[i].array, Point(i))
            /\ forecast.timeline =
                 [i \in 1..m |->
                    BuildTimelineStep(selected[i].lead,
                                      ReadGridValues(selected[i].array, Point(i)),
                                      Warnings(archive))]
            /\ forecast.signals = Signals(forecast.timeline)
            /\ forecast.window.start = forecast.timeline[1].lead
            /\ forecast.window.end = forecast.timeline[m].lead
<1> DEFINE n == Cardinality(Places(archive))
           m == Cardinality(LeadsUsed(Members(archive)))
           selected == IF Members(archive) = <<>> THEN <<>> ELSE Selected(archive)
           Point(i) == GridIndices(selected[i].array, latitude, longitude)
           timeline == [i \in DOMAIN selected |->
                          BuildTimelineStep(selected[i].lead,
                                            ReadGridValues(selected[i].array, Point(i)),
                                            Warnings(archive))]
           unread == \E i \in DOMAIN selected : ~Readable(selected[i].array, Point(i))
           served == [status |-> "served", timeline |-> timeline, signals |-> Signals(timeline),
                      headline |-> timeline[1].condition, metrics |-> Metrics(timeline[1]),
                      window |-> [start |-> timeline[1].lead, end |-> timeline[Len(timeline)].lead,
                                  leads |-> [i \in DOMAIN timeline |-> timeline[i].lead]]]
           forecast == ForecastFromTar(archive, latitude, longitude)
<1>1. forecast =
        CASE archive.ends = "compressed" -> Raised
          [] archive.ends # "compressed" /\ (selected = <<>> \/ unread) -> Unavailable
          [] OTHER -> served
  BY Zenon DEF ForecastFromTar, Members, Selected, Warnings
<1>2. Raised.status # "served" /\ Unavailable.status # "served"
  BY DEF Raised, Unavailable
<1>3. selected # <<>> /\ ~unread /\ archive.ends # "compressed" /\ forecast = served
  <2> HIDE DEF selected, unread, served
  <2>1. CASE archive.ends = "compressed"
    <3>1. forecast = Raised
      BY <1>1, <2>1
    <3> QED BY <1>2, <3>1
  <2>2. CASE archive.ends # "compressed" /\ (selected = <<>> \/ unread)
    <3>1. forecast = Unavailable
      BY <1>1, <2>2
    <3> QED BY <1>2, <3>1
  <2>3. CASE archive.ends # "compressed" /\ ~(selected = <<>> \/ unread)
    <3>1. forecast = served
      BY <1>1, <2>3
    <3> QED BY <2>3, <3>1
  <2> QED BY <2>1, <2>2, <2>3
<1>4. n \in Nat /\ DOMAIN Members(archive) = 1..n
  BY MembersInOrder
<1>5. Members(archive) # <<>> /\ selected = Selected(archive)
  BY <1>3
<1>6. n # 0
  <2> SUFFICES ASSUME n = 0 PROVE FALSE
    OBVIOUS
  <2>1. DOMAIN Order(archive) = {}
    <3>1. DOMAIN Order(archive) = 1..n
      BY PlacesInOrder
    <3>2. 1..n = {}
      OBVIOUS
    <3> QED BY <3>1, <3>2
  <2>2. Members(archive) = [k \in DOMAIN Order(archive) |-> Listed(archive)[Order(archive)[k]]]
    BY LoadedMembers DEF Members
  <2>3. Members(archive) = <<>>
    BY <2>1, <2>2
  <2> QED BY <1>5, <2>3
<1>7. ~Unlisted(archive)
  <2> SUFFICES ASSUME Unlisted(archive) PROVE FALSE
    OBVIOUS
  <2>1. Places(archive) = {}
    BY DEF Places
  <2> QED BY <1>6, <2>1, FS_EmptySet
<1>8. \A k \in 1..n : Members(archive)[k].lead \in Int
  BY MembersInOrder
<1>9. m \in Nat \ {0} /\ DOMAIN Selected(archive) = 1..m
  <2>1. n \in Nat \ {0}
    BY <1>4, <1>6
  <2> HIDE DEF n
  <2> QED BY <1>4, <1>8, <2>1, OnePerLead DEF Selected
<1>10. timeline = [i \in 1..m |->
                     BuildTimelineStep(Selected(archive)[i].lead,
                       ReadGridValues(Selected(archive)[i].array,
                                      GridIndices(Selected(archive)[i].array, latitude, longitude)),
                       Warnings(archive))]
  BY <1>5, <1>9
<1>11. \A i \in 1..m : Readable(Selected(archive)[i].array,
                                GridIndices(Selected(archive)[i].array, latitude, longitude))
  BY <1>3, <1>5, <1>9
<1>12. DOMAIN timeline = 1..m /\ Len(timeline) = m
  BY <1>5, <1>9
<1> HIDE DEF timeline, selected
<1>13. /\ forecast.timeline = timeline /\ forecast.signals = Signals(timeline)
       /\ forecast.window.start = timeline[1].lead
       /\ forecast.window.end = timeline[Len(timeline)].lead
  BY <1>3
<1> QED BY <1>3, <1>4, <1>6, <1>7, <1>9, <1>10, <1>11, <1>12, <1>13

----------------------------------------------------------------------------
(* What is answered to a question *)

\* Whoever was asked gave the answer, and gave nothing but what was asked for.
Answered ==
  \/ answer = Unanswered
  \/ /\ asked.provider = "mock"
     /\ answer = MockForecast(asked.latitude \div 1000, asked.longitude \div 1000)
  \/ /\ asked.provider = "fourcastnet"
     /\ answer = ForecastFromTar(asked.archive, asked.latitude, asked.longitude)
  \/ /\ asked.provider = "report"
     /\ answer = DecodeTar(asked.archive)
Reached == asked \in Questions /\ Answered

\* An answer is a function of its question: nothing of one answer shows in another.
THEOREM AnswersReached == Spec => []Reached
<1>1. Init => Reached
  BY DEF Init, Reached, Answered
<1>2. Reached /\ [Next]_vars => Reached'
  <2> SUFFICES ASSUME Reached, [Next]_vars PROVE Reached'
    OBVIOUS
  <2>1. asked' = asked
    BY DEF Next, vars
  <2>2. CASE AnswerMock
    BY <2>1, <2>2 DEF AnswerMock, Reached, Answered
  <2>3. CASE AnswerFourCastNet
    BY <2>1, <2>3 DEF AnswerFourCastNet, Reached, Answered
  <2>4. CASE AnswerReport
    BY <2>1, <2>4 DEF AnswerReport, Reached, Answered
  <2>5. CASE UNCHANGED vars
    BY <2>5 DEF vars, Reached, Answered
  <2> QED BY <2>2, <2>3, <2>4, <2>5 DEF Next
<1> QED BY <1>1, <1>2, PTL DEF Spec

LEMMA WhereAsked ==
  ASSUME Reached
  PROVE  /\ asked.provider \in {"mock", "fourcastnet", "report"}
         /\ asked.latitude \in Int /\ -QuarterCircle <= asked.latitude
         /\ asked.latitude <= QuarterCircle /\ asked.longitude \in Int
         /\ ArchiveOK(asked.archive)
<1>1. asked \in Questions
  BY DEF Reached
<1>2. asked.provider \in {"mock", "fourcastnet", "report"}
  BY <1>1, QuestionsAssumption, SMT
<1>3. asked.archive \in ArchiveType /\ asked.archive.upTo <= Len(asked.archive.entries)
  BY <1>1, QuestionsAssumption, SMT
<1>4. /\ asked.latitude \in Int /\ Abs(asked.latitude) <= QuarterCircle
      /\ asked.longitude \in Int
  BY <1>1, QuestionsAssumption, SMT DEF QuarterCircle
<1>5. -QuarterCircle <= asked.latitude /\ asked.latitude <= QuarterCircle
  BY <1>4, SMT DEF QuarterCircle, Abs
<1> QED BY <1>2, <1>3, <1>4, <1>5 DEF ArchiveOK

LEMMA StatusOfAnswers ==
  ASSUME NEW archive, NEW latitude, NEW longitude
  PROVE  /\ ForecastFromTar(archive, latitude, longitude).status
              \in {"served", "unavailable", "error"}
         /\ DecodeTar(archive).status \in {"decoded", "error"}
         /\ MockForecast(latitude, longitude).status = "served"
         /\ Unanswered.status = "asked"
<1>1. ForecastFromTar(archive, latitude, longitude).status \in {"served", "unavailable", "error"}
  BY DEF ForecastFromTar, Raised, Unavailable
<1>2. DecodeTar(archive).status \in {"decoded", "error"}
  BY DEF DecodeTar, Raised
<1>3. MockForecast(latitude, longitude).status = "served"
  BY DEF MockForecast
<1> QED BY <1>1, <1>2, <1>3 DEF Unanswered

LEMMA FromArchiveServed ==
  ASSUME Reached, FromArchive
  PROVE  /\ answer = ForecastFromTar(asked.archive, asked.latitude, asked.longitude)
         /\ ForecastFromTar(asked.archive, asked.latitude, asked.longitude).status = "served"
<1>1. answer # Unanswered
  BY StatusOfAnswers DEF FromArchive, Served
<1> QED BY <1>1 DEF Reached, Answered, FromArchive, Served

\* A selected member is an array that the archive lists.
LEMMA SelectedFromArchive ==
  ASSUME NEW archive, ArchiveOK(archive), Cardinality(Places(archive)) # 0
  PROVE  LET m == Cardinality(LeadsUsed(Members(archive)))
         IN /\ m \in Nat \ {0} /\ DOMAIN Selected(archive) = 1..m
            /\ \A i \in 1..m :
                 /\ \E p \in Places(archive) :
                      /\ p \in DOMAIN archive.entries
                      /\ Selected(archive)[i] = archive.entries[p]
                 /\ Selected(archive)[i] \in EntryType /\ Array(Selected(archive)[i])
                 /\ Selected(archive)[i].lead \in Nat
                 /\ Selected(archive)[i].array \in ArrayType
            /\ \A i, j \in 1..m : i < j => Selected(archive)[i].lead < Selected(archive)[j].lead
<1> DEFINE n == Cardinality(Places(archive))
           members == Members(archive)
           m == Cardinality(LeadsUsed(members))
<1>1. /\ n \in Nat \ {0} /\ DOMAIN members = 1..n
      /\ \A k \in 1..n : /\ Order(archive)[k] \in Places(archive)
                         /\ members[k] = Listed(archive)[Order(archive)[k]]
                         /\ members[k] \in EntryType /\ Array(members[k])
                         /\ members[k].lead \in Nat /\ members[k].array \in ArrayType
  BY MembersInOrder
<1> HIDE DEF n, members
<1>2. /\ m \in Nat \ {0} /\ DOMAIN SelectBatchMembers(members) = 1..m
      /\ \A k \in 1..m : \E i \in OfBatch(members) : SelectBatchMembers(members)[k] = members[i]
      /\ \A k, l \in 1..m :
           k < l => SelectBatchMembers(members)[k].lead < SelectBatchMembers(members)[l].lead
  <2>1. \A k \in 1..n : members[k].lead \in Int
    BY <1>1
  <2> QED BY <1>1, <2>1, OnePerLead
<1>3. Selected(archive) = SelectBatchMembers(members)
  BY DEF Selected, members
<1>4. ASSUME NEW i \in 1..m
      PROVE  /\ \E p \in Places(archive) :
                  /\ p \in DOMAIN archive.entries
                  /\ Selected(archive)[i] = archive.entries[p]
             /\ Selected(archive)[i] \in EntryType /\ Array(Selected(archive)[i])
             /\ Selected(archive)[i].lead \in Nat
             /\ Selected(archive)[i].array \in ArrayType
  <2>1. PICK k \in 1..n : Selected(archive)[i] = members[k]
    BY <1>1, <1>2, <1>3 DEF OfBatch
  <2>2. /\ Order(archive)[k] \in Places(archive)
        /\ Selected(archive)[i] = Listed(archive)[Order(archive)[k]]
    BY <1>1, <2>1
  <2>3. Order(archive)[k] \in DOMAIN Listed(archive)
    BY <2>2 DEF Places
  <2>4. /\ Order(archive)[k] \in DOMAIN archive.entries
        /\ Selected(archive)[i] = archive.entries[Order(archive)[k]]
    BY <2>2, <2>3, ListedAreFirst
  <2> QED BY <1>1, <2>1, <2>2, <2>4
<1> QED BY <1>2, <1>3, <1>4 DEF members

----------------------------------------------------------------------------
(* Sampling and selection, of every forecast *)

LEMMA GridPoint ==
  ASSUME NEW array, NEW latitude, NEW longitude
  PROVE  GridIndices(array, latitude, longitude) =
           [row |-> GridIndices(array, latitude, longitude).row,
            column |-> GridIndices(array, latitude, longitude).column]
BY SMT DEF GridIndices

\* Where the array can be sampled for a location: at a grid point nearest to it, whose values
\* are finite.
LEMMA SampledAt ==
  ASSUME NEW array \in ArrayType,
         NEW latitude \in Int, -QuarterCircle <= latitude, latitude <= QuarterCircle,
         NEW longitude \in Int,
         Readable(array, GridIndices(array, latitude, longitude))
  PROVE  /\ GridIndices(array, latitude, longitude).row \in 0..(array.rows - 1)
         /\ GridIndices(array, latitude, longitude).row \in NearestRows(array, latitude)
         /\ GridIndices(array, latitude, longitude).column \in Nat
         /\ GridIndices(array, latitude, longitude).column \in NearestColumns(array, longitude)
         /\ GridIndices(array, latitude, longitude) \notin array.holes
<1>1. array.rows \in Nat /\ array.columns \in Nat
  BY DEF ArrayType
<1>2. /\ array.rows > 0 /\ array.columns > 0
      /\ GridIndices(array, latitude, longitude) \notin array.holes
  BY DEF Readable
<1>3. PICK rows \in Nat \ {0} : rows = array.rows
  BY <1>1, <1>2
<1>4. PICK columns \in Nat \ {0} : columns = array.columns
  BY <1>1, <1>2
<1>5. /\ GridIndices(array, latitude, longitude).row \in 0..(rows - 1)
      /\ GridIndices(array, latitude, longitude).row \in NearestRows(array, latitude)
  BY <1>3, RowIsNearest
<1>6. /\ GridIndices(array, latitude, longitude).column \in 0..(columns - 1)
      /\ GridIndices(array, latitude, longitude).column \in NearestColumns(array, longitude)
  BY <1>4, ColumnIsNearest
<1>7. GridIndices(array, latitude, longitude).column \in Nat
  BY <1>6
<1> QED BY <1>2, <1>3, <1>5, <1>6, <1>7

LEMMA StepSamples ==
  ASSUME NEW lead, NEW values, NEW warnings
  PROVE  LET step == BuildTimelineStep(lead, values, warnings)
         IN /\ step.lead = lead
            /\ step.temperature = OneDecimal(ToCelsius(values.t2m), 1)
            /\ step.wind = OneDecimal(Max({0, values.w10m}), 1)
            /\ step.humidity = HumidityPercent(values.tcwv)
            /\ step.pressure = Hectopascals(values.msl)
            /\ step.rain =
                 OneDecimal(EstimatePrecipitationProbability(step.humidity, step.pressure,
                                                             step.wind), 1)
            /\ step.confidence = Confidence(lead, warnings)
            /\ step.condition = Condition(step.wind, step.humidity, step.rain)
<1> DEFINE wind == OneDecimal(Max({0, values.w10m}), 1)
           humidity == HumidityPercent(values.tcwv)
           pressure == Hectopascals(values.msl)
           temperature == OneDecimal(ToCelsius(values.t2m), 1)
           rain == OneDecimal(EstimatePrecipitationProbability(humidity, pressure, wind), 1)
<1>1. BuildTimelineStep(lead, values, warnings) =
        Step(lead, temperature, wind, humidity, rain, pressure, Confidence(lead, warnings))
  BY Zenon DEF BuildTimelineStep
<1> HIDE DEF wind, humidity, pressure, temperature, rain
<1>2. LET step == BuildTimelineStep(lead, values, warnings)
      IN /\ step.lead = lead /\ step.temperature = temperature /\ step.wind = wind
         /\ step.humidity = humidity /\ step.rain = rain /\ step.pressure = pressure
         /\ step.confidence = Confidence(lead, warnings)
         /\ step.condition = Condition(wind, humidity, rain)
  BY <1>1 DEF Step
<1> QED BY <1>2, Zenon DEF wind, humidity, pressure, temperature, rain

LEMMA StepLead ==
  ASSUME NEW lead, NEW values, NEW warnings
  PROVE  BuildTimelineStep(lead, values, warnings).lead = lead
BY DEF BuildTimelineStep, Step

\* Every step of every forecast is made from the values of a grid point nearest to the
\* location, across the first meridian too and whatever the size of the grid, where the
\* array is finite (_grid_indices, _read_grid_value).
THEOREM SampledNearestHolds == Spec => []SampledNearest
<1>1. ASSUME Reached, FromArchive
      PROVE  \A i \in DOMAIN answer.timeline :
               LET step == answer.timeline[i]
               IN \E e \in ToSet(asked.archive.entries) :
                    /\ e.kind = "array" /\ e.lead = step.lead
                    /\ \E row \in NearestRows(e.array, asked.latitude),
                          column \in NearestColumns(e.array, asked.longitude) :
                         LET point == [row |-> row, column |-> column]
                             values == ReadGridValues(e.array, point)
                         IN /\ point \notin e.array.holes
                            /\ step.temperature = OneDecimal(ToCelsius(values.t2m), 1)
                            /\ step.wind = OneDecimal(Max({0, values.w10m}), 1)
  <2> DEFINE archive == asked.archive
             m == Cardinality(LeadsUsed(Members(archive)))
             selected == Selected(archive)
             Point(i) == GridIndices(selected[i].array, asked.latitude, asked.longitude)
  <2>1. /\ asked.latitude \in Int /\ -QuarterCircle <= asked.latitude
        /\ asked.latitude <= QuarterCircle /\ asked.longitude \in Int
        /\ ArchiveOK(archive)
    BY <1>1, WhereAsked
  <2>2. /\ answer = ForecastFromTar(archive, asked.latitude, asked.longitude)
        /\ ForecastFromTar(archive, asked.latitude, asked.longitude).status = "served"
    BY <1>1, FromArchiveServed
  <2>3. /\ Cardinality(Places(archive)) # 0
        /\ \A i \in 1..m : Readable(selected[i].array, Point(i))
        /\ answer.timeline =
             [i \in 1..m |-> BuildTimelineStep(selected[i].lead,
                                               ReadGridValues(selected[i].array, Point(i)),
                                               Warnings(archive))]
    BY <2>1, <2>2, ServedForecast
  <2>4. \A i \in 1..m :
          /\ \E p \in DOMAIN archive.entries : selected[i] = archive.entries[p]
          /\ Array(selected[i]) /\ selected[i].array \in ArrayType
    BY <2>1, <2>3, SelectedFromArchive
  <2> HIDE DEF archive, m, selected
  <2>5. DOMAIN answer.timeline = 1..m
    BY <2>3
  <2> SUFFICES ASSUME NEW i \in 1..m
               PROVE  LET step == answer.timeline[i]
                      IN \E e \in ToSet(asked.archive.entries) :
                           /\ e.kind = "array" /\ e.lead = step.lead
                           /\ \E row \in NearestRows(e.array, asked.latitude),
                                 column \in NearestColumns(e.array, asked.longitude) :
                                LET point == [row |-> row, column |-> column]
                                    values == ReadGridValues(e.array, point)
                                IN /\ point \notin e.array.holes
                                   /\ step.temperature = OneDecimal(ToCelsius(values.t2m), 1)
                                   /\ step.wind = OneDecimal(Max({0, values.w10m}), 1)
    BY <2>5
  <2>6. selected[i] \in ToSet(asked.archive.entries) /\ selected[i].kind = "array"
    BY <2>4 DEF ToSet, archive, Array
  <2>7. /\ Point(i).row \in NearestRows(selected[i].array, asked.latitude)
        /\ Point(i).column \in NearestColumns(selected[i].array, asked.longitude)
        /\ Point(i) \notin selected[i].array.holes
    BY <2>1, <2>3, <2>4, SampledAt
  <2>8. Point(i) = [row |-> Point(i).row, column |-> Point(i).column]
    BY GridPoint
  <2>9. answer.timeline[i] =
          BuildTimelineStep(selected[i].lead, ReadGridValues(selected[i].array, Point(i)),
                            Warnings(archive))
    BY <2>3
  <2> HIDE DEF Point
  <2>10. LET values == ReadGridValues(selected[i].array, Point(i))
         IN /\ answer.timeline[i].lead = selected[i].lead
            /\ answer.timeline[i].temperature = OneDecimal(ToCelsius(values.t2m), 1)
            /\ answer.timeline[i].wind = OneDecimal(Max({0, values.w10m}), 1)
    BY <2>9, StepSamples
  <2> QED BY <2>6, <2>7, <2>8, <2>10, Zenon
<1>2. Reached => SampledNearest
  BY <1>1, Zenon DEF SampledNearest
<1> QED BY <1>2, AnswersReached, PTL

----------------------------------------------------------------------------
(* What a summary is made of *)

LEMMA ValuesAreInt ==
  ASSUME NEW array \in ArrayType, NEW point, point.row \in Int, point.column \in Int
  PROVE  LET values == ReadGridValues(array, point)
         IN /\ values.w10m = array.cells.w10m + array.slope * 100 * point.column
            /\ values.t2m = array.cells.t2m + array.slope * 100 * point.row
            /\ values.msl = array.cells.msl /\ values.tcwv = array.cells.tcwv
            /\ values.w10m \in Int /\ values.t2m \in Int /\ values.msl \in Int /\ values.tcwv \in Int
<1>1. array.cells \in [w10m : Int, t2m : Int, msl : Int, tcwv : Int] /\ array.slope \in Int
  BY DEF ArrayType
<1>2. PICK east \in Int : east = array.slope * 100 * point.column
  BY <1>1
<1>3. PICK south \in Int : south = array.slope * 100 * point.row
  BY <1>1
<1>4. ReadGridValues(array, point) = [array.cells EXCEPT !.t2m = @ + south, !.w10m = @ + east]
  BY <1>2, <1>3 DEF ReadGridValues
<1> QED BY <1>1, <1>2, <1>3, <1>4

LEMMA HectopascalsInt ==
  ASSUME NEW value \in Int PROVE Hectopascals(value) \in Int
<1>1. OneDecimal(value, 100) \in Int /\ OneDecimal(value, 1) \in Int
  BY DecimalsInt
<1> QED BY <1>1 DEF Hectopascals

LEMMA ClampBetween ==
  ASSUME NEW low \in Int, NEW high \in Int, low <= high, NEW x \in Int
  PROVE  Clamp(low, high, x) \in Int /\ low <= Clamp(low, high, x) /\ Clamp(low, high, x) <= high
BY ClampLimits

\* What schemas/forecast.py takes for a percentage, and for a confidence
Percent(x) == x \in Nat /\ x <= 100000
Share(x) == x \in Nat /\ x <= 1000

LEMMA HumidityLimits ==
  ASSUME NEW tcwv \in Int PROVE Percent(HumidityPercent(tcwv))
<1> DEFINE low == 150000
           high == 980000
<1>1. PICK x \in Int : x = tcwv * 15
  OBVIOUS
<1>2. HumidityPercent(tcwv) = OneDecimal(Clamp(low, high, x), 10)
  BY <1>1 DEF HumidityPercent
<1>3. low \in Int /\ high \in Int /\ low <= high
  BY SMT
<1> HIDE DEF low, high
<1>4. PICK clamped \in Int : clamped = Clamp(low, high, x) /\ low <= clamped /\ clamped <= high
  BY <1>3, ClampBetween
<1>5. /\ OneDecimal(clamped, 10) \in Int
      /\ 15000 <= OneDecimal(clamped, 10) /\ OneDecimal(clamped, 10) <= 98000
  BY <1>4, PercentOfTenthsStays, SMT DEF low, high
<1>6. Percent(OneDecimal(clamped, 10))
  BY <1>5, SMT DEF Percent
<1> QED BY <1>2, <1>4, <1>6

LEMMA RainLimits ==
  ASSUME NEW humidity \in Int, NEW pressure \in Int, NEW wind \in Int
  PROVE  Percent(OneDecimal(EstimatePrecipitationProbability(humidity, pressure, wind), 1))
<1> DEFINE low == 2000
           high == 95000
           most == 12000
           windy == (wind * 8) \div 10
<1>1. PICK humid \in Int : humid = Max({0, humidity - 45000})
  BY TwoNumbers
<1>2. PICK depth \in Int : depth = Max({0, 1013250 - pressure})
  BY TwoNumbers
<1>3. windy \in Int /\ most \in Int
  OBVIOUS
<1> HIDE DEF windy, most
<1>4. Min({most, windy}) \in Int
  BY <1>3, TwoNumbers
<1>5. PICK x \in Int : x = (humid * 85) \div 100 + (depth * 14) \div 10 + Min({most, windy})
  BY <1>4
<1>6. EstimatePrecipitationProbability(humidity, pressure, wind) = Clamp(low, high, x)
  BY <1>1, <1>2, <1>5 DEF EstimatePrecipitationProbability, most, windy
<1>7. low \in Int /\ high \in Int /\ low <= high
  BY SMT
<1> HIDE DEF low, high
<1>8. PICK clamped \in Int : clamped = Clamp(low, high, x) /\ low <= clamped /\ clamped <= high
  BY <1>7, ClampBetween
<1>9. /\ OneDecimal(clamped, 1) \in Int
      /\ 2000 <= OneDecimal(clamped, 1) /\ OneDecimal(clamped, 1) <= 96000
  BY <1>8, PercentStays, SMT DEF low, high
<1>10. Percent(OneDecimal(clamped, 1))
  BY <1>9, SMT DEF Percent
<1> QED BY <1>6, <1>8, <1>10

LEMMA ConfidenceLimits ==
  ASSUME NEW lead \in Int, NEW warnings \in Int
  PROVE  Share(Confidence(lead, warnings))
<1>1. PICK x \in Int : x = 920 - 3 * lead - 30 * warnings
  OBVIOUS
<1>2. PICK clamped \in Int :
        clamped = Clamp(550, 950, x) /\ 550 <= clamped /\ clamped <= 950
  BY ClampBetween
<1>3. /\ TwoDecimals(clamped, 1) \in Int
      /\ 550 <= TwoDecimals(clamped, 1) /\ TwoDecimals(clamped, 1) <= 950
  BY <1>2, ConfidenceStays
<1> QED BY <1>1, <1>2, <1>3 DEF Confidence, Share

\* Whatever integers a step is made from, it can be built.
LEMMA StepIsValid ==
  ASSUME NEW lead \in Nat, NEW values,
         values.w10m \in Int, values.t2m \in Int, values.msl \in Int, values.tcwv \in Int,
         NEW warnings \in Int
  PROVE  /\ ValidStep(BuildTimelineStep(lead, values, warnings))
         /\ Conditioned(BuildTimelineStep(lead, values, warnings))
<1> DEFINE step == BuildTimelineStep(lead, values, warnings)
<1>1. /\ step.lead = lead
      /\ step.temperature = OneDecimal(ToCelsius(values.t2m), 1)
      /\ step.wind = OneDecimal(Max({0, values.w10m}), 1)
      /\ step.humidity = HumidityPercent(values.tcwv)
      /\ step.pressure = Hectopascals(values.msl)
      /\ step.rain =
           OneDecimal(EstimatePrecipitationProbability(step.humidity, step.pressure, step.wind), 1)
      /\ step.confidence = Confidence(lead, warnings)
      /\ step.condition = Condition(step.wind, step.humidity, step.rain)
  BY StepSamples
<1> HIDE DEF step
<1>2. step.wind \in Int
  <2>1. Max({0, values.w10m}) \in Int
    BY TwoNumbers
  <2> QED BY <1>1, <2>1, DecimalsInt
<1>3. step.temperature \in Int
  <2>1. ToCelsius(values.t2m) \in Int
    BY DEF ToCelsius
  <2> QED BY <1>1, <2>1, DecimalsInt
<1>4. step.pressure \in Int
  BY <1>1, HectopascalsInt
<1>5. Percent(step.humidity) /\ step.humidity \in Int
  BY <1>1, HumidityLimits DEF Percent
<1>6. Percent(step.rain) /\ step.rain \in Int
  <2>1. Percent(OneDecimal(EstimatePrecipitationProbability(step.humidity, step.pressure,
                                                            step.wind), 1))
    BY <1>2, <1>4, <1>5, RainLimits
  <2>2. Percent(step.rain)
    BY <1>1, <2>1
  <2> QED BY <2>2 DEF Percent
<1>7. Share(step.confidence)
  BY <1>1, ConfidenceLimits
<1>8. step.condition \in {"clear", "breezy", "humid", "rain_watch"}
  BY <1>1, <1>2, <1>5, <1>6, ConditionMeans
<1>9. step.lead \in Nat
  BY <1>1
<1>10. ValidStep(step)
  BY <1>2, <1>3, <1>4, <1>5, <1>6, <1>7, <1>8, <1>9, SMT DEF ValidStep, Percent, Share
<1>11. Conditioned(step)
  BY <1>1, <1>2, <1>5, <1>6 DEF Conditioned
<1> QED BY <1>10, <1>11 DEF step

\* A warning stands for an entry that could not be loaded, or for the whole archive.
Lost(archive) ==
  {i \in DOMAIN Listed(archive) : Listed(archive)[i].kind \in {"foreign", "damaged"}}

LEMMA WarningsCounted ==
  ASSUME NEW archive, ArchiveOK(archive)
  PROVE  /\ IsFiniteSet(Lost(archive)) /\ Cardinality(Lost(archive)) \in Nat
         /\ Warnings(archive) \in Nat
         /\ ~Unlisted(archive) => Warnings(archive) = Cardinality(Lost(archive))
<1>1. /\ Len(Listed(archive)) \in Nat /\ DOMAIN Listed(archive) = 1..Len(Listed(archive))
      /\ \A i \in DOMAIN Listed(archive) : Listed(archive)[i] \in EntryType
  BY ListedAreFirst
<1>2. IsFiniteSet(1..Len(Listed(archive)))
  BY <1>1, FS_Interval
<1>3. Lost(archive) \in SUBSET (1..Len(Listed(archive)))
  BY <1>1 DEF Lost
<1>4. Files(archive) \ Places(archive) \in SUBSET (1..Len(Listed(archive)))
  BY <1>1 DEF Files
<1>5. IsFiniteSet(Lost(archive)) /\ IsFiniteSet(Files(archive) \ Places(archive))
  BY <1>2, <1>3, <1>4, FS_Subset
<1>6. /\ Cardinality(Lost(archive)) \in Nat
      /\ Cardinality(Files(archive) \ Places(archive)) \in Nat
  BY <1>5, FS_CardinalityType
<1>7. ASSUME ~Unlisted(archive)
      PROVE  Files(archive) \ Places(archive) = Lost(archive)
  <2>1. \A i \in DOMAIN Listed(archive) :
          Listed(archive)[i].kind \in {"array", "foreign", "damaged", "directory"}
    BY <1>1 DEF EntryType
  <2> QED BY <1>7, <2>1 DEF Files, Places, Lost, File, Array
<1>8. Warnings(archive) =
        Cardinality(Files(archive) \ Places(archive)) + IF Unlisted(archive) THEN 1 ELSE 0
  BY LoadedMembers DEF Warnings
<1> QED BY <1>5, <1>6, <1>7, <1>8

\* A summary whose timeline is not empty, can be built, and has the signals of its steps
Coherent(forecast, n) ==
  /\ n \in Nat \ {0} /\ DOMAIN forecast.timeline = 1..n
  /\ \A i \in 1..n : ValidStep(forecast.timeline[i]) /\ Conditioned(forecast.timeline[i])
  /\ forecast.signals = Signals(forecast.timeline)
  /\ forecast.window.end >= forecast.window.start

\* Every forecast from an archive is.
LEMMA ArchiveCoherent ==
  ASSUME NEW archive, ArchiveOK(archive),
         NEW latitude \in Int, -QuarterCircle <= latitude, latitude <= QuarterCircle,
         NEW longitude \in Int,
         ForecastFromTar(archive, latitude, longitude).status = "served"
  PROVE  \E n : Coherent(ForecastFromTar(archive, latitude, longitude), n)
<1> DEFINE forecast == ForecastFromTar(archive, latitude, longitude)
           m == Cardinality(LeadsUsed(Members(archive)))
           selected == Selected(archive)
           Point(i) == GridIndices(selected[i].array, latitude, longitude)
<1>1. /\ Cardinality(Places(archive)) # 0
      /\ \A i \in 1..m : Readable(selected[i].array, Point(i))
      /\ forecast.timeline =
           [i \in 1..m |-> BuildTimelineStep(selected[i].lead,
                                             ReadGridValues(selected[i].array, Point(i)),
                                             Warnings(archive))]
      /\ forecast.signals = Signals(forecast.timeline)
      /\ forecast.window.start = forecast.timeline[1].lead
      /\ forecast.window.end = forecast.timeline[m].lead
  BY ServedForecast
<1>2. /\ m \in Nat \ {0}
      /\ \A i \in 1..m : selected[i].lead \in Nat /\ selected[i].array \in ArrayType
      /\ \A i, j \in 1..m : i < j => selected[i].lead < selected[j].lead
  BY <1>1, SelectedFromArchive
<1>3. Warnings(archive) \in Int
  BY WarningsCounted
<1> HIDE DEF m, selected, forecast
<1>4. ASSUME NEW i \in 1..m
      PROVE  /\ ValidStep(forecast.timeline[i]) /\ Conditioned(forecast.timeline[i])
             /\ forecast.timeline[i].lead = selected[i].lead
  <2> DEFINE values == ReadGridValues(selected[i].array, Point(i))
  <2>1. selected[i].lead \in Nat /\ selected[i].array \in ArrayType
    BY <1>2
  <2>2. Readable(selected[i].array, Point(i))
    BY <1>1
  <2>3. Point(i).row \in 0..(selected[i].array.rows - 1) /\ Point(i).column \in Nat
    BY <2>1, <2>2, SampledAt
  <2>4. Point(i).row \in Int /\ Point(i).column \in Int
    BY <2>3
  <2>5. forecast.timeline[i] = BuildTimelineStep(selected[i].lead, values, Warnings(archive))
    BY <1>1
  <2> HIDE DEF Point
  <2>6. values.w10m \in Int /\ values.t2m \in Int /\ values.msl \in Int /\ values.tcwv \in Int
    BY <2>1, <2>4, ValuesAreInt
  <2> HIDE DEF values
  <2>7. /\ ValidStep(BuildTimelineStep(selected[i].lead, values, Warnings(archive)))
        /\ Conditioned(BuildTimelineStep(selected[i].lead, values, Warnings(archive)))
    BY <1>3, <2>1, <2>6, StepIsValid
  <2> DEFINE step == BuildTimelineStep(selected[i].lead, values, Warnings(archive))
  <2>8. step.lead = selected[i].lead
    BY StepLead
  <2> HIDE DEF step
  <2> QED BY <2>5, <2>7, <2>8 DEF step
<1>5. forecast.window.end >= forecast.window.start
  <2>1. 1 \in 1..m /\ m \in 1..m /\ (m = 1 \/ 1 < m)
    BY <1>2
  <2>2. selected[1].lead \in Nat /\ selected[m].lead \in Nat /\ selected[1].lead <= selected[m].lead
    BY <1>2, <2>1
  <2>3. forecast.timeline[1].lead = selected[1].lead /\ forecast.timeline[m].lead = selected[m].lead
    BY <1>4, <2>1
  <2> QED BY <1>1, <2>2, <2>3
<1>6. DOMAIN forecast.timeline = 1..m
  BY <1>1
<1>7. Coherent(forecast, m)
  BY <1>1, <1>2, <1>4, <1>5, <1>6 DEF Coherent
<1> QED BY <1>7 DEF forecast

LEMMA SinInt ==
  ASSUME NEW degrees \in Int PROVE Sin(degrees) \in Int
<1> DEFINE x == degrees % 360
           half == x % 180
           product == half * (180 - half)
<1>1. x \in Nat /\ half \in 0..179
  OBVIOUS
<1> HIDE DEF x, half
<1>2. PICK away \in Int : away = half - 90
  BY <1>1
<1>3. product = 8100 - away * away
  BY <1>1, <1>2
<1>4. away * away >= 0
  BY <1>2
<1>5. product \in Int /\ product <= 8100
  BY <1>1, <1>2, <1>3, <1>4
<1> HIDE DEF product
<1>6. PICK numerator \in Int : numerator = 4000 * product
  BY <1>5
<1>7. PICK divisor \in Nat \ {0} : divisor = 40500 - product
  BY <1>5
<1>8. HalfEven(numerator, divisor) \in Int
  BY HalfEvenInt
<1>9. 4000 * half * (180 - half) = numerator
  BY <1>1, <1>6 DEF product
<1>10. Sin(degrees) = IF x < 180 THEN HalfEven(numerator, divisor) ELSE -HalfEven(numerator, divisor)
  BY <1>7, <1>9 DEF Sin, x, half, product
<1> QED BY <1>8, <1>10

LEMMA AbsInt ==
  ASSUME NEW x \in Int PROVE Abs(x) \in Int
BY DEF Abs

\* Every step of the mock can be built.
LEMMA MockStepIsValid ==
  ASSUME NEW lead \in Nat, NEW lat \in Int, NEW lon \in Int,
         NEW temperature \in Int, NEW wind \in Int, NEW humidity \in Int
  PROVE  /\ ValidStep(MockStep(lead, lat, lon, temperature, wind, humidity))
         /\ Conditioned(MockStep(lead, lat, lon, temperature, wind, humidity))
<1> DEFINE wave == Cos(lon - lead * 4)
           humid == OneDecimal(Clamp(25000, 96000, humidity + wave * 7), 1)
           rain == OneDecimal(Clamp(3000, 92000,
                                    16000 + ((humid - 55000) * 75) \div 100 + lead * 180), 1)
           warm == OneDecimal(temperature * 10 + Sin(lat + lead * 7) * 32, 10)
           windy == OneDecimal(wind * 10 + Abs(wave) * 18, 10)
           pressure == OneDecimal((1013200 + wave * 5) * 1000 - rain * 35, 1000)
           confidence == TwoDecimals(Max({6200, 9500 - lead * 38}), 10)
           step == MockStep(lead, lat, lon, temperature, wind, humidity)
<1>1. wave \in Int
  <2>1. lon - lead * 4 + 90 \in Int
    OBVIOUS
  <2> QED BY <2>1, SinInt DEF Cos
<1>2. Sin(lat + lead * 7) \in Int /\ Abs(wave) \in Int
  <2>1. lat + lead * 7 \in Int
    OBVIOUS
  <2> QED BY <1>1, <2>1, SinInt, AbsInt
<1>3. step = Step(lead, warm, windy, humid, rain, pressure, confidence)
  BY SMT DEF MockStep
<1> HIDE DEF wave
<1>4. Percent(humid)
  <2> DEFINE low == 25000
             high == 96000
  <2>1. PICK x \in Int : x = humidity + wave * 7
    BY <1>1
  <2>2. low \in Int /\ high \in Int /\ low <= high
    BY SMT
  <2>3. humid = OneDecimal(Clamp(low, high, x), 1)
    BY <2>1
  <2> HIDE DEF low, high, humid
  <2>4. PICK clamped \in Int : clamped = Clamp(low, high, x) /\ low <= clamped /\ clamped <= high
    BY <2>2, ClampBetween
  <2>5. /\ OneDecimal(clamped, 1) \in Int
        /\ 2000 <= OneDecimal(clamped, 1) /\ OneDecimal(clamped, 1) <= 96000
    BY <2>4, PercentStays, SMT DEF low, high
  <2>6. Percent(OneDecimal(clamped, 1))
    BY <2>5, SMT DEF Percent
  <2> QED BY <2>3, <2>4, <2>6
<1> HIDE DEF humid
<1>5. humid \in Int
  BY <1>4 DEF Percent
<1>6. Percent(rain)
  <2> DEFINE low == 3000
             high == 92000
  <2>1. PICK x \in Int : x = 16000 + ((humid - 55000) * 75) \div 100 + lead * 180
    BY <1>5
  <2>2. low \in Int /\ high \in Int /\ low <= high
    BY SMT
  <2>3. rain = OneDecimal(Clamp(low, high, x), 1)
    BY <2>1
  <2> HIDE DEF low, high, rain
  <2>4. PICK clamped \in Int : clamped = Clamp(low, high, x) /\ low <= clamped /\ clamped <= high
    BY <2>2, ClampBetween
  <2>5. /\ OneDecimal(clamped, 1) \in Int
        /\ 2000 <= OneDecimal(clamped, 1) /\ OneDecimal(clamped, 1) <= 96000
    BY <2>4, PercentStays, SMT DEF low, high
  <2>6. Percent(OneDecimal(clamped, 1))
    BY <2>5, SMT DEF Percent
  <2> QED BY <2>3, <2>4, <2>6
<1> HIDE DEF rain
<1>7. rain \in Int
  BY <1>6 DEF Percent
<1>8. warm \in Int /\ windy \in Int
  <2>1. PICK x \in Int : x = temperature * 10 + Sin(lat + lead * 7) * 32
    BY <1>2
  <2>2. PICK y \in Int : y = wind * 10 + Abs(wave) * 18
    BY <1>2
  <2>3. OneDecimal(x, 10) \in Int /\ OneDecimal(y, 10) \in Int
    BY DecimalsInt
  <2> QED BY <2>1, <2>2, <2>3
<1>9. pressure \in Int
  <2>1. PICK x \in Int : x = (1013200 + wave * 5) * 1000 - rain * 35
    BY <1>1, <1>7
  <2>2. OneDecimal(x, 1000) \in Int
    BY DecimalsInt
  <2> QED BY <2>1, <2>2
<1>10. Share(confidence)
  <2>1. PICK x \in Int : x = 9500 - lead * 38 /\ x <= 9500
    OBVIOUS
  <2>2. PICK y \in Int : y = Max({6200, x}) /\ 6200 <= y /\ y <= 9500
    BY <2>1, TwoNumbers
  <2>3. /\ TwoDecimals(y, 10) \in Int
        /\ 620 <= TwoDecimals(y, 10) /\ TwoDecimals(y, 10) <= 950
    BY <2>2, ConfidenceOfTenthsStays
  <2>4. Share(TwoDecimals(y, 10))
    BY <2>3 DEF Share
  <2> QED BY <2>1, <2>2, <2>4
<1> HIDE DEF warm, windy, pressure, confidence
<1>11. /\ step.lead = lead /\ step.temperature = warm /\ step.wind = windy
       /\ step.humidity = humid /\ step.rain = rain /\ step.pressure = pressure
       /\ step.confidence = confidence /\ step.condition = Condition(windy, humid, rain)
  BY <1>3 DEF Step
<1> HIDE DEF step
<1>12. step.condition \in {"clear", "breezy", "humid", "rain_watch"}
  BY <1>5, <1>7, <1>8, <1>11, ConditionMeans
<1>13. ValidStep(step)
  BY <1>4, <1>6, <1>8, <1>9, <1>10, <1>11, <1>12, SMT DEF ValidStep, Percent, Share
<1>14. Conditioned(step)
  BY <1>5, <1>7, <1>8, <1>11 DEF Conditioned
<1> QED BY <1>13, <1>14 DEF step

LEMMA MockCoherent ==
  ASSUME NEW lat \in Int, NEW lon \in Int
  PROVE  \E n : Coherent(MockForecast(lat, lon), n)
<1> DEFINE forecast == MockForecast(lat, lon)
           temperature == OneDecimal(18000 + 10 * Sin(lat) + 2 * Cos(lon), 1)
           wind == OneDecimal(4000000 + Abs(Sin(lat) * Cos(lon)) * 8, 1000)
           humidity == OneDecimal(55000 + Abs(Cos(lon)) * 25, 1)
           timeline == [i \in DOMAIN MOCK_LEAD_HOURS |->
                          MockStep(MOCK_LEAD_HOURS[i], lat, lon, temperature, wind, humidity)]
<1>1. PICK sine \in Int : sine = Sin(lat)
  BY SinInt
<1>2. PICK cosine \in Int : cosine = Cos(lon)
  BY SinInt DEF Cos
<1>3. temperature \in Int
  <2>1. PICK x \in Int : x = 18000 + 10 * sine + 2 * cosine
    OBVIOUS
  <2> QED BY <1>1, <1>2, <2>1, DecimalsInt
<1>4. wind \in Int
  <2>1. PICK y \in Int : y = sine * cosine
    OBVIOUS
  <2>2. PICK x \in Int : x = 4000000 + Abs(y) * 8
    BY AbsInt
  <2>3. OneDecimal(x, 1000) \in Int
    BY DecimalsInt
  <2> QED BY <1>1, <1>2, <2>1, <2>2, <2>3
<1>5. humidity \in Int
  <2>1. PICK x \in Int : x = 55000 + Abs(cosine) * 25
    BY AbsInt
  <2> QED BY <1>2, <2>1, DecimalsInt
<1>6. forecast =
        [status |-> "served", timeline |-> timeline, signals |-> Signals(timeline),
         headline |-> timeline[1].condition,
         metrics |-> [temperature |-> temperature, wind |-> wind, humidity |-> humidity],
         window |-> [start |-> 0, end |-> MOCK_LEAD_HOURS[Len(MOCK_LEAD_HOURS)],
                     leads |-> MOCK_LEAD_HOURS]]
  BY SMT DEF MockForecast
<1> HIDE DEF temperature, wind, humidity
<1>7. DOMAIN MOCK_LEAD_HOURS = 1..7 /\ \A i \in 1..7 : MOCK_LEAD_HOURS[i] \in Nat
  BY DEF MOCK_LEAD_HOURS
<1>8. ASSUME NEW i \in 1..7 PROVE ValidStep(timeline[i]) /\ Conditioned(timeline[i])
  <2>1. PICK lead \in Nat : lead = MOCK_LEAD_HOURS[i]
    BY <1>7
  <2>2. timeline[i] = MockStep(lead, lat, lon, temperature, wind, humidity)
    BY <1>7, <2>1
  <2> HIDE DEF timeline
  <2>3. /\ ValidStep(MockStep(lead, lat, lon, temperature, wind, humidity))
        /\ Conditioned(MockStep(lead, lat, lon, temperature, wind, humidity))
    BY <1>3, <1>4, <1>5, MockStepIsValid
  <2> QED BY <2>2, <2>3
<1>9. DOMAIN timeline = 1..7
  BY <1>7
<1>10. MOCK_LEAD_HOURS[Len(MOCK_LEAD_HOURS)] >= 0
  BY DEF MOCK_LEAD_HOURS
<1> HIDE DEF timeline, forecast
<1>11. /\ forecast.timeline = timeline /\ forecast.signals = Signals(timeline)
       /\ forecast.window.start = 0
       /\ forecast.window.end = MOCK_LEAD_HOURS[Len(MOCK_LEAD_HOURS)]
  BY <1>6
<1>12. Coherent(forecast, 7)
  BY <1>8, <1>9, <1>10, <1>11 DEF Coherent
<1> QED BY <1>12 DEF forecast

\* A report names no more lead times and no more batches than it counts arrays.
LEMMA ReportCounts ==
  ASSUME NEW archive, ArchiveOK(archive), DecodeTar(archive).status = "decoded"
  PROVE  /\ Len(DecodeTar(archive).leads) <= DecodeTar(archive).count
         /\ Len(DecodeTar(archive).batches) <= DecodeTar(archive).count
<1> DEFINE n == Cardinality(Places(archive))
           members == Members(archive)
           Arrays == {members[i] : i \in DOMAIN members}
           leads == {a.lead : a \in Arrays}
           batches == {a.batch : a \in Arrays}
           report == [status |-> "decoded", count |-> Len(members),
                      leads |-> Ascending(leads), batches |-> Ascending(batches)]
<1>1. /\ n \in Nat /\ DOMAIN members = 1..n
      /\ \A k \in 1..n : members[k].lead \in Nat /\ members[k].batch \in Nat
  BY MembersInOrder
<1>2. members = [k \in 1..n |-> Listed(archive)[Order(archive)[k]]]
  <2>1. members = [k \in DOMAIN Order(archive) |-> Listed(archive)[Order(archive)[k]]]
    BY LoadedMembers DEF Members
  <2>2. DOMAIN Order(archive) = 1..n
    BY PlacesInOrder
  <2> QED BY <2>1, <2>2
<1>3. Len(members) = n
  BY <1>1, <1>2
<1>4. DecodeTar(archive) = IF archive.ends = "compressed" THEN Raised ELSE report
  BY Zenon DEF DecodeTar, Members
<1>5. DecodeTar(archive) = report
  BY <1>4 DEF Raised
<1> HIDE DEF members, n
<1>6. leads \in SUBSET Int /\ batches \in SUBSET Int
  BY <1>1
<1>7. IsFiniteSet(leads) /\ Cardinality(leads) <= n
  <2>1. leads = {[k \in 1..n |-> members[k].lead][i] : i \in 1..n}
    BY <1>1
  <2> QED BY <1>1, <2>1, FiniteRange
<1>8. IsFiniteSet(batches) /\ Cardinality(batches) <= n
  <2>1. batches = {[k \in 1..n |-> members[k].batch][i] : i \in 1..n}
    BY <1>1
  <2> QED BY <1>1, <2>1, FiniteRange
<1> HIDE DEF leads, batches
<1>9. Len(Ascending(leads)) <= n
  <2>1. Cardinality(leads) \in Nat /\ Ascending(leads) \in [1..Cardinality(leads) -> leads]
    BY <1>6, <1>7, AscendingSorts
  <2>2. Len(Ascending(leads)) = Cardinality(leads)
    BY <2>1
  <2> QED BY <1>7, <2>2
<1>10. Len(Ascending(batches)) <= n
  <2>1. Cardinality(batches) \in Nat /\ Ascending(batches) \in [1..Cardinality(batches) -> batches]
    BY <1>6, <1>8, AscendingSorts
  <2>2. Len(Ascending(batches)) = Cardinality(batches)
    BY <2>1
  <2> QED BY <1>8, <2>2
<1> QED BY <1>3, <1>5, <1>9, <1>10

\* What is served can be built and does not contradict itself, whatever finite values it is
\* made from and whatever an archive holds (ForecastSummary and
\* ForecastTimelineStep, _choose_condition and _build_signals of both providers).
THEOREM SummaryCoherentHolds == Spec => []SummaryCoherent
<1>1. ASSUME Reached, Served PROVE \E n : Coherent(answer, n)
  <2>1. /\ asked.provider \in {"mock", "fourcastnet", "report"}
        /\ asked.latitude \in Int /\ -QuarterCircle <= asked.latitude
        /\ asked.latitude <= QuarterCircle /\ asked.longitude \in Int
        /\ ArchiveOK(asked.archive)
    BY <1>1, WhereAsked
  <2>2. answer # Unanswered /\ answer # DecodeTar(asked.archive)
    BY <1>1, StatusOfAnswers DEF Served
  <2>3. CASE asked.provider = "mock"
    <3>1. answer = MockForecast(asked.latitude \div 1000, asked.longitude \div 1000)
      BY <1>1, <2>2, <2>3 DEF Reached, Answered
    <3>2. asked.latitude \div 1000 \in Int /\ asked.longitude \div 1000 \in Int
      BY <2>1
    <3> QED BY <3>1, <3>2, MockCoherent
  <2>4. CASE asked.provider = "fourcastnet"
    <3>1. answer = ForecastFromTar(asked.archive, asked.latitude, asked.longitude)
      BY <1>1, <2>2, <2>4 DEF Reached, Answered
    <3>2. ForecastFromTar(asked.archive, asked.latitude, asked.longitude).status = "served"
      BY <1>1, <3>1 DEF Served
    <3> QED BY <2>1, <3>1, <3>2, ArchiveCoherent
  <2>5. CASE asked.provider = "report"
    BY <1>1, <2>2, <2>5 DEF Reached, Answered
  <2> QED BY <2>1, <2>3, <2>4, <2>5
<1>2. ASSUME Reached PROVE ForecastTypeOK
  <2>1. asked.provider \in {"mock", "fourcastnet", "report"} /\ ArchiveOK(asked.archive)
    BY <1>2, WhereAsked
  <2>2. answer.status \in {"asked", "served", "unavailable", "error", "decoded"}
    BY <1>2, StatusOfAnswers DEF Reached, Answered
  <2>3. ASSUME Served
        PROVE  /\ answer.timeline # <<>> /\ ValidTimeline(answer.timeline)
               /\ answer.window.end >= answer.window.start
    <3>1. PICK n : Coherent(answer, n)
      BY <1>1, <1>2, <2>3
    <3>2. 1 \in DOMAIN answer.timeline
      BY <3>1 DEF Coherent
    <3> QED BY <3>1, <3>2 DEF Coherent, ValidTimeline
  <2>4. ASSUME answer.status = "decoded"
        PROVE  Len(answer.leads) <= answer.count /\ Len(answer.batches) <= answer.count
    <3>1. answer = DecodeTar(asked.archive)
      BY <1>2, <2>4, StatusOfAnswers DEF Reached, Answered
    <3> QED BY <2>1, <2>4, <3>1, ReportCounts
  <2> QED BY <2>1, <2>2, <2>3, <2>4, Zenon DEF ForecastTypeOK
<1>3. ASSUME Reached PROVE SignalsAgree
  <2> SUFFICES ASSUME Served PROVE SignalsAgree
    BY DEF SignalsAgree
  <2>1. PICK n : Coherent(answer, n)
    BY <1>1, <1>3
  <2>2. /\ n \in Nat \ {0} /\ DOMAIN answer.timeline = 1..n
        /\ \A i \in 1..n : Conditioned(answer.timeline[i])
        /\ answer.signals = Signals(answer.timeline)
    BY <2>1 DEF Coherent
  <2> DEFINE Conditions == {answer.timeline[i].condition : i \in DOMAIN answer.timeline}
             Windiest == {i \in DOMAIN answer.timeline :
                            \A j \in DOMAIN answer.timeline :
                              answer.timeline[j].wind <= answer.timeline[i].wind}
             signals == Signals(answer.timeline)
  <2>3. /\ signals.precipitation = "elevated" => "rain_watch" \in Conditions
        /\ "rain_watch" \in Conditions => signals.precipitation # "low"
        /\ signals.wind = "moderate" =>
             \A i \in Windiest : answer.timeline[i].condition \in {"breezy", "rain_watch"}
    BY <2>2, SignalsOfSteps, Zenon
  <2>4. answer.signals = signals
    BY <2>2
  <2> QED BY <2>3, <2>4, Zenon DEF SignalsAgree
<1>4. Reached => SummaryCoherent
  BY <1>2, <1>3 DEF SummaryCoherent
<1> QED BY <1>4, AnswersReached, PTL

----------------------------------------------------------------------------
(* Two archives with the same forecast *)

LEMMA NotCutOff ==
  ASSUME NEW archive, ArchiveOK(archive), NEW latitude, NEW longitude,
         ForecastFromTar(archive, latitude, longitude).status = "served"
  PROVE  archive.ends # "compressed" /\ ~Unlisted(archive)
<1>1. archive.ends # "compressed"
  <2> SUFFICES ASSUME archive.ends = "compressed" PROVE FALSE
    OBVIOUS
  <2>1. ForecastFromTar(archive, latitude, longitude) = Raised
    BY DEF ForecastFromTar
  <2> QED BY <2>1 DEF Raised
<1>2. Cardinality(Places(archive)) # 0
  BY ServedForecast
<1>3. ~Unlisted(archive)
  BY <1>2, FS_EmptySet DEF Places
<1> QED BY <1>1, <1>3

Timeline(archive, latitude, longitude) ==
  [i \in DOMAIN Selected(archive) |->
     BuildTimelineStep(Selected(archive)[i].lead,
                       ReadGridValues(Selected(archive)[i].array,
                                      GridIndices(Selected(archive)[i].array, latitude, longitude)),
                       Warnings(archive))]
Summary(timeline) ==
  [status |-> "served", timeline |-> timeline, signals |-> Signals(timeline),
   headline |-> timeline[1].condition, metrics |-> Metrics(timeline[1]),
   window |-> [start |-> timeline[1].lead, end |-> timeline[Len(timeline)].lead,
               leads |-> [i \in DOMAIN timeline |-> timeline[i].lead]]]

\* A forecast is the summary of the timeline of its archive, if every selected member can be
\* sampled.
LEMMA SummaryOfTimeline ==
  ASSUME NEW archive, NEW latitude, NEW longitude,
         archive.ends # "compressed", Members(archive) # <<>>, Selected(archive) # <<>>,
         \A i \in DOMAIN Selected(archive) :
           Readable(Selected(archive)[i].array,
                    GridIndices(Selected(archive)[i].array, latitude, longitude))
  PROVE  ForecastFromTar(archive, latitude, longitude) =
           Summary(Timeline(archive, latitude, longitude))
<1> DEFINE selected == IF Members(archive) = <<>> THEN <<>> ELSE Selected(archive)
           Point(i) == GridIndices(selected[i].array, latitude, longitude)
           timeline == [i \in DOMAIN selected |->
                          BuildTimelineStep(selected[i].lead,
                                            ReadGridValues(selected[i].array, Point(i)),
                                            Warnings(archive))]
           unread == \E i \in DOMAIN selected : ~Readable(selected[i].array, Point(i))
<1>1. ForecastFromTar(archive, latitude, longitude) =
        CASE archive.ends = "compressed" -> Raised
          [] archive.ends # "compressed" /\ (selected = <<>> \/ unread) -> Unavailable
          [] OTHER -> Summary(timeline)
  BY Zenon DEF ForecastFromTar, Members, Selected, Warnings, Summary
<1>2. selected = Selected(archive)
  OBVIOUS
<1>3. selected # <<>> /\ ~unread /\ timeline = Timeline(archive, latitude, longitude)
  BY <1>2 DEF Timeline
<1> HIDE DEF selected, unread, timeline
<1> QED BY <1>1, <1>3

Converted(cells) == [w10m |-> cells.w10m, t2m |-> cells.t2m - 273150,
                     msl |-> cells.msl \div 100, tcwv |-> cells.tcwv]

\* Only the two quantities change.
SameButUnits(array, other) ==
  /\ other.ndim = array.ndim /\ other.variables = array.variables
  /\ other.rows = array.rows /\ other.columns = array.columns
  /\ other.slope = array.slope /\ other.holes = array.holes
  /\ other.cells.w10m = array.cells.w10m /\ other.cells.tcwv = array.cells.tcwv
  /\ other.cells.t2m = array.cells.t2m - 273150 /\ other.cells.msl = array.cells.msl \div 100

LEMMA UnitsOnly ==
  ASSUME NEW entry \in EntryType
  PROVE  /\ InOtherUnits(entry) \in EntryType
         /\ InOtherUnits(entry).kind = entry.kind
         /\ Array(entry) =>
              LET changed == InOtherUnits(entry)
              IN /\ changed.lead = entry.lead /\ changed.batch = entry.batch
                 /\ changed.array \in ArrayType /\ SameButUnits(entry.array, changed.array)
<1>1. CASE ~Array(entry)
  BY <1>1, SMT DEF InOtherUnits
<1>2. CASE Array(entry)
  <2>1. entry \in [kind : {"array"}, lead : Nat, batch : Nat, array : ArrayType]
    BY <1>2 DEF EntryType, Array
  <2>2. /\ entry.array \in ArrayType
        /\ entry.array.cells \in [w10m : Int, t2m : Int, msl : Int, tcwv : Int]
    BY <2>1 DEF ArrayType
  <2> DEFINE cells == Converted(entry.array.cells)
             array == [entry.array EXCEPT !.cells = cells]
  <2>3. cells \in [w10m : Int, t2m : Int, msl : Int, tcwv : Int]
    BY <2>2, SMT DEF Converted
  <2>4. InOtherUnits(entry) = [entry EXCEPT !.array.cells = cells]
    BY <1>2, SMT DEF InOtherUnits, Converted
  <2>5. /\ cells.w10m = entry.array.cells.w10m /\ cells.tcwv = entry.array.cells.tcwv
        /\ cells.t2m = entry.array.cells.t2m - 273150 /\ cells.msl = entry.array.cells.msl \div 100
    BY SMT DEF Converted
  <2> HIDE DEF cells
  <2>6. array \in ArrayType
    BY <2>2, <2>3 DEF ArrayType
  <2>7. InOtherUnits(entry) = [entry EXCEPT !.array = array]
    BY <2>1, <2>4
  <2>11. /\ array.ndim = entry.array.ndim /\ array.variables = entry.array.variables
         /\ array.rows = entry.array.rows /\ array.columns = entry.array.columns
         /\ array.slope = entry.array.slope /\ array.holes = entry.array.holes
         /\ array.cells = cells
    BY <2>2 DEF ArrayType
  <2> HIDE DEF array
  <2>12. SameButUnits(entry.array, array)
    BY <2>5, <2>11, SMT DEF SameButUnits
  <2>8. [entry EXCEPT !.array = array]
          \in [kind : {"array"}, lead : Nat, batch : Nat, array : ArrayType]
    BY <2>1, <2>6
  <2>9. /\ InOtherUnits(entry).kind = entry.kind /\ InOtherUnits(entry).lead = entry.lead
        /\ InOtherUnits(entry).batch = entry.batch /\ InOtherUnits(entry).array = array
    BY <2>1, <2>7
  <2>10. InOtherUnits(entry) \in EntryType
    BY <2>7, <2>8 DEF EntryType
  <2> QED BY <2>6, <2>9, <2>10, <2>12
<1> QED BY <1>1, <1>2

\* Above the threshold a temperature is converted, and what the conversion gives is below it.
LEMMA SameCelsius ==
  ASSUME NEW kelvin \in Int, 170000 < kelvin, kelvin <= 443150
  PROVE  ToCelsius(kelvin - 273150) = ToCelsius(kelvin)
BY SMT DEF ToCelsius

LEMMA InHundreds ==
  ASSUME NEW n \in Int, n % 100 = 0
  PROVE  \E hundreds \in Int : n = 100 * hundreds /\ n \div 100 = hundreds
BY SMT

LEMMA SameHectopascals ==
  ASSUME NEW pascals \in Int, 2000000 < pascals, pascals <= 200000000, pascals % 100 = 0
  PROVE  Hectopascals(pascals \div 100) = Hectopascals(pascals)
<1>1. PICK hundreds \in Int : pascals = 100 * hundreds /\ pascals \div 100 = hundreds
  BY InHundreds
<1>2. pascals \div 100 = hundreds
  BY <1>1
<1>3. 20000 < hundreds /\ hundreds <= 2000000
  BY <1>1, SMT
<1>4. HalfEven(pascals, 10000) = HalfEven(hundreds, 100)
  <2>1. pascals \div 10000 = hundreds \div 100 /\ pascals % 10000 = 100 * (hundreds % 100)
    BY <1>1, SMT
  <2>2. hundreds % 100 \in Int
    OBVIOUS
  <2> QED BY <2>1, <2>2, SMT DEF HalfEven
<1>5. OneDecimal(pascals, 100) = OneDecimal(hundreds, 1)
  BY <1>4, SMT DEF OneDecimal
<1> QED BY <1>2, <1>3, <1>5, SMT DEF Hectopascals

LEMMA SameStep ==
  ASSUME NEW lead, NEW warnings, NEW values, NEW others,
         others.w10m = values.w10m, others.tcwv = values.tcwv,
         Hectopascals(others.msl) = Hectopascals(values.msl),
         ToCelsius(others.t2m) = ToCelsius(values.t2m)
  PROVE  BuildTimelineStep(lead, others, warnings) = BuildTimelineStep(lead, values, warnings)
BY SMT DEF BuildTimelineStep

\* An array in the other units is sampled at the same place, and gives the same step.
LEMMA SampledInOtherUnits ==
  ASSUME NEW array \in ArrayType, NEW other \in ArrayType, SameButUnits(array, other),
         NEW latitude, NEW longitude, NEW lead, NEW warnings,
         NEW point, point.row \in Int, point.column \in Int,
         170000 < ReadGridValues(array, point).t2m, ReadGridValues(array, point).t2m <= 443150,
         2000000 < array.cells.msl, array.cells.msl <= 200000000, array.cells.msl % 100 = 0
  PROVE  /\ GridIndices(other, latitude, longitude) = GridIndices(array, latitude, longitude)
         /\ \A p : Readable(other, p) = Readable(array, p)
         /\ BuildTimelineStep(lead, ReadGridValues(other, point), warnings) =
            BuildTimelineStep(lead, ReadGridValues(array, point), warnings)
<1> DEFINE values == ReadGridValues(array, point)
           others == ReadGridValues(other, point)
<1>1. GridIndices(other, latitude, longitude) = GridIndices(array, latitude, longitude)
  BY SMT DEF GridIndices, SameButUnits
<1>2. \A p : Readable(other, p) = Readable(array, p)
  BY DEF Readable, SameButUnits
<1>3. /\ values.w10m = array.cells.w10m + array.slope * 100 * point.column
      /\ values.t2m = array.cells.t2m + array.slope * 100 * point.row
      /\ values.msl = array.cells.msl /\ values.tcwv = array.cells.tcwv
      /\ values.t2m \in Int /\ values.msl \in Int
  BY ValuesAreInt
<1>4. /\ others.w10m = other.cells.w10m + other.slope * 100 * point.column
      /\ others.t2m = other.cells.t2m + other.slope * 100 * point.row
      /\ others.msl = other.cells.msl /\ others.tcwv = other.cells.tcwv
  BY ValuesAreInt
<1>5. /\ array.cells \in [w10m : Int, t2m : Int, msl : Int, tcwv : Int] /\ array.slope \in Int
  BY DEF ArrayType
<1> HIDE DEF values, others
<1>6. others.w10m = values.w10m /\ others.tcwv = values.tcwv
  BY <1>3, <1>4 DEF SameButUnits
<1>7. others.t2m = values.t2m - 273150
  <2>1. PICK south \in Int : south = array.slope * 100 * point.row
    BY <1>5
  <2>2. other.cells.t2m = array.cells.t2m - 273150 /\ other.slope = array.slope
    BY SMT DEF SameButUnits
  <2>3. others.t2m = (array.cells.t2m - 273150) + south /\ values.t2m = array.cells.t2m + south
    BY <1>3, <1>4, <2>1, <2>2, SMT
  <2> QED BY <1>5, <2>3, SMT
<1>8. others.msl = values.msl \div 100
  BY <1>3, <1>4 DEF SameButUnits
<1>9. ToCelsius(others.t2m) = ToCelsius(values.t2m)
  BY <1>3, <1>7, SameCelsius, SMT DEF values
<1>10. Hectopascals(others.msl) = Hectopascals(values.msl)
  BY <1>3, <1>8, SameHectopascals, SMT
<1>11. BuildTimelineStep(lead, others, warnings) = BuildTimelineStep(lead, values, warnings)
  BY <1>6, <1>9, <1>10, SameStep
<1> QED BY <1>1, <1>2, <1>11 DEF values, others

LEMMA ListedInOtherUnits ==
  ASSUME NEW archive, ArchiveOK(archive), NEW other, other = OtherUnits(archive)
  PROVE  /\ ArchiveOK(other) /\ other.ends = archive.ends /\ other.upTo = archive.upTo
         /\ DOMAIN Listed(other) = DOMAIN Listed(archive)
         /\ \A i \in DOMAIN Listed(archive) : Listed(other)[i] = InOtherUnits(Listed(archive)[i])
<1> DEFINE entries == archive.entries
           changed == [i \in DOMAIN entries |-> InOtherUnits(entries[i])]
<1>1. /\ archive \in [entries : Seq(EntryType), upTo : Nat,
                      ends : {"whole", "between", "inside", "compressed"}]
      /\ archive.upTo <= Len(entries)
  BY DEF ArchiveOK, ArchiveType
<1>2. entries \in Seq(EntryType) /\ archive.upTo \in Nat
  BY <1>1
<1>3. other = [archive EXCEPT !.entries = changed]
  BY Zenon DEF OtherUnits
<1>4. \A i \in DOMAIN entries : InOtherUnits(entries[i]) \in EntryType
  <2> SUFFICES ASSUME NEW i \in DOMAIN entries PROVE InOtherUnits(entries[i]) \in EntryType
    OBVIOUS
  <2>1. entries[i] \in EntryType
    BY <1>2
  <2> QED BY <2>1, UnitsOnly
<1>5. /\ changed \in Seq(EntryType) /\ Len(changed) = Len(entries)
      /\ DOMAIN changed = DOMAIN entries /\ DOMAIN entries = 1..Len(entries)
      /\ \A i \in DOMAIN entries : changed[i] = InOtherUnits(entries[i])
  <2>1. DOMAIN entries = 1..Len(entries) /\ Len(entries) \in Nat
    BY <1>2
  <2>2. \A i \in DOMAIN entries : changed[i] = InOtherUnits(entries[i]) /\ changed[i] \in EntryType
    BY <1>4
  <2>3. changed \in [1..Len(entries) -> EntryType]
    BY <2>1, <2>2
  <2> HIDE DEF changed, entries
  <2>4. changed \in Seq(EntryType) /\ Len(changed) = Len(entries)
    BY <2>1, <2>3
  <2> QED BY <2>1, <2>2, <2>3, <2>4
<1> HIDE DEF changed
<1>6. /\ other.entries = changed /\ other.ends = archive.ends /\ other.upTo = archive.upTo
      /\ other \in [entries : Seq(EntryType), upTo : Nat,
                    ends : {"whole", "between", "inside", "compressed"}]
  BY <1>1, <1>3, <1>5
<1>7. ArchiveOK(other)
  BY <1>1, <1>5, <1>6 DEF ArchiveOK, ArchiveType
<1>8. CASE archive.ends = "between"
  <2>1. /\ Listed(archive) = SubSeq(entries, 1, archive.upTo)
        /\ Listed(other) = SubSeq(changed, 1, archive.upTo)
    BY <1>6, <1>8 DEF Listed
  <2>2. /\ DOMAIN Listed(archive) = 1..archive.upTo /\ DOMAIN Listed(other) = 1..archive.upTo
        /\ \A i \in 1..archive.upTo : Listed(archive)[i] = entries[i] /\ Listed(other)[i] = changed[i]
    BY <1>1, <1>2, <1>5, <2>1
  <2>3. 1..archive.upTo \subseteq DOMAIN entries
    BY <1>1, <1>2, <1>5
  <2> QED BY <1>5, <1>6, <1>7, <2>2, <2>3
<1>9. CASE archive.ends # "between"
  BY <1>5, <1>6, <1>7, <1>9 DEF Listed
<1> QED BY <1>8, <1>9

\* The same places are loaded in the same order.
LEMMA MembersInOtherUnits ==
  ASSUME NEW archive, ArchiveOK(archive), NEW other, other = OtherUnits(archive)
  PROVE  /\ Places(other) = Places(archive) /\ Order(other) = Order(archive)
         /\ Members(other) =
              [k \in DOMAIN Members(archive) |-> InOtherUnits(Members(archive)[k])]
         /\ Warnings(other) = Warnings(archive)
<1> DEFINE entries == Listed(archive)
           changed == Listed(other)
           places == Places(archive)
           n == Cardinality(places)
<1>1. /\ ArchiveOK(other) /\ other.ends = archive.ends /\ other.upTo = archive.upTo
      /\ DOMAIN changed = DOMAIN entries
      /\ \A i \in DOMAIN entries : changed[i] = InOtherUnits(entries[i])
  BY ListedInOtherUnits
<1>2. \A i \in DOMAIN entries :
        /\ entries[i] \in EntryType /\ changed[i].kind = entries[i].kind
        /\ Array(entries[i]) => /\ changed[i].lead = entries[i].lead
                                /\ changed[i].batch = entries[i].batch
  <2> SUFFICES ASSUME NEW i \in DOMAIN entries
               PROVE  /\ entries[i] \in EntryType /\ changed[i].kind = entries[i].kind
                      /\ Array(entries[i]) => /\ changed[i].lead = entries[i].lead
                                              /\ changed[i].batch = entries[i].batch
    OBVIOUS
  <2>1. entries[i] \in EntryType
    BY ListedAreFirst
  <2>2. changed[i] = InOtherUnits(entries[i])
    BY <1>1
  <2> HIDE DEF entries, changed
  <2> QED BY <2>1, <2>2, UnitsOnly
<1>3. Unlisted(other) = Unlisted(archive)
  BY <1>1 DEF Unlisted
<1> HIDE DEF entries, changed
<1>4. Places(other) = places /\ Files(other) = Files(archive)
  BY <1>1, <1>2, <1>3 DEF Places, Files, File, Array, entries, changed
<1>5. places \subseteq DOMAIN entries /\ \A i \in places : Array(entries[i])
  BY DEF Places, entries
<1>6. ByName(changed, places) = ByName(entries, places)
  <2>1. \A i \in places : /\ changed[i].lead = entries[i].lead
                          /\ changed[i].batch = entries[i].batch
    BY <1>2, <1>5
  <2> HIDE DEF places
  <2> QED BY <2>1 DEF ByName
<1>7. Order(other) = Order(archive)
  BY <1>4, <1>6, Zenon DEF Order, entries, changed
<1>8. n \in Nat /\ DOMAIN Order(archive) = 1..n /\ Order(archive) \in [1..n -> places]
  BY PlacesInOrder
<1>9. /\ Members(archive) = [k \in DOMAIN Order(archive) |-> entries[Order(archive)[k]]]
      /\ Members(other) = [k \in DOMAIN Order(other) |-> changed[Order(other)[k]]]
      /\ Warnings(archive) =
           Cardinality(Files(archive) \ Places(archive)) + IF Unlisted(archive) THEN 1 ELSE 0
      /\ Warnings(other) =
           Cardinality(Files(other) \ Places(other)) + IF Unlisted(other) THEN 1 ELSE 0
  BY LoadedMembers, Zenon DEF Members, Warnings, entries, changed
<1> HIDE DEF places, n
<1>10. \A k \in 1..n : /\ Members(archive)[k] = entries[Order(archive)[k]]
                       /\ Members(other)[k] = changed[Order(archive)[k]]
                       /\ Order(archive)[k] \in DOMAIN entries
  BY <1>5, <1>7, <1>8, <1>9
<1>11. Members(other) = [k \in DOMAIN Members(archive) |-> InOtherUnits(Members(archive)[k])]
  <2>1. DOMAIN Members(other) = 1..n /\ DOMAIN Members(archive) = 1..n
    BY <1>7, <1>8, <1>9
  <2>2. \A k \in 1..n : Members(other)[k] = InOtherUnits(Members(archive)[k])
    BY <1>1, <1>10
  <2>3. Members(other) = [k \in 1..n |-> Members(other)[k]]
    BY <1>7, <1>8, <1>9
  <2> QED BY <2>1, <2>2, <2>3
<1>12. Warnings(other) = Warnings(archive)
  BY <1>3, <1>4, <1>9, Zenon DEF places
<1> QED BY <1>4, <1>7, <1>11, <1>12 DEF places

LEMMA SelectedInOtherUnits ==
  ASSUME NEW archive, ArchiveOK(archive), Cardinality(Places(archive)) # 0,
         NEW other, other = OtherUnits(archive)
  PROVE  /\ Members(archive) # <<>> /\ Members(other) # <<>>
         /\ Selected(archive) # <<>> /\ Selected(other) # <<>>
         /\ DOMAIN Selected(other) = DOMAIN Selected(archive)
         /\ \A k \in DOMAIN Selected(archive) :
              Selected(other)[k] = InOtherUnits(Selected(archive)[k])
<1> DEFINE n == Cardinality(Places(archive))
           members == Members(archive)
           changed == Members(other)
           m == Cardinality(LeadsUsed(members))
<1>1. /\ n \in Nat \ {0} /\ DOMAIN members = 1..n
      /\ \A k \in 1..n : /\ members[k] \in EntryType /\ Array(members[k])
                         /\ members[k].lead \in Nat
  BY MembersInOrder
<1>2. changed = [k \in DOMAIN members |-> InOtherUnits(members[k])]
  BY MembersInOtherUnits
<1> HIDE DEF n, members, changed
<1>3. DOMAIN changed = 1..n /\ 1 \in 1..n
  BY <1>1, <1>2
<1>4. ASSUME NEW k \in 1..n
      PROVE  /\ changed[k] = InOtherUnits(members[k])
             /\ changed[k].lead = members[k].lead /\ changed[k].batch = members[k].batch
  <2>1. changed[k] = InOtherUnits(members[k]) /\ members[k] \in EntryType /\ Array(members[k])
    BY <1>1, <1>2
  <2> QED BY <2>1, UnitsOnly
<1>5. /\ LeadsUsed(changed) = LeadsUsed(members) /\ OfBatch(changed) = OfBatch(members)
      /\ Firsts(changed) = Firsts(members)
  BY <1>1, <1>3, <1>4, SameChoice
<1>6. \A k \in 1..n : members[k].lead \in Int /\ changed[k].lead \in Int
  BY <1>1, <1>4
<1>7. /\ m \in Nat \ {0} /\ DOMAIN SelectBatchMembers(members) = 1..m
      /\ \A k \in 1..m : /\ Firsts(members)[k] \in OfBatch(members)
                         /\ SelectBatchMembers(members)[k] = members[Firsts(members)[k]]
  BY <1>1, <1>6, OnePerLead
<1>8. /\ DOMAIN SelectBatchMembers(changed) = 1..Cardinality(LeadsUsed(changed))
      /\ \A k \in 1..Cardinality(LeadsUsed(changed)) :
           SelectBatchMembers(changed)[k] = changed[Firsts(changed)[k]]
  BY <1>1, <1>3, <1>6, OnePerLead
<1>9. DOMAIN SelectBatchMembers(changed) = 1..m
  BY <1>5, <1>8
<1>10. \A k \in 1..m : SelectBatchMembers(changed)[k] = InOtherUnits(SelectBatchMembers(members)[k])
  <2> SUFFICES ASSUME NEW k \in 1..m
               PROVE  SelectBatchMembers(changed)[k] = InOtherUnits(SelectBatchMembers(members)[k])
    OBVIOUS
  <2>1. Firsts(members)[k] \in 1..n
    BY <1>1, <1>7 DEF OfBatch
  <2>2. SelectBatchMembers(changed)[k] = changed[Firsts(members)[k]]
    BY <1>5, <1>8
  <2> QED BY <1>4, <1>7, <2>1, <2>2
<1>11. Selected(archive) = SelectBatchMembers(members) /\ Selected(other) = SelectBatchMembers(changed)
  BY DEF Selected, members, changed
<1>12. 1 \in 1..m
  BY <1>7
<1>13. Selected(archive) # <<>> /\ Selected(other) # <<>>
  BY <1>7, <1>9, <1>11, <1>12
<1>14. members # <<>> /\ changed # <<>>
  BY <1>1, <1>3
<1> QED BY <1>7, <1>9, <1>10, <1>11, <1>13, <1>14 DEF members, changed

LEMMA ForecastInOtherUnits ==
  ASSUME NEW archive, ArchiveOK(archive), KelvinAndPascals(archive),
         NEW latitude \in Int, -QuarterCircle <= latitude, latitude <= QuarterCircle,
         NEW longitude \in Int,
         ForecastFromTar(archive, latitude, longitude).status = "served"
  PROVE  ForecastFromTar(OtherUnits(archive), latitude, longitude) =
           ForecastFromTar(archive, latitude, longitude)
<1> DEFINE m == Cardinality(LeadsUsed(Members(archive)))
           selected == Selected(archive)
           changed == Selected(OtherUnits(archive))
           Point(i) == GridIndices(selected[i].array, latitude, longitude)
<1>1. /\ Cardinality(Places(archive)) # 0 /\ archive.ends # "compressed"
      /\ DOMAIN selected = 1..m
      /\ \A i \in 1..m : Readable(selected[i].array, Point(i))
  <2>1. Cardinality(Places(archive)) # 0
    BY ServedForecast
  <2>2. archive.ends # "compressed" /\ ~Unlisted(archive)
    BY NotCutOff
  <2>3. DOMAIN selected = 1..m
    BY ServedForecast
  <2>4. \A i \in 1..m : Readable(selected[i].array, Point(i))
    BY ServedForecast
  <2> QED BY <2>1, <2>2, <2>3, <2>4
<1>2. PICK other : other = OtherUnits(archive)
  OBVIOUS
<1>3. /\ Members(archive) # <<>> /\ Members(other) # <<>> /\ selected # <<>> /\ changed # <<>>
      /\ DOMAIN changed = 1..m
      /\ \A i \in 1..m : changed[i] = InOtherUnits(selected[i])
  BY <1>1, <1>2, SelectedInOtherUnits
<1>4. \A i \in 1..m :
        /\ \E p \in Places(archive) :
             p \in DOMAIN archive.entries /\ selected[i] = archive.entries[p]
        /\ selected[i] \in EntryType /\ Array(selected[i]) /\ selected[i].array \in ArrayType
  BY <1>1, SelectedFromArchive
<1>5. other.ends = archive.ends
  BY <1>2, ListedInOtherUnits
<1>6. Warnings(other) = Warnings(archive)
  BY <1>2, MembersInOtherUnits
<1> HIDE DEF m, selected, changed
<1>7. ASSUME NEW i \in 1..m
      PROVE  /\ changed[i].lead = selected[i].lead
             /\ GridIndices(changed[i].array, latitude, longitude) = Point(i)
             /\ Readable(changed[i].array, Point(i))
             /\ \A lead, warnings :
                  BuildTimelineStep(lead, ReadGridValues(changed[i].array, Point(i)), warnings) =
                  BuildTimelineStep(lead, ReadGridValues(selected[i].array, Point(i)), warnings)
  <2> DEFINE array == selected[i].array
             west == [row |-> Point(i).row, column |-> 0]
  <2>1. array \in ArrayType /\ Readable(array, Point(i))
    BY <1>1, <1>4
  <2>2. /\ changed[i].lead = selected[i].lead /\ changed[i].array \in ArrayType
        /\ SameButUnits(array, changed[i].array)
    BY <1>3, <1>4, UnitsOnly
  <2>3. Point(i).row \in 0..(array.rows - 1) /\ Point(i).column \in Nat
    BY <2>1, SampledAt
  <2>4. array.rows \in Nat /\ array.slope \in Int /\ array.cells.msl \in Int
    BY <2>1 DEF ArrayType
  <2>5. PICK p \in DOMAIN archive.entries : selected[i] = archive.entries[p]
    BY <1>4
  <2>6. Array(archive.entries[p])
    BY <1>4, <2>5
  <2>7. /\ \A row \in 0..(array.rows - 1) :
             /\ 170000 < ReadGridValues(array, [row |-> row, column |-> 0]).t2m
             /\ ReadGridValues(array, [row |-> row, column |-> 0]).t2m <= 443150
        /\ 2000000 < array.cells.msl /\ array.cells.msl <= 200000000
        /\ array.cells.msl % 100 = 0
    BY <2>5, <2>6, SMT DEF KelvinAndPascals
  <2> HIDE DEF array, Point
  <2>8. Point(i).row \in Int /\ Point(i).column \in Int
    BY <2>3, <2>4
  <2>9. ReadGridValues(array, west).t2m = array.cells.t2m + array.slope * 100 * Point(i).row
    <3>1. west.row = Point(i).row /\ west.row \in Int /\ west.column \in Int
      BY <2>8
    <3> HIDE DEF west
    <3>2. ReadGridValues(array, west).t2m = array.cells.t2m + array.slope * 100 * west.row
      BY <2>1, <3>1, ValuesAreInt
    <3> QED BY <3>1, <3>2
  <2>10. ReadGridValues(array, Point(i)).t2m = array.cells.t2m + array.slope * 100 * Point(i).row
    BY <2>1, <2>8, ValuesAreInt
  <2>11. /\ 170000 < ReadGridValues(array, Point(i)).t2m
         /\ ReadGridValues(array, Point(i)).t2m <= 443150
    BY <2>3, <2>7, <2>9, <2>10, SMT
  <2> DEFINE other_array == changed[i].array
  <2> HIDE DEF other_array
  <2>12. ASSUME NEW lead, NEW warnings
         PROVE  /\ GridIndices(other_array, latitude, longitude) =
                     GridIndices(array, latitude, longitude)
                /\ \A q : Readable(other_array, q) = Readable(array, q)
                /\ BuildTimelineStep(lead, ReadGridValues(other_array, Point(i)), warnings) =
                   BuildTimelineStep(lead, ReadGridValues(array, Point(i)), warnings)
    <3>1. other_array \in ArrayType /\ SameButUnits(array, other_array)
      BY <2>2 DEF other_array
    <3> QED BY <2>1, <2>7, <2>8, <2>11, <3>1, SampledInOtherUnits, SMT
  <2> QED BY <2>1, <2>2, <2>12, Zenon DEF array, other_array, Point
<1>8. Timeline(other, latitude, longitude) = Timeline(archive, latitude, longitude)
  <2>1. Timeline(archive, latitude, longitude) =
          [i \in 1..m |-> BuildTimelineStep(selected[i].lead,
                                            ReadGridValues(selected[i].array, Point(i)),
                                            Warnings(archive))]
    BY <1>1 DEF Timeline, selected
  <2>2. Timeline(other, latitude, longitude) =
          [i \in 1..m |-> BuildTimelineStep(changed[i].lead,
                            ReadGridValues(changed[i].array,
                                           GridIndices(changed[i].array, latitude, longitude)),
                            Warnings(archive))]
    BY <1>2, <1>3, <1>6 DEF Timeline, changed
  <2>3. \A i \in 1..m :
          BuildTimelineStep(changed[i].lead,
                            ReadGridValues(changed[i].array,
                                           GridIndices(changed[i].array, latitude, longitude)),
                            Warnings(archive)) =
          BuildTimelineStep(selected[i].lead, ReadGridValues(selected[i].array, Point(i)),
                            Warnings(archive))
    BY <1>7
  <2> HIDE DEF Point
  <2> QED BY <2>1, <2>2, <2>3
<1>9. ForecastFromTar(archive, latitude, longitude) = Summary(Timeline(archive, latitude, longitude))
  BY <1>1, <1>3, SummaryOfTimeline DEF selected
<1>10. ForecastFromTar(other, latitude, longitude) = Summary(Timeline(other, latitude, longitude))
  <2>1. \A i \in DOMAIN Selected(other) :
          Readable(Selected(other)[i].array,
                   GridIndices(Selected(other)[i].array, latitude, longitude))
    BY <1>2, <1>3, <1>7 DEF changed
  <2>2. other.ends # "compressed" /\ Selected(other) # <<>>
    BY <1>1, <1>2, <1>3, <1>5 DEF changed
  <2> QED BY <1>3, <2>1, <2>2, SummaryOfTimeline
<1> QED BY <1>2, <1>8, <1>9, <1>10

\* The same weather in degrees Celsius and hectopascals gives the same forecast, whatever the
\* archive holds besides: no value in Kelvin or Pascals is taken for one in the other unit,
\* nor the other way round (_to_celsius, _to_hpa).
THEOREM SameInOtherUnitsHolds == Spec => []SameInOtherUnits
<1>1. Reached => SameInOtherUnits
  <2> SUFFICES ASSUME Reached, FromArchive, KelvinAndPascals(asked.archive)
               PROVE  answer = ForecastFromTar(OtherUnits(asked.archive),
                                               asked.latitude, asked.longitude)
    BY DEF SameInOtherUnits
  <2>1. /\ asked.latitude \in Int /\ -QuarterCircle <= asked.latitude
        /\ asked.latitude <= QuarterCircle /\ asked.longitude \in Int
        /\ ArchiveOK(asked.archive)
    BY WhereAsked
  <2>2. /\ answer = ForecastFromTar(asked.archive, asked.latitude, asked.longitude)
        /\ ForecastFromTar(asked.archive, asked.latitude, asked.longitude).status = "served"
    BY FromArchiveServed
  <2> QED BY <2>1, <2>2, ForecastInOtherUnits
<1> QED BY <1>1, AnswersReached, PTL

----------------------------------------------------------------------------
(* The batch and the entries of a timeline *)

LEMMA MinIs ==
  ASSUME NEW S \in SUBSET Int, NEW x \in S, \A y \in S : x <= y
  PROVE  Min(S) = x
<1>1. \A y \in S : (\A z \in S : y <= z) => y = x
  OBVIOUS
<1> QED BY <1>1 DEF Min

\* A member that is loaded before another has a smaller lead time, or the same and a smaller
\* batch, or the same name and an earlier place.
LEMMA LoadedByName ==
  ASSUME NEW archive, ArchiveOK(archive)
  PROVE  LET n == Cardinality(Places(archive))
             entries == Listed(archive)
             order == Order(archive)
         IN /\ \A i \in Places(archive) : entries[i].lead \in Int /\ entries[i].batch \in Int
            /\ \A k, l \in 1..n : k < l =>
                 \/ entries[order[k]].lead < entries[order[l]].lead
                 \/ /\ entries[order[k]].lead = entries[order[l]].lead
                    /\ entries[order[k]].batch < entries[order[l]].batch
                 \/ /\ entries[order[k]].lead = entries[order[l]].lead
                    /\ entries[order[k]].batch = entries[order[l]].batch
                    /\ order[k] < order[l]
<1> DEFINE n == Cardinality(Places(archive))
           entries == Listed(archive)
           places == Places(archive)
           order == Order(archive)
<1>1. /\ places \in SUBSET Int /\ order \in [1..n -> places]
      /\ \A k, l \in 1..n : k < l => <<order[k], order[l]>> \in ByName(entries, places)
  BY PlacesInOrder
<1>2. ASSUME NEW i \in places PROVE entries[i].lead \in Int /\ entries[i].batch \in Int
  <2>1. entries[i] \in EntryType /\ Array(entries[i])
    BY ListedAreFirst DEF Places
  <2> QED BY <2>1, ArrayEntry
<1> HIDE DEF n, entries, places, order
<1>3. \A i, j \in places : <<i, j>> \in ByName(entries, places) <=>
        \/ entries[i].lead < entries[j].lead
        \/ entries[i].lead = entries[j].lead /\ entries[i].batch < entries[j].batch
        \/ entries[i].lead = entries[j].lead /\ entries[i].batch = entries[j].batch /\ i < j
  BY <1>1, <1>2, ByNameTellsApart
<1>4. ASSUME NEW k \in 1..n, NEW l \in 1..n, k < l
      PROVE  \/ entries[order[k]].lead < entries[order[l]].lead
             \/ /\ entries[order[k]].lead = entries[order[l]].lead
                /\ entries[order[k]].batch < entries[order[l]].batch
             \/ /\ entries[order[k]].lead = entries[order[l]].lead
                /\ entries[order[k]].batch = entries[order[l]].batch
                /\ order[k] < order[l]
  <2>1. order[k] \in places /\ order[l] \in places
    BY <1>1
  <2>2. <<order[k], order[l]>> \in ByName(entries, places)
    BY <1>1, <1>4
  <2> QED BY <1>3, <2>1, <2>2
<1> QED BY <1>2, <1>4 DEF n, entries, places, order

\* The first loaded member is of the lowest batch of the earliest lead time.
LEMMA BatchChosen ==
  ASSUME NEW archive, ArchiveOK(archive), Cardinality(Places(archive)) # 0
  PROVE  LET entries == Listed(archive)
             places == Places(archive)
             earliest == Min({entries[i].lead : i \in places})
         IN BatchUsed(Members(archive)) =
              IF \E i \in places : entries[i].batch = 0 THEN 0
              ELSE Min({entries[i].batch : i \in {j \in places : entries[j].lead = earliest}})
<1> DEFINE n == Cardinality(Places(archive))
           entries == Listed(archive)
           places == Places(archive)
           order == Order(archive)
           members == Members(archive)
           earliest == Min({entries[i].lead : i \in places})
           first == order[1]
<1>1. /\ n \in Nat \ {0} /\ DOMAIN members = 1..n
      /\ \A k \in 1..n : order[k] \in places /\ members[k] = entries[order[k]]
  BY MembersInOrder
<1>2. \A i \in places : \E k \in 1..n : order[k] = i
  BY PlacesInOrder
<1>3. /\ \A i \in places : entries[i].lead \in Int /\ entries[i].batch \in Int
      /\ \A k, l \in 1..n : k < l =>
           \/ entries[order[k]].lead < entries[order[l]].lead
           \/ /\ entries[order[k]].lead = entries[order[l]].lead
              /\ entries[order[k]].batch < entries[order[l]].batch
           \/ /\ entries[order[k]].lead = entries[order[l]].lead
              /\ entries[order[k]].batch = entries[order[l]].batch
              /\ order[k] < order[l]
  BY LoadedByName
<1> HIDE DEF n, entries, places, order, members
<1>4. first \in places /\ 1 \in 1..n
  BY <1>1
<1>5. ASSUME NEW i \in places
      PROVE  /\ entries[first].lead <= entries[i].lead
             /\ entries[first].lead = entries[i].lead => entries[first].batch <= entries[i].batch
  <2>1. PICK k \in 1..n : order[k] = i
    BY <1>2
  <2>2. k = 1 \/ 1 < k
    BY <1>1
  <2>3. /\ entries[first].lead \in Int /\ entries[first].batch \in Int
        /\ entries[i].lead \in Int /\ entries[i].batch \in Int
    BY <1>3, <1>4
  <2> QED BY <1>3, <1>4, <2>1, <2>2, <2>3
<1>6. earliest = entries[first].lead
  <2> DEFINE leads == {entries[i].lead : i \in places}
  <2>1. leads \in SUBSET Int /\ entries[first].lead \in leads
    BY <1>3, <1>4
  <2>2. \A y \in leads : entries[first].lead <= y
    BY <1>5
  <2> HIDE DEF leads
  <2>3. Min(leads) = entries[first].lead
    BY <2>1, <2>2, MinIs
  <2> QED BY <2>3 DEF leads
<1>7. Min({entries[i].batch : i \in {j \in places : entries[j].lead = earliest}})
        = entries[first].batch
  <2> HIDE DEF earliest
  <2> DEFINE batches == {entries[i].batch : i \in {j \in places : entries[j].lead = earliest}}
  <2>1. batches \in SUBSET Int /\ entries[first].batch \in batches
    BY <1>3, <1>4, <1>6
  <2>2. \A y \in batches : entries[first].batch <= y
    BY <1>5, <1>6
  <2> HIDE DEF batches
  <2>3. Min(batches) = entries[first].batch
    BY <2>1, <2>2, MinIs
  <2> QED BY <2>3 DEF batches
<1>8. (\E i \in DOMAIN members : members[i].batch = 0) <=> (\E i \in places : entries[i].batch = 0)
  BY <1>1, <1>2
<1>9. members[1].batch = entries[first].batch
  BY <1>1, <1>4
<1> HIDE DEF earliest
<1>10. BatchUsed(members) =
         IF \E i \in places : entries[i].batch = 0 THEN 0
         ELSE Min({entries[i].batch : i \in {j \in places : entries[j].lead = earliest}})
  BY <1>7, <1>8, <1>9 DEF BatchUsed
<1> QED BY <1>10 DEF members, places, entries, earliest

\* The selected members are, of every lead time of the batch, the first entry of the archive.
LEMMA SelectedAreFirst ==
  ASSUME NEW archive, ArchiveOK(archive), Cardinality(Places(archive)) # 0
  PROVE  LET entries == Listed(archive)
             places == Places(archive)
             batch == BatchUsed(Members(archive))
             selected == Selected(archive)
             Has(lead) == {i \in places : entries[i].batch = batch /\ entries[i].lead = lead}
         IN /\ {selected[i].lead : i \in DOMAIN selected} =
                 {entries[i].lead : i \in {j \in places : entries[j].batch = batch}}
            /\ \A i \in DOMAIN selected : selected[i] = entries[Min(Has(selected[i].lead))]
<1> DEFINE n == Cardinality(Places(archive))
           entries == Listed(archive)
           places == Places(archive)
           order == Order(archive)
           members == Members(archive)
           batch == BatchUsed(members)
           m == Cardinality(LeadsUsed(members))
           selected == Selected(archive)
           Has(lead) == {i \in places : entries[i].batch = batch /\ entries[i].lead = lead}
<1>1. /\ n \in Nat \ {0} /\ DOMAIN members = 1..n
      /\ \A k \in 1..n : /\ order[k] \in places /\ members[k] = entries[order[k]]
                         /\ members[k].lead \in Nat
  BY MembersInOrder
<1>2. places \in SUBSET Int /\ \A i \in places : \E k \in 1..n : order[k] = i
  BY PlacesInOrder
<1>3. /\ \A i \in places : entries[i].lead \in Int /\ entries[i].batch \in Int
      /\ \A k, l \in 1..n : k < l =>
           \/ entries[order[k]].lead < entries[order[l]].lead
           \/ /\ entries[order[k]].lead = entries[order[l]].lead
              /\ entries[order[k]].batch < entries[order[l]].batch
           \/ /\ entries[order[k]].lead = entries[order[l]].lead
              /\ entries[order[k]].batch = entries[order[l]].batch
              /\ order[k] < order[l]
  BY LoadedByName
<1> HIDE DEF n, entries, places, order, members
<1>4. /\ m \in Nat \ {0} /\ DOMAIN SelectBatchMembers(members) = 1..m
      /\ \A k \in 1..m : \E i \in OfBatch(members) :
           /\ SelectBatchMembers(members)[k] = members[i]
           /\ \A j \in OfBatch(members) : members[j].lead = members[i].lead => i <= j
      /\ \A lead \in LeadsUsed(members) : \E k \in 1..m : SelectBatchMembers(members)[k].lead = lead
  <2>1. \A k \in 1..n : members[k].lead \in Int
    BY <1>1
  <2>2. n \in Nat \ {0} /\ DOMAIN members = 1..n
    BY <1>1
  <2>3. m \in Nat \ {0} /\ DOMAIN SelectBatchMembers(members) = 1..m
    BY <2>1, <2>2, OnePerLead
  <2>4. \A k \in 1..m : \E i \in OfBatch(members) :
          /\ SelectBatchMembers(members)[k] = members[i]
          /\ \A j \in OfBatch(members) : members[j].lead = members[i].lead => i <= j
    BY <2>1, <2>2, OnePerLead
  <2>5. \A lead \in LeadsUsed(members) : \E k \in 1..m : SelectBatchMembers(members)[k].lead = lead
    BY <2>1, <2>2, OnePerLead
  <2> QED BY <2>3, <2>4, <2>5
<1>5. selected = SelectBatchMembers(members)
  BY DEF Selected, members
<1> HIDE DEF selected, m, batch
<1>6. \A k \in 1..n : k \in OfBatch(members) <=> entries[order[k]].batch = batch
  BY <1>1 DEF OfBatch, batch
<1>7. OfBatch(members) \in SUBSET (1..n)
  BY <1>1 DEF OfBatch
<1>8. ASSUME NEW i \in 1..m
      PROVE  /\ selected[i] = entries[Min(Has(selected[i].lead))]
             /\ \E p \in places : entries[p].batch = batch /\ entries[p].lead = selected[i].lead
  <2>1. PICK k \in OfBatch(members) :
          /\ selected[i] = members[k]
          /\ \A j \in OfBatch(members) : members[j].lead = members[k].lead => k <= j
    BY <1>4, <1>5
  <2>2. /\ k \in 1..n /\ order[k] \in places /\ selected[i] = entries[order[k]]
        /\ entries[order[k]].batch = batch
    BY <1>1, <1>6, <1>7, <2>1
  <2>3. order[k] \in Has(selected[i].lead) /\ Has(selected[i].lead) \in SUBSET Int
    BY <1>2, <2>2
  <2>4. ASSUME NEW p \in Has(selected[i].lead) PROVE order[k] <= p
    <3>1. p \in places /\ entries[p].batch = batch /\ entries[p].lead = entries[order[k]].lead
      BY <2>2
    <3>2. PICK j \in 1..n : order[j] = p
      BY <1>2, <3>1
    <3>3. j \in OfBatch(members)
      BY <1>6, <3>1, <3>2
    <3>4. members[j].lead = members[k].lead
      BY <1>1, <2>2, <3>1, <3>2
    <3>5. k <= j
      BY <2>1, <3>3, <3>4
    <3>6. k = j \/ k < j
      BY <2>2, <3>5
    <3>7. /\ entries[p].lead \in Int /\ entries[p].batch \in Int
          /\ p \in Int /\ order[k] \in Int
      BY <1>2, <1>3, <2>2, <3>1
    <3>8. k < j => order[k] < p
      BY <1>3, <2>2, <3>1, <3>2, <3>7
    <3> QED BY <3>2, <3>6, <3>7, <3>8
  <2> HIDE DEF Has
  <2>5. Min(Has(selected[i].lead)) = order[k]
    BY <2>3, <2>4, MinIs
  <2> QED BY <2>2, <2>5
<1>9. ASSUME NEW p \in places, entries[p].batch = batch
      PROVE  \E i \in 1..m : selected[i].lead = entries[p].lead
  <2>1. PICK k \in 1..n : order[k] = p
    BY <1>2
  <2>2. k \in OfBatch(members) /\ members[k].lead = entries[p].lead
    BY <1>1, <1>6, <1>9, <2>1
  <2>3. entries[p].lead \in LeadsUsed(members)
    BY <2>2 DEF LeadsUsed
  <2> QED BY <1>4, <1>5, <2>3
<1>10. DOMAIN selected = 1..m
  BY <1>4, <1>5
<1>11. {selected[i].lead : i \in DOMAIN selected} =
         {entries[i].lead : i \in {j \in places : entries[j].batch = batch}}
  <2> DEFINE A == {selected[i].lead : i \in DOMAIN selected}
             B == {entries[i].lead : i \in {j \in places : entries[j].batch = batch}}
  <2>1. ASSUME NEW x \in A PROVE x \in B
    <3>1. PICK i \in 1..m : x = selected[i].lead
      BY <1>10
    <3>2. PICK p \in places : entries[p].batch = batch /\ entries[p].lead = x
      BY <1>8, <3>1
    <3> QED BY <3>2
  <2>2. \A x \in B : x \in A
    BY <1>9, <1>10
  <2> HIDE DEF A, B
  <2>3. A = B
    BY <2>1, <2>2
  <2> QED BY <2>3 DEF A, B
<1> QED BY <1>8, <1>10, <1>11 DEF entries, places, members, batch, selected

----------------------------------------------------------------------------
(* An archive without what was lost *)

\* The arrays that were loaded, alone
Intact(archive) ==
  [archive EXCEPT !.entries = [k \in DOMAIN Ascending(Places(archive)) |->
                                 Listed(archive)[Ascending(Places(archive))[k]]],
                  !.upTo = Len(Ascending(Places(archive)))]

LEMMA IntactListed ==
  ASSUME NEW archive, ArchiveOK(archive), ~Unlisted(archive), Cardinality(Places(archive)) # 0
  PROVE  LET n == Cardinality(Places(archive))
             kept == Ascending(Places(archive))
             entries == Listed(archive)
             intact == Intact(archive)
         IN /\ n \in Nat \ {0} /\ kept \in [1..n -> Places(archive)]
            /\ \A i \in Places(archive) : \E k \in 1..n : kept[k] = i
            /\ \A k, l \in 1..n : k < l => kept[k] < kept[l]
            /\ ArchiveOK(intact) /\ intact.ends = archive.ends /\ ~Unlisted(intact)
            /\ DOMAIN Listed(intact) = 1..n
            /\ \A k \in 1..n : /\ Listed(intact)[k] = entries[kept[k]]
                               /\ Listed(intact)[k] \in EntryType /\ Array(Listed(intact)[k])
<1> DEFINE n == Cardinality(Places(archive))
           kept == Ascending(Places(archive))
           entries == Listed(archive)
           arrays == [k \in DOMAIN kept |-> entries[kept[k]]]
           intact == Intact(archive)
<1>1. /\ archive \in [entries : Seq(EntryType), upTo : Nat,
                      ends : {"whole", "between", "inside", "compressed"}]
  BY DEF ArchiveOK, ArchiveType
<1>2. n \in Nat \ {0} /\ IsFiniteSet(Places(archive)) /\ Places(archive) \in SUBSET Int
  BY PlacesInOrder
<1>3. /\ DOMAIN kept = 1..n /\ kept \in [1..n -> Places(archive)]
      /\ \A i \in Places(archive) : \E k \in 1..n : kept[k] = i
      /\ \A k, l \in 1..n : k < l => kept[k] < kept[l]
  BY <1>2, AscendingSorts
<1>4. \A i \in Places(archive) : entries[i] \in EntryType /\ Array(entries[i])
  BY ListedAreFirst DEF Places
<1>5. intact = [archive EXCEPT !.entries = arrays, !.upTo = Len(kept)]
  BY DEF Intact
<1> HIDE DEF n, kept, entries
<1>6. Len(kept) = n
  BY <1>2, <1>3
<1>7. arrays \in [1..n -> EntryType] /\ \A k \in 1..n : arrays[k] = entries[kept[k]] /\ Array(arrays[k])
  BY <1>3, <1>4
<1> HIDE DEF arrays, intact
<1>8. arrays \in Seq(EntryType) /\ Len(arrays) = n /\ DOMAIN arrays = 1..n
  BY <1>2, <1>7
<1>9. /\ intact.entries = arrays /\ intact.upTo = n /\ intact.ends = archive.ends
      /\ intact \in [entries : Seq(EntryType), upTo : Nat,
                     ends : {"whole", "between", "inside", "compressed"}]
  BY <1>1, <1>2, <1>5, <1>6, <1>8
<1>10. ArchiveOK(intact)
  BY <1>2, <1>8, <1>9 DEF ArchiveOK, ArchiveType
<1>11. ~Unlisted(intact)
  BY <1>2, <1>9 DEF Unlisted
<1>12. DOMAIN Listed(intact) = 1..n /\ \A k \in 1..n : Listed(intact)[k] = arrays[k]
  <2>1. CASE intact.ends = "between"
    <3>1. Listed(intact) = SubSeq(arrays, 1, n)
      BY <1>9, <2>1 DEF Listed
    <3> QED BY <1>2, <1>8, <3>1
  <2>2. CASE intact.ends # "between"
    BY <1>8, <1>9, <2>2 DEF Listed
  <2> QED BY <2>1, <2>2
<1>13. \A k \in 1..n : /\ Listed(intact)[k] = entries[kept[k]]
                       /\ Listed(intact)[k] \in EntryType /\ Array(Listed(intact)[k])
  BY <1>7, <1>12
<1> QED BY <1>2, <1>3, <1>9, <1>10, <1>11, <1>12, <1>13 DEF n, kept, entries, intact

\* It loads the same members, without a warning.
LEMMA IntactMembers ==
  ASSUME NEW archive, ArchiveOK(archive), ~Unlisted(archive), Cardinality(Places(archive)) # 0
  PROVE  Members(Intact(archive)) = Members(archive) /\ Warnings(Intact(archive)) = 0
<1> DEFINE n == Cardinality(Places(archive))
           kept == Ascending(Places(archive))
           entries == Listed(archive)
           intact == Intact(archive)
           arrays == Listed(intact)
           places == Places(archive)
           order == Order(intact)
           list == [k \in 1..n |-> kept[order[k]]]
<1>1. /\ n \in Nat \ {0} /\ kept \in [1..n -> places]
      /\ \A i \in places : \E k \in 1..n : kept[k] = i
      /\ \A k, l \in 1..n : k < l => kept[k] < kept[l]
      /\ ArchiveOK(intact) /\ ~Unlisted(intact) /\ DOMAIN arrays = 1..n
      /\ \A k \in 1..n : /\ arrays[k] = entries[kept[k]]
                         /\ arrays[k] \in EntryType /\ Array(arrays[k])
  BY IntactListed
<1>2. Places(intact) = 1..n
  BY <1>1 DEF Places
<1>3. IsFiniteSet(1..n) /\ Cardinality(1..n) = n
  BY <1>1, FS_Interval
<1>4. /\ Cardinality(Places(intact)) = n
      /\ DOMAIN order = 1..n /\ order \in [1..n -> 1..n]
      /\ \A i \in 1..n : \E k \in 1..n : order[k] = i
  <2>1. Cardinality(Places(intact)) = n
    BY <1>2, <1>3
  <2>2. /\ DOMAIN order = 1..Cardinality(Places(intact))
        /\ order \in [1..Cardinality(Places(intact)) -> Places(intact)]
        /\ \A i \in Places(intact) : \E k \in 1..Cardinality(Places(intact)) : order[k] = i
    BY <1>1, PlacesInOrder
  <2> HIDE DEF order, n
  <2> QED BY <1>2, <2>1, <2>2
<1>5. \A k, l \in 1..n : k < l =>
        \/ arrays[order[k]].lead < arrays[order[l]].lead
        \/ /\ arrays[order[k]].lead = arrays[order[l]].lead
           /\ arrays[order[k]].batch < arrays[order[l]].batch
        \/ /\ arrays[order[k]].lead = arrays[order[l]].lead
           /\ arrays[order[k]].batch = arrays[order[l]].batch
           /\ order[k] < order[l]
  <2>1. \A k, l \in 1..Cardinality(Places(intact)) : k < l =>
          \/ arrays[order[k]].lead < arrays[order[l]].lead
          \/ /\ arrays[order[k]].lead = arrays[order[l]].lead
             /\ arrays[order[k]].batch < arrays[order[l]].batch
          \/ /\ arrays[order[k]].lead = arrays[order[l]].lead
             /\ arrays[order[k]].batch = arrays[order[l]].batch
             /\ order[k] < order[l]
    BY <1>1, LoadedByName
  <2> HIDE DEF order, n, arrays
  <2> QED BY <1>4, <2>1
<1>6. /\ places \in SUBSET Int /\ IsFiniteSet(places)
      /\ StrictOrder(places, ByName(entries, places))
      /\ \A i \in places : entries[i].lead \in Int /\ entries[i].batch \in Int
  BY PlacesInOrder, LoadedByName
<1>7. Members(intact) = [k \in DOMAIN order |-> arrays[order[k]]]
  BY LoadedMembers DEF Members
<1>8. Members(archive) = [k \in DOMAIN Order(archive) |-> entries[Order(archive)[k]]]
  BY LoadedMembers DEF Members
<1>9. Order(archive) = InOrder(places, ByName(entries, places))
  BY DEF Order
<1>10. Lost(intact) = {}
  BY <1>1 DEF Lost, Array
<1>11. Warnings(intact) = 0
  <2>1. Warnings(intact) = Cardinality(Lost(intact))
    BY <1>1, WarningsCounted
  <2> QED BY <1>10, <2>1, FS_EmptySet
<1> HIDE DEF n, kept, entries, intact, arrays, places, order
<1>12. \A i, j \in places : <<i, j>> \in ByName(entries, places) <=>
         \/ entries[i].lead < entries[j].lead
         \/ entries[i].lead = entries[j].lead /\ entries[i].batch < entries[j].batch
         \/ entries[i].lead = entries[j].lead /\ entries[i].batch = entries[j].batch /\ i < j
  BY <1>6, ByNameTellsApart
<1>13. list \in [1..n -> places] /\ \A k \in 1..n : list[k] = kept[order[k]]
  BY <1>1, <1>4
<1>14. ASSUME NEW x \in places PROVE \E k \in 1..n : list[k] = x
  <2>1. PICK i \in 1..n : kept[i] = x
    BY <1>1
  <2>2. PICK k \in 1..n : order[k] = i
    BY <1>4
  <2> QED BY <1>13, <2>1, <2>2
<1>15. ASSUME NEW k \in 1..n, NEW l \in 1..n, k < l
       PROVE  <<list[k], list[l]>> \in ByName(entries, places)
  <2>1. /\ order[k] \in 1..n /\ order[l] \in 1..n
        /\ list[k] \in places /\ list[l] \in places
        /\ list[k] = kept[order[k]] /\ list[l] = kept[order[l]]
    BY <1>4, <1>13
  <2>2. arrays[order[k]] = entries[list[k]] /\ arrays[order[l]] = entries[list[l]]
    BY <1>1, <2>1
  <2>3. order[k] < order[l] => list[k] < list[l]
    BY <1>1, <2>1
  <2>4. \/ entries[list[k]].lead < entries[list[l]].lead
        \/ /\ entries[list[k]].lead = entries[list[l]].lead
           /\ entries[list[k]].batch < entries[list[l]].batch
        \/ /\ entries[list[k]].lead = entries[list[l]].lead
           /\ entries[list[k]].batch = entries[list[l]].batch
           /\ list[k] < list[l]
    BY <1>5, <1>15, <2>2, <2>3
  <2> QED BY <1>12, <2>1, <2>4
<1> HIDE DEF list
<1>16. n \in Nat
  BY <1>1
<1>17. Order(archive) = list
  BY <1>6, <1>9, <1>13, <1>14, <1>15, <1>16, InOrderUnique
<1>18. Members(intact) = Members(archive)
  <2>1. DOMAIN list = 1..n
    BY <1>13
  <2>2. \A k \in 1..n : arrays[order[k]] = entries[list[k]]
    <3>1. \A k \in 1..n : order[k] \in 1..n
      BY <1>4
    <3>2. \A i \in 1..n : arrays[i] = entries[kept[i]]
      BY <1>1
    <3>3. \A k \in 1..n : list[k] = kept[order[k]]
      BY <1>13
    <3> QED BY <3>1, <3>2, <3>3, Zenon
  <2>3. Members(archive) = [k \in DOMAIN list |-> entries[list[k]]]
    BY <1>8, <1>17
  <2>4. Members(archive) = [k \in 1..n |-> entries[list[k]]]
    BY <2>1, <2>3
  <2>5. Members(intact) = [k \in 1..n |-> arrays[order[k]]]
    BY <1>4, <1>7
  <2>6. [k \in 1..n |-> arrays[order[k]]] = [k \in 1..n |-> entries[list[k]]]
    BY <2>2
  <2> QED BY <2>4, <2>5, <2>6, Zenon
<1> QED BY <1>11, <1>18 DEF intact

LEMMA LoadableArePlaces ==
  ASSUME ~Unlisted(asked.archive)
  PROVE  Loadable = Places(asked.archive)
BY DEF Loadable, Places

\* A timeline is made from the first entries of one batch.
LEMMA ServedFromOneBatch ==
  ASSUME Reached, FromArchive
  PROVE  OneBatch
<1> DEFINE archive == asked.archive
           entries == Listed(archive)
           batch == BatchOf(entries)
           Has(lead) == {i \in Loadable : entries[i].batch = batch /\ entries[i].lead = lead}
           leads == {entries[i].lead : i \in {j \in Loadable : entries[j].batch = batch}}
           selected == Selected(archive)
           m == Cardinality(LeadsUsed(Members(archive)))
           Point(array) == GridIndices(array, asked.latitude, asked.longitude)
           Made(lead, array) == BuildTimelineStep(lead, ReadGridValues(array, Point(array)),
                                                  Warnings(archive))
           timeline == answer.timeline
<1>1. ArchiveOK(archive)
  BY WhereAsked
<1>2. /\ answer = ForecastFromTar(archive, asked.latitude, asked.longitude)
      /\ ForecastFromTar(archive, asked.latitude, asked.longitude).status = "served"
  BY FromArchiveServed
<1>3. /\ Cardinality(Places(archive)) # 0
      /\ ~Unlisted(archive)
      /\ answer.timeline = [i \in 1..m |-> Made(selected[i].lead, selected[i].array)]
  BY <1>1, <1>2, ServedForecast
<1>4. Loadable = Places(archive)
  BY <1>3, LoadableArePlaces
<1>5. BatchUsed(Members(archive)) = batch
  <2>1. BatchUsed(Members(archive)) =
          IF \E i \in Places(archive) : entries[i].batch = 0 THEN 0
          ELSE Min({entries[i].batch : i \in
                      {j \in Places(archive) :
                         entries[j].lead = Min({entries[k].lead : k \in Places(archive)})}})
    BY <1>1, <1>3, BatchChosen
  <2> QED BY <1>4, <2>1, Zenon DEF BatchOf
<1>6. /\ DOMAIN selected = 1..m
      /\ \A i, j \in 1..m : i < j => selected[i].lead < selected[j].lead
      /\ m \in Nat
  BY <1>1, <1>3, SelectedFromArchive
<1>7. {selected[i].lead : i \in DOMAIN selected} =
        {entries[i].lead : i \in {j \in Places(archive) :
                                    entries[j].batch = BatchUsed(Members(archive))}}
  BY <1>1, <1>3, SelectedAreFirst
<1>8. \A i \in DOMAIN selected :
        selected[i] = entries[Min({p \in Places(archive) :
                                     /\ entries[p].batch = BatchUsed(Members(archive))
                                     /\ entries[p].lead = selected[i].lead})]
  BY <1>1, <1>3, SelectedAreFirst
<1>9. {selected[i].lead : i \in 1..m} = leads
  BY <1>4, <1>5, <1>6, <1>7, Zenon
<1>10. \A i \in 1..m : selected[i] = entries[Min(Has(selected[i].lead))]
  BY <1>4, <1>5, <1>6, <1>8, Zenon
<1> HIDE DEF batch, Has, leads, selected, m, Point
<1>11. DOMAIN timeline = 1..m
  BY <1>3
<1>12. ASSUME NEW i \in 1..m
       PROVE  /\ timeline[i].lead = selected[i].lead
              /\ timeline[i] = Made(selected[i].lead, selected[i].array)
  <2>1. timeline[i] = Made(selected[i].lead, selected[i].array)
    BY <1>3
  <2>2. Made(selected[i].lead, selected[i].array).lead = selected[i].lead
    BY StepLead
  <2> QED BY <2>1, <2>2
<1> HIDE DEF Made, timeline
<1>13. {timeline[i].lead : i \in DOMAIN timeline} = leads
  <2>1. {timeline[i].lead : i \in 1..m} = {selected[i].lead : i \in 1..m}
    BY <1>12
  <2> QED BY <1>9, <1>11, <2>1
<1>14. \A i \in DOMAIN timeline : i > 1 => timeline[i - 1].lead < timeline[i].lead
  <2> SUFFICES ASSUME NEW i \in 1..m, i > 1 PROVE timeline[i - 1].lead < timeline[i].lead
    BY <1>11
  <2>1. i - 1 \in 1..m /\ i - 1 < i
    BY <1>6
  <2>2. selected[i - 1].lead < selected[i].lead
    BY <1>6, <2>1
  <2> QED BY <1>12, <2>1, <2>2
<1>15. \A i \in DOMAIN timeline :
         timeline[i] = Made(timeline[i].lead, entries[Min(Has(timeline[i].lead))].array)
  <2> SUFFICES ASSUME NEW i \in 1..m
               PROVE  timeline[i] = Made(timeline[i].lead,
                                         entries[Min(Has(timeline[i].lead))].array)
    BY <1>11
  <2>1. selected[i] = entries[Min(Has(selected[i].lead))]
    BY <1>10
  <2> QED BY <1>12, <2>1
<1> QED BY <1>13, <1>14, <1>15, Zenon
        DEF OneBatch, Warnings, Made, Point, timeline, Has, leads, batch

\* Rounding keeps what is more than a hundredth apart in order.
LEMMA RoundedApart ==
  ASSUME NEW a \in Int, NEW b \in Int, a + 30 <= b
  PROVE  TwoDecimals(a, 1) < TwoDecimals(b, 1)
<1> DEFINE c == HalfEven(a, 10)
           d == HalfEven(b, 10)
<1>1. c \in Int /\ d \in Int
  BY HalfEvenInt
<1>2. 10 * c <= a + 5
  BY SMT DEF HalfEven
<1>3. b - 5 <= 10 * d
  BY SMT DEF HalfEven
<1>4. TwoDecimals(a, 1) = 10 * c /\ TwoDecimals(b, 1) = 10 * d
  BY DEF TwoDecimals
<1> HIDE DEF c, d
<1> QED BY <1>1, <1>2, <1>3, <1>4

\* A warning lowers a confidence that is not at its floor.
LEMMA WarningLowers ==
  ASSUME NEW lead \in Nat, NEW warnings \in Nat \ {0}
  PROVE  Confidence(lead, warnings) < Confidence(lead, 0) \/ Confidence(lead, warnings) = 550
<1> DEFINE x == 920 - 3 * lead - 30 * warnings
           y == 920 - 3 * lead - 30 * 0
<1>1. x \in Int /\ y \in Int /\ x + 30 <= y /\ y <= 950
  OBVIOUS
<1>2. /\ Confidence(lead, warnings) = TwoDecimals(Clamp(550, 950, x), 1)
      /\ Confidence(lead, 0) = TwoDecimals(Clamp(550, 950, y), 1)
  BY DEF Confidence
<1> HIDE DEF x, y
<1>3. CASE x < 550
  <2>1. Clamp(550, 950, x) = 550
    BY <1>1, <1>3, ClampLimits
  <2>2. TwoDecimals(550, 1) = 550
    BY SMT DEF TwoDecimals, HalfEven
  <2> QED BY <1>2, <2>1, <2>2
<1>4. CASE ~(x < 550)
  <2>1. Clamp(550, 950, x) = x
    BY <1>1, <1>4, ClampLimits
  <2>2. Clamp(550, 950, y) = y
    BY <1>1, <1>4, ClampLimits
  <2> QED BY <1>1, <1>2, <2>1, <2>2, RoundedApart
<1> QED BY <1>3, <1>4

\* It changes nothing else of a step.
LEMMA WarningOnlyLowers ==
  ASSUME NEW lead, NEW values, NEW warnings, NEW others
  PROVE  LET step == BuildTimelineStep(lead, values, warnings)
             other == BuildTimelineStep(lead, values, others)
         IN /\ step = [other EXCEPT !.confidence = step.confidence]
            /\ step.confidence = Confidence(lead, warnings)
            /\ other.confidence = Confidence(lead, others)
<1> DEFINE wind == OneDecimal(Max({0, values.w10m}), 1)
           humidity == HumidityPercent(values.tcwv)
           pressure == Hectopascals(values.msl)
           temperature == OneDecimal(ToCelsius(values.t2m), 1)
           rain == OneDecimal(EstimatePrecipitationProbability(humidity, pressure, wind), 1)
           step == BuildTimelineStep(lead, values, warnings)
           other == BuildTimelineStep(lead, values, others)
<1>1. /\ step = Step(lead, temperature, wind, humidity, rain, pressure,
                     Confidence(lead, warnings))
      /\ other = Step(lead, temperature, wind, humidity, rain, pressure,
                      Confidence(lead, others))
  BY Zenon DEF BuildTimelineStep
<1> HIDE DEF wind, humidity, pressure, temperature, rain, step, other
<1>2. PICK condition : condition = Condition(wind, humidity, rain)
  OBVIOUS
<1>3. /\ step = [lead |-> lead, temperature |-> temperature, wind |-> wind,
                 humidity |-> humidity, rain |-> rain, pressure |-> pressure,
                 confidence |-> Confidence(lead, warnings), condition |-> condition]
      /\ other = [lead |-> lead, temperature |-> temperature, wind |-> wind,
                  humidity |-> humidity, rain |-> rain, pressure |-> pressure,
                  confidence |-> Confidence(lead, others), condition |-> condition]
  BY <1>1, <1>2, Zenon DEF Step
<1>4. step = [other EXCEPT !.confidence = step.confidence]
  BY <1>3
<1>5. step.confidence = Confidence(lead, warnings) /\ other.confidence = Confidence(lead, others)
  BY <1>3
<1> QED BY <1>4, <1>5 DEF step, other

\* Without what was lost there is a forecast, and it differs in nothing but the warnings.
LEMMA IntactForecast ==
  ASSUME NEW archive, ArchiveOK(archive),
         NEW latitude \in Int, NEW longitude \in Int,
         ForecastFromTar(archive, latitude, longitude).status = "served"
  PROVE  LET m == Cardinality(LeadsUsed(Members(archive)))
             selected == Selected(archive)
             Values(i) == ReadGridValues(selected[i].array,
                                         GridIndices(selected[i].array, latitude, longitude))
             better == ForecastFromTar(Intact(archive), latitude, longitude)
         IN better.timeline = [i \in 1..m |-> BuildTimelineStep(selected[i].lead, Values(i), 0)]
<1> DEFINE m == Cardinality(LeadsUsed(Members(archive)))
           selected == Selected(archive)
           intact == Intact(archive)
           Point(i) == GridIndices(selected[i].array, latitude, longitude)
           Values(i) == ReadGridValues(selected[i].array, Point(i))
<1>1. /\ Cardinality(Places(archive)) # 0 /\ ~Unlisted(archive) /\ archive.ends # "compressed"
      /\ \A i \in 1..m : Readable(selected[i].array, Point(i))
  <2>1. ~Unlisted(archive) /\ archive.ends # "compressed"
    BY NotCutOff
  <2>2. Cardinality(Places(archive)) # 0
    BY ServedForecast
  <2>3. \A i \in 1..m : Readable(selected[i].array, Point(i))
    BY ServedForecast
  <2> QED BY <2>1, <2>2, <2>3
<1>2. m \in Nat \ {0} /\ DOMAIN selected = 1..m
  BY <1>1, SelectedFromArchive
<1>3. Members(intact) = Members(archive) /\ Warnings(intact) = 0
  BY <1>1, IntactMembers
<1>4. intact.ends = archive.ends
  BY <1>1, IntactListed
<1>5. Selected(intact) = selected
  BY <1>3 DEF Selected
<1>6. Members(archive) # <<>>
  <2>1. DOMAIN Members(archive) = 1..Cardinality(Places(archive))
    BY MembersInOrder
  <2>2. Cardinality(Places(archive)) \in Nat \ {0}
    BY <1>1, MembersInOrder
  <2>3. 1 \in DOMAIN Members(archive)
    BY <2>1, <2>2
  <2> QED BY <2>3
<1> HIDE DEF m, selected, intact
<1>7. selected # <<>>
  BY <1>2
<1>8. \A i \in DOMAIN selected : Readable(selected[i].array, Point(i))
  BY <1>1, <1>2
<1>9. ForecastFromTar(intact, latitude, longitude)
        = Summary(Timeline(intact, latitude, longitude))
  BY <1>1, <1>3, <1>4, <1>5, <1>6, <1>7, <1>8, SummaryOfTimeline
<1>10. ForecastFromTar(intact, latitude, longitude).timeline
         = Timeline(intact, latitude, longitude)
  BY <1>9 DEF Summary
<1>11. Timeline(intact, latitude, longitude) =
         [i \in 1..m |-> BuildTimelineStep(selected[i].lead, Values(i), 0)]
  BY <1>2, <1>3, <1>5, Zenon DEF Timeline
<1> QED BY <1>10, <1>11, Zenon DEF m, selected, intact

\* What had to be left out shows in the confidence, and in nothing else.
LEMMA ServedWithLoss ==
  ASSUME Reached, FromArchive
  PROVE  LossMarked
<1> DEFINE archive == asked.archive
           latitude == asked.latitude
           longitude == asked.longitude
           m == Cardinality(LeadsUsed(Members(archive)))
           selected == Selected(archive)
           Values(i) == ReadGridValues(selected[i].array,
                                       GridIndices(selected[i].array, latitude, longitude))
           better == ForecastFromTar(Intact(archive), latitude, longitude)
           timeline == answer.timeline
           others == better.timeline
<1>1. /\ ArchiveOK(archive) /\ latitude \in Int /\ longitude \in Int
  BY WhereAsked
<1>2. /\ answer = ForecastFromTar(archive, latitude, longitude)
      /\ ForecastFromTar(archive, latitude, longitude).status = "served"
  BY FromArchiveServed
<1>3. /\ Cardinality(Places(archive)) # 0 /\ ~Unlisted(archive)
      /\ timeline = [i \in 1..m |->
                       BuildTimelineStep(selected[i].lead, Values(i), Warnings(archive))]
  BY <1>1, <1>2, ServedForecast
<1>4. m \in Nat \ {0} /\ \A i \in 1..m : selected[i].lead \in Nat
  BY <1>1, <1>3, SelectedFromArchive
<1>5. others = [i \in 1..m |-> BuildTimelineStep(selected[i].lead, Values(i), 0)]
  BY <1>1, <1>2, IntactForecast
<1>6. /\ IsFiniteSet(Lost(archive)) /\ Warnings(archive) = Cardinality(Lost(archive))
      /\ Warnings(archive) \in Nat
  BY <1>1, <1>3, WarningsCounted
<1>7. Loadable = Places(archive)
  BY <1>3, LoadableArePlaces
<1> DEFINE entries == Listed(archive)
           kept == Ascending(Loadable)
           without == [archive EXCEPT !.entries = [k \in DOMAIN kept |-> entries[kept[k]]],
                                      !.upTo = Len(kept)]
           best == ForecastFromTar(without, latitude, longitude).timeline
<1>8. without = Intact(archive)
  BY <1>7, Zenon DEF Intact
<1>9. best = others
  BY <1>8, Zenon
<1> DEFINE Marks(weather) ==
             Lost(archive) # {} =>
               /\ Len(weather) = Len(timeline)
               /\ \A i \in DOMAIN timeline :
                    /\ timeline[i] = [weather[i] EXCEPT !.confidence = timeline[i].confidence]
                    /\ \/ timeline[i].confidence < weather[i].confidence
                       \/ timeline[i].confidence = 550
<1>10. LossMarked <=> Marks(best)
  BY Zenon DEF LossMarked, Lost
<1> HIDE DEF best
<1> HIDE DEF m, selected, Values, timeline, others
<1>11. Len(others) = Len(timeline) /\ DOMAIN timeline = 1..m
  BY <1>3, <1>4, <1>5
<1>12. ASSUME Lost(archive) # {}, NEW i \in 1..m
       PROVE  /\ timeline[i] = [others[i] EXCEPT !.confidence = timeline[i].confidence]
              /\ timeline[i].confidence < others[i].confidence \/ timeline[i].confidence = 550
  <2> DEFINE lead == selected[i].lead
             warnings == Warnings(archive)
             step == BuildTimelineStep(lead, Values(i), warnings)
             other == BuildTimelineStep(lead, Values(i), 0)
  <2>1. warnings \in Nat \ {0}
    BY <1>6, <1>12, FS_EmptySet
  <2>2. timeline[i] = step /\ others[i] = other
    BY <1>3, <1>5
  <2>3. lead \in Nat
    BY <1>4
  <2> HIDE DEF lead, warnings
  <2>4. /\ step = [other EXCEPT !.confidence = step.confidence]
        /\ step.confidence = Confidence(lead, warnings)
        /\ other.confidence = Confidence(lead, 0)
    BY WarningOnlyLowers
  <2>5. Confidence(lead, warnings) < Confidence(lead, 0) \/ Confidence(lead, warnings) = 550
    BY <2>1, <2>3, WarningLowers
  <2> HIDE DEF step, other
  <2> QED BY <2>2, <2>4, <2>5, Zenon
<1>13. Marks(others)
  BY <1>11, <1>12
<1> HIDE DEF Marks
<1> QED BY <1>9, <1>10, <1>13

\* What is in the archive is chosen by lead time, batch and place only, and what had to
\* be left out shows in the confidence (_load_tar_members, _select_batch_members).
THEOREM TimelineSelectedHolds == Spec => []TimelineSelected
<1>1. Reached => TimelineSelected
  BY ServedFromOneBatch, ServedWithLoss DEF TimelineSelected
<1> QED BY <1>1, AnswersReached, PTL
====
