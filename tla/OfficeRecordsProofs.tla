------------------------ MODULE OfficeRecordsProofs ------------------------
(* Theorems about the periods of the reports, for any stretch of the          *)
(* calendar, beginning on any day of the week; about the import of customers, *)
(* for any workbooks; and about the figures of the reports, for any records.  *)
(* Months are counted through the years: month k is month k % 12 + 1 of year  *)
(* k \div 12, and the whole calendar rests on one fact, that the next month   *)
(* starts where it ends.  The import rests on two: rows that share an         *)
(* identifier are in one group, so the rows chosen to be written never do;    *)
(* and a saved key is the row the customer holds.  The figures rest on sums   *)
(* that do not depend on the order and may be taken group by group.           *)
EXTENDS OfficeDesk, Sequences, FiniteSetTheorems, WellFoundedInduction, TLAPS

LEMMA SameCounts == \A S : Periods!Cardinality(S) = Cardinality(S)
  BY DEF Periods!Cardinality, Cardinality

LEMMA HasLeast ==
  ASSUME NEW S \in SUBSET Nat, S # {}
  PROVE  \E u \in S : \A v \in S : u <= v
  <1>1. PICK u \in S : \A v \in S : ~ (<<v, u>> \in OpToRel(<, Nat))
    BY NatLessThanWellFounded, WFMin
  <1>2. \A v \in S : ~ (v < u)
    BY <1>1 DEF OpToRel
  <1> QED BY <1>2

(* The days before month k, and the days of month k.                          *)
Start(k) == Periods!Before(k \div 12, (k % 12) + 1)
Days(k) == Periods!MonthDays(k \div 12, (k % 12) + 1)

LEMMA YearAndMonth ==
  ASSUME NEW k \in Nat
  PROVE  /\ k \div 12 \in Nat /\ k % 12 \in 0..11 /\ k = 12 * (k \div 12) + (k % 12)
         /\ (k + 1) \div 12 = IF k % 12 = 11 THEN (k \div 12) + 1 ELSE k \div 12
         /\ (k + 1) % 12 = IF k % 12 = 11 THEN 0 ELSE (k % 12) + 1
  OBVIOUS

LEMMA MonthNumber ==
  ASSUME NEW y \in Nat, NEW m \in 1..12
  PROVE  /\ (12 * y + m - 1) \div 12 = y /\ ((12 * y + m - 1) % 12) + 1 = m
         /\ 12 * y + m - 1 \in Nat
  OBVIOUS

LeapDays(y) == Cardinality({k \in FirstYear..(y - 1) : Periods!IsLeap(k)})

LEMMA LeapDaysAdd ==
  ASSUME FirstYear \in Nat, NEW y \in Nat, FirstYear <= y
  PROVE  /\ LeapDays(y) \in Nat
         /\ LeapDays(y + 1) = LeapDays(y) + (IF Periods!IsLeap(y) THEN 1 ELSE 0)
  <1> DEFINE S(z) == {k \in FirstYear..(z - 1) : Periods!IsLeap(k)}
  <1>1. IsFiniteSet(S(y)) /\ Cardinality(S(y)) \in Nat
    <2>1. IsFiniteSet(FirstYear..(y - 1))
      BY FS_Interval
    <2>2. S(y) \subseteq FirstYear..(y - 1)
      OBVIOUS
    <2> HIDE DEF S
    <2> QED BY <2>1, <2>2, FS_Subset, FS_CardinalityType
  <1>2. CASE Periods!IsLeap(y)
    <2>1. S(y + 1) = S(y) \cup {y} /\ y \notin S(y)
      BY <1>2
    <2>2. Cardinality(S(y + 1)) = Cardinality(S(y)) + 1
      <3> HIDE DEF S
      <3> QED BY <2>1, <1>1, FS_AddElement
    <2> QED BY <1>1, <1>2, <2>2 DEF LeapDays
  <1>3. CASE ~ Periods!IsLeap(y)
    <2>1. S(y + 1) = S(y)
      BY <1>3
    <2> QED BY <1>1, <1>3, <2>1 DEF LeapDays
  <1> QED BY <1>2, <1>3

LEMMA NoLeapDays ==
  ASSUME FirstYear \in Nat
  PROVE  LeapDays(FirstYear) = 0
  <1>1. {k \in FirstYear..(FirstYear - 1) : Periods!IsLeap(k)} = {}
    OBVIOUS
  <1> QED BY <1>1, FS_EmptySet DEF LeapDays

LEMMA BeforeIs ==
  ASSUME FirstYear \in Nat, NEW y \in Nat, FirstYear <= y, NEW m \in 1..12
  PROVE  /\ Periods!Offsets[m] \in Nat /\ Periods!Before(y, m) \in Nat
         /\ Periods!Before(y, m) = 365 * (y - FirstYear) + LeapDays(y) + Periods!Offsets[m] + (IF m > 2 /\ Periods!IsLeap(y) THEN 1 ELSE 0)
  <1>1. Periods!Offsets[m] \in Nat
    BY DEF Periods!Offsets
  <1>2. Periods!Before(y, m) = 365 * (y - FirstYear) + LeapDays(y) + Periods!Offsets[m] + (IF m > 2 /\ Periods!IsLeap(y) THEN 1 ELSE 0)
    BY SameCounts DEF Periods!Before, LeapDays
  <1> QED BY <1>1, <1>2, LeapDaysAdd

LEMMA OffsetsAre ==
  ASSUME NEW m \in 1..12
  PROVE  Periods!Offsets[m] = IF m = 1 THEN 0 ELSE IF m = 2 THEN 31 ELSE IF m = 3 THEN 59 ELSE IF m = 4 THEN 90
                      ELSE IF m = 5 THEN 120 ELSE IF m = 6 THEN 151 ELSE IF m = 7 THEN 181 ELSE IF m = 8 THEN 212
                      ELSE IF m = 9 THEN 243 ELSE IF m = 10 THEN 273 ELSE IF m = 11 THEN 304 ELSE 334
  BY DEF Periods!Offsets

LEMMA BeforeFirst ==
  ASSUME FirstYear \in Nat, NEW y \in Nat, FirstYear <= y
  PROVE  Periods!Before(y, 1) = 365 * (y - FirstYear) + LeapDays(y) + Periods!Offsets[1]
  <1>1. LeapDays(y) \in Nat /\ Periods!Offsets[1] \in Nat
    BY LeapDaysAdd, OffsetsAre
  <1>2. 1 \in 1..12 /\ ~ (1 > 2)
    OBVIOUS
  <1>3. Periods!Before(y, 1) = 365 * (y - FirstYear) + LeapDays(y) + Periods!Offsets[1] + (IF 1 > 2 /\ Periods!IsLeap(y) THEN 1 ELSE 0)
    BY <1>2, BeforeIs
  <1> QED BY <1>1, <1>2, <1>3

(* A month starts where the one before it ends.                               *)
LEMMA StartsFollow ==
  ASSUME FirstYear \in Nat, NEW k \in Nat, 12 * FirstYear <= k
  PROVE  Start(k) \in Nat /\ Days(k) \in 28..31 /\ Start(k + 1) = Start(k) + Days(k)
  <1> DEFINE y == k \div 12  m == (k % 12) + 1  leap == IF Periods!IsLeap(y) THEN 1 ELSE 0
  <1>1. y \in Nat /\ FirstYear <= y /\ m \in 1..12
    BY YearAndMonth
  <1>2. Days(k) \in 28..31 /\ Days(k) = IF m = 2 THEN 28 + leap ELSE IF m \in {4, 6, 9, 11} THEN 30 ELSE 31
    BY <1>1 DEF Days, Periods!MonthDays
  <1>3. Start(k) \in Nat /\ Start(k) = 365 * (y - FirstYear) + LeapDays(y) + Periods!Offsets[m] + (IF m > 2 THEN leap ELSE 0)
    BY <1>1, BeforeIs DEF Start
  <1>4. LeapDays(y) \in Nat /\ LeapDays(y + 1) = LeapDays(y) + leap /\ leap \in {0, 1}
    BY <1>1, LeapDaysAdd
  <1>5. CASE m = 12
    <2>1. (k + 1) \div 12 = y + 1 /\ ((k + 1) % 12) + 1 = 1
      BY <1>5, YearAndMonth
    <2>2. Start(k + 1) = 365 * (y + 1 - FirstYear) + LeapDays(y + 1) + Periods!Offsets[1]
      <3>1. y + 1 \in Nat /\ FirstYear <= y + 1
        BY <1>1
      <3>2. Periods!Before(y + 1, 1) = 365 * ((y + 1) - FirstYear) + LeapDays(y + 1) + Periods!Offsets[1]
        <4> HIDE DEF y
        <4> QED BY <3>1, BeforeFirst
      <3>3. Start(k + 1) = Periods!Before(y + 1, 1)
        BY <2>1 DEF Start
      <3> QED BY <3>2, <3>3
    <2>3. Periods!Offsets[1] = 0 /\ Periods!Offsets[12] = 334
      BY OffsetsAre
    <2> HIDE DEF y, m, leap
    <2> QED BY <1>1, <1>2, <1>3, <1>4, <1>5, <2>2, <2>3
  <1>6. CASE m # 12
    <2>1. (k + 1) \div 12 = y /\ ((k + 1) % 12) + 1 = m + 1 /\ m + 1 \in 1..12
      BY <1>1, <1>6, YearAndMonth
    <2>2. Start(k + 1) = 365 * (y - FirstYear) + LeapDays(y) + Periods!Offsets[m + 1] + (IF m + 1 > 2 THEN leap ELSE 0)
      BY <1>1, <2>1, BeforeIs DEF Start
    <2> HIDE DEF y, m, leap
    <2> QED BY <1>1, <1>2, <1>3, <1>4, <1>6, <2>1, <2>2, OffsetsAre
  <1> QED BY <1>5, <1>6

(* So the starts are in order.                                                *)
LEMMA StartsInOrder ==
  ASSUME FirstYear \in Nat, NEW j \in Nat, NEW k \in Nat, 12 * FirstYear <= j, j < k
  PROVE  Start(j) + Days(j) <= Start(k)
  <1> DEFINE Bad == {i \in Nat : j < i /\ ~ (Start(j) + Days(j) <= Start(i))}
  <1>1. ASSUME Bad # {} PROVE FALSE
    <2>1. PICK i \in Bad : \A v \in Bad : i <= v
      <3>1. Bad \in SUBSET Nat
        OBVIOUS
      <3> HIDE DEF Bad
      <3> QED BY <1>1, <3>1, HasLeast
    <2>2. Start(j) \in Nat /\ Days(j) \in Nat /\ Start(j + 1) = Start(j) + Days(j)
      BY StartsFollow
    <2>3. i # j + 1
      BY <2>1, <2>2
    <2>4. i - 1 \in Nat /\ j < i - 1 /\ i - 1 \notin Bad /\ 12 * FirstYear <= i - 1
      BY <2>1, <2>3
    <2>5. Start(j) + Days(j) <= Start(i - 1)
      BY <2>4
    <2>6. Start(i - 1) \in Nat /\ Days(i - 1) \in Nat /\ Start((i - 1) + 1) = Start(i - 1) + Days(i - 1)
      BY <2>4, StartsFollow
    <2>7. (i - 1) + 1 = i /\ i \in Nat
      BY <2>1
    <2>8. Start(i) = Start(i - 1) + Days(i - 1)
      BY <2>6, <2>7
    <2>9. Start(j) + Days(j) <= Start(i)
      BY <2>2, <2>5, <2>6, <2>8
    <2> QED BY <2>1, <2>9
  <1> QED BY <1>1
LEMMA StartsMonotone ==
  ASSUME FirstYear \in Nat, NEW j \in Nat, NEW k \in Nat, 12 * FirstYear <= j, j <= k
  PROVE  Start(j) <= Start(k) /\ Start(j) \in Nat /\ Start(k) \in Nat
  <1>1. Start(j) \in Nat /\ Start(k) \in Nat /\ Days(j) \in Nat
    BY StartsFollow
  <1>2. CASE j = k
    BY <1>1, <1>2
  <1>3. CASE j < k
    BY <1>1, <1>3, StartsInOrder
  <1> QED BY <1>1, <1>2, <1>3

LEMMA WholeYear ==
  ASSUME FirstYear \in Nat, NEW y \in Nat, FirstYear <= y
  PROVE  /\ Periods!YearDays(y) = Start(12 * y + 12) - Start(12 * y)
         /\ Start(12 * y) \in Nat /\ Start(12 * y + 12) \in Nat
  <1>1. \A z \in Nat : FirstYear <= z => Start(12 * z) = 365 * (z - FirstYear) + LeapDays(z)
    <2> TAKE z \in Nat
    <2> HAVE FirstYear <= z
    <2>1. (12 * z) \div 12 = z /\ ((12 * z) % 12) + 1 = 1
      OBVIOUS
    <2>2. Start(12 * z) = Periods!Before(z, 1)
      BY <2>1 DEF Start
    <2>3. Periods!Offsets[1] = 0 /\ LeapDays(z) \in Nat
      BY LeapDaysAdd, OffsetsAre
    <2> QED BY <2>2, <2>3, BeforeFirst
  <1>2. Start(12 * y) = 365 * (y - FirstYear) + LeapDays(y)
    BY <1>1
  <1>3. Start(12 * (y + 1)) = 365 * ((y + 1) - FirstYear) + LeapDays(y + 1)
    BY <1>1
  <1>4. LeapDays(y) \in Nat /\ LeapDays(y + 1) = LeapDays(y) + (IF Periods!IsLeap(y) THEN 1 ELSE 0)
    BY LeapDaysAdd
  <1>5. 12 * (y + 1) = 12 * y + 12
    OBVIOUS
  <1> QED BY <1>2, <1>3, <1>4, <1>5 DEF Periods!YearDays

(* The year before the calendar's first is nobody's, and its last day ends    *)
(* the last month.                                                            *)
LEMMA Ends ==
  ASSUME Periods!PeriodAssumption
  PROVE  /\ Start(12 * FirstYear) = 0 /\ Start(12 * LastYear + 12) = Periods!LastDay
         /\ Periods!YearDays(FirstYear) = Start(12 * FirstYear + 12) /\ Periods!LastDay \in Nat
         /\ FirstYear \in Nat /\ LastYear \in Nat /\ FirstYear + 1 < LastYear
  <1>1. FirstYear \in Nat /\ LastYear \in Nat /\ FirstYear + 1 < LastYear
    BY DEF Periods!PeriodAssumption
  <1>2. \A y \in Nat : (12 * y) \div 12 = y /\ ((12 * y) % 12) + 1 = 1 /\ 12 * y \in Nat
    OBVIOUS
  <1>3. \A y \in Nat : FirstYear <= y => Start(12 * y) = 365 * (y - FirstYear) + LeapDays(y)
    <2> TAKE y \in Nat
    <2> HAVE FirstYear <= y
    <2>1. Start(12 * y) = Periods!Before(y, 1)
      BY <1>2 DEF Start
    <2>2. Periods!Offsets[1] = 0 /\ LeapDays(y) \in Nat
      BY <1>1, LeapDaysAdd, OffsetsAre
    <2> QED BY <1>1, <2>1, <2>2, BeforeFirst
  <1>4. Start(12 * FirstYear) = 0
    BY <1>1, <1>3, NoLeapDays
  <1>5. Periods!YearDays(FirstYear) = Start(12 * FirstYear + 12)
    <2>1. FirstYear + 1 \in Nat /\ 12 * (FirstYear + 1) = 12 * FirstYear + 12 /\ (FirstYear + 1) - FirstYear = 1
      BY <1>1
    <2>2. Start(12 * (FirstYear + 1)) = 365 * ((FirstYear + 1) - FirstYear) + LeapDays(FirstYear + 1)
      BY <1>1, <1>3, <2>1
    <2>3. LeapDays(FirstYear + 1) = LeapDays(FirstYear) + (IF Periods!IsLeap(FirstYear) THEN 1 ELSE 0)
      BY <1>1, LeapDaysAdd
    <2> QED BY <1>1, <2>1, <2>2, <2>3, NoLeapDays DEF Periods!YearDays
  <1>6. Start(12 * LastYear + 12) = Periods!LastDay /\ Periods!LastDay \in Nat
    <2> DEFINE k == 12 * LastYear + 12 - 1
    <2>1. k \in Nat /\ 12 * FirstYear <= k /\ k + 1 = 12 * LastYear + 12
      BY <1>1
    <2>2. k \div 12 = LastYear /\ (k % 12) + 1 = 12
      BY <1>1, MonthNumber
    <2>3. Start(k) = Periods!Before(LastYear, 12) /\ Days(k) = 31
      BY <2>2 DEF Start, Days, Periods!MonthDays
    <2>4. Start(k + 1) = Start(k) + Days(k) /\ Start(k) \in Nat
      <3> HIDE DEF k
      <3> QED BY <1>1, <2>1, StartsFollow
    <2> HIDE DEF k
    <2> QED BY <2>1, <2>3, <2>4 DEF Periods!LastDay, Periods!Number
  <1> QED BY <1>1, <1>4, <1>5, <1>6
-----------------------------------------------------------------------------
(* The month a day falls in: the only one that begins before it and has not   *)
(* ended.                                                                     *)
Months == (12 * FirstYear)..(12 * LastYear + 11)
Holds(k, n) == Start(k) < n /\ n <= Start(k) + Days(k)

LEMMA OneMonth ==
  ASSUME FirstYear \in Nat, NEW n \in Nat, NEW j \in Nat, NEW k \in Nat,
         12 * FirstYear <= j, 12 * FirstYear <= k, Holds(j, n), Holds(k, n)
  PROVE  j = k
  <1>1. \A a, b \in {j, k} : ~ (a < b)
    <2> SUFFICES ASSUME NEW a \in {j, k}, NEW b \in {j, k}, a < b PROVE FALSE
      OBVIOUS
    <2>1. Start(a) + Days(a) <= Start(b) /\ Holds(a, n) /\ Holds(b, n)
      BY StartsInOrder
    <2>2. Start(a) \in Nat /\ Start(b) \in Nat /\ Days(a) \in Nat
      BY StartsFollow
    <2> QED BY <2>1, <2>2 DEF Holds
  <1> QED BY <1>1

LEMMA SomeMonth ==
  ASSUME Periods!PeriodAssumption, NEW n \in 1..Periods!LastDay
  PROVE  \E k \in Months : Holds(k, n)
  <1> DEFINE S == {k \in Nat : 12 * FirstYear <= k /\ n <= Start(k + 1)}
  <1>1. 12 * LastYear + 11 \in S
    <2>1. (12 * LastYear + 11) + 1 = 12 * LastYear + 12 /\ 12 * LastYear + 11 \in Nat /\ 12 * FirstYear <= 12 * LastYear + 11
      BY Ends
    <2> QED BY <2>1, Ends
  <1>2. PICK k \in S : \A v \in S : k <= v
    <2>1. S \in SUBSET Nat
      OBVIOUS
    <2> HIDE DEF S
    <2> QED BY <1>1, <2>1, HasLeast
  <1>3. k \in Months
    BY <1>1, <1>2, Ends DEF Months
  <1>4. Start(k + 1) = Start(k) + Days(k) /\ Start(k) \in Nat /\ Days(k) \in Nat
    BY <1>2, Ends, StartsFollow
  <1>5. Start(k) < n
    <2>1. CASE k = 12 * FirstYear
      BY <2>1, Ends
    <2>2. CASE k # 12 * FirstYear
      <3>1. k - 1 \in Nat /\ 12 * FirstYear <= k - 1 /\ (k - 1) + 1 = k /\ ~ (k <= k - 1)
        BY <2>2, <1>2, Ends
      <3>2. k - 1 \notin S
        BY <1>2, <3>1
      <3>3. ~ (n <= Start((k - 1) + 1))
        BY <3>1, <3>2
      <3> QED BY <3>1, <3>3, <1>4
    <2> QED BY <2>1, <2>2
  <1> QED BY <1>2, <1>3, <1>4, <1>5 DEF Holds

(* Day computes it, by the year first and then by the month of the year.      *)
LEMMA DayIs ==
  ASSUME Periods!PeriodAssumption, NEW n \in 1..Periods!LastDay, NEW k \in Months, Holds(k, n)
  PROVE  Periods!Day(n) = [y |-> k \div 12, m |-> (k % 12) + 1, d |-> n - Start(k)]
  <1> DEFINE InYear(z) == Periods!Before(z, 1) < n /\ n <= Periods!Before(z + 1, 1)
             y == k \div 12  m == (k % 12) + 1
  <1>0. k \in Nat /\ 12 * FirstYear <= k /\ y \in FirstYear..LastYear /\ m \in 1..12 /\ k = 12 * y + m - 1
    BY Ends, YearAndMonth DEF Months
  <1>1. \A z \in Nat : Periods!Before(z, 1) = Start(12 * z)
    <2>1. \A z \in Nat : (12 * z) \div 12 = z /\ ((12 * z) % 12) + 1 = 1
      OBVIOUS
    <2> QED BY <2>1 DEF Start
  <1>2. \A z \in FirstYear..LastYear : InYear(z) => z = y
    <2> SUFFICES ASSUME NEW z \in FirstYear..LastYear, InYear(z), z # y PROVE FALSE
      OBVIOUS
    <2> HIDE DEF y, m
    <2>1. z \in Nat /\ z + 1 \in Nat /\ y \in Nat /\ 12 * z \in Nat /\ 12 * (z + 1) \in Nat
      BY <1>0, Ends
    <2>2. Start(12 * z) < n /\ n <= Start(12 * (z + 1))
      BY <1>1, <2>1
    <2>3. Start(k) \in Nat /\ Days(k) \in Nat /\ Start(k) < n /\ n <= Start(k) + Days(k)
      BY <1>0, Ends, StartsFollow DEF Holds
    <2>4. CASE z < y
      <3>1. 12 * (z + 1) <= k /\ 12 * FirstYear <= 12 * (z + 1)
        BY <2>1, <2>4, <1>0, Ends
      <3>2. Start(12 * (z + 1)) <= Start(k) /\ Start(12 * (z + 1)) \in Nat
        BY <3>1, <2>1, <1>0, Ends, StartsMonotone
      <3> QED BY <3>2, <2>2, <2>3
    <2>5. CASE z > y
      <3>1. k < 12 * z
        BY <2>1, <2>5, <1>0
      <3>2. Start(k) + Days(k) <= Start(12 * z) /\ Start(12 * z) \in Nat
        <4>1. 12 * FirstYear <= 12 * z
          BY <3>1, <2>1, <1>0, Ends
        <4> QED BY <4>1, <3>1, <2>1, <1>0, Ends, StartsInOrder, StartsMonotone
      <3> QED BY <3>2, <2>2, <2>3
    <2> QED BY <2>1, <2>4, <2>5
  <1>3. InYear(y)
    <2> HIDE DEF y, m
    <2>1. y \in Nat /\ y + 1 \in Nat /\ 12 * y \in Nat /\ 12 * (y + 1) \in Nat /\ 12 * FirstYear <= 12 * y
          /\ 12 * y <= k /\ k < 12 * (y + 1) /\ 12 * FirstYear <= 12 * (y + 1)
      BY <1>0, Ends
    <2>2. Start(12 * y) <= Start(k) /\ Start(12 * y) \in Nat
      BY <2>1, <1>0, Ends, StartsMonotone
    <2>3. Start(k) + Days(k) <= Start(12 * (y + 1)) /\ Start(k) \in Nat /\ Days(k) \in Nat
      BY <2>1, <1>0, Ends, StartsInOrder, StartsFollow
    <2>4. Start(12 * (y + 1)) \in Nat
      BY <2>1, Ends, StartsFollow
    <2> QED BY <1>1, <2>1, <2>2, <2>3, <2>4 DEF Holds
  <1>4. (CHOOSE z \in FirstYear..LastYear : InYear(z)) = y
    <2> HIDE DEF y, m, InYear
    <2> QED BY <1>0, <1>2, <1>3
  <1> DEFINE InMonth(j) == Periods!Before(y, j) < n /\ (j = 12 \/ n <= Periods!Before(y, j + 1))
  <1>5. \A j \in 1..12 : Periods!Before(y, j) = Start(12 * y + j - 1)
    <2> TAKE j \in 1..12
    <2>1. y \in Nat
      BY <1>0, Ends
    <2>2. (12 * y + j - 1) \div 12 = y /\ ((12 * y + j - 1) % 12) + 1 = j
      <3> HIDE DEF y
      <3> QED BY <2>1, MonthNumber
    <2> HIDE DEF y, m
    <2> QED BY <2>2 DEF Start
  <1>6. \A j \in 1..12 : InMonth(j) => j = m
    <2> SUFFICES ASSUME NEW j \in 1..12, InMonth(j) PROVE j = m
      OBVIOUS
    <2> DEFINE i == 12 * y + j - 1
    <2> HIDE DEF y, m
    <2>1. i \in Nat /\ 12 * FirstYear <= i
      BY <1>0, Ends
    <2>2. Start(i) < n /\ Start(i) \in Nat /\ Days(i) \in Nat /\ Start(i + 1) = Start(i) + Days(i)
      <3> HIDE DEF i
      <3>1. Start(i) < n
        BY <1>5 DEF i
      <3> QED BY <3>1, <2>1, Ends, StartsFollow
    <2>3. n <= Start(i) + Days(i)
      <3>1. CASE j = 12
        <4>1. 12 * (y + 1) = i + 1 /\ y \in Nat
          BY <3>1, <1>0, Ends
        <4>2. Periods!Before(y + 1, 1) = Start(12 * (y + 1))
          BY <1>1, <4>1
        <4> QED BY <1>3, <2>2, <4>1, <4>2
      <3>2. CASE j # 12
        <4>1. j + 1 \in 1..12 /\ 12 * y + (j + 1) - 1 = i + 1
          BY <3>2, <1>0, Ends
        <4>2. Periods!Before(y, j + 1) = Start(i + 1)
          BY <1>5, <4>1
        <4> QED BY <4>2, <3>2, <2>2
      <3> QED BY <3>1, <3>2
    <2>4. Holds(i, n)
      BY <2>2, <2>3 DEF Holds
    <2>5. i = k
      <3> HIDE DEF i
      <3> QED BY <2>1, <2>4, <1>0, Ends, OneMonth
    <2> QED BY <2>5, <1>0, Ends
  <1>7. InMonth(m)
    <2> HIDE DEF y, m
    <2>1. Periods!Before(y, m) = Start(k)
      BY <1>0, <1>5
    <2>2. m # 12 => Periods!Before(y, m + 1) = Start(k + 1)
      <3> HAVE m # 12
      <3>1. m + 1 \in 1..12 /\ 12 * y + (m + 1) - 1 = k + 1
        BY <1>0, Ends
      <3> QED BY <3>1, <1>5
    <2>3. Start(k + 1) = Start(k) + Days(k)
      BY <1>0, Ends, StartsFollow
    <2> QED BY <2>1, <2>2, <2>3 DEF Holds
  <1>8. (CHOOSE j \in 1..12 : InMonth(j)) = m
    <2> HIDE DEF y, m, InMonth
    <2> QED BY <1>0, <1>6, <1>7
  <1>9. Periods!Before(y, m) = Start(k)
    <2> HIDE DEF y, m
    <2> QED BY <1>0, <1>5
  <1>10. Periods!Day(n) = LET z == CHOOSE z \in FirstYear..LastYear : InYear(z)
                      j == CHOOSE j \in 1..12 : Periods!Before(z, j) < n /\ (j = 12 \/ n <= Periods!Before(z, j + 1))
                  IN [y |-> z, m |-> j, d |-> n - Periods!Before(z, j)]
    BY DEF Periods!Day
  <1> HIDE DEF y, m
  <1> QED BY <1>4, <1>8, <1>9, <1>10 DEF y, m
-----------------------------------------------------------------------------
(* What the periods use of a day: its month, the month's first day and, for a *)
(* window of so many months, the same day of an earlier month or its last.    *)
LEMMA MonthOfDay ==
  ASSUME Periods!PeriodAssumption, NEW n \in 1..Periods!LastDay
  PROVE  /\ Periods!MonthOf(n) \in Months /\ Holds(Periods!MonthOf(n), n)
         /\ Periods!Day(n).y = Periods!MonthOf(n) \div 12 /\ Periods!Day(n).m = (Periods!MonthOf(n) % 12) + 1
         /\ Periods!Day(n).d = n - Start(Periods!MonthOf(n))
  <1>1. PICK k \in Months : Holds(k, n)
    BY SomeMonth
  <1>2. Periods!Day(n).y = k \div 12 /\ Periods!Day(n).m = (k % 12) + 1 /\ Periods!Day(n).d = n - Start(k)
    BY <1>1, DayIs
  <1>3. k \in Nat
    BY Ends DEF Months
  <1>4. Periods!MonthOf(n) = k
    BY <1>2, <1>3, YearAndMonth DEF Periods!MonthOf
  <1> QED BY <1>1, <1>2, <1>4

LEMMA MonthIs ==
  ASSUME Periods!PeriodAssumption, NEW n \in 1..Periods!LastDay, NEW k \in Months, Holds(k, n)
  PROVE  Periods!MonthOf(n) = k
  <1>1. Periods!MonthOf(n) \in Months /\ Holds(Periods!MonthOf(n), n)
    BY MonthOfDay
  <1> QED BY <1>1, Ends, OneMonth DEF Months

(* Basic facts of a month of the calendar, to cite once.                      *)
LEMMA InCalendar ==
  ASSUME Periods!PeriodAssumption, NEW k \in Months
  PROVE  /\ k \in Nat /\ 12 * FirstYear <= k /\ k <= 12 * LastYear + 11
         /\ Start(k) \in Nat /\ Days(k) \in 28..31 /\ Start(k + 1) = Start(k) + Days(k)
         /\ Start(k) + Days(k) <= Periods!LastDay
  <1>1. k \in Nat /\ 12 * FirstYear <= k /\ k <= 12 * LastYear + 11
    BY Ends DEF Months
  <1>2. Start(k) \in Nat /\ Days(k) \in 28..31 /\ Start(k + 1) = Start(k) + Days(k)
    BY <1>1, Ends, StartsFollow
  <1>3. Start(k) + Days(k) <= Start(12 * LastYear + 12)
    <2>1. 12 * LastYear + 12 \in Nat /\ k < 12 * LastYear + 12
      BY <1>1, Ends
    <2> QED BY <2>1, <1>1, Ends, StartsInOrder
  <1> QED BY <1>1, <1>2, <1>3, Ends

LEMMA FirstOfMonth ==
  ASSUME Periods!PeriodAssumption, NEW k \in Months
  PROVE  /\ Start(k) + 1 \in 1..Periods!LastDay /\ Periods!MonthOf(Start(k) + 1) = k
         /\ Periods!Number(k \div 12, (k % 12) + 1, 1) = Start(k) + 1
  <1>1. Start(k) + 1 \in 1..Periods!LastDay /\ Holds(k, Start(k) + 1)
    BY InCalendar, Ends DEF Holds
  <1>2. Periods!MonthOf(Start(k) + 1) = k
    BY <1>1, MonthIs
  <1> QED BY <1>1, <1>2 DEF Periods!Number, Start

LEMMA MonthStartIs ==
  ASSUME Periods!PeriodAssumption, NEW n \in 1..Periods!LastDay
  PROVE  Periods!MonthStart(n) = Start(Periods!MonthOf(n)) + 1
  BY MonthOfDay, FirstOfMonth DEF Periods!MonthStart

LEMMA YearStartIs ==
  ASSUME Periods!PeriodAssumption, NEW n \in 1..Periods!LastDay
  PROVE  /\ 12 * Periods!Day(n).y \in Months /\ Periods!YearStart(n) = Start(12 * Periods!Day(n).y) + 1
         /\ Periods!Day(n).y \in Nat /\ Periods!Day(n).m \in 1..12 /\ Periods!MonthOf(n) = 12 * Periods!Day(n).y + Periods!Day(n).m - 1
  <1>1. Periods!MonthOf(n) \in Months /\ Periods!Day(n).y = Periods!MonthOf(n) \div 12 /\ Periods!Day(n).m = (Periods!MonthOf(n) % 12) + 1
    BY MonthOfDay
  <1>2. Periods!MonthOf(n) \in Nat /\ 12 * FirstYear <= Periods!MonthOf(n) /\ Periods!MonthOf(n) <= 12 * LastYear + 11
    BY <1>1, InCalendar
  <1> DEFINE k == Periods!MonthOf(n)  y == Periods!Day(n).y
  <1> HIDE DEF k, y
  <1>3. /\ y \in Nat /\ 12 * y \in Nat /\ 12 * FirstYear <= 12 * y /\ 12 * y <= 12 * LastYear + 11
        /\ Periods!Day(n).m \in 1..12 /\ k = 12 * y + Periods!Day(n).m - 1
    <2>1. k \div 12 \in Nat /\ k % 12 \in 0..11 /\ k = 12 * (k \div 12) + (k % 12)
      BY <1>2, YearAndMonth DEF k
    <2> QED BY <1>1, <1>2, <2>1, Ends DEF k, y
  <1>4. 12 * y \in Months
    BY <1>3, Ends DEF Months
  <1>5. (12 * y) \div 12 = y /\ (12 * y) % 12 = 0
    BY <1>3
  <1>6. Periods!Number(y, 1, 1) = Start(12 * y) + 1
    BY <1>5 DEF Periods!Number, Start
  <1> QED BY <1>3, <1>4, <1>6 DEF y, k, Periods!YearStart

(* Any month of the same year by its number.                                  *)
LEMMA MonthOfYear ==
  ASSUME Periods!PeriodAssumption, NEW n \in 1..Periods!LastDay, NEW m \in 1..12
  PROVE  /\ 12 * Periods!Day(n).y + m - 1 \in Months
         /\ Periods!Number(Periods!Day(n).y, m, 1) = Start(12 * Periods!Day(n).y + m - 1) + 1
  <1> DEFINE y == Periods!Day(n).y
  <1>1. y \in Nat /\ 12 * y \in Months
    BY YearStartIs
  <1>2. (12 * y + m - 1) \div 12 = y /\ ((12 * y + m - 1) % 12) + 1 = m /\ 12 * y + m - 1 \in Nat
    <2> HIDE DEF y
    <2> QED BY <1>1, MonthNumber
  <1>3. y <= LastYear /\ FirstYear <= y
    <2> HIDE DEF y
    <2> QED BY <1>1, Ends DEF Months
  <1>4. 12 * y + m - 1 \in Months
    <2> HIDE DEF y
    <2> QED BY <1>1, <1>2, <1>3, Ends DEF Months
  <1> QED BY <1>2, <1>4 DEF Periods!Number, Start

LEMMA MinOfTwo ==
  ASSUME NEW a \in Int, NEW b \in Int
  PROVE  Periods!Min({a, b}) = IF a <= b THEN a ELSE b
  BY DEF Periods!Min

LEMMA MonthsBackIs ==
  ASSUME Periods!PeriodAssumption, NEW n \in 1..Periods!LastDay, NEW j \in Nat, Periods!MonthOf(n) - j \in Months
  PROVE  LET a == Periods!MonthOf(n) - j  d == n - Start(Periods!MonthOf(n)) IN
         /\ Periods!MonthsBack(n, j) = Start(a) + (IF d <= Days(a) THEN d ELSE Days(a))
         /\ d \in 1..Days(Periods!MonthOf(n))
         /\ Holds(a, Periods!MonthsBack(n, j)) /\ Periods!MonthsBack(n, j) \in 1..Periods!LastDay
         /\ Periods!MonthOf(Periods!MonthsBack(n, j)) = a
  <1> DEFINE k == Periods!MonthOf(n)  a == Periods!MonthOf(n) - j  d == n - Start(Periods!MonthOf(n))
  <1>1. k \in Months /\ Holds(k, n) /\ Periods!Day(n).d = d /\ Periods!Day(n).y * 12 + Periods!Day(n).m - 1 = k
    BY MonthOfDay DEF Periods!MonthOf
  <1>2. k \in Nat /\ Start(k) \in Nat /\ Days(k) \in 28..31
    <2> HIDE DEF k
    <2> QED BY <1>1, InCalendar
  <1>3. a \in Nat /\ Start(a) \in Nat /\ Days(a) \in 28..31 /\ Start(a) + Days(a) <= Periods!LastDay
    <2>1. a \in Months
      OBVIOUS
    <2> HIDE DEF a
    <2> QED BY <2>1, InCalendar
  <1>4. d \in 1..Days(k)
    <2> HIDE DEF k
    <2> QED BY <1>1, <1>2 DEF Holds, k
  <1>5. Periods!MonthsBack(n, j) = Start(a) + Periods!Min({d, Days(a)})
    <2>1. Periods!MonthsBack(n, j) = Periods!Number(a \div 12, (a % 12) + 1, Periods!Min({Periods!Day(n).d, Periods!MonthDays(a \div 12, (a % 12) + 1)}))
      <3> DEFINE b == Periods!Day(n).y * 12 + Periods!Day(n).m - 1 - j
      <3>1. Periods!MonthsBack(n, j) = Periods!Number(b \div 12, (b % 12) + 1, Periods!Min({Periods!Day(n).d, Periods!MonthDays(b \div 12, (b % 12) + 1)}))
        BY DEF Periods!MonthsBack
      <3>2. a = b
        <4>1. Periods!Day(n).y \in Nat /\ Periods!Day(n).m \in 1..12
          BY YearStartIs
        <4> QED BY <1>1, <1>2, <4>1
      <3> HIDE DEF a, b
      <3> QED BY <3>1, <3>2
    <2> HIDE DEF a, d, k
    <2> QED BY <2>1, <1>1 DEF Periods!Number, Start, Days
  <1>6. Periods!MonthsBack(n, j) = Start(a) + (IF d <= Days(a) THEN d ELSE Days(a))
    <2>1. d \in Int /\ Days(a) \in Int
      <3> HIDE DEF a, d, k
      <3> QED BY <1>2, <1>3, <1>4
    <2>2. Periods!Min({d, Days(a)}) = IF d <= Days(a) THEN d ELSE Days(a)
      <3> HIDE DEF a, d
      <3> QED BY <2>1, MinOfTwo
    <2> HIDE DEF a, d
    <2> QED BY <1>5, <2>2
  <1>7. Holds(a, Periods!MonthsBack(n, j)) /\ Periods!MonthsBack(n, j) \in 1..Periods!LastDay
    <2> HIDE DEF a, d, k
    <2> QED BY <1>2, <1>3, <1>4, <1>6, Ends DEF Holds
  <1>8. Periods!MonthOf(Periods!MonthsBack(n, j)) = a
    <2>1. a \in Months
      OBVIOUS
    <2> HIDE DEF a
    <2> QED BY <2>1, <1>7, MonthIs
  <1> QED BY <1>4, <1>6, <1>7, <1>8

(* Days in order have their months in order.                                  *)
LEMMA MonthsInOrder ==
  ASSUME Periods!PeriodAssumption, NEW n \in 1..Periods!LastDay, NEW p \in 1..Periods!LastDay, n <= p
  PROVE  Periods!MonthOf(n) <= Periods!MonthOf(p)
  <1>1. /\ Periods!MonthOf(n) \in Months /\ Holds(Periods!MonthOf(n), n)
        /\ Periods!MonthOf(p) \in Months /\ Holds(Periods!MonthOf(p), p)
    BY MonthOfDay
  <1> DEFINE j == Periods!MonthOf(n)  k == Periods!MonthOf(p)
  <1> HIDE DEF j, k
  <1>2. /\ j \in Nat /\ 12 * FirstYear <= j /\ Start(j) \in Nat /\ Days(j) \in Nat
        /\ k \in Nat /\ 12 * FirstYear <= k /\ Start(k) \in Nat /\ Days(k) \in Nat
    BY <1>1, InCalendar DEF j, k
  <1>3. ~ (k < j)
    <2> SUFFICES ASSUME k < j PROVE FALSE
      OBVIOUS
    <2>1. Start(k) + Days(k) <= Start(j)
      BY <1>2, Ends, StartsInOrder
    <2> QED BY <1>1, <1>2, <2>1 DEF j, k, Holds
  <1> QED BY <1>2, <1>3 DEF j, k
-----------------------------------------------------------------------------
(* The days a report is asked on: a year of history lies before them.         *)
Reported == (Periods!YearDays(FirstYear) + 1)..Periods!LastDay

LEMMA YearOfHistory ==
  ASSUME Periods!PeriodAssumption, NEW n \in Reported
  PROVE  /\ n \in 1..Periods!LastDay /\ n > 365
         /\ \A j \in 0..12 : Periods!MonthOf(n) - j \in Months
  <1>1. Periods!YearDays(FirstYear) \in {365, 366} /\ Periods!LastDay \in Nat
    BY Ends DEF Periods!YearDays
  <1>2. n \in 1..Periods!LastDay /\ n > 365
    BY <1>1 DEF Reported
  <1>3. Periods!MonthOf(n) \in Months /\ Holds(Periods!MonthOf(n), n)
    BY <1>2, MonthOfDay
  <1> DEFINE k == Periods!MonthOf(n)
  <1> HIDE DEF k
  <1>4. k \in Nat /\ 12 * FirstYear <= k /\ k <= 12 * LastYear + 11 /\ Start(k) \in Nat /\ Days(k) \in Nat
    BY <1>3, InCalendar DEF k
  <1>5. ~ (k < 12 * FirstYear + 12)
    <2> SUFFICES ASSUME k < 12 * FirstYear + 12 PROVE FALSE
      OBVIOUS
    <2>1. 12 * FirstYear + 12 \in Nat
      BY Ends
    <2>2. Start(k) + Days(k) <= Start(12 * FirstYear + 12)
      BY <1>4, <2>1, Ends, StartsInOrder
    <2>3. n <= Start(k) + Days(k) /\ n > Periods!YearDays(FirstYear)
      BY <1>1, <1>3 DEF Holds, k, Reported
    <2>4. Periods!YearDays(FirstYear) = Start(12 * FirstYear + 12)
      BY Ends
    <2> QED BY <1>1, <1>2, <1>4, <2>2, <2>3, <2>4
  <1>6. \A j \in 0..12 : k - j \in Months
    BY <1>4, <1>5, Ends DEF Months
  <1> QED BY <1>2, <1>6 DEF k

(* The beginnings of the calendar periods, as months.                         *)
LEMMA StartsOfPeriods ==
  ASSUME Periods!PeriodAssumption, NEW n \in Reported
  PROVE  LET k == Periods!MonthOf(n)  y == Periods!Day(n).y  m == Periods!Day(n).m IN
         /\ k \in Months /\ Holds(k, n) /\ k = 12 * y + m - 1 /\ m \in 1..12 /\ y \in Nat
         /\ Periods!MonthStart(n) = Start(k) + 1
         /\ \E q \in Months : Periods!QuarterStart(n) = Start(q) + 1 /\ q = 12 * y + ((m - 1) \div 3) * 3
         /\ \E h \in Months : Periods!HalfStart(n) = Start(h) + 1 /\ h = 12 * y + (IF m <= 6 THEN 0 ELSE 6)
         /\ 12 * y \in Months /\ Periods!YearStart(n) = Start(12 * y) + 1
  <1> DEFINE k == Periods!MonthOf(n)  y == Periods!Day(n).y  m == Periods!Day(n).m
  <1>1. n \in 1..Periods!LastDay
    BY YearOfHistory
  <1>2. k \in Months /\ Holds(k, n)
    BY <1>1, MonthOfDay
  <1>3. k = 12 * y + m - 1 /\ m \in 1..12 /\ y \in Nat /\ 12 * y \in Months /\ Periods!YearStart(n) = Start(12 * y) + 1
    BY <1>1, YearStartIs
  <1>4. Periods!MonthStart(n) = Start(k) + 1
    BY <1>1, MonthStartIs
  <1>5. \E q \in Months : Periods!QuarterStart(n) = Start(q) + 1 /\ q = 12 * y + ((m - 1) \div 3) * 3
    <2> DEFINE j == ((m - 1) \div 3) * 3 + 1
    <2>1. j \in 1..12
      BY <1>3
    <2>2. 12 * Periods!Day(n).y + j - 1 \in Months /\ Periods!Number(Periods!Day(n).y, j, 1) = Start(12 * Periods!Day(n).y + j - 1) + 1
      <3> HIDE DEF j
      <3> QED BY <1>1, <2>1, MonthOfYear
    <2>3. Periods!QuarterStart(n) = Periods!Number(Periods!Day(n).y, j, 1)
      BY DEF Periods!QuarterStart
    <2>4. 12 * y + j - 1 = 12 * y + ((m - 1) \div 3) * 3
      BY <1>3
    <2> QED BY <2>2, <2>3, <2>4
  <1>6. \E h \in Months : Periods!HalfStart(n) = Start(h) + 1 /\ h = 12 * y + (IF m <= 6 THEN 0 ELSE 6)
    <2> DEFINE j == IF m <= 6 THEN 1 ELSE 7
    <2>1. j \in 1..12
      OBVIOUS
    <2>2. 12 * Periods!Day(n).y + j - 1 \in Months /\ Periods!Number(Periods!Day(n).y, j, 1) = Start(12 * Periods!Day(n).y + j - 1) + 1
      <3> HIDE DEF j
      <3> QED BY <1>1, <2>1, MonthOfYear
    <2>3. Periods!HalfStart(n) = Periods!Number(Periods!Day(n).y, j, 1)
      BY DEF Periods!HalfStart
    <2>4. 12 * y + j - 1 = 12 * y + (IF m <= 6 THEN 0 ELSE 6)
      BY <1>3
    <2> QED BY <2>2, <2>3, <2>4
  <1> QED BY <1>2, <1>3, <1>4, <1>5, <1>6

LEMMA WeekIs ==
  ASSUME Periods!PeriodAssumption, NEW n \in Nat
  PROVE  Periods!Weekday(n) \in 0..6 /\ Periods!Weekday(n - Periods!Weekday(n)) = 0
  <1>1. FirstWeekday \in 0..6
    BY DEF Periods!PeriodAssumption
  <1> DEFINE w == FirstWeekday + n - 1
  <1>2. w \in Int /\ w % 7 \in 0..6 /\ (w - (w % 7)) % 7 = 0
    BY <1>1
  <1>3. FirstWeekday + (n - (w % 7)) - 1 = w - (w % 7)
    BY <1>1, <1>2
  <1> QED BY <1>2, <1>3 DEF Periods!Weekday

(* The cards nest: year, quarter and month, and the wider windows.            *)
LEMMA Nested ==
  ASSUME Periods!PeriodAssumption, NEW n \in Reported
  PROVE  /\ {Periods!YearStart(n), Periods!HalfStart(n), Periods!QuarterStart(n), Periods!MonthStart(n), Periods!MonthsBack(n, 6), n - Periods!Weekday(n)} \subseteq 1..n
         /\ Periods!YearStart(n) <= Periods!HalfStart(n) /\ Periods!HalfStart(n) <= Periods!QuarterStart(n) /\ Periods!QuarterStart(n) <= Periods!MonthStart(n)
         /\ Periods!MonthsBack(n, 6) <= Periods!QuarterStart(n) /\ n - Periods!Weekday(n) \in (n - 6)..n
  <1> DEFINE k == Periods!MonthOf(n)  y == Periods!Day(n).y  m == Periods!Day(n).m
  <1>1. n \in 1..Periods!LastDay /\ n > 365 /\ \A j \in 0..12 : Periods!MonthOf(n) - j \in Months
    BY YearOfHistory
  <1>2. /\ k \in Months /\ Holds(k, n) /\ k = 12 * y + m - 1 /\ m \in 1..12 /\ y \in Nat
        /\ Periods!MonthStart(n) = Start(k) + 1
        /\ \E q \in Months : Periods!QuarterStart(n) = Start(q) + 1 /\ q = 12 * y + ((m - 1) \div 3) * 3
        /\ \E h \in Months : Periods!HalfStart(n) = Start(h) + 1 /\ h = 12 * y + (IF m <= 6 THEN 0 ELSE 6)
        /\ 12 * y \in Months /\ Periods!YearStart(n) = Start(12 * y) + 1
    BY StartsOfPeriods
  <1>3. PICK q \in Months : Periods!QuarterStart(n) = Start(q) + 1 /\ q = 12 * y + ((m - 1) \div 3) * 3
    BY <1>2
  <1>4. PICK h \in Months : Periods!HalfStart(n) = Start(h) + 1 /\ h = 12 * y + (IF m <= 6 THEN 0 ELSE 6)
    BY <1>2
  <1> HIDE DEF k, y, m
  <1>5. 12 * y <= h /\ h <= q /\ q <= k /\ k <= q + 2
    BY <1>2, <1>3, <1>4
  <1>6. \A i, j \in Months : i <= j => Start(i) <= Start(j)
    BY InCalendar, Ends, StartsMonotone
  <1>7. \A i \in Months : Start(i) \in Nat /\ i \in Nat
    BY InCalendar
  <1>8. Start(12 * y) <= Start(h) /\ Start(h) <= Start(q) /\ Start(q) <= Start(k) /\ Start(k) < n
    BY <1>2, <1>5, <1>6 DEF Holds
  <1>9. k - 6 \in Months /\ (k - 6) + 1 <= q /\ (k - 6) + 1 \in Months
    <2>1. k - 6 \in Months /\ k - 5 \in Months
      BY <1>1 DEF k
    <2> QED BY <1>5, <1>7, <2>1, <1>3, <1>2
  <1>10. Periods!MonthsBack(n, 6) \in 1..Periods!LastDay /\ Holds(k - 6, Periods!MonthsBack(n, 6))
    BY <1>1, <1>9, MonthsBackIs DEF k
  <1>11. Periods!MonthsBack(n, 6) <= Start(q)
    <2>1. Start((k - 6) + 1) = Start(k - 6) + Days(k - 6) /\ Days(k - 6) \in Nat
      BY <1>9, InCalendar
    <2>2. Start((k - 6) + 1) <= Start(q)
      BY <1>9, <1>6, <1>3
    <2>3. Periods!MonthsBack(n, 6) <= Start(k - 6) + Days(k - 6)
      BY <1>10 DEF Holds
    <2>4. Start(k - 6) + Days(k - 6) <= Start(q)
      BY <2>1, <2>2, Zenon
    <2>5. Start(k - 6) \in Nat /\ Days(k - 6) \in Nat /\ Start(q) \in Nat /\ Periods!MonthsBack(n, 6) \in Nat
      <3>1. Start(k - 6) \in Nat
        BY <1>7, <1>9, Zenon
      <3>2. Start(q) \in Nat
        BY <1>7, <1>3, Zenon
      <3>3. Periods!MonthsBack(n, 6) \in Nat
        BY <1>10, Ends
      <3> QED BY <2>1, <3>1, <3>2, <3>3
    <2> QED BY <2>3, <2>4, <2>5
  <1>12. Periods!Weekday(n) \in 0..6
    BY <1>1, WeekIs
  <1>13. n - Periods!Weekday(n) \in (n - 6)..n /\ n - Periods!Weekday(n) \in 1..n
    BY <1>1, <1>12
  <1>14. /\ Start(k) + 1 \in 1..n /\ Start(q) + 1 \in 1..n /\ Start(h) + 1 \in 1..n /\ Start(12 * y) + 1 \in 1..n
         /\ Periods!MonthsBack(n, 6) \in 1..n /\ Periods!MonthsBack(n, 6) <= Start(q) + 1
    BY <1>1, <1>2, <1>3, <1>4, <1>7, <1>8, <1>10, <1>11
  <1>15. Start(12 * y) + 1 <= Start(h) + 1 /\ Start(h) + 1 <= Start(q) + 1 /\ Start(q) + 1 <= Start(k) + 1
    BY <1>2, <1>3, <1>4, <1>7, <1>8
  <1> QED BY <1>2, <1>3, <1>4, <1>13, <1>14, <1>15

LEMMA PeriodsAre ==
  ASSUME Periods!PeriodAssumption, NEW n \in Reported, NEW p \in Periods!Periods \ {"custom"}
  PROVE  Periods!FromTo(p, n)[1] \in 1..Periods!LastDay /\ Periods!FromTo(p, n)[2] \in 1..Periods!LastDay /\ Periods!FromTo(p, n)[1] <= Periods!FromTo(p, n)[2]
  <1>1. n \in 1..Periods!LastDay /\ n > 365 /\ Periods!LastDay \in Nat
    BY YearOfHistory, Ends
  <1>2. {Periods!YearStart(n), Periods!HalfStart(n), Periods!QuarterStart(n), Periods!MonthStart(n), Periods!MonthsBack(n, 6), n - Periods!Weekday(n)} \subseteq 1..n
    BY Nested
  <1>3. \A f \in 1..n : f \in 1..Periods!LastDay /\ f <= n
    BY <1>1
  <1>4. n \in 1..n /\ n - 1 \in 1..n
    BY <1>1
  <1>5. CASE p = "yesterday"
    <2>1. Periods!FromTo(p, n)[1] = n - 1 /\ Periods!FromTo(p, n)[2] = n - 1
      BY <1>5 DEF Periods!FromTo
    <2> QED BY <2>1, <1>1
  <1>6. CASE p # "yesterday"
    <2>1. Periods!FromTo(p, n)[2] = n /\ Periods!FromTo(p, n)[1] \in {n, n - Periods!Weekday(n), Periods!MonthStart(n), Periods!QuarterStart(n), Periods!MonthsBack(n, 6), Periods!HalfStart(n), Periods!YearStart(n)}
      <3>1. CASE p = "today"
        BY <3>1 DEF Periods!FromTo
      <3>2. CASE p = "week"
        BY <3>2 DEF Periods!FromTo
      <3>3. CASE p = "month"
        BY <3>3 DEF Periods!FromTo
      <3>4. CASE p = "quarter"
        BY <3>4 DEF Periods!FromTo
      <3>5. CASE p = "half_year"
        BY <3>5 DEF Periods!FromTo
      <3>6. CASE p = "target_half"
        BY <3>6 DEF Periods!FromTo
      <3>7. CASE p = "year"
        BY <3>7 DEF Periods!FromTo
      <3> QED BY <1>6, <3>1, <3>2, <3>3, <3>4, <3>5, <3>6, <3>7 DEF Periods!Periods
    <2>2. Periods!FromTo(p, n)[1] \in 1..n
      BY <2>1, <1>2, <1>4
    <2> QED BY <2>1, <2>2, <1>1, <1>3
  <1> QED BY <1>5, <1>6
-----------------------------------------------------------------------------
(* The inductive invariant: a report is on the screen on a day that has a     *)
(* year of history, and its range is the right way round.                     *)
Shown(r) ==
  /\ r.period \in Periods!Periods /\ r.from \in 1..Periods!LastDay /\ r.to \in 1..Periods!LastDay /\ r.from <= r.to
PeriodInv == date \in Reported /\ (report = <<>> \/ Shown(report))

LEMMA PeriodStart ==
  ASSUME Periods!PeriodAssumption, Periods!Init
  PROVE  PeriodInv
  <1>1. Periods!YearDays(FirstYear) \in Nat /\ Periods!LastDay \in Nat
    BY Ends DEF Periods!YearDays
  <1>2. Periods!YearDays(FirstYear) < Periods!LastDay
    <2>1. 12 * FirstYear + 12 \in Months
      BY Ends DEF Months
    <2>2. Start(12 * FirstYear + 12) + Days(12 * FirstYear + 12) <= Periods!LastDay /\ Days(12 * FirstYear + 12) \in 28..31
      BY <2>1, InCalendar
    <2> QED BY <2>2, <1>1, Ends
  <1> QED BY <1>1, <1>2 DEF Periods!Init, PeriodInv, Reported

LEMMA PeriodKept ==
  ASSUME Periods!PeriodAssumption, PeriodInv, [Periods!Next]_periodVars
  PROVE  PeriodInv'
  <1>1. CASE Periods!Ask
    <2>1. PICK p \in Periods!Periods \ {"custom"} :
            report' = [period |-> p, from |-> Periods!FromTo(p, date)[1], to |-> Periods!FromTo(p, date)[2]] /\ date' = date
      BY <1>1 DEF Periods!Ask
    <2>2. Periods!FromTo(p, date)[1] \in 1..Periods!LastDay /\ Periods!FromTo(p, date)[2] \in 1..Periods!LastDay /\ Periods!FromTo(p, date)[1] <= Periods!FromTo(p, date)[2]
      BY PeriodsAre DEF PeriodInv
    <2>3. Shown(report')
      BY <2>1, <2>2 DEF Shown
    <2> QED BY <2>1, <2>3 DEF PeriodInv, Shown
  <1>2. CASE Periods!AskCustom
    <2>1. PICK a \in Edges, b \in Edges :
            a <= b /\ report' = [period |-> "custom", from |-> a, to |-> b] /\ date' = date
      BY <1>2 DEF Periods!AskCustom
    <2>2. a \in 1..Periods!LastDay /\ b \in 1..Periods!LastDay
      BY DEF Periods!PeriodAssumption
    <2>3. Shown(report')
      BY <2>1, <2>2 DEF Shown, Periods!Periods
    <2> QED BY <2>1, <2>3 DEF PeriodInv, Shown
  <1>3. CASE Periods!Midnight
    <2>1. Periods!YearDays(FirstYear) \in Nat /\ Periods!LastDay \in Nat
      BY Ends DEF Periods!YearDays
    <2> QED BY <1>3, <2>1 DEF Periods!Midnight, PeriodInv, Reported
  <1>4. CASE UNCHANGED periodVars
    BY <1>4 DEF periodVars, PeriodInv, Shown
  <1> QED BY <1>1, <1>2, <1>3, <1>4 DEF Periods!Next

LEMMA PeriodTypes ==
  ASSUME Periods!PeriodAssumption, PeriodInv
  PROVE  Periods!TypeOK
  BY YearOfHistory DEF PeriodInv, Shown, Periods!TypeOK

-----------------------------------------------------------------------------
LEMMA CardsNest ==
  ASSUME Periods!PeriodAssumption, PeriodInv
  PROVE  Periods!CardsNested
  <1> DEFINE n == date
  <1>1. n \in Reported
    BY DEF PeriodInv
  <1>2. n \in Nat
    BY <1>1, YearOfHistory
  <1>3. /\ Periods!FromTo("year", n)[1] = Periods!YearStart(n) /\ Periods!FromTo("quarter", n)[1] = Periods!QuarterStart(n)
        /\ Periods!FromTo("month", n)[1] = Periods!MonthStart(n) /\ Periods!FromTo("half_year", n)[1] = Periods!MonthsBack(n, 6)
        /\ Periods!FromTo("week", n)[1] = n - Periods!Weekday(n) /\ Periods!FromTo("target_half", n)[1] = Periods!HalfStart(n)
    BY DEF Periods!FromTo
  <1>4. /\ Periods!YearStart(n) <= Periods!HalfStart(n) /\ Periods!HalfStart(n) <= Periods!QuarterStart(n) /\ Periods!QuarterStart(n) <= Periods!MonthStart(n)
        /\ Periods!MonthsBack(n, 6) <= Periods!QuarterStart(n) /\ n - Periods!Weekday(n) \in (n - 6)..n
        /\ Periods!YearStart(n) \in 1..n /\ Periods!HalfStart(n) \in 1..n /\ Periods!QuarterStart(n) \in 1..n /\ Periods!MonthStart(n) \in 1..n
    BY <1>1, Nested
  <1>5. Periods!YearStart(n) <= Periods!QuarterStart(n) /\ Periods!MonthStart(n) <= n
    <2> HIDE DEF n
    <2> QED BY <1>2, <1>4
  <1>6. Periods!Weekday(n - Periods!Weekday(n)) = 0
    BY <1>2, WeekIs
  <1> HIDE DEF n
  <1>7. Periods!CardsNested <=>
          LET from(p) == Periods!FromTo(p, n)[1] IN
          /\ from("year") <= from("quarter") /\ from("quarter") <= from("month") /\ from("month") <= n
          /\ from("half_year") <= from("quarter") /\ from("week") \in (n - 6)..n /\ Periods!Weekday(from("week")) = 0
          /\ from("year") <= from("target_half") /\ from("target_half") <= from("quarter")
    BY DEF Periods!CardsNested, n
  <1> QED BY <1>3, <1>4, <1>5, <1>6, <1>7

LEMMA SixBack ==
  ASSUME Periods!PeriodAssumption, NEW n \in Reported
  PROVE  LET k == Periods!MonthOf(n) IN
         /\ k \in Months /\ k - 6 \in Months /\ n \in 1..Periods!LastDay
         /\ Start(k) \in Nat /\ Start(k - 6) \in Nat /\ Days(k - 6) \in Nat /\ k \in Nat
         /\ Periods!MonthsBack(n, 6) = Start(k - 6) + (IF n - Start(k) <= Days(k - 6) THEN n - Start(k) ELSE Days(k - 6))
         /\ Periods!MonthsBack(n, 6) \in 1..Periods!LastDay /\ Periods!MonthOf(Periods!MonthsBack(n, 6)) = k - 6
  <1>1. n \in 1..Periods!LastDay /\ Periods!MonthOf(n) \in Months /\ Periods!MonthOf(n) - 6 \in Months
    BY YearOfHistory, MonthOfDay
  <1>2. /\ Periods!MonthsBack(n, 6) = Start(Periods!MonthOf(n) - 6)
             + (IF n - Start(Periods!MonthOf(n)) <= Days(Periods!MonthOf(n) - 6) THEN n - Start(Periods!MonthOf(n)) ELSE Days(Periods!MonthOf(n) - 6))
        /\ Periods!MonthsBack(n, 6) \in 1..Periods!LastDay /\ Periods!MonthOf(Periods!MonthsBack(n, 6)) = Periods!MonthOf(n) - 6
    BY <1>1, MonthsBackIs
  <1> QED BY <1>1, <1>2, InCalendar

LEMMA NextWindow ==
  ASSUME Periods!PeriodAssumption, NEW n \in Reported, NEW p \in Reported, p = n + 1
  PROVE  Periods!MonthsBack(n, 6) <= Periods!MonthsBack(p, 6)
  <1> DEFINE k == Periods!MonthOf(n)  j == Periods!MonthOf(p)
  <1>1. /\ k \in Months /\ n \in 1..Periods!LastDay /\ Start(k) \in Nat /\ Start(k - 6) \in Nat /\ Days(k - 6) \in Nat /\ k \in Nat
        /\ Periods!MonthsBack(n, 6) = Start(k - 6) + (IF n - Start(k) <= Days(k - 6) THEN n - Start(k) ELSE Days(k - 6))
        /\ Periods!MonthsBack(n, 6) \in 1..Periods!LastDay /\ Periods!MonthOf(Periods!MonthsBack(n, 6)) = k - 6
    BY SixBack
  <1>2. /\ j \in Months /\ p \in 1..Periods!LastDay /\ j \in Nat
        /\ Periods!MonthsBack(p, 6) = Start(j - 6) + (IF p - Start(j) <= Days(j - 6) THEN p - Start(j) ELSE Days(j - 6))
        /\ Periods!MonthsBack(p, 6) \in 1..Periods!LastDay /\ Periods!MonthOf(Periods!MonthsBack(p, 6)) = j - 6
    BY SixBack
  <1>3. Periods!LastDay \in Nat
    BY Ends
  <1>4. k <= j
    BY <1>1, <1>2, <1>3, MonthsInOrder
  <1> HIDE DEF k, j
  <1>5. CASE k = j
    BY <1>5, <1>1, <1>2, <1>3
  <1>6. CASE k < j
    <2> SUFFICES ASSUME Periods!MonthsBack(p, 6) <= Periods!MonthsBack(n, 6) PROVE FALSE
      BY <1>1, <1>2, <1>3
    <2>1. Periods!MonthOf(Periods!MonthsBack(p, 6)) <= Periods!MonthOf(Periods!MonthsBack(n, 6))
      BY <1>1, <1>2, MonthsInOrder
    <2> QED BY <2>1, <1>1, <1>2, <1>6
  <1> QED BY <1>1, <1>2, <1>4, <1>5, <1>6

LEMMA WindowSlides ==
  ASSUME Periods!PeriodAssumption, PeriodInv, PeriodInv'
  PROVE  Periods!SlidesOn
  <1>1. date \in Reported /\ date' \in Reported
    BY DEF PeriodInv
  <1>2. \A n, p \in Reported : p = n + 1 => Periods!MonthsBack(n, 6) <= Periods!MonthsBack(p, 6)
    BY NextWindow
  <1> QED BY <1>1, <1>2 DEF Periods!SlidesOn

LEMMA TrendIs ==
  ASSUME Periods!PeriodAssumption, PeriodInv
  PROVE  Periods!TwelveMonths
  <1> DEFINE n == date  k == Periods!MonthOf(n)
  <1>1. n \in Reported
    BY DEF PeriodInv
  <1>2. n \in 1..Periods!LastDay /\ k - 11 \in Months /\ k - 6 \in Months
    BY <1>1, YearOfHistory
  <1>3. /\ k \in Months /\ k = 12 * Periods!Day(n).y + Periods!Day(n).m - 1 /\ Periods!Day(n).m \in 1..12 /\ Periods!Day(n).y \in Nat
        /\ Periods!MonthStart(n) = Start(k) + 1 /\ 12 * Periods!Day(n).y \in Months /\ Periods!YearStart(n) = Start(12 * Periods!Day(n).y) + 1
    BY <1>1, StartsOfPeriods
  <1>4. Periods!MonthStart(n) \in 1..Periods!LastDay /\ Periods!MonthOf(Periods!MonthStart(n)) = k
    BY <1>3, FirstOfMonth
  <1>5. k - 11 \in Nat /\ Start(k - 11) \in Nat /\ Days(k - 11) \in 28..31 /\ k \in Nat /\ Start(k) \in Nat
    <2> HIDE DEF k
    <2> QED BY <1>2, <1>3, InCalendar
  <1>6. Periods!TrendStart(n) = Start(k - 11) + 1 /\ Periods!MonthOf(Periods!TrendStart(n)) = k - 11
    <2>1. Periods!MonthOf(Periods!MonthStart(n)) - 11 \in Months
      BY <1>2, <1>4
    <2>2. /\ Periods!MonthsBack(Periods!MonthStart(n), 11) = Start(k - 11) + (IF Periods!MonthStart(n) - Start(k) <= Days(k - 11) THEN Periods!MonthStart(n) - Start(k) ELSE Days(k - 11))
          /\ Periods!MonthOf(Periods!MonthsBack(Periods!MonthStart(n), 11)) = k - 11
      BY <1>4, <2>1, MonthsBackIs
    <2>3. Periods!MonthStart(n) - Start(k) = 1 /\ 1 <= Days(k - 11)
      <3> HIDE DEF k
      <3> QED BY <1>3, <1>5
    <2> QED BY <2>2, <2>3 DEF Periods!TrendStart, Periods!TrendBack
  <1>7. Periods!MonthCount(Periods!TrendStart(n), n) = 12
    <2>1. Periods!MonthCount(Periods!TrendStart(n), n) = k - (k - 11) + 1
      BY <1>6 DEF Periods!MonthCount
    <2> HIDE DEF k
    <2> QED BY <2>1, <1>5
  <1>8. Periods!Trend(n) = [i \in 1..12 |-> (k - 11) + i - 1]
    BY <1>6, <1>7 DEF Periods!Trend, Periods!MonthsFrom
  <1>9. Len(Periods!Trend(n)) = 12 /\ Periods!Last(Periods!Trend(n)) = k
    <2> HIDE DEF k
    <2>1. Len(Periods!Trend(n)) = 12
      BY <1>8
    <2>2. Periods!Trend(n)[12] = k
      BY <1>8, <1>5
    <2> QED BY <2>1, <2>2 DEF Periods!Last
  <1>10. \A i, j \in Months : i <= j => Start(i) <= Start(j)
    BY InCalendar, Ends, StartsMonotone
  <1>11. Periods!TrendStart(n) <= Periods!YearStart(n)
    <2>1. k - 11 <= 12 * Periods!Day(n).y
      <3> HIDE DEF k
      <3> QED BY <1>3
    <2>2. Start(k - 11) <= Start(12 * Periods!Day(n).y) /\ Start(12 * Periods!Day(n).y) \in Nat
      <3> HIDE DEF k
      <3> QED BY <2>1, <1>2, <1>3, <1>10, InCalendar
    <2> HIDE DEF k
    <2> QED BY <2>2, <1>3, <1>5, <1>6
  <1>12. Periods!TrendStart(n) <= Periods!MonthsBack(n, 6)
    <2>1. Holds(k - 6, Periods!MonthsBack(n, 6)) /\ Periods!MonthsBack(n, 6) \in 1..Periods!LastDay
      BY <1>2, MonthsBackIs
    <2>2. k - 11 <= k - 6
      <3> HIDE DEF k
      <3> QED BY <1>3, InCalendar
    <2>3. Start(k - 11) <= Start(k - 6) /\ Start(k - 6) \in Nat
      <3> HIDE DEF k
      <3> QED BY <2>2, <1>2, <1>10, InCalendar
    <2> HIDE DEF k
    <2> QED BY <2>1, <2>3, <1>5, <1>6, Ends DEF Holds
  <1> QED BY <1>9, <1>11, <1>12 DEF Periods!TwelveMonths

LEMMA MonthsAdd ==
  ASSUME Periods!PeriodAssumption, PeriodInv
  PROVE  Periods!MonthsAddUp
  <1> DEFINE n == date  k == Periods!MonthOf(n)  y == Periods!Day(n).y  m == Periods!Day(n).m
  <1>1. n \in Reported
    BY DEF PeriodInv
  <1>2. n \in 1..Periods!LastDay
    BY <1>1, YearOfHistory
  <1>3. /\ k \in Months /\ Holds(k, n) /\ k = 12 * y + m - 1 /\ m \in 1..12 /\ y \in Nat
        /\ 12 * y \in Months /\ Periods!YearStart(n) = Start(12 * y) + 1
    BY <1>1, StartsOfPeriods
  <1>4. Periods!MonthOf(Periods!YearStart(n)) = 12 * y
    BY <1>3, FirstOfMonth
  <1>5. Periods!MonthCount(Periods!YearStart(n), n) = m
    <2>1. Periods!MonthCount(Periods!YearStart(n), n) = k - 12 * y + 1
      BY <1>4 DEF Periods!MonthCount
    <2> HIDE DEF k, y, m
    <2> QED BY <2>1, <1>3
  <1>6. Len(Periods!MonthsFrom(Periods!MonthOf(Periods!YearStart(n)), Periods!MonthCount(Periods!YearStart(n), n))) = m
    <2>1. Periods!MonthsFrom(Periods!MonthOf(Periods!YearStart(n)), Periods!MonthCount(Periods!YearStart(n), n)) = [i \in 1..m |-> 12 * y + i - 1]
      BY <1>4, <1>5 DEF Periods!MonthsFrom
    <2> HIDE DEF y, m
    <2> QED BY <2>1, <1>3
  <1>7. Periods!MonthsLeft(n) + m = 13
    <2>1. Periods!MonthsLeft(n) = 13 - m
      BY DEF Periods!MonthsLeft
    <2> HIDE DEF m
    <2> QED BY <2>1, <1>3
  <1>8. Periods!ElapsedDays(n) \in 1..Periods!YearDays(y)
    <2>1. Periods!YearDays(y) = Start(12 * y + 12) - Start(12 * y) /\ Start(12 * y + 12) \in Nat
      <3> HIDE DEF k, y, m
      <3>1. FirstYear <= y /\ FirstYear \in Nat
        BY <1>3, Ends DEF Months
      <3> QED BY <1>3, <3>1, WholeYear
    <2>2. Start(12 * y) <= Start(k) /\ Start(k) + Days(k) <= Start(12 * y + 12)
      <3> HIDE DEF k, y, m
      <3>1. /\ 12 * y \in Nat /\ k \in Nat /\ 12 * y <= k /\ k < 12 * y + 12
            /\ 12 * FirstYear <= 12 * y /\ 12 * FirstYear <= k /\ 12 * y + 12 \in Nat
        BY <1>3, InCalendar
      <3> QED BY <3>1, Ends, StartsMonotone, StartsInOrder
    <2>3. Start(12 * y) \in Nat /\ Start(k) \in Nat /\ Days(k) \in Nat
      <3> HIDE DEF k, y, m
      <3> QED BY <1>3, InCalendar
    <2>4. Periods!ElapsedDays(n) = n - Start(12 * y)
      <3>1. Periods!ElapsedDays(n) = n - (Start(12 * y) + 1) + 1
        BY <1>3 DEF Periods!ElapsedDays
      <3> HIDE DEF y
      <3> QED BY <3>1, <2>3, <1>2
    <2> HIDE DEF k, y, m
    <2> QED BY <1>2, <1>3, <2>1, <2>2, <2>3, <2>4 DEF Holds
  <1> QED BY <1>6, <1>7, <1>8 DEF Periods!MonthsAddUp

(* A trend by days has every day of the report; one by months every month,    *)
(* from the first day's to the last day's.                                    *)
LEMMA SequenceOfRun ==
  ASSUME NEW a \in Int, NEW b \in Int, a <= b
  PROVE  LET s == [i \in 1..(b - a + 1) |-> a + i - 1] IN
         /\ Periods!Range(s) = a..b /\ \A i \in 1..(Len(s) - 1) : s[i] < s[i + 1]
  <1> DEFINE s == [i \in 1..(b - a + 1) |-> a + i - 1]
  <1>1. Len(s) = b - a + 1
    <2>1. b - a + 1 \in Nat
      OBVIOUS
    <2> QED BY <2>1
  <1>2. \A c \in a..b : c - a + 1 \in 1..(b - a + 1) /\ s[c - a + 1] = c
    OBVIOUS
  <1>3. \A i \in 1..(b - a + 1) : s[i] \in a..b
    OBVIOUS
  <1>4. Periods!Range(s) = a..b
    <2>1. Periods!Range(s) = {s[x] : x \in 1..(b - a + 1)}
      BY DEF Periods!Range
    <2> HIDE DEF s
    <2> QED BY <2>1, <1>2, <1>3
  <1>5. \A i \in 1..(Len(s) - 1) : s[i] < s[i + 1]
    BY <1>1
  <1> QED BY <1>4, <1>5

LEMMA MonthsBetween ==
  ASSUME Periods!PeriodAssumption, NEW f \in 1..Periods!LastDay, NEW t \in 1..Periods!LastDay, f <= t
  PROVE  {Periods!MonthOf(n) : n \in f..t} = Periods!MonthOf(f)..Periods!MonthOf(t)
  <1>1. Periods!LastDay \in Nat /\ \A n \in f..t : n \in 1..Periods!LastDay /\ f <= n /\ n <= t
    BY Ends
  <1>2. \A n \in 1..Periods!LastDay : Periods!MonthOf(n) \in Months /\ Holds(Periods!MonthOf(n), n)
    BY MonthOfDay
  <1>3. \A k \in Months : k \in Nat /\ Start(k) \in Nat /\ Days(k) \in Nat
    BY InCalendar
  <1>4. \A n \in f..t : Periods!MonthOf(n) \in Periods!MonthOf(f)..Periods!MonthOf(t)
    <2> TAKE n \in f..t
    <2>1. Periods!MonthOf(f) <= Periods!MonthOf(n) /\ Periods!MonthOf(n) <= Periods!MonthOf(t)
      BY <1>1, MonthsInOrder
    <2>2. Periods!MonthOf(f) \in Nat /\ Periods!MonthOf(n) \in Nat /\ Periods!MonthOf(t) \in Nat
      BY <1>1, <1>2, <1>3
    <2> QED BY <2>1, <2>2
  <1>5. \A k \in Periods!MonthOf(f)..Periods!MonthOf(t) : \E n \in f..t : Periods!MonthOf(n) = k
    <2> TAKE k \in Periods!MonthOf(f)..Periods!MonthOf(t)
    <2>1. Periods!MonthOf(f) \in Months /\ Periods!MonthOf(t) \in Months /\ Periods!MonthOf(f) \in Nat /\ Periods!MonthOf(t) \in Nat
      BY <1>2, <1>3
    <2>2. k \in Months /\ k \in Nat /\ Periods!MonthOf(f) <= k /\ k <= Periods!MonthOf(t)
      BY <2>1, Ends DEF Months
    <2>3. CASE k = Periods!MonthOf(f)
      BY <2>3, <1>1
    <2>4. CASE k # Periods!MonthOf(f)
      <3>1. Periods!MonthOf(Start(k) + 1) = k /\ Start(k) + 1 \in 1..Periods!LastDay
        BY <2>2, FirstOfMonth
      <3>2. Start(Periods!MonthOf(f)) + Days(Periods!MonthOf(f)) <= Start(k)
        <4>1. Periods!MonthOf(f) < k /\ 12 * FirstYear <= Periods!MonthOf(f)
          BY <2>1, <2>2, <2>4, InCalendar
        <4> QED BY <4>1, <2>1, <2>2, Ends, StartsInOrder
      <3>3. Start(k) <= Start(Periods!MonthOf(t))
        <4>1. 12 * FirstYear <= k
          BY <2>2, InCalendar
        <4> QED BY <4>1, <2>1, <2>2, Ends, StartsMonotone
      <3>4. f <= Start(Periods!MonthOf(f)) + Days(Periods!MonthOf(f)) /\ Start(Periods!MonthOf(t)) < t
        BY <1>2 DEF Holds
      <3>5. /\ Start(k) \in Nat /\ Start(Periods!MonthOf(t)) \in Nat
            /\ Start(Periods!MonthOf(f)) \in Nat /\ Days(Periods!MonthOf(f)) \in Nat
        BY <2>1, <2>2, <1>3
      <3>6. Start(k) + 1 \in f..t
        BY <3>2, <3>3, <3>4, <3>5
      <3> QED BY <3>1, <3>6
    <2> QED BY <2>3, <2>4
  <1> QED BY <1>4, <1>5

LEMMA BucketsPart ==
  ASSUME Periods!PeriodAssumption, PeriodInv
  PROVE  Periods!BucketsPartition
  <1> SUFFICES ASSUME report # <<>>
               PROVE  LET b == Periods!Buckets(report) IN
                      /\ Periods!Range(b) = {Periods!BucketOf(report, n) : n \in report.from..report.to}
                      /\ \A i \in 1..(Len(b) - 1) : b[i] < b[i + 1]
    BY DEF Periods!BucketsPartition
  <1> DEFINE f == report.from  t == report.to
  <1>1. f \in 1..Periods!LastDay /\ t \in 1..Periods!LastDay /\ f <= t /\ Periods!LastDay \in Nat
    BY Ends DEF PeriodInv, Shown
  <1>2. CASE Periods!ByMonth(report)
    <2>1. Periods!Buckets(report) = [i \in 1..(Periods!MonthOf(t) - Periods!MonthOf(f) + 1) |-> Periods!MonthOf(f) + i - 1]
      BY <1>2 DEF Periods!Buckets, Periods!MonthsFrom, Periods!MonthCount
    <2>2. Periods!MonthOf(f) \in Int /\ Periods!MonthOf(t) \in Int /\ Periods!MonthOf(f) <= Periods!MonthOf(t)
      <3>1. Periods!MonthOf(f) \in Months /\ Periods!MonthOf(t) \in Months
        BY <1>1, MonthOfDay
      <3>2. Periods!MonthOf(f) \in Nat /\ Periods!MonthOf(t) \in Nat
        BY <3>1, InCalendar
      <3>3. Periods!MonthOf(f) <= Periods!MonthOf(t)
        <4> HIDE DEF f, t
        <4> QED BY <1>1, MonthsInOrder
      <3> QED BY <3>2, <3>3
    <2>3. {Periods!BucketOf(report, n) : n \in f..t} = {Periods!MonthOf(n) : n \in f..t}
      BY <1>2 DEF Periods!BucketOf
    <2>4. {Periods!MonthOf(n) : n \in f..t} = Periods!MonthOf(f)..Periods!MonthOf(t)
      BY <1>1, MonthsBetween
    <2>5. /\ Periods!Range(Periods!Buckets(report)) = Periods!MonthOf(f)..Periods!MonthOf(t)
          /\ \A i \in 1..(Len(Periods!Buckets(report)) - 1) : Periods!Buckets(report)[i] < Periods!Buckets(report)[i + 1]
      BY <2>1, <2>2, SequenceOfRun
    <2> QED BY <2>3, <2>4, <2>5
  <1>3. CASE ~ Periods!ByMonth(report)
    <2>1. Periods!Buckets(report) = [i \in 1..(t - f + 1) |-> f + i - 1]
      BY <1>3 DEF Periods!Buckets
    <2>2. f \in Int /\ t \in Int
      BY <1>1
    <2>3. {Periods!BucketOf(report, n) : n \in f..t} = {n : n \in f..t}
      BY <1>3 DEF Periods!BucketOf
    <2>4. /\ Periods!Range(Periods!Buckets(report)) = f..t
          /\ \A i \in 1..(Len(Periods!Buckets(report)) - 1) : Periods!Buckets(report)[i] < Periods!Buckets(report)[i + 1]
      BY <1>1, <2>1, <2>2, SequenceOfRun
    <2> QED BY <2>3, <2>4
  <1> QED BY <1>2, <1>3

-----------------------------------------------------------------------------
LEMMA ReportsKept ==
  ASSUME Periods!PeriodAssumption, desk = "periods" => PeriodInv, [DeskNext]_deskVars
  PROVE  /\ desk' = "periods" => PeriodInv'
         /\ desk = "periods" => Periods!SlidesOn
         /\ desk' = desk
  <1>1. desk' = desk
    BY DEF DeskNext, SessionStep, PeriodStep, FigureStep, ReminderStep, ProductStep, SearchStep, ImportStep, deskVars
  <1>2. [Periods!Next]_periodVars
    BY DEF DeskNext, SessionStep, PeriodStep, FigureStep, ReminderStep, ProductStep, SearchStep, ImportStep, deskVars, periodVars
  <1>3. desk = "periods" => PeriodInv'
    BY <1>2, PeriodKept
  <1> QED BY <1>1, <1>3, WindowSlides

(* No day of a report is lost or counted twice, by buckets, cards or trends,  *)
(* and windows move only forward as days pass, over any stretch of years and  *)
(* whatever weekday it begins on.                                             *)
THEOREM ReportsAlwaysCountOnce == DeskSpec => ReportsCountOnce
  <1> DEFINE Inv == desk = "periods" => PeriodInv
             Slide == desk = "periods" => Periods!SlidesOn
             Counted == /\ Periods!TypeOK
                        /\ Periods!BucketsPartition
                        /\ Periods!CardsNested
                        /\ Periods!TwelveMonths
                        /\ Periods!MonthsAddUp
  <1>1. DeskInit => Inv
    BY ReportAssumption, PeriodStart DEF DeskInit
  <1>2. Inv /\ [DeskNext]_deskVars => Inv' /\ [Slide]_deskVars
    <2> SUFFICES ASSUME Inv, [DeskNext]_deskVars PROVE Inv' /\ [Slide]_deskVars
      OBVIOUS
    <2>1. (desk' = "periods" => PeriodInv') /\ (desk = "periods" => Periods!SlidesOn)
      BY ReportAssumption, ReportsKept
    <2> QED BY <2>1
  <1>3. Inv => (desk = "periods" => Counted)
    BY ReportAssumption, PeriodTypes, BucketsPart, CardsNest, TrendIs, MonthsAdd
  <1> QED BY <1>1, <1>2, <1>3, PTL DEF DeskSpec, ReportsCountOnce
-----------------------------------------------------------------------------
(* A set of numbers that holds 0 and, with a number below n, the next one     *)
(* holds all up to n: the only induction the proofs need.                     *)
LEMMA Climbing ==
  ASSUME NEW n \in Nat, NEW S, 0 \in S, \A i \in 1..n : i - 1 \in S => i \in S
  PROVE  0..n \subseteq S
  <1> SUFFICES ASSUME ~(0..n \subseteq S) PROVE FALSE
    OBVIOUS
  <1> DEFINE B == (0..n) \ S
  <1>1. B \in SUBSET Nat /\ B # {}
    OBVIOUS
  <1>2. PICK u \in B : \A v \in B : u <= v
    BY <1>1, HasLeast
  <1>3. u \in 1..n /\ u - 1 \in 0..n
    BY <1>2
  <1>4. u - 1 \notin B
    BY <1>2, <1>3
  <1> QED BY <1>3, <1>4

(* The number of a row, and the rows before it.                               *)
LEMMA RowNumbers ==
  ASSUME NEW s, sheet \in Seq(Imports(s)!Rows)
  PROVE  Len(sheet) \in Nat /\ DOMAIN sheet = 1..Len(sheet)
  OBVIOUS

LEMMA LeastOf ==
  ASSUME NEW s, NEW S \in SUBSET Nat, S # {}
  PROVE  Imports(s)!First(S) \in S /\ \A j \in S : Imports(s)!First(S) <= j
  <1>1. \E u \in S : \A v \in S : u <= v
    BY HasLeast
  <1> QED BY <1>1 DEF Imports!First

LEMMA SharesBack ==
  ASSUME NEW s, NEW x, NEW y, Imports(s)!Shares(x, y)
  PROVE  Imports(s)!Shares(y, x)
  BY DEF Imports!Shares

(* The rows that no set closed under shared identifiers can leave out: the    *)
(* chains of shared identifiers, without their links.                         *)
Closed(s, T) == \A u \in T : \A v \in DOMAIN sheet : Imports(s)!Shares(u, v) => v \in T
Reach(s, x, y) == \A T \in SUBSET DOMAIN sheet : x \in T /\ Closed(s, T) => y \in T

LEMMA ReachSelf ==
  ASSUME NEW s, NEW x PROVE Reach(s, x, x)
  BY DEF Reach

LEMMA ReachShared ==
  ASSUME NEW s, NEW x \in DOMAIN sheet, NEW y \in DOMAIN sheet, Imports(s)!Shares(x, y)
  PROVE  Reach(s, x, y)
  BY DEF Reach, Closed

LEMMA ReachOn ==
  ASSUME NEW s, NEW x, NEW y, NEW z, Reach(s, x, y), Reach(s, y, z)
  PROVE  Reach(s, x, z)
  BY DEF Reach

LEMMA ReachBack ==
  ASSUME NEW s, NEW x \in DOMAIN sheet, NEW y \in DOMAIN sheet, Reach(s, x, y)
  PROVE  Reach(s, y, x)
  <1> SUFFICES ASSUME NEW T \in SUBSET DOMAIN sheet, y \in T, Closed(s, T), x \notin T PROVE FALSE
    BY DEF Reach
  <1> DEFINE U == (DOMAIN sheet) \ T
  <1>1. ASSUME NEW u \in U, NEW v \in DOMAIN sheet, Imports(s)!Shares(u, v), v \in T PROVE FALSE
    <2>1. Imports(s)!Shares(v, u)
      BY <1>1, SharesBack
    <2>2. u \in T
      BY <1>1, <2>1 DEF Closed
    <2> QED BY <1>1, <2>2
  <1>2. Closed(s, U)
    BY <1>1 DEF Closed
  <1>3. U \in SUBSET DOMAIN sheet /\ x \in U
    OBVIOUS
  <1>4. y \in U
    <2> HIDE DEF U
    <2> QED BY <1>2, <1>3 DEF Reach
  <1> QED BY <1>4
-----------------------------------------------------------------------------
(* What one pass over the rows keeps: rows of one root are linked, and rows   *)
(* among the first i that share an identifier have one root.                  *)
Sound(s, roots) == \A x, y \in DOMAIN sheet : roots[x] = roots[y] => Reach(s, x, y)
Joined(s, roots, i) ==
  \A x, y \in DOMAIN sheet : x <= i /\ y <= i /\ Imports(s)!Shares(x, y) => roots[x] = roots[y]
Coarser(roots, old) == \A x, y \in DOMAIN sheet : old[x] = old[y] => roots[x] = roots[y]
SameKey(x, y, k) == sheet[x][k] # None /\ sheet[x][k] = sheet[y][k]

LEMMA UnionKeeps ==
  ASSUME NEW s, sheet \in Seq(Imports(s)!Rows), NEW roots \in [DOMAIN sheet -> DOMAIN sheet],
         NEW i \in DOMAIN sheet, NEW j \in DOMAIN sheet, Reach(s, i, j), Sound(s, roots)
  PROVE  /\ Imports(s)!Union(roots, i, j) \in [DOMAIN sheet -> DOMAIN sheet]
         /\ Coarser(Imports(s)!Union(roots, i, j), roots)
         /\ Sound(s, Imports(s)!Union(roots, i, j))
         /\ Imports(s)!Union(roots, i, j)[i] = Imports(s)!Union(roots, i, j)[j]
  <1> DEFINE R == Imports(s)!Union(roots, i, j)
  <1>1. \A x \in DOMAIN sheet : R[x] = IF roots[x] = roots[j] THEN roots[i] ELSE roots[x]
    BY DEF Imports!Union
  <1>2. R \in [DOMAIN sheet -> DOMAIN sheet]
    BY DEF Imports!Union
  <1> HIDE DEF R
  <1>3. Reach(s, j, i)
    BY ReachBack
  <1>4. ASSUME NEW x \in DOMAIN sheet, NEW y \in DOMAIN sheet, R[x] = R[y] PROVE Reach(s, x, y)
    <2>1. \/ roots[x] = roots[y]
          \/ roots[x] = roots[j] /\ roots[i] = roots[y]
          \/ roots[y] = roots[j] /\ roots[i] = roots[x]
      BY <1>1, <1>4
    <2>2. CASE roots[x] = roots[y]
      BY <2>2 DEF Sound
    <2>3. CASE roots[x] = roots[j] /\ roots[i] = roots[y]
      <3>1. Reach(s, x, j) /\ Reach(s, i, y)
        BY <2>3 DEF Sound
      <3>2. Reach(s, x, i)
        BY <1>3, <3>1, ReachOn
      <3> QED BY <3>1, <3>2, ReachOn
    <2>4. CASE roots[y] = roots[j] /\ roots[i] = roots[x]
      <3>1. Reach(s, j, y) /\ Reach(s, x, i)
        BY <2>4 DEF Sound
      <3>2. Reach(s, x, j)
        BY <3>1, ReachOn
      <3> QED BY <3>1, <3>2, ReachOn
    <2> QED BY <2>1, <2>2, <2>3, <2>4
  <1>5. Coarser(R, roots)
    BY <1>1 DEF Coarser
  <1>6. Sound(s, R)
    BY <1>4 DEF Sound
  <1>7. R[i] = R[j]
    BY <1>1
  <1> QED BY <1>2, <1>5, <1>6, <1>7 DEF R

LEMMA JoinKeeps ==
  ASSUME NEW s, sheet \in Seq(Imports(s)!Rows), NEW roots \in [DOMAIN sheet -> DOMAIN sheet],
         NEW i \in DOMAIN sheet, NEW k \in Imports(s)!KeysOfIdentity, Sound(s, roots), Joined(s, roots, i - 1)
  PROVE  /\ Imports(s)!JoinOn(roots, i, k) \in [DOMAIN sheet -> DOMAIN sheet]
         /\ Coarser(Imports(s)!JoinOn(roots, i, k), roots)
         /\ Sound(s, Imports(s)!JoinOn(roots, i, k))
         /\ Joined(s, Imports(s)!JoinOn(roots, i, k), i - 1)
         /\ \A y \in 1..i : SameKey(i, y, k) => Imports(s)!JoinOn(roots, i, k)[y] = Imports(s)!JoinOn(roots, i, k)[i]
  <1>1. i \in Nat /\ 1..i \subseteq DOMAIN sheet /\ \A y \in 1..i : y = i \/ y \in 1..(i - 1)
    BY RowNumbers
  <1>2. CASE Imports(s)!SeenWith(i, k) = {}
    <2>1. Imports(s)!JoinOn(roots, i, k) = roots
      BY <1>2 DEF Imports!JoinOn
    <2>2. ASSUME NEW y \in 1..i, SameKey(i, y, k) PROVE y = i
      BY <1>1, <1>2, <2>2 DEF Imports!SeenWith, SameKey
    <2>3. Coarser(roots, roots)
      BY DEF Coarser
    <2> QED BY <2>1, <2>2, <2>3
  <1>3. CASE Imports(s)!SeenWith(i, k) # {}
    <2> DEFINE j == Imports(s)!First(Imports(s)!SeenWith(i, k))
               R == Imports(s)!Union(roots, i, j)
    <2>1. Imports(s)!SeenWith(i, k) \in SUBSET Nat
      BY <1>1 DEF Imports!SeenWith
    <2>2. j \in Imports(s)!SeenWith(i, k)
      BY <1>3, <2>1, LeastOf
    <2> HIDE DEF j
    <2>3. j \in 1..(i - 1) /\ j \in DOMAIN sheet /\ sheet[i][k] # None /\ sheet[j][k] = sheet[i][k]
      BY <1>1, <2>2 DEF Imports!SeenWith
    <2>4. Reach(s, i, j)
      BY <2>3, ReachShared DEF Imports!Shares
    <2>5. /\ R \in [DOMAIN sheet -> DOMAIN sheet] /\ Coarser(R, roots) /\ Sound(s, R) /\ R[i] = R[j]
      BY <2>3, <2>4, UnionKeeps
    <2>6. Imports(s)!JoinOn(roots, i, k) = R
      BY <1>3 DEF Imports!JoinOn, j
    <2> HIDE DEF R
    <2>7. Joined(s, R, i - 1)
      BY <2>5 DEF Joined, Coarser
    <2>8. ASSUME NEW y \in 1..i, SameKey(i, y, k) PROVE R[y] = R[i]
      <3>1. CASE y = i
        BY <3>1
      <3>2. CASE y \in 1..(i - 1)
        <4>1. Imports(s)!Shares(y, j) /\ y <= i - 1 /\ j <= i - 1 /\ y \in DOMAIN sheet
          BY <1>1, <2>3, <2>8, <3>2 DEF Imports!Shares, SameKey
        <4>2. roots[y] = roots[j]
          BY <2>3, <4>1 DEF Joined
        <4> QED BY <2>3, <2>5, <4>1, <4>2 DEF Coarser
      <3> QED BY <1>1, <3>1, <3>2
    <2> QED BY <2>5, <2>6, <2>7, <2>8
  <1> QED BY <1>2, <1>3

(* One row of the pass.                                                       *)
After(s, roots, i) == Imports(s)!JoinOn(Imports(s)!JoinOn(Imports(s)!JoinOn(roots, i, "email"), i, "phone"), i, "name")

LEMMA RowKeeps ==
  ASSUME NEW s, sheet \in Seq(Imports(s)!Rows), NEW roots \in [DOMAIN sheet -> DOMAIN sheet],
         NEW i \in DOMAIN sheet, Sound(s, roots), Joined(s, roots, i - 1)
  PROVE  /\ After(s, roots, i) \in [DOMAIN sheet -> DOMAIN sheet]
         /\ Sound(s, After(s, roots, i)) /\ Joined(s, After(s, roots, i), i)
  <1> DEFINE a == Imports(s)!JoinOn(roots, i, "email")
             b == Imports(s)!JoinOn(a, i, "phone")
             c == Imports(s)!JoinOn(b, i, "name")
  <1>1. "email" \in Imports(s)!KeysOfIdentity /\ "phone" \in Imports(s)!KeysOfIdentity /\ "name" \in Imports(s)!KeysOfIdentity
        /\ \A k \in Imports(s)!KeysOfIdentity : k = "email" \/ k = "phone" \/ k = "name"
    BY DEF Imports!KeysOfIdentity
  <1>2. /\ a \in [DOMAIN sheet -> DOMAIN sheet] /\ Sound(s, a) /\ Joined(s, a, i - 1)
        /\ \A y \in 1..i : SameKey(i, y, "email") => a[y] = a[i]
    BY <1>1, JoinKeeps
  <1> HIDE DEF a
  <1>3. /\ b \in [DOMAIN sheet -> DOMAIN sheet] /\ Coarser(b, a) /\ Sound(s, b) /\ Joined(s, b, i - 1)
        /\ \A y \in 1..i : SameKey(i, y, "phone") => b[y] = b[i]
    BY <1>1, <1>2, JoinKeeps
  <1> HIDE DEF b
  <1>4. /\ c \in [DOMAIN sheet -> DOMAIN sheet] /\ Coarser(c, b) /\ Sound(s, c) /\ Joined(s, c, i - 1)
        /\ \A y \in 1..i : SameKey(i, y, "name") => c[y] = c[i]
    BY <1>1, <1>3, JoinKeeps
  <1> HIDE DEF c
  <1>5. i \in Nat /\ 1..i \subseteq DOMAIN sheet /\ \A y \in DOMAIN sheet : y <= i => y \in 1..i
    BY RowNumbers
  <1>6. ASSUME NEW y \in 1..i, NEW k \in Imports(s)!KeysOfIdentity, SameKey(i, y, k) PROVE c[y] = c[i]
    <2>1. y \in DOMAIN sheet
      BY <1>5
    <2>2. CASE k = "email"
      BY <1>2, <1>3, <1>4, <1>6, <2>1, <2>2 DEF Coarser
    <2>3. CASE k = "phone"
      BY <1>3, <1>4, <1>6, <2>1, <2>3 DEF Coarser
    <2>4. CASE k = "name"
      BY <1>4, <1>6, <2>4
    <2> QED BY <1>1, <2>2, <2>3, <2>4
  <1>7. ASSUME NEW y \in 1..i, Imports(s)!Shares(i, y) PROVE c[y] = c[i]
    BY <1>6, <1>7 DEF Imports!Shares, SameKey
  <1>8. Joined(s, c, i)
    <2> SUFFICES ASSUME NEW x \in DOMAIN sheet, NEW y \in DOMAIN sheet, x <= i, y <= i, Imports(s)!Shares(x, y)
                 PROVE  c[x] = c[y]
      BY DEF Joined
    <2>1. x \in 1..i /\ y \in 1..i
      BY <1>5
    <2>2. CASE x = i
      BY <1>7, <2>1, <2>2
    <2>3. CASE y = i
      BY <1>7, <2>1, <2>3, SharesBack
    <2>4. CASE x # i /\ y # i
      <3>1. x <= i - 1 /\ y <= i - 1
        BY <1>5, <2>1, <2>4
      <3> QED BY <1>4, <3>1 DEF Joined
    <2> QED BY <2>2, <2>3, <2>4
  <1>9. After(s, roots, i) = c
    BY DEF After, a, b, c
  <1> QED BY <1>4, <1>8, <1>9

(* The pass is the function its definition describes.                         *)
LEMMA PassIs ==
  ASSUME NEW s, sheet \in Seq(Imports(s)!Rows)
  PROVE  \E f : /\ f[0] = [x \in DOMAIN sheet |-> x] /\ Imports(s)!Grouped = f[Len(sheet)]
                /\ \A i \in 1..Len(sheet) : f[i] = After(s, f[i - 1], i)
  <1> DEFINE top == Len(sheet)
             start == [x \in DOMAIN sheet |-> x]
             Fits(f, n) == f = [i \in 0..n |-> IF i = 0 THEN start ELSE After(s, f[i - 1], i)]
             S == {n \in Nat : \E f : Fits(f, n)}
  <1>0. Imports(s)!Grouped = LET after[i \in 0..top] == IF i = 0 THEN start ELSE After(s, after[i - 1], i) IN after[top]
    BY Zenon DEF Imports!Grouped, After
  <1>1. top \in Nat
    BY RowNumbers
  <1> HIDE DEF start, top
  <1>2. 0 \in S
    <2> DEFINE f == [i \in 0..0 |-> start]
    <2>1. f = [i \in 0..0 |-> IF i = 0 THEN start ELSE After(s, f[i - 1], i)]
      <3>1. \A i \in 0..0 : i = 0
        OBVIOUS
      <3> QED BY <3>1, Zenon
    <2> QED BY <2>1
  <1>3. ASSUME NEW j \in 1..top, j - 1 \in S PROVE j \in S
    <2>1. PICK f : Fits(f, j - 1)
      BY <1>3
    <2> DEFINE g == [i \in 0..j |-> IF i = j THEN After(s, f[j - 1], j) ELSE f[i]]
    <2>2. j \in Nat /\ j - 1 \in 0..(j - 1) /\ j # 0
      BY <1>1
    <2>3. \A i \in 0..(j - 1) : f[i] = IF i = 0 THEN start ELSE After(s, f[i - 1], i)
      BY <2>1
    <2>4. \A i \in 0..j : g[i] = IF i = 0 THEN start ELSE After(s, g[i - 1], i)
      <3> SUFFICES ASSUME NEW i \in 0..j PROVE g[i] = IF i = 0 THEN start ELSE After(s, g[i - 1], i)
        OBVIOUS
      <3>1. CASE i = j
        <4>1. g[i] = After(s, f[j - 1], j) /\ g[i - 1] = f[j - 1]
          BY <3>1, <2>2
        <4> QED BY <3>1, <4>1, <2>2
      <3>2. CASE i = 0
        <4>1. g[0] = f[0] /\ f[0] = start
          BY <2>2, <2>3
        <4> QED BY <3>2, <4>1
      <3>3. CASE i # j /\ i # 0
        <4>1. i \in 0..(j - 1) /\ i - 1 \in 0..j /\ i - 1 # j
          BY <3>3, <2>2
        <4>2. g[i] = f[i] /\ g[i - 1] = f[i - 1]
          BY <3>3, <4>1
        <4> QED BY <4>1, <4>2, <2>3, <3>3
      <3> QED BY <3>1, <3>2, <3>3
    <2>5. g = [i \in 0..j |-> IF i = 0 THEN start ELSE After(s, g[i - 1], i)]
      <3>1. g = [i \in 0..j |-> g[i]]
        OBVIOUS
      <3> HIDE DEF g
      <3> QED BY <2>4, <3>1
    <2> QED BY <2>2, <2>5
  <1>4. top \in S
    <2> HIDE DEF S
    <2>1. 0..top \subseteq S
      BY <1>1, <1>2, <1>3, Climbing
    <2> QED BY <1>1, <2>1
  <1>5. PICK f : Fits(f, top)
    BY <1>4
  <1> DEFINE after == CHOOSE g : g = [i \in 0..top |-> IF i = 0 THEN start ELSE After(s, g[i - 1], i)]
  <1>6. after = [i \in 0..top |-> IF i = 0 THEN start ELSE After(s, after[i - 1], i)]
    BY <1>5, Zenon
  <1>7. Imports(s)!Grouped = after[top]
    BY <1>0, Zenon
  <1> HIDE DEF after
  <1>8. after[0] = start
    BY <1>1, <1>6
  <1>9. ASSUME NEW i \in 1..top PROVE after[i] = After(s, after[i - 1], i)
    <2>1. i \in 0..top /\ i # 0
      BY <1>1
    <2> QED BY <1>6, <2>1
  <1> QED BY <1>7, <1>8, <1>9 DEF start, top

(* Rows that share an identifier are in one group, and rows of one group are  *)
(* linked.                                                                    *)
LEMMA GroupedIs ==
  ASSUME NEW s, sheet \in Seq(Imports(s)!Rows)
  PROVE  /\ Imports(s)!Grouped \in [DOMAIN sheet -> DOMAIN sheet]
         /\ \A x, y \in DOMAIN sheet : Imports(s)!Shares(x, y) => Imports(s)!Grouped[x] = Imports(s)!Grouped[y]
         /\ \A x, y \in DOMAIN sheet : Imports(s)!Grouped[x] = Imports(s)!Grouped[y] => Reach(s, x, y)
  <1> DEFINE top == Len(sheet)
  <1>1. PICK f : /\ f[0] = [x \in DOMAIN sheet |-> x] /\ Imports(s)!Grouped = f[Len(sheet)]
                 /\ \A i \in 1..Len(sheet) : f[i] = After(s, f[i - 1], i)
    BY PassIs
  <1> DEFINE S == {i \in Nat : f[i] \in [DOMAIN sheet -> DOMAIN sheet] /\ Sound(s, f[i]) /\ Joined(s, f[i], i)}
  <1>2. top \in Nat /\ DOMAIN sheet = 1..top
    BY RowNumbers
  <1>3. 0 \in S
    <2>1. f[0] \in [DOMAIN sheet -> DOMAIN sheet] /\ \A x \in DOMAIN sheet : f[0][x] = x
      BY <1>1
    <2>2. Sound(s, f[0])
      BY <2>1, ReachSelf DEF Sound
    <2>3. \A x \in DOMAIN sheet : ~ (x <= 0)
      BY <1>2
    <2>4. Joined(s, f[0], 0)
      BY <2>3 DEF Joined
    <2> QED BY <2>1, <2>2, <2>4
  <1>4. ASSUME NEW i \in 1..top, i - 1 \in S PROVE i \in S
    <2>1. f[i - 1] \in [DOMAIN sheet -> DOMAIN sheet] /\ Sound(s, f[i - 1]) /\ Joined(s, f[i - 1], i - 1)
      BY <1>4
    <2>2. i \in DOMAIN sheet /\ i \in Nat /\ f[i] = After(s, f[i - 1], i)
      BY <1>1, <1>2
    <2> QED BY <2>1, <2>2, RowKeeps
  <1>5. top \in S
    <2> HIDE DEF S
    <2>1. 0..top \subseteq S
      BY <1>2, <1>3, <1>4, Climbing
    <2> QED BY <1>2, <2>1
  <1>6. Imports(s)!Grouped \in [DOMAIN sheet -> DOMAIN sheet] /\ Sound(s, Imports(s)!Grouped) /\ Joined(s, Imports(s)!Grouped, top)
    BY <1>1, <1>5
  <1>7. \A x \in DOMAIN sheet : x <= top
    BY <1>2
  <1> QED BY <1>6, <1>7 DEF Sound, Joined
-----------------------------------------------------------------------------
(* A chain of n links between two rows, and a shortest one, which visits no   *)
(* row twice and so is shorter than the workbook.                             *)
Chain(s, p, n, x, y) ==
  /\ p \in [0..n -> DOMAIN sheet] /\ p[0] = x /\ p[n] = y
  /\ \A m \in 1..n : Imports(s)!Shares(p[m - 1], p[m])

LEMMA LinkedIs ==
  ASSUME NEW s, NEW x, NEW y
  PROVE  Imports(s)!Linked(x, y) <=> \E n \in 0..Len(sheet) : \E p : Chain(s, p, n, x, y)
  BY DEF Imports!Linked, Chain

LEMMA Shortcut ==
  ASSUME NEW s, NEW n \in Nat, NEW p, NEW x, NEW y, Chain(s, p, n, x, y),
         NEW a \in 0..n, NEW b \in 0..n, a < b, p[a] = p[b]
  PROVE  \E q : Chain(s, q, n - (b - a), x, y)
  <1> DEFINE c == b - a
             q == [k \in 0..(n - c) |-> IF k <= a THEN p[k] ELSE p[k + c]]
  <1>1. c \in 1..n /\ n - c \in Nat /\ a <= n - c /\ a + c = b /\ a \in Nat
    OBVIOUS
  <1>2. \A k \in 0..(n - c) : k \in 0..n /\ k + c \in 0..n
    BY <1>1
  <1>3. \A k \in 0..(n - c) : q[k] = IF k <= a THEN p[k] ELSE p[k + c]
    OBVIOUS
  <1>4. q \in [0..(n - c) -> DOMAIN sheet]
    BY <1>2 DEF Chain
  <1> HIDE DEF q
  <1>5. q[0] = x
    BY <1>1, <1>3 DEF Chain
  <1>6. q[n - c] = y
    <2>1. CASE n - c <= a
      <3>1. n - c = a /\ n = b
        BY <1>1, <2>1
      <3>2. q[n - c] = p[a]
        BY <1>1, <1>3, <3>1
      <3> QED BY <3>1, <3>2 DEF Chain
    <2>2. CASE ~ (n - c <= a)
      <3>1. n - c \in 0..(n - c) /\ n - c + c = n
        BY <1>1
      <3>2. q[n - c] = p[n]
        BY <1>3, <2>2, <3>1
      <3> QED BY <3>2 DEF Chain
    <2> QED BY <2>1, <2>2
  <1>7. ASSUME NEW m \in 1..(n - c) PROVE Imports(s)!Shares(q[m - 1], q[m])
    <2>0. m \in 0..(n - c) /\ m - 1 \in 0..(n - c) /\ m \in 1..n /\ m + c \in 1..n /\ (m - 1) + c = (m + c) - 1
      BY <1>1
    <2>1. CASE m <= a
      <3>1. m - 1 <= a
        BY <2>1, <1>1
      <3>2. q[m] = p[m] /\ q[m - 1] = p[m - 1]
        BY <1>3, <2>0, <2>1, <3>1
      <3> QED BY <2>0, <3>2 DEF Chain
    <2>2. CASE m = a + 1
      <3>1. q[m - 1] = p[a] /\ q[m] = p[m + c]
        <4>1. m - 1 = a /\ m - 1 <= a /\ ~ (m <= a)
          BY <1>1, <2>2
        <4> QED BY <1>3, <2>0, <4>1
      <3>2. (m + c) - 1 = b
        BY <1>1, <2>2
      <3>3. Imports(s)!Shares(p[(m + c) - 1], p[m + c])
        BY <2>0 DEF Chain
      <3> QED BY <3>1, <3>2, <3>3
    <2>3. CASE m > a + 1
      <3>1. ~ (m <= a) /\ ~ (m - 1 <= a)
        BY <1>1, <2>3
      <3>2. q[m - 1] = p[(m - 1) + c] /\ q[m] = p[m + c]
        BY <1>3, <2>0, <3>1
      <3>3. Imports(s)!Shares(p[(m + c) - 1], p[m + c])
        BY <2>0 DEF Chain
      <3> QED BY <2>0, <3>2, <3>3
    <2> QED BY <1>1, <2>1, <2>2, <2>3
  <1> QED BY <1>4, <1>5, <1>6, <1>7 DEF Chain

LEMMA ShortChain ==
  ASSUME NEW s, sheet \in Seq(Imports(s)!Rows), NEW x, NEW y, NEW n \in Nat, NEW p, Chain(s, p, n, x, y)
  PROVE  \E m \in Nat : \E q : m < Len(sheet) /\ Chain(s, q, m, x, y)
  <1> DEFINE S == {m \in Nat : \E q : Chain(s, q, m, x, y)}
  <1>1. S \in SUBSET Nat /\ S # {}
    OBVIOUS
  <1>2. PICK m \in S : \A j \in S : m <= j
    BY <1>1, HasLeast
  <1>3. PICK q : Chain(s, q, m, x, y)
    BY <1>2
  <1>4. m \in Nat /\ Len(sheet) \in Nat /\ DOMAIN sheet = 1..Len(sheet)
    BY <1>2, RowNumbers
  <1>5. ASSUME NEW a \in 0..m, NEW b \in 0..m, a < b, q[a] = q[b] PROVE FALSE
    <2>1. \E r : Chain(s, r, m - (b - a), x, y)
      BY <1>3, <1>4, <1>5, Shortcut
    <2>2. m - (b - a) \in Nat /\ m - (b - a) < m
      BY <1>4, <1>5
    <2>3. m - (b - a) \in S
      BY <2>1, <2>2
    <2> QED BY <1>2, <1>4, <2>2, <2>3
  <1>6. \A a, b \in 0..m : q[a] = q[b] => a = b
    BY <1>4, <1>5
  <1>7. q \in [0..m -> 1..Len(sheet)]
    BY <1>3, <1>4 DEF Chain
  <1>8. IsFiniteSet(0..m) /\ Cardinality(0..m) = m + 1
    BY <1>4, FS_Interval
  <1>9. IsFiniteSet(1..Len(sheet)) /\ Cardinality(1..Len(sheet)) = Len(sheet)
    <2> DEFINE top == Len(sheet)
    <2>1. top \in Nat
      BY <1>4
    <2> HIDE DEF top
    <2>2. 1 \in Int /\ top \in Int /\ (IF 1 > top THEN 0 ELSE top - 1 + 1) = top
      BY <2>1
    <2>3. IsFiniteSet(1..top) /\ Cardinality(1..top) = IF 1 > top THEN 0 ELSE top - 1 + 1
      BY <2>2, FS_Interval
    <2> QED BY <2>2, <2>3 DEF top
  <1>10. ~ (Len(sheet) < m + 1)
    <2> SUFFICES ASSUME Len(sheet) < m + 1 PROVE FALSE
      OBVIOUS
    <2>1. \E a, b \in 0..m : a # b /\ q[a] = q[b]
      BY <1>7, <1>8, <1>9, FS_PigeonHole
    <2> QED BY <1>6, <2>1
  <1> QED BY <1>3, <1>4, <1>10

LEMMA LongerChain ==
  ASSUME NEW s, NEW n \in Nat, NEW p, NEW x, NEW y, NEW z \in DOMAIN sheet, Chain(s, p, n, x, y), Imports(s)!Shares(y, z)
  PROVE  \E q : Chain(s, q, n + 1, x, z)
  <1> DEFINE q == [k \in 0..(n + 1) |-> IF k = n + 1 THEN z ELSE p[k]]
  <1>1. \A k \in 0..(n + 1) : k = n + 1 \/ k \in 0..n
    OBVIOUS
  <1>2. q \in [0..(n + 1) -> DOMAIN sheet]
    BY <1>1 DEF Chain
  <1>3. q[n + 1] = z /\ \A k \in 0..n : q[k] = p[k]
    OBVIOUS
  <1> HIDE DEF q
  <1>4. ASSUME NEW m \in 1..(n + 1) PROVE Imports(s)!Shares(q[m - 1], q[m])
    <2>1. CASE m = n + 1
      <3>1. m - 1 = n /\ n \in 0..n
        BY <2>1
      <3> QED BY <1>3, <2>1, <3>1 DEF Chain
    <2>2. CASE m \in 1..n
      <3>1. m - 1 \in 0..n /\ m \in 0..n
        BY <2>2
      <3> QED BY <1>3, <2>2, <3>1 DEF Chain
    <2> QED BY <2>1, <2>2
  <1>5. q[0] = x
    BY <1>3 DEF Chain
  <1> QED BY <1>2, <1>3, <1>4, <1>5 DEF Chain

(* Reached rows are linked by a chain no longer than the workbook.            *)
LEMMA ReachLinked ==
  ASSUME NEW s, sheet \in Seq(Imports(s)!Rows), NEW x \in DOMAIN sheet, NEW y \in DOMAIN sheet, Reach(s, x, y)
  PROVE  Imports(s)!Linked(x, y)
  <1> DEFINE T == {v \in DOMAIN sheet : \E n \in Nat : \E p : Chain(s, p, n, x, v)}
  <1>1. x \in T
    <2> DEFINE p == [k \in 0..0 |-> x]
    <2>1. Chain(s, p, 0, x, x)
      BY DEF Chain
    <2> HIDE DEF p
    <2> QED BY <2>1
  <1>2. ASSUME NEW u \in T, NEW v \in DOMAIN sheet, Imports(s)!Shares(u, v) PROVE v \in T
    <2>1. PICK n \in Nat : \E p : Chain(s, p, n, x, u)
      OBVIOUS
    <2>2. PICK p : Chain(s, p, n, x, u)
      BY <2>1
    <2>3. \E q : Chain(s, q, n + 1, x, v)
      BY <1>2, <2>2, LongerChain
    <2>4. n + 1 \in Nat
      OBVIOUS
    <2> QED BY <2>3, <2>4
  <1>3. T \in SUBSET DOMAIN sheet
    OBVIOUS
  <1>4. y \in T
    <2> HIDE DEF T
    <2> QED BY <1>1, <1>2, <1>3 DEF Reach, Closed
  <1>5. PICK n \in Nat : \E p : Chain(s, p, n, x, y)
    BY <1>4
  <1>6. PICK m \in Nat : \E q : m < Len(sheet) /\ Chain(s, q, m, x, y)
    BY <1>5, ShortChain
  <1>7. m \in 0..Len(sheet) /\ \E q : Chain(s, q, m, x, y)
    BY <1>6, RowNumbers
  <1> QED BY <1>7, LinkedIs

LEMMA LinkedGrouped ==
  ASSUME NEW s, sheet \in Seq(Imports(s)!Rows), NEW x, NEW y, Imports(s)!Linked(x, y)
  PROVE  Imports(s)!Grouped[x] = Imports(s)!Grouped[y]
  <1>1. PICK n \in 0..Len(sheet) : \E p : Chain(s, p, n, x, y)
    BY LinkedIs
  <1>2. PICK p : Chain(s, p, n, x, y)
    BY <1>1
  <1>3. n \in Nat
    BY RowNumbers
  <1> DEFINE S == {k \in 0..n : Imports(s)!Grouped[p[k]] = Imports(s)!Grouped[x]}
  <1>4. 0 \in S
    BY <1>2, <1>3 DEF Chain
  <1>5. ASSUME NEW k \in 1..n, k - 1 \in S PROVE k \in S
    <2>1. p[k - 1] \in DOMAIN sheet /\ p[k] \in DOMAIN sheet /\ Imports(s)!Shares(p[k - 1], p[k])
      BY <1>2, <1>3, <1>5 DEF Chain
    <2>2. Imports(s)!Grouped[p[k - 1]] = Imports(s)!Grouped[p[k]]
      BY <2>1, GroupedIs
    <2> QED BY <1>3, <1>5, <2>2
  <1>6. n \in S
    <2> HIDE DEF S
    <2>1. 0..n \subseteq S
      BY <1>3, <1>4, <1>5, Climbing
    <2> QED BY <1>3, <2>1
  <1> QED BY <1>2, <1>6 DEF Chain

LEMMA GroupsExact ==
  ASSUME NEW s, sheet \in Seq(Imports(s)!Rows), groups = <<>> \/ groups = Imports(s)!Grouped
  PROVE  Imports(s)!GroupsAreExact
  <1> SUFFICES ASSUME groups = Imports(s)!Grouped, NEW i \in DOMAIN sheet, NEW j \in DOMAIN sheet
               PROVE  (groups[i] = groups[j]) <=> (i = j \/ Imports(s)!Linked(i, j))
    BY DEF Imports!GroupsAreExact
  <1>1. ASSUME Imports(s)!Grouped[i] = Imports(s)!Grouped[j] PROVE Imports(s)!Linked(i, j)
    BY <1>1, GroupedIs, ReachLinked
  <1>2. ASSUME Imports(s)!Linked(i, j) PROVE Imports(s)!Grouped[i] = Imports(s)!Grouped[j]
    BY <1>2, LinkedGrouped
  <1> QED BY <1>1, <1>2

LEMMA WinnersApart ==
  ASSUME NEW s, sheet \in Seq(Imports(s)!Rows), AcquiredDates \subseteq Nat,
         NEW i \in Imports(s)!Winners(Imports(s)!Grouped), NEW j \in Imports(s)!Winners(Imports(s)!Grouped), Imports(s)!Shares(i, j)
  PROVE  i = j
  <1> SUFFICES ASSUME i # j PROVE FALSE
    OBVIOUS
  <1>1. i \in DOMAIN sheet /\ j \in DOMAIN sheet /\ i \in Nat /\ j \in Nat
    BY RowNumbers DEF Imports!Winners
  <1>2. Imports(s)!Grouped[i] = Imports(s)!Grouped[j]
    BY <1>1, GroupedIs
  <1>3. Imports(s)!Newer(i, j) /\ Imports(s)!Newer(j, i)
    BY <1>1, <1>2 DEF Imports!Winners
  <1>4. sheet[i].acquired \in Nat /\ sheet[j].acquired \in Nat
    <2>1. sheet[i] \in Imports(s)!Rows /\ sheet[j] \in Imports(s)!Rows
      BY <1>1
    <2>2. sheet[i].acquired \in AcquiredDates /\ sheet[j].acquired \in AcquiredDates
      BY <2>1 DEF Imports!Rows
    <2> QED BY <2>2
  <1> QED BY <1>1, <1>3, <1>4 DEF Imports!Newer
-----------------------------------------------------------------------------
LEMMA SheetStays ==
  ASSUME NEW s, sheet' = sheet
  PROVE  Imports(s)!Grouped' = Imports(s)!Grouped /\ Imports(s)!Winners(Imports(s)!Grouped)' = Imports(s)!Winners(Imports(s)!Grouped)
  <1>1. Imports(s)!Grouped' = Imports(s)!Grouped
    BY DEF Imports!Grouped, Imports!JoinOn, Imports!SeenWith
  <1> QED BY <1>1 DEF Imports!Winners, Imports!Newer

(* Customers and the transaction, as the import keeps them.  A saved key is   *)
(* the row the customer was last written from, with that row's identity.      *)
Entry(s) == [key : Nat, id : Imports(s)!Identities]
Works(s) == [open : BOOLEAN, todo : SUBSET Nat, customers : Seq(Entry(s)), contacts : SUBSET (Nat \X Names)]
Placed(n, b) == n \subseteq (DOMAIN b) \X Names
Keyed(s, b) == \A c \in DOMAIN b : b[c].key # 0 => b[c].key \in DOMAIN sheet /\ b[c].id = Imports(s)!Identity(sheet[b[c].key])

ImportTyped(s) ==
  /\ sheet \in Workbooks(s) /\ (groups = <<>> \/ groups = Imports(s)!Grouped)
  /\ customers \in Seq(Entry(s)) /\ Placed(contacts, customers)
  /\ work \in Works(s) /\ Placed(work.contacts, work.customers)
  /\ work.todo \subseteq Imports(s)!Winners(Imports(s)!Grouped)
  /\ ~work.open => work = Imports(s)!NoWork
  /\ work.open => imports < ImportsIn(s)
  /\ imports \in 0..ImportsIn(s)
  /\ Keyed(s, customers) /\ Keyed(s, work.customers)

(* While the workbook stays: one customer per key, the keys are winners', and *)
(* every winner so far written has its customer and contact.                  *)
Distinct(s, b) ==
  /\ \A c, d \in DOMAIN b : b[c].key # 0 /\ b[c].key = b[d].key => c = d
  /\ \A c \in DOMAIN b : b[c].key # 0 => b[c].key \in Imports(s)!Winners(Imports(s)!Grouped)
Settled(s, b, n, todo) ==
  \A w \in Imports(s)!Winners(Imports(s)!Grouped) \ todo : ~sheet[w].bad =>
    \E c \in DOMAIN b : b[c].key = w /\ Imports(s)!Named(c, sheet[w].name) \subseteq n

ImportSettled(s) ==
  /\ Distinct(s, customers) /\ Distinct(s, work.customers)
  /\ imports >= 1 => /\ Settled(s, customers, contacts, {})
                     /\ work.open => work.customers = customers /\ work.contacts = contacts
  /\ work.open => Settled(s, work.customers, work.contacts, work.todo)

(* In a CRM that was empty, every customer comes from a row.                  *)
AllKeyed(b) == \A c \in DOMAIN b : b[c].key # 0

LEMMA RowTyped ==
  ASSUME NEW s, sheet \in Seq(Imports(s)!Rows), NEW i \in DOMAIN sheet
  PROVE  /\ i \in Nat /\ i # 0 /\ Imports(s)!Identity(sheet[i]) \in Imports(s)!Identities
         /\ sheet[i].name \in Names \cup {None}
         /\ \A k \in Imports(s)!KeysOfIdentity : Imports(s)!Identity(sheet[i])[k] = sheet[i][k]
  <1>1. sheet[i] \in Imports(s)!Rows /\ i \in Nat /\ i # 0
    BY RowNumbers
  <1>2. sheet[i].name \in Names \cup {None} /\ sheet[i].email \in Emails \cup {None} /\ sheet[i].phone \in Phones \cup {None}
    BY <1>1 DEF Imports!Rows
  <1>3. Imports(s)!Identity(sheet[i]) = [k \in {"email", "phone", "name"} |-> sheet[i][k]]
    BY DEF Imports!Identity, Imports!KeysOfIdentity
  <1>4. Imports(s)!Identity(sheet[i]) = [email |-> sheet[i].email, phone |-> sheet[i].phone, name |-> sheet[i].name]
    BY <1>3
  <1>5. Imports(s)!Identity(sheet[i]) \in Imports(s)!Identities
    BY <1>2, <1>4 DEF Imports!Identities
  <1> QED BY <1>1, <1>2, <1>5 DEF Imports!Identity

LEMMA NoWorkTyped ==
  ASSUME NEW s
  PROVE  /\ Imports(s)!NoWork \in Works(s) /\ Imports(s)!NoWork.open = FALSE /\ Imports(s)!NoWork.todo = {}
         /\ Imports(s)!NoWork.contacts = {} /\ Imports(s)!NoWork.customers = <<>>
         /\ DOMAIN Imports(s)!NoWork.customers = {}
  BY DEF Imports!NoWork, Works

LEMMA OneMore ==
  ASSUME NEW n \in Nat, NEW c \in 1..(n + 1)
  PROVE  \E m \in Nat : (1..n) \cup {c} = 1..m
  <1>1. CASE c \in 1..n
    <2>1. (1..n) \cup {c} = 1..n
      BY ONLY <1>1
    <2> QED BY <2>1
  <1>2. CASE c = n + 1
    <2>1. (1..n) \cup {c} = 1..(n + 1) /\ n + 1 \in Nat
      BY <1>2
    <2> QED BY <2>1
  <1> QED BY <1>1, <1>2

(* What row i writes, as customer c.                                          *)
Wrote(s, w, i, c) ==
  /\ w \in Works(s) /\ w.open = work.open /\ w.todo = work.todo \ {i}
  /\ DOMAIN w.customers = (DOMAIN work.customers) \cup {c}
  /\ w.customers[c] = [key |-> i, id |-> Imports(s)!Identity(sheet[i])]
  /\ \A d \in (DOMAIN work.customers) \ {c} : w.customers[d] = work.customers[d]
  /\ w.contacts = work.contacts \cup Imports(s)!Named(c, sheet[i].name)
  /\ Placed(w.contacts, w.customers)

LEMMA WriteIs ==
  ASSUME NEW s, sheet \in Seq(Imports(s)!Rows), work \in Works(s), Placed(work.contacts, work.customers),
         NEW i, NEW c, i \in DOMAIN sheet, c \in 1..(Len(work.customers) + 1)
  PROVE  Wrote(s, Imports(s)!Write(i, c), i, c)
  <1> DEFINE b == work.customers
             e == [key |-> i, id |-> Imports(s)!Identity(sheet[i])]
             new == [x \in (DOMAIN b) \cup {c} |-> IF x = c THEN e ELSE b[x]]
             names == work.contacts \cup Imports(s)!Named(c, sheet[i].name)
  <1>1. b \in Seq(Entry(s)) /\ Len(b) \in Nat /\ DOMAIN b = 1..Len(b) /\ \A d \in DOMAIN b : b[d] \in Entry(s)
    BY DEF Works
  <1>2. e \in Entry(s) /\ sheet[i].name \in Names \cup {None}
    BY RowTyped DEF Entry
  <1>3. Imports(s)!Write(i, c) = [work EXCEPT !.todo = @ \ {i}, !.customers = new, !.contacts = names]
    BY DEF Imports!Write
  <1>4. /\ DOMAIN new = (DOMAIN b) \cup {c} /\ new[c] = e /\ \A d \in (DOMAIN b) \ {c} : new[d] = b[d]
    OBVIOUS
  <1>5. new \in Seq(Entry(s))
    <2>1. \E m \in Nat : (1..Len(b)) \cup {c} = 1..m
      <3> DEFINE n == Len(b)
      <3>1. n \in Nat /\ c \in 1..(n + 1)
        BY <1>1
      <3> HIDE DEF n
      <3>2. \E m \in Nat : (1..n) \cup {c} = 1..m
        BY ONLY <3>1, OneMore
      <3> QED BY <3>2 DEF n
    <2>2. PICK m \in Nat : (DOMAIN b) \cup {c} = 1..m
      <3> HIDE DEF b
      <3> QED BY ONLY <1>1, <2>1
    <2>3. \A x \in 1..m : (IF x = c THEN e ELSE b[x]) \in Entry(s)
      <3> HIDE DEF b, e
      <3> QED BY ONLY <1>1, <1>2, <2>2
    <2>4. new = [x \in 1..m |-> IF x = c THEN e ELSE b[x]]
      BY <2>2
    <2> HIDE DEF new, e, b
    <2> QED BY <2>3, <2>4
  <1>6. Imports(s)!Named(c, sheet[i].name) \subseteq ((DOMAIN b) \cup {c}) \X Names
    BY <1>2 DEF Imports!Named
  <1>7. names \subseteq (DOMAIN new) \X Names
    BY <1>4, <1>6 DEF Placed
  <1>8. names \subseteq Nat \X Names
    BY <1>1, <1>4, <1>7
  <1> HIDE DEF new, names, e, b
  <1>9. /\ Imports(s)!Write(i, c).open = work.open /\ Imports(s)!Write(i, c).todo = work.todo \ {i}
        /\ Imports(s)!Write(i, c).customers = new /\ Imports(s)!Write(i, c).contacts = names
    BY <1>3 DEF Works
  <1>10. Imports(s)!Write(i, c) \in Works(s)
    <2>1. work.todo \ {i} \in SUBSET Nat
      BY DEF Works
    <2> QED BY <1>3, <1>5, <1>8, <2>1 DEF Works
  <1>11. Placed(names, new)
    BY <1>7 DEF Placed
  <1> QED BY <1>4, <1>9, <1>10, <1>11 DEF e, b, names, Wrote

(* Whom a row overwrites: the number of a matching customer, or a new one.    *)
Overwritten(s, i) == IF Imports(s)!Matching(i) = {} THEN {Len(work.customers) + 1} ELSE Imports(s)!Matching(i)

LEMMA MatchIs ==
  ASSUME NEW s, work \in Works(s), NEW i,
         NEW c \in Overwritten(s, i)
  PROVE  /\ c \in 1..(Len(work.customers) + 1)
         /\ \/ c \notin DOMAIN work.customers /\ Imports(s)!ByKey(i) = {}
            \/ c \in DOMAIN work.customers /\ work.customers[c].key = i
            \/ /\ c \in DOMAIN work.customers /\ Imports(s)!ByKey(i) = {}
               /\ \E k \in Imports(s)!KeysOfIdentity : sheet[i][k] # None /\ work.customers[c].id[k] = sheet[i][k]
  <1>1. Len(work.customers) \in Nat /\ DOMAIN work.customers = 1..Len(work.customers)
    BY DEF Works
  <1>2. CASE Imports(s)!ByKey(i) # {}
    <2>1. Imports(s)!Matching(i) = Imports(s)!ByKey(i)
      BY <1>2 DEF Imports!Matching
    <2>2. c \in Imports(s)!ByKey(i)
      BY <1>2, <2>1 DEF Overwritten
    <2> QED BY <1>1, <2>2 DEF Imports!ByKey
  <1>3. CASE Imports(s)!ByKey(i) = {} /\ Imports(s)!Matching(i) = {}
    <2>1. c = Len(work.customers) + 1
      BY <1>3 DEF Overwritten
    <2> QED BY <1>1, <1>3, <2>1
  <1>4. CASE Imports(s)!ByKey(i) = {} /\ Imports(s)!Matching(i) # {}
    <2>1. \/ Imports(s)!Matching(i) = Imports(s)!With("email", sheet[i].email)
          \/ Imports(s)!Matching(i) = Imports(s)!With("phone", sheet[i].phone)
          \/ Imports(s)!Matching(i) = Imports(s)!With("name", sheet[i].name)
      BY <1>4, Zenon DEF Imports!Matching
    <2>2. \E k \in Imports(s)!KeysOfIdentity : Imports(s)!Matching(i) = Imports(s)!With(k, sheet[i][k])
      BY <2>1 DEF Imports!KeysOfIdentity
    <2>3. PICK k \in Imports(s)!KeysOfIdentity : c \in Imports(s)!With(k, sheet[i][k])
      BY <1>4, <2>2 DEF Overwritten
    <2> QED BY <1>1, <1>4, <2>3 DEF Imports!With
  <1> QED BY <1>2, <1>3, <1>4

(* A winner never overwrites the customer of another row.                     *)
LEMMA MatchOwn ==
  ASSUME NEW s, sheet \in Seq(Imports(s)!Rows), AcquiredDates \subseteq Nat, work \in Works(s),
         Keyed(s, work.customers), Distinct(s, work.customers), NEW i \in Imports(s)!Winners(Imports(s)!Grouped),
         NEW c \in Overwritten(s, i)
  PROVE  c \in DOMAIN work.customers => work.customers[c].key \in {0, i}
  <1> SUFFICES ASSUME c \in DOMAIN work.customers, work.customers[c].key # 0, work.customers[c].key # i
               PROVE  FALSE
    OBVIOUS
  <1> DEFINE w == work.customers[c].key
  <1>0. \/ c \notin DOMAIN work.customers /\ Imports(s)!ByKey(i) = {}
        \/ c \in DOMAIN work.customers /\ work.customers[c].key = i
        \/ /\ c \in DOMAIN work.customers /\ Imports(s)!ByKey(i) = {}
           /\ \E k \in Imports(s)!KeysOfIdentity : sheet[i][k] # None /\ work.customers[c].id[k] = sheet[i][k]
    BY MatchIs
  <1>1. PICK k \in Imports(s)!KeysOfIdentity : sheet[i][k] # None /\ work.customers[c].id[k] = sheet[i][k]
    BY <1>0
  <1>2. w \in DOMAIN sheet /\ work.customers[c].id = Imports(s)!Identity(sheet[w])
    BY DEF Keyed
  <1>3. w \in Imports(s)!Winners(Imports(s)!Grouped)
    BY DEF Distinct
  <1>4. sheet[w][k] = sheet[i][k]
    BY <1>1, <1>2, RowTyped
  <1>5. Imports(s)!Shares(i, w)
    BY <1>1, <1>4 DEF Imports!Shares
  <1> QED BY <1>3, <1>5, WinnersApart
-----------------------------------------------------------------------------
LEMMA ImportStart ==
  ASSUME NEW s, Imports(s)!ImportAssumption, Imports(s)!Init
  PROVE  ImportTyped(s) /\ ImportSettled(s) /\ (InCrm(s) = {<<>>} => AllKeyed(customers) /\ AllKeyed(work.customers))
  <1>1. PICK r \in InCrm(s) : customers = [i \in 1..Len(r) |-> [key |-> 0, id |-> r[i]]]
    BY DEF Imports!Init
  <1>2. r \in Seq(Imports(s)!Identities) /\ Len(r) \in Nat
    BY DEF Imports!ImportAssumption
  <1>3. \A i \in 1..Len(r) : [key |-> 0, id |-> r[i]] \in Entry(s)
    BY <1>2 DEF Entry
  <1>4. customers \in Seq(Entry(s)) /\ DOMAIN customers = 1..Len(r) /\ \A c \in DOMAIN customers : customers[c].key = 0
    BY <1>1, <1>2, <1>3
  <1>5. /\ work = Imports(s)!NoWork /\ contacts = {} /\ groups = <<>> /\ imports = 0 /\ sheet \in Workbooks(s)
        /\ imports \in 0..ImportsIn(s)
    <2>1. work = Imports(s)!NoWork /\ contacts = {} /\ groups = <<>> /\ imports = 0 /\ sheet \in Workbooks(s)
      BY DEF Imports!Init
    <2>2. ImportsIn(s) \in Nat
      BY DEF Imports!ImportAssumption
    <2>3. 0 \in 0..ImportsIn(s)
      BY <2>2
    <2> QED BY <2>1, <2>3
  <1>6. ImportTyped(s)
    <2>1. Keyed(s, customers)
      BY <1>4 DEF Keyed
    <2>2. Keyed(s, work.customers)
      BY <1>5, NoWorkTyped DEF Keyed
    <2>3. work \in Works(s) /\ ~work.open /\ work.todo = {} /\ work.contacts = {}
      BY <1>5, NoWorkTyped
    <2>4. Placed(contacts, customers) /\ Placed(work.contacts, work.customers)
      BY <1>5, <2>3 DEF Placed
    <2> QED BY <1>4, <1>5, <2>1, <2>2, <2>3, <2>4 DEF ImportTyped
  <1>7. ImportSettled(s)
    <2>1. Distinct(s, customers)
      BY <1>4 DEF Distinct
    <2>4. DOMAIN work.customers = {}
      BY <1>5, NoWorkTyped
    <2>2. Distinct(s, work.customers)
      BY <2>4 DEF Distinct
    <2>3. ~(imports >= 1)
      BY <1>5
    <2>5. work.open = FALSE
      BY <1>5, NoWorkTyped
    <2> QED BY <2>1, <2>2, <2>3, <2>5 DEF ImportSettled
  <1>8. ASSUME InCrm(s) = {<<>>} PROVE DOMAIN customers = {}
    BY <1>4, <1>8
  <1> QED BY <1>5, <1>6, <1>7, <1>8, NoWorkTyped DEF AllKeyed

LEMMA SheetTyped ==
  ASSUME NEW s, Imports(s)!ImportAssumption, ImportTyped(s)
  PROVE  /\ sheet \in Seq(Imports(s)!Rows) /\ AcquiredDates \subseteq Nat /\ ImportsIn(s) \in Nat /\ imports \in Nat
         /\ work \in Works(s) /\ work.open \in BOOLEAN /\ work.customers \in Seq(Entry(s))
         /\ Imports(s)!Winners(Imports(s)!Grouped) \subseteq DOMAIN sheet /\ work.todo \subseteq DOMAIN sheet /\ DOMAIN sheet \subseteq Nat
  <1>1. sheet \in Seq(Imports(s)!Rows) /\ work \in Works(s)
    BY DEF Imports!ImportAssumption, ImportTyped
  <1>2. Imports(s)!Winners(Imports(s)!Grouped) \subseteq DOMAIN sheet
    BY DEF Imports!Winners
  <1> QED BY <1>1, <1>2, RowNumbers DEF Imports!ImportAssumption, ImportTyped, Works

(* The row at work.                                                           *)
LEMMA RowAtWork ==
  ASSUME NEW s, Imports(s)!ImportAssumption, ImportTyped(s), work.todo # {}
  PROVE  /\ Imports(s)!First(work.todo) \in work.todo /\ Imports(s)!First(work.todo) \in Imports(s)!Winners(Imports(s)!Grouped)
         /\ Imports(s)!First(work.todo) \in DOMAIN sheet
  <1>1. work.todo \in SUBSET Nat
    BY SheetTyped
  <1>2. Imports(s)!First(work.todo) \in work.todo
    BY <1>1, LeastOf
  <1> QED BY <1>2, SheetTyped DEF ImportTyped

LEMMA TypedStart ==
  ASSUME NEW s, Imports(s)!ImportAssumption, ImportTyped(s), Imports(s)!StartImport
  PROVE  /\ ImportTyped(s)' /\ sheet' = sheet
         /\ work'.open = TRUE /\ work'.todo = Imports(s)!Winners(Imports(s)!Grouped) /\ work.open = FALSE /\ work = Imports(s)!NoWork
         /\ work'.customers = customers /\ work'.contacts = contacts
         /\ UNCHANGED <<customers, contacts, imports>>
  <1>1. /\ ~work.open /\ imports < ImportsIn(s) /\ groups' = Imports(s)!Grouped
        /\ work' = [open |-> TRUE, todo |-> Imports(s)!Winners(Imports(s)!Grouped), customers |-> customers, contacts |-> contacts]
        /\ UNCHANGED <<sheet, customers, contacts, imports>>
    BY DEF Imports!StartImport
  <1>2. Imports(s)!Grouped' = Imports(s)!Grouped /\ Imports(s)!Winners(Imports(s)!Grouped)' = Imports(s)!Winners(Imports(s)!Grouped)
    BY <1>1, SheetStays
  <1>3. /\ work'.open = TRUE /\ work'.todo = Imports(s)!Winners(Imports(s)!Grouped)
        /\ work'.customers = customers /\ work'.contacts = contacts
    BY <1>1
  <1>4. customers \in Seq(Entry(s)) /\ contacts \subseteq (DOMAIN customers) \X Names /\ DOMAIN customers \subseteq Nat
    BY DEF ImportTyped, Placed
  <1>5. Imports(s)!Winners(Imports(s)!Grouped) \in SUBSET Nat /\ contacts \in SUBSET (Nat \X Names)
    BY <1>4, SheetTyped
  <1>6. work' \in Works(s)
    BY <1>1, <1>4, <1>5 DEF Works
  <1>7. Keyed(s, customers)' /\ Keyed(s, work.customers)'
    BY <1>1, <1>3 DEF ImportTyped, Keyed
  <1>10. Placed(contacts, customers)' /\ Placed(work.contacts, work.customers)'
    BY <1>1, <1>3, <1>4 DEF Placed
  <1>8. work.open = FALSE /\ work = Imports(s)!NoWork
    BY <1>1, SheetTyped DEF ImportTyped
  <1>9. ImportTyped(s)'
    BY <1>1, <1>2, <1>3, <1>4, <1>6, <1>7, <1>10 DEF ImportTyped
  <1> QED BY <1>1, <1>3, <1>8, <1>9

LEMMA TypedRow ==
  ASSUME NEW s, Imports(s)!ImportAssumption, ImportTyped(s), NEW i, NEW c, i \in DOMAIN sheet,
         c \in 1..(Len(work.customers) + 1), work.open, work' = Imports(s)!Write(i, c), UNCHANGED <<sheet, groups, customers, contacts, imports>>
  PROVE  ImportTyped(s)'
  <1>0. sheet \in Seq(Imports(s)!Rows) /\ work \in Works(s)
    BY SheetTyped
  <1>10. Placed(work.contacts, work.customers)
    BY DEF ImportTyped
  <1>1. /\ work' \in Works(s)
        /\ work'.open = work.open /\ work'.todo = work.todo \ {i}
        /\ DOMAIN work'.customers = (DOMAIN work.customers) \cup {c}
        /\ work'.customers[c] = [key |-> i, id |-> Imports(s)!Identity(sheet[i])]
        /\ \A d \in (DOMAIN work.customers) \ {c} : work'.customers[d] = work.customers[d]
        /\ Placed(work'.contacts, work'.customers)
    <2> DEFINE W == Imports(s)!Write(i, c)
    <2>1. Wrote(s, W, i, c)
      BY <1>0, <1>10, WriteIs
    <2> HIDE DEF W
    <2>2. work' = W
      BY DEF W
    <2>3. /\ W \in Works(s)
          /\ W.open = work.open /\ W.todo = work.todo \ {i}
          /\ DOMAIN W.customers = (DOMAIN work.customers) \cup {c}
          /\ W.customers[c] = [key |-> i, id |-> Imports(s)!Identity(sheet[i])]
          /\ \A d \in (DOMAIN work.customers) \ {c} : W.customers[d] = work.customers[d]
          /\ Placed(W.contacts, W.customers)
      BY <2>1, Zenon DEF Wrote
    <2> QED BY <2>2, <2>3, Zenon
  <1>2. Imports(s)!Grouped' = Imports(s)!Grouped /\ Imports(s)!Winners(Imports(s)!Grouped)' = Imports(s)!Winners(Imports(s)!Grouped)
    BY SheetStays
  <1>3. Keyed(s, customers)' /\ Keyed(s, customers)
    BY DEF ImportTyped, Keyed
  <1>4. Keyed(s, work.customers)'
    <2> SUFFICES ASSUME NEW d \in DOMAIN work'.customers, work'.customers[d].key # 0
                 PROVE  /\ work'.customers[d].key \in DOMAIN sheet
                        /\ work'.customers[d].id = Imports(s)!Identity(sheet[work'.customers[d].key])
      BY DEF Keyed
    <2>1. CASE d = c
      BY <1>0, <1>1, <2>1
    <2>2. CASE d # c
      <3>1. d \in (DOMAIN work.customers) \ {c} /\ work'.customers[d] = work.customers[d]
        BY <1>1, <2>2
      <3> QED BY <3>1 DEF ImportTyped, Keyed
    <2> QED BY <2>1, <2>2
  <1>5. Placed(contacts, customers)' /\ Placed(work.contacts, work.customers)'
    BY <1>1 DEF ImportTyped, Placed
  <1> QED BY <1>1, <1>2, <1>3, <1>4, <1>5 DEF ImportTyped

LEMMA TypedSkip ==
  ASSUME NEW s, Imports(s)!ImportAssumption, ImportTyped(s), Imports(s)!SkipRow
  PROVE  /\ ImportTyped(s)' /\ sheet' = sheet /\ work.open /\ work.todo # {} /\ sheet[Imports(s)!First(work.todo)].bad
         /\ work'.open = work.open /\ work'.todo = work.todo \ {Imports(s)!First(work.todo)}
         /\ work'.customers = work.customers /\ work'.contacts = work.contacts
         /\ UNCHANGED <<customers, contacts, imports>>
  <1>1. /\ work' = [work EXCEPT !.todo = @ \ {Imports(s)!First(work.todo)}]
        /\ work.open /\ work.todo # {} /\ sheet[Imports(s)!First(work.todo)].bad
        /\ UNCHANGED <<sheet, groups, customers, contacts, imports>>
    BY DEF Imports!SkipRow
  <1>2. /\ work'.open = work.open /\ work'.todo = work.todo \ {Imports(s)!First(work.todo)}
        /\ work'.customers = work.customers /\ work'.contacts = work.contacts /\ work' \in Works(s)
    BY <1>1, SheetTyped DEF Works
  <1>3. Imports(s)!Grouped' = Imports(s)!Grouped /\ Imports(s)!Winners(Imports(s)!Grouped)' = Imports(s)!Winners(Imports(s)!Grouped)
    BY <1>1, SheetStays
  <1>4. Keyed(s, customers)' /\ Keyed(s, work.customers)'
    BY <1>1, <1>2 DEF ImportTyped, Keyed
  <1>5. Placed(contacts, customers)' /\ Placed(work.contacts, work.customers)'
    BY <1>1, <1>2 DEF ImportTyped, Placed
  <1>6. ImportTyped(s)'
    BY <1>1, <1>2, <1>3, <1>4, <1>5 DEF ImportTyped
  <1> QED BY <1>1, <1>2, <1>6

LEMMA TypedEnd ==
  ASSUME NEW s, Imports(s)!ImportAssumption, ImportTyped(s), Imports(s)!Commit \/ Imports(s)!Rollback
  PROVE  ImportTyped(s)' /\ sheet' = sheet
  <1>1. /\ work.open /\ work' = Imports(s)!NoWork /\ UNCHANGED <<sheet, groups>>
        /\ \/ customers' = work.customers /\ contacts' = work.contacts /\ imports' = imports + 1
           \/ UNCHANGED <<customers, contacts, imports>>
    BY DEF Imports!Commit, Imports!Rollback
  <1>2. imports' \in 0..ImportsIn(s)
    BY <1>1, SheetTyped DEF ImportTyped
  <1>3. Imports(s)!Grouped' = Imports(s)!Grouped /\ Imports(s)!Winners(Imports(s)!Grouped)' = Imports(s)!Winners(Imports(s)!Grouped)
    BY <1>1, SheetStays
  <1>4. Keyed(s, customers)' /\ Keyed(s, work.customers)'
    BY <1>1, NoWorkTyped DEF ImportTyped, Keyed
  <1>5. customers' \in Seq(Entry(s)) /\ Placed(contacts, customers)'
    BY <1>1, SheetTyped DEF ImportTyped, Placed
  <1>6. Placed(work.contacts, work.customers)'
    BY <1>1, NoWorkTyped DEF Placed
  <1> QED BY <1>1, <1>2, <1>3, <1>4, <1>5, <1>6, NoWorkTyped DEF ImportTyped

LEMMA TypedEdit ==
  ASSUME NEW s, Imports(s)!ImportAssumption, ImportTyped(s), Imports(s)!EditSheet, EditsIn(s) \in {"none", "append"}
  PROVE  ImportTyped(s)'
  <1>1. /\ EditsIn(s) = "append" /\ ~work.open /\ sheet' \in Workbooks(s) /\ groups' = <<>>
        /\ \A i \in DOMAIN sheet : i \in DOMAIN sheet' /\ sheet'[i] = sheet[i]
        /\ UNCHANGED <<customers, contacts, work, imports>>
    BY DEF Imports!EditSheet
  <1>2. work = Imports(s)!NoWork
    BY <1>1 DEF ImportTyped
  <1>3. ASSUME NEW i \in DOMAIN sheet PROVE i \in DOMAIN sheet' /\ Imports(s)!Identity(sheet[i]) = Imports(s)!Identity(sheet'[i])
    BY <1>1
  <1>4. Keyed(s, customers)'
    <2> SUFFICES ASSUME NEW d \in DOMAIN customers, customers[d].key # 0
                 PROVE  customers[d].key \in DOMAIN sheet' /\ customers[d].id = Imports(s)!Identity(sheet'[customers[d].key])
      BY <1>1 DEF Keyed, Imports!Identity
    <2>1. customers[d].key \in DOMAIN sheet /\ customers[d].id = Imports(s)!Identity(sheet[customers[d].key])
      BY DEF ImportTyped, Keyed
    <2> QED BY <2>1, <1>3
  <1>5. Keyed(s, work.customers)'
    BY <1>1, <1>2, NoWorkTyped DEF Keyed
  <1>6. work.todo = {}
    BY <1>2, NoWorkTyped
  <1>7. Placed(contacts, customers)' /\ Placed(work.contacts, work.customers)'
    BY <1>1 DEF ImportTyped, Placed
  <1> QED BY <1>1, <1>2, <1>4, <1>5, <1>6, <1>7 DEF ImportTyped

LEMMA TypedStep ==
  ASSUME NEW s, Imports(s)!ImportAssumption, ImportTyped(s), [Imports(s)!Next]_importVars, EditsIn(s) \in {"none", "append"}
  PROVE  ImportTyped(s)'
  <1>1. CASE Imports(s)!StartImport
    BY <1>1, TypedStart
  <1>2. CASE Imports(s)!ImportRow
    <2>1. work.open /\ work.todo # {} /\ UNCHANGED <<sheet, groups, customers, contacts, imports>>
      BY <1>2 DEF Imports!ImportRow
    <2> DEFINE i == Imports(s)!First(work.todo)
    <2>2. PICK c \in Overwritten(s, i) : work' = Imports(s)!Write(i, c)
      BY <1>2 DEF Imports!ImportRow, Overwritten
    <2>3. i \in DOMAIN sheet
      BY <2>1, RowAtWork
    <2> HIDE DEF i
    <2>4. c \in 1..(Len(work.customers) + 1)
      BY <2>2, SheetTyped, MatchIs
    <2> QED BY <2>1, <2>2, <2>3, <2>4, TypedRow
  <1>3. CASE Imports(s)!SkipRow
    BY <1>3, TypedSkip
  <1>4. CASE Imports(s)!Commit \/ Imports(s)!Rollback
    BY <1>4, TypedEnd
  <1>5. CASE Imports(s)!EditSheet
    BY <1>5, TypedEdit
  <1>6. CASE UNCHANGED importVars
    <2>1. sheet' = sheet /\ UNCHANGED <<groups, customers, contacts, work, imports>>
      BY <1>6 DEF importVars
    <2>2. Imports(s)!Grouped' = Imports(s)!Grouped /\ Imports(s)!Winners(Imports(s)!Grouped)' = Imports(s)!Winners(Imports(s)!Grouped)
      BY <2>1, SheetStays
    <2>3. Keyed(s, customers)' /\ Keyed(s, work.customers)'
      BY <2>1 DEF ImportTyped, Keyed
    <2>4. Placed(contacts, customers)' /\ Placed(work.contacts, work.customers)'
      BY <2>1 DEF ImportTyped, Placed
    <2> QED BY <2>1, <2>2, <2>3, <2>4 DEF ImportTyped
  <1> QED BY <1>1, <1>2, <1>3, <1>4, <1>5, <1>6 DEF Imports!Next, Imports!Finished, Imports!vars, importVars
-----------------------------------------------------------------------------
LEMMA SettledRow ==
  ASSUME NEW s, Imports(s)!ImportAssumption, ImportTyped(s), ImportSettled(s), Imports(s)!ImportRow
  PROVE  ImportSettled(s)' /\ (AllKeyed(work.customers) => AllKeyed(work.customers)')
         /\ UNCHANGED <<sheet, customers, contacts, imports>>
  <1> DEFINE i == Imports(s)!First(work.todo)
             b == work.customers
             n == work.contacts
  <1>1. /\ work.open /\ work.todo # {} /\ UNCHANGED <<sheet, groups, customers, contacts, imports>> /\ ~sheet[i].bad
        /\ \E c \in Overwritten(s, i) : work' = Imports(s)!Write(i, c)
    BY DEF Imports!ImportRow, Overwritten
  <1>2. PICK c \in Overwritten(s, i) : work' = Imports(s)!Write(i, c)
    BY <1>1
  <1>3. i \in work.todo /\ i \in Imports(s)!Winners(Imports(s)!Grouped) /\ i \in DOMAIN sheet
    BY <1>1, RowAtWork
  <1> HIDE DEF i
  <1>4. /\ sheet \in Seq(Imports(s)!Rows) /\ AcquiredDates \subseteq Nat /\ work \in Works(s)
        /\ b \in Seq(Entry(s)) /\ i \in Nat /\ i # 0
        /\ Placed(work.contacts, work.customers)
        /\ Keyed(s, b) /\ Distinct(s, b)
    BY <1>3, SheetTyped, RowTyped DEF ImportTyped, ImportSettled
  <1>5. c \in 1..(Len(work.customers) + 1)
    BY <1>2, <1>4, MatchIs
  <1>6. /\ c \notin DOMAIN b => Imports(s)!ByKey(i) = {}
        /\ c \in DOMAIN b => b[c].key = i \/ (b[c].key = 0 /\ Imports(s)!ByKey(i) = {})
    <2>1. c \in DOMAIN b => b[c].key \in {0, i}
      BY <1>2, <1>3, <1>4, MatchOwn
    <2>2. \/ c \notin DOMAIN b /\ Imports(s)!ByKey(i) = {}
          \/ c \in DOMAIN b /\ b[c].key = i
          \/ c \in DOMAIN b /\ Imports(s)!ByKey(i) = {}
      BY <1>2, <1>4, MatchIs
    <2> QED BY <2>1, <2>2
  <1> DEFINE W == Imports(s)!Write(i, c)
  <1>18. Wrote(s, W, i, c)
    BY <1>3, <1>4, <1>5, WriteIs
  <1> HIDE DEF W
  <1>19. W \in Works(s)
    BY <1>18, Zenon DEF Wrote
  <1>20. W.customers \in Seq(Entry(s))
    BY <1>19 DEF Works
  <1>7. /\ W.open = work.open /\ W.todo = work.todo \ {i}
        /\ DOMAIN W.customers = (DOMAIN b) \cup {c}
        /\ W.customers[c] = [key |-> i, id |-> Imports(s)!Identity(sheet[i])]
        /\ \A d \in (DOMAIN b) \ {c} : W.customers[d] = b[d]
        /\ W.contacts = n \cup Imports(s)!Named(c, sheet[i].name)
    BY <1>18, Zenon DEF Wrote
  <1>8. work' = W
    BY <1>2 DEF W
  <1>9. Imports(s)!Grouped' = Imports(s)!Grouped /\ Imports(s)!Winners(Imports(s)!Grouped)' = Imports(s)!Winners(Imports(s)!Grouped)
    BY <1>1, SheetStays
  <1>10. W.customers[c].key = i /\ W.customers[c].id = Imports(s)!Identity(sheet[i])
    BY <1>7
  <1>11. ASSUME NEW d \in DOMAIN b, d # c PROVE b[d].key # i
    <2>1. CASE c \in DOMAIN b /\ b[c].key = i
      BY <1>4, <1>11, <2>1 DEF Distinct
    <2>2. CASE Imports(s)!ByKey(i) = {}
      BY <1>11, <2>2 DEF Imports!ByKey
    <2> QED BY <1>6, <2>1, <2>2
  <1>12. Distinct(s, work.customers)'
    <2>1. \A d, e \in DOMAIN W.customers : W.customers[d].key # 0 /\ W.customers[d].key = W.customers[e].key => d = e
      <3> SUFFICES ASSUME NEW d \in DOMAIN W.customers, NEW e \in DOMAIN W.customers,
                          W.customers[d].key # 0, W.customers[d].key = W.customers[e].key, d # e
                   PROVE  FALSE
        OBVIOUS
      <3>1. CASE d = c
        <4>1. e \in DOMAIN b /\ e # c /\ W.customers[e] = b[e]
          BY <1>7, <3>1
        <4> QED BY <1>10, <1>11, <3>1, <4>1
      <3>2. CASE e = c
        <4>1. d \in DOMAIN b /\ d # c /\ W.customers[d] = b[d]
          BY <1>7, <3>2
        <4> QED BY <1>10, <1>11, <3>2, <4>1
      <3>3. CASE d # c /\ e # c
        <4>1. d \in DOMAIN b /\ W.customers[d] = b[d] /\ e \in DOMAIN b /\ W.customers[e] = b[e]
          BY <1>7, <3>3
        <4> QED BY <1>4, <4>1 DEF Distinct
      <3> QED BY <3>1, <3>2, <3>3
    <2>2. \A d \in DOMAIN W.customers : W.customers[d].key # 0 => W.customers[d].key \in Imports(s)!Winners(Imports(s)!Grouped)
      <3> SUFFICES ASSUME NEW d \in DOMAIN W.customers, W.customers[d].key # 0
                   PROVE  W.customers[d].key \in Imports(s)!Winners(Imports(s)!Grouped)
        OBVIOUS
      <3>1. CASE d = c
        BY <1>3, <1>10, <3>1
      <3>2. CASE d # c
        <4>1. d \in DOMAIN b /\ W.customers[d] = b[d]
          BY <1>7, <3>2
        <4> QED BY <1>4, <4>1 DEF Distinct
      <3> QED BY <3>1, <3>2
    <2> QED BY <1>8, <1>9, <2>1, <2>2 DEF Distinct
  <1>13. Distinct(s, customers)'
    BY <1>1, <1>9 DEF ImportSettled, Distinct
  <1>14. Settled(s, work.customers, work.contacts, work.todo)'
    <2> SUFFICES ASSUME NEW w \in Imports(s)!Winners(Imports(s)!Grouped) \ W.todo, ~sheet[w].bad
                 PROVE  \E d \in DOMAIN W.customers : W.customers[d].key = w /\ Imports(s)!Named(d, sheet[w].name) \subseteq W.contacts
      BY <1>1, <1>8, <1>9 DEF Settled, Imports!Named
    <2>1. CASE w = i
      BY <1>7, <1>10, <2>1
    <2>2. CASE w # i
      <3>1. w \in Imports(s)!Winners(Imports(s)!Grouped) \ work.todo
        BY <1>7, <2>2
      <3>2. PICK d \in DOMAIN b : b[d].key = w /\ Imports(s)!Named(d, sheet[w].name) \subseteq n
        BY <1>1, <2>2, <3>1 DEF ImportSettled, Settled
      <3>3. w # 0
        BY <3>1, SheetTyped, RowTyped
      <3>4. d # c
        BY <1>6, <2>2, <3>2, <3>3
      <3>5. d \in DOMAIN W.customers /\ W.customers[d].key = w /\ Imports(s)!Named(d, sheet[w].name) \subseteq W.contacts
        BY <1>7, <3>2, <3>4
      <3> QED BY <3>5
    <2> QED BY <2>1, <2>2
  <1>15. ASSUME imports >= 1 PROVE W.customers = customers /\ W.contacts = contacts /\ Settled(s, customers, contacts, {})
    <2>1. b = customers /\ n = contacts /\ Settled(s, customers, contacts, {})
      BY <1>1, <1>15 DEF ImportSettled
    <2>2. PICK d \in DOMAIN b : b[d].key = i /\ Imports(s)!Named(d, sheet[i].name) \subseteq n
      BY <1>1, <1>3, <2>1 DEF Settled
    <2>3. d = c
      BY <1>11, <2>2
    <2>4. b[c] = [key |-> i, id |-> Imports(s)!Identity(sheet[i])]
      <3>1. b[c] \in Entry(s) /\ b[c].key = i
        BY <1>4, <2>2, <2>3
      <3>2. b[c].id = Imports(s)!Identity(sheet[i])
        BY <1>4, <2>2, <2>3 DEF Keyed
      <3> QED BY <3>1, <3>2 DEF Entry
    <2>5. DOMAIN W.customers = DOMAIN b /\ \A e \in DOMAIN b : W.customers[e] = b[e]
      BY <1>7, <2>2, <2>3, <2>4
    <2>6. W.customers = b
      <3> HIDE DEF b
      <3> QED BY <1>4, <1>20, <2>5
    <2> QED BY <1>7, <2>1, <2>2, <2>3, <2>6
  <1>16. ImportSettled(s)'
    <2>1. imports' = imports /\ customers' = customers /\ contacts' = contacts
      BY <1>1
    <2>2. imports >= 1 => Settled(s, customers, contacts, {})'
      BY <1>1, <1>9, <1>15 DEF Settled, Imports!Named
    <2> QED BY <1>8, <1>12, <1>13, <1>14, <1>15, <2>1, <2>2 DEF ImportSettled
  <1>17. ASSUME AllKeyed(b) PROVE AllKeyed(work.customers)'
    <2> SUFFICES ASSUME NEW d \in DOMAIN W.customers PROVE W.customers[d].key # 0
      BY <1>8 DEF AllKeyed
    <2>1. CASE d = c
      BY <1>4, <1>10, <2>1
    <2>2. CASE d # c
      BY <1>7, <1>17, <2>2 DEF AllKeyed
    <2> QED BY <2>1, <2>2
  <1> QED BY <1>1, <1>16, <1>17

LEMMA SettledStep ==
  ASSUME NEW s, Imports(s)!ImportAssumption, ImportTyped(s), ImportSettled(s), [Imports(s)!Next]_importVars, EditsIn(s) = "none"
  PROVE  /\ ImportSettled(s)' /\ Imports(s)!NothingNew
         /\ AllKeyed(customers) /\ AllKeyed(work.customers) =>
              AllKeyed(customers)' /\ AllKeyed(work.customers)'
  <1>1. CASE Imports(s)!StartImport
    <2>1. /\ sheet' = sheet /\ work'.open = TRUE /\ work'.todo = Imports(s)!Winners(Imports(s)!Grouped)
          /\ work'.customers = customers /\ work'.contacts = contacts
          /\ UNCHANGED <<customers, contacts, imports>>
      BY <1>1, TypedStart
    <2>2. Imports(s)!Grouped' = Imports(s)!Grouped /\ Imports(s)!Winners(Imports(s)!Grouped)' = Imports(s)!Winners(Imports(s)!Grouped)
      BY <2>1, SheetStays
    <2>3. Distinct(s, customers)' /\ Distinct(s, work.customers)'
      BY <2>1, <2>2 DEF ImportSettled, Distinct
    <2>4. imports' >= 1 => Settled(s, customers, contacts, {})'
      BY <2>1, <2>2 DEF ImportSettled, Settled, Imports!Named
    <2>5. Settled(s, work.customers, work.contacts, work.todo)'
      BY <2>1, <2>2 DEF Settled
    <2> QED BY <2>1, <2>3, <2>4, <2>5 DEF ImportSettled, Imports!NothingNew, AllKeyed
  <1>2. CASE Imports(s)!ImportRow
    BY <1>2, SettledRow DEF Imports!NothingNew, AllKeyed
  <1>3. CASE Imports(s)!SkipRow
    <2>1. /\ sheet' = sheet /\ work.open /\ work.todo # {} /\ sheet[Imports(s)!First(work.todo)].bad
          /\ work'.open = work.open /\ work'.todo = work.todo \ {Imports(s)!First(work.todo)}
          /\ work'.customers = work.customers /\ work'.contacts = work.contacts
          /\ UNCHANGED <<customers, contacts, imports>>
      BY <1>3, TypedSkip
    <2>2. Imports(s)!Grouped' = Imports(s)!Grouped /\ Imports(s)!Winners(Imports(s)!Grouped)' = Imports(s)!Winners(Imports(s)!Grouped)
      BY <2>1, SheetStays
    <2>3. Distinct(s, customers)' /\ Distinct(s, work.customers)'
      BY <2>1, <2>2 DEF ImportSettled, Distinct
    <2>4. imports' >= 1 => Settled(s, customers, contacts, {})'
      BY <2>1, <2>2 DEF ImportSettled, Settled, Imports!Named
    <2>5. Settled(s, work.customers, work.contacts, work.todo)'
      BY <2>1, <2>2 DEF ImportSettled, Settled, Imports!Named
    <2> QED BY <2>1, <2>3, <2>4, <2>5 DEF ImportSettled, Imports!NothingNew, AllKeyed
  <1>4. CASE Imports(s)!Commit
    <2>1. /\ work.open /\ work.todo = {} /\ customers' = work.customers /\ contacts' = work.contacts
          /\ work' = Imports(s)!NoWork /\ imports' = imports + 1 /\ sheet' = sheet
      BY <1>4 DEF Imports!Commit
    <2>2. Imports(s)!Grouped' = Imports(s)!Grouped /\ Imports(s)!Winners(Imports(s)!Grouped)' = Imports(s)!Winners(Imports(s)!Grouped)
      BY <2>1, SheetStays
    <2>3. Distinct(s, customers)' /\ Distinct(s, work.customers)'
      BY <2>1, <2>2, NoWorkTyped DEF ImportSettled, Distinct
    <2>4. Settled(s, customers, contacts, {})'
      BY <2>1, <2>2 DEF ImportSettled, Settled, Imports!Named
    <2>5. ~work'.open
      BY <2>1, NoWorkTyped
    <2>6. Imports(s)!NothingNew
      BY <2>1 DEF ImportSettled, Imports!NothingNew
    <2>7. AllKeyed(work.customers) => AllKeyed(customers)' /\ AllKeyed(work.customers)'
      BY <2>1, NoWorkTyped DEF AllKeyed
    <2> QED BY <2>3, <2>4, <2>5, <2>6, <2>7 DEF ImportSettled
  <1>5. CASE Imports(s)!Rollback
    <2>1. work' = Imports(s)!NoWork /\ UNCHANGED <<sheet, groups, customers, contacts, imports>>
      BY <1>5 DEF Imports!Rollback
    <2>2. Imports(s)!Grouped' = Imports(s)!Grouped /\ Imports(s)!Winners(Imports(s)!Grouped)' = Imports(s)!Winners(Imports(s)!Grouped)
      BY <2>1, SheetStays
    <2>3. Distinct(s, customers)' /\ Distinct(s, work.customers)'
      BY <2>1, <2>2, NoWorkTyped DEF ImportSettled, Distinct
    <2>4. imports' >= 1 => Settled(s, customers, contacts, {})'
      BY <2>1, <2>2 DEF ImportSettled, Settled, Imports!Named
    <2>5. ~work'.open /\ DOMAIN work'.customers = {}
      BY <2>1, NoWorkTyped
    <2> QED BY <2>1, <2>3, <2>4, <2>5 DEF ImportSettled, Imports!NothingNew, AllKeyed
  <1>6. CASE Imports(s)!EditSheet
    BY <1>6 DEF Imports!EditSheet
  <1>7. CASE UNCHANGED importVars
    <2>1. UNCHANGED <<sheet, groups, customers, contacts, work, imports>>
      BY <1>7 DEF importVars
    <2>2. Imports(s)!Grouped' = Imports(s)!Grouped /\ Imports(s)!Winners(Imports(s)!Grouped)' = Imports(s)!Winners(Imports(s)!Grouped)
      BY <2>1, SheetStays
    <2>3. Distinct(s, customers)' /\ Distinct(s, work.customers)'
      BY <2>1, <2>2 DEF ImportSettled, Distinct
    <2>4. imports' >= 1 => Settled(s, customers, contacts, {})'
      BY <2>1, <2>2 DEF ImportSettled, Settled, Imports!Named
    <2>5. work'.open => Settled(s, work.customers, work.contacts, work.todo)'
      BY <2>1, <2>2 DEF ImportSettled, Settled, Imports!Named
    <2> QED BY <2>1, <2>3, <2>4, <2>5 DEF ImportSettled, Imports!NothingNew, AllKeyed
  <1> QED BY <1>1, <1>2, <1>3, <1>4, <1>5, <1>6, <1>7 DEF Imports!Next, Imports!Finished, Imports!vars, importVars

LEMMA ImportTypes ==
  ASSUME NEW s, Imports(s)!ImportAssumption, ImportTyped(s)
  PROVE  Imports(s)!TypeOK /\ Imports(s)!GroupsAreExact
  <1>1. sheet \in Seq(Imports(s)!Rows)
    BY SheetTyped
  <1>2. Imports(s)!GroupsAreExact
    BY <1>1, GroupsExact DEF ImportTyped
  <1>3. groups \in [DOMAIN sheet -> DOMAIN sheet] \cup {<<>>}
    BY <1>1, GroupedIs DEF ImportTyped
  <1>4. \A id \in DOMAIN customers : customers[id] \in [key : Nat, id : Imports(s)!Identities]
    <2>1. customers \in Seq(Entry(s))
      BY DEF ImportTyped
    <2>2. \A id \in DOMAIN customers : customers[id] \in Entry(s)
      BY <2>1
    <2> QED BY <2>2 DEF Entry
  <1>5. sheet \in Workbooks(s) /\ contacts \subseteq (DOMAIN customers) \X Names /\ imports \in 0..ImportsIn(s)
    BY DEF ImportTyped, Placed
  <1>6. work.open \in BOOLEAN /\ work.todo \subseteq DOMAIN sheet
    BY SheetTyped
  <1>7. Imports(s)!TypeOK
    BY <1>3, <1>4, <1>5, <1>6 DEF Imports!TypeOK
  <1> QED BY <1>2, <1>7

LEMMA TwinsNever ==
  ASSUME NEW s, Imports(s)!ImportAssumption, ImportTyped(s), ImportSettled(s), AllKeyed(customers)
  PROVE  Imports(s)!NoTwins
  <1> SUFFICES ASSUME NEW c \in DOMAIN customers, NEW d \in DOMAIN customers, c # d, NEW k \in Imports(s)!KeysOfIdentity,
                      customers[c].id[k] # None, customers[c].id[k] = customers[d].id[k]
               PROVE  FALSE
    BY DEF Imports!NoTwins
  <1> DEFINE x == customers[c].key
             y == customers[d].key
  <1>1. x # 0 /\ y # 0 /\ x # y
    BY DEF AllKeyed, ImportSettled, Distinct
  <1>2. x \in Imports(s)!Winners(Imports(s)!Grouped) /\ y \in Imports(s)!Winners(Imports(s)!Grouped)
    BY <1>1 DEF ImportSettled, Distinct
  <1>3. x \in DOMAIN sheet /\ y \in DOMAIN sheet /\ customers[c].id = Imports(s)!Identity(sheet[x]) /\ customers[d].id = Imports(s)!Identity(sheet[y])
    BY <1>1 DEF ImportTyped, Keyed
  <1>4. sheet[x][k] # None /\ sheet[x][k] = sheet[y][k]
    BY <1>3, SheetTyped, RowTyped
  <1>5. Imports(s)!Shares(x, y)
    BY <1>4 DEF Imports!Shares
  <1> QED BY <1>1, <1>2, <1>5, SheetTyped, WinnersApart

LEMMA PersonKept ==
  ASSUME NEW s, Imports(s)!ImportAssumption, ImportTyped(s), [Imports(s)!Next]_importVars
  PROVE  Imports(s)!KeepsPerson
  <1> SUFFICES ASSUME NEW c \in DOMAIN work.customers, work'.open, work'.customers[c].id # work.customers[c].id
               PROVE  \E k \in Imports(s)!KeysOfIdentity : /\ work.customers[c].id[k] # None
                                               /\ work'.customers[c].id[k] = work.customers[c].id[k]
    BY DEF Imports!KeepsPerson
  <1>1. CASE Imports(s)!StartImport
    BY <1>1, TypedStart, NoWorkTyped
  <1>2. CASE Imports(s)!ImportRow
    <2> DEFINE i == Imports(s)!First(work.todo)
    <2>1. PICK d \in Overwritten(s, i) : work' = Imports(s)!Write(i, d)
      BY <1>2 DEF Imports!ImportRow, Overwritten
    <2>2. i \in DOMAIN sheet
      BY <1>2, RowAtWork DEF Imports!ImportRow
    <2> HIDE DEF i
    <2>3. /\ sheet \in Seq(Imports(s)!Rows) /\ work \in Works(s) /\ Keyed(s, work.customers) /\ i # 0
          /\ Placed(work.contacts, work.customers)
          /\ \A k \in Imports(s)!KeysOfIdentity : Imports(s)!Identity(sheet[i])[k] = sheet[i][k]
      BY <2>2, SheetTyped, RowTyped DEF ImportTyped
    <2>4. d \in 1..(Len(work.customers) + 1)
      BY <2>1, <2>3, MatchIs
    <2> DEFINE W == Imports(s)!Write(i, d)
    <2>11. Wrote(s, W, i, d)
      BY <2>2, <2>3, <2>4, WriteIs
    <2> HIDE DEF W
    <2>5. /\ W.customers[d] = [key |-> i, id |-> Imports(s)!Identity(sheet[i])]
          /\ \A e \in (DOMAIN work.customers) \ {d} : W.customers[e] = work.customers[e]
      BY <2>11 DEF Wrote
    <2>6. work' = W
      BY <2>1 DEF W
    <2>7. c = d /\ W.customers[c].id = Imports(s)!Identity(sheet[i])
      BY <2>5, <2>6
    <2>8. CASE work.customers[c].key = i
      <3>1. work.customers[c].id = Imports(s)!Identity(sheet[i])
        BY <2>3, <2>8 DEF Keyed
      <3> QED BY <2>6, <2>7, <3>1
    <2>9. CASE \E k \in Imports(s)!KeysOfIdentity : sheet[i][k] # None /\ work.customers[c].id[k] = sheet[i][k]
      <3>1. PICK k \in Imports(s)!KeysOfIdentity : sheet[i][k] # None /\ work.customers[c].id[k] = sheet[i][k]
        BY <2>9
      <3>2. work'.customers[c].id[k] = sheet[i][k]
        BY <2>3, <2>6, <2>7
      <3> QED BY <3>1, <3>2
    <2>10. \/ work.customers[c].key = i
           \/ \E k \in Imports(s)!KeysOfIdentity : sheet[i][k] # None /\ work.customers[c].id[k] = sheet[i][k]
      <3>1. \/ d \notin DOMAIN work.customers /\ Imports(s)!ByKey(i) = {}
            \/ d \in DOMAIN work.customers /\ work.customers[d].key = i
            \/ /\ d \in DOMAIN work.customers /\ Imports(s)!ByKey(i) = {}
               /\ \E k \in Imports(s)!KeysOfIdentity : sheet[i][k] # None /\ work.customers[d].id[k] = sheet[i][k]
        BY <2>1, <2>3, MatchIs
      <3> QED BY <2>7, <3>1
    <2> QED BY <2>8, <2>9, <2>10
  <1>3. CASE Imports(s)!SkipRow
    BY <1>3, TypedSkip
  <1>4. CASE Imports(s)!Commit \/ Imports(s)!Rollback
    BY <1>4, NoWorkTyped DEF Imports!Commit, Imports!Rollback
  <1>5. CASE Imports(s)!EditSheet \/ UNCHANGED importVars
    BY <1>5 DEF Imports!EditSheet, importVars
  <1> QED BY <1>1, <1>2, <1>3, <1>4, <1>5 DEF Imports!Next, Imports!Finished, Imports!vars, importVars
-----------------------------------------------------------------------------
(* What holds in a setting: its rows and customers fit together, with a       *)
(* workbook that stays every row that was written has its customer, and in a  *)
(* CRM that was empty every customer comes from a row.                        *)
ImportInv(s) ==
  /\ ImportTyped(s)
  /\ EditsIn(s) = "none" => ImportSettled(s)
  /\ s = "first import" => AllKeyed(customers) /\ AllKeyed(work.customers)

LEMMA SettingsAre ==
  ASSUME NEW s \in ImportSettings
  PROVE  /\ Imports(s)!ImportAssumption /\ EditsIn(s) \in {"none", "append"}
         /\ s # "appended" => EditsIn(s) = "none"
         /\ s = "first import" => InCrm(s) = {<<>>}
  BY WorkbookAssumption DEF ImportSettings, EditsIn, InCrm

LEMMA ImportsStart ==
  ASSUME DeskInit, NEW s \in ImportSettings, desk = s
  PROVE  ImportInv(s)
  <1>1. Imports(s)!Init
    <2>1. CASE s = "first import"
      BY <2>1 DEF DeskInit
    <2>2. CASE s = "import again"
      BY <2>2 DEF DeskInit
    <2>3. CASE s = "appended"
      BY <2>3 DEF DeskInit
    <2> QED BY <2>1, <2>2, <2>3 DEF ImportSettings
  <1>2. Imports(s)!ImportAssumption /\ (s = "first import" => InCrm(s) = {<<>>})
    BY SettingsAre
  <1>3. ImportTyped(s) /\ ImportSettled(s)
    BY <1>1, <1>2, ImportStart
  <1>4. InCrm(s) = {<<>>} => AllKeyed(customers) /\ AllKeyed(work.customers)
    BY <1>1, <1>2, ImportStart
  <1> QED BY <1>2, <1>3, <1>4 DEF ImportInv

LEMMA SettingSteps ==
  ASSUME [DeskNext]_deskVars, NEW s \in ImportSettings, desk = s
  PROVE  [Imports(s)!Next]_importVars /\ desk' = desk
  <1>1. desk' = desk
    BY DEF DeskNext, SessionStep, PeriodStep, FigureStep, ReminderStep, ProductStep, SearchStep, ImportStep, deskVars
  <1>2. CASE ImportStep
    <2>1. CASE s = "first import"
      BY <1>2, <2>1 DEF ImportStep
    <2>2. CASE s = "import again"
      BY <1>2, <2>2 DEF ImportStep
    <2>3. CASE s = "appended"
      BY <1>2, <2>3 DEF ImportStep
    <2> QED BY <2>1, <2>2, <2>3 DEF ImportSettings
  <1>3. CASE ~ImportStep
    <2>1. UNCHANGED importVars
      BY <1>3 DEF DeskNext, SessionStep, PeriodStep, FigureStep, ReminderStep, ProductStep, SearchStep, deskVars, importVars
    <2> QED BY <1>1, <2>1
  <1> QED BY <1>1, <1>2, <1>3

LEMMA ImportsKept ==
  ASSUME [DeskNext]_deskVars, NEW s \in ImportSettings, desk = s, ImportInv(s)
  PROVE  /\ ImportInv(s)'
         /\ s = "import again" => Imports(s)!NothingNew
         /\ s = "appended" => Imports(s)!KeepsPerson
  <1>1. [Imports(s)!Next]_importVars /\ Imports(s)!ImportAssumption /\ EditsIn(s) \in {"none", "append"}
        /\ (s # "appended" => EditsIn(s) = "none")
    BY SettingSteps, SettingsAre
  <1>2. ImportTyped(s) /\ (EditsIn(s) = "none" => ImportSettled(s))
    BY DEF ImportInv
  <1>3. ImportTyped(s)'
    BY <1>1, <1>2, TypedStep
  <1>4. Imports(s)!KeepsPerson
    BY <1>1, <1>2, PersonKept
  <1>5. EditsIn(s) = "none" => ImportSettled(s)' /\ Imports(s)!NothingNew
    BY <1>1, <1>2, SettledStep
  <1>6. EditsIn(s) = "none" /\ AllKeyed(customers) /\ AllKeyed(work.customers)
          => AllKeyed(customers)' /\ AllKeyed(work.customers)'
    BY <1>1, <1>2, SettledStep
  <1>7. s = "first import" => AllKeyed(customers)' /\ AllKeyed(work.customers)'
    BY <1>1, <1>6 DEF ImportInv
  <1>8. ImportInv(s)'
    BY <1>3, <1>5, <1>7 DEF ImportInv
  <1> QED BY <1>1, <1>4, <1>5, <1>8

LEMMA ImportsHold ==
  ASSUME NEW s \in ImportSettings, ImportInv(s)
  PROVE  /\ Imports(s)!TypeOK /\ Imports(s)!GroupsAreExact
         /\ s = "first import" => Imports(s)!NoTwins
  <1>1. Imports(s)!ImportAssumption /\ (s # "appended" => EditsIn(s) = "none")
    BY SettingsAre
  <1>2. ImportTyped(s)
    BY DEF ImportInv
  <1>3. Imports(s)!TypeOK /\ Imports(s)!GroupsAreExact
    BY <1>1, <1>2, ImportTypes
  <1>4. s = "first import" => ImportSettled(s) /\ AllKeyed(customers)
    BY <1>1 DEF ImportInv
  <1>5. s = "first import" => Imports(s)!NoTwins
    BY <1>1, <1>2, <1>4, TwinsNever
  <1> QED BY <1>3, <1>5

(* One customer per person, for workbooks of any length over any addresses:   *)
(* groups of rows are exact, a first import makes no twins, importing again   *)
(* into any CRM changes nothing, and a row overwrites only the person it      *)
(* shares an identifier with, also when the workbook has grown.               *)
THEOREM OneCustomerPerPerson == DeskSpec => OnePersonPerCustomer
  <1> DEFINE Inv == \A s \in ImportSettings : desk = s => ImportInv(s)
             Exact == \A setting \in ImportSettings :
                        desk = setting => Imports(setting)!TypeOK /\ Imports(setting)!GroupsAreExact
             Apart == desk = "first import" => Imports("first import")!NoTwins
             Kept == /\ desk = "import again" => Imports("import again")!NothingNew
                     /\ desk = "appended" => Imports("appended")!KeepsPerson
  <1>0. "first import" \in ImportSettings /\ "import again" \in ImportSettings /\ "appended" \in ImportSettings
    BY DEF ImportSettings
  <1>1. DeskInit => Inv
    BY ImportsStart
  <1>2. Inv /\ [DeskNext]_deskVars => Inv' /\ [Kept]_deskVars
    <2> SUFFICES ASSUME Inv, [DeskNext]_deskVars PROVE Inv' /\ Kept
      OBVIOUS
    <2>1. ASSUME NEW s \in ImportSettings, desk' = s PROVE ImportInv(s)'
      <3>1. desk = s
        BY <2>1 DEF DeskNext, SessionStep, PeriodStep, FigureStep, ReminderStep, ProductStep, SearchStep, ImportStep, deskVars
      <3>2. ImportInv(s)
        BY <3>1
      <3> QED BY <3>1, <3>2, ImportsKept
    <2>2. ASSUME NEW s \in ImportSettings, desk = s
          PROVE  /\ s = "import again" => Imports(s)!NothingNew
                 /\ s = "appended" => Imports(s)!KeepsPerson
      BY <2>2, ImportsKept
    <2>3. Kept
      BY <1>0, <2>2
    <2> QED BY <2>1, <2>3
  <1>3. Inv => Exact /\ Apart
    BY <1>0, ImportsHold
  <1> QED BY <1>1, <1>2, <1>3, PTL DEF DeskSpec, OnePersonPerCustomer
-----------------------------------------------------------------------------
(* Adding up over a finite set, with whatever element comes first.            *)
Picked(A) == CHOOSE x \in A : TRUE
Adder(f, S) == CHOOSE g : g = [A \in SUBSET S |-> IF A = {} THEN 0 ELSE f[Picked(A)] + g[A \ {Picked(A)}]]
Add(f, S) == Adder(f, S)[S]

LEMMA SumIs ==
  ASSUME NEW s, NEW f
  PROVE  Figures(s)!SumFunction(f) = Add(f, DOMAIN f)
  BY DEF Figures!SumFunction, Figures!SumFunctionOnSet, Figures!FoldFunctionOnSet, Figures!MapThenFoldSet, Add, Adder, Picked

LEMMA SameFinite ==
  ASSUME NEW s, NEW S
  PROVE  Figures(s)!IsFiniteSet(S) <=> IsFiniteSet(S)
  BY DEF Figures!IsFiniteSet, IsFiniteSet

LEMMA SameCount ==
  ASSUME NEW s, NEW S
  PROVE  Figures(s)!Cardinality(S) = Cardinality(S)
  BY DEF Figures!Cardinality, Cardinality

(* A finite set is reached from the empty one by adding elements.             *)
LEMMA SetsClimb ==
  ASSUME NEW S, IsFiniteSet(S), NEW D, D \subseteq SUBSET S, {} \in D,
         \A A \in SUBSET S : A # {} /\ (\A x \in A : A \ {x} \in D) => A \in D
  PROVE  S \in D
  <1> DEFINE Bad == {n \in Nat : \E A \in SUBSET S : A \notin D /\ Cardinality(A) = n}
  <1> SUFFICES ASSUME S \notin D PROVE FALSE
    OBVIOUS
  <1>1. \A A \in SUBSET S : IsFiniteSet(A) /\ Cardinality(A) \in Nat
    BY FS_Subset, FS_CardinalityType
  <1>2. Cardinality(S) \in Bad
    BY <1>1
  <1>3. PICK n \in Bad : \A m \in Bad : n <= m
    BY <1>2, HasLeast
  <1>4. PICK A \in SUBSET S : A \notin D /\ Cardinality(A) = n
    BY <1>3
  <1>5. A # {}
    BY <1>4
  <1>6. ASSUME NEW x \in A PROVE A \ {x} \in D
    <2>1. Cardinality(A \ {x}) = Cardinality(A) - 1
      BY <1>1, FS_RemoveElement
    <2>2. Cardinality(A \ {x}) \notin Bad
      <3>1. n \in Nat /\ \A m \in Bad : n <= m
        BY <1>3
      <3> HIDE DEF Bad
      <3> QED BY <1>4, <2>1, <3>1
    <2> QED BY <1>1, <2>2
  <1> QED BY <1>4, <1>5, <1>6

LEMMA PickedIn == \A A : A # {} => Picked(A) \in A
  BY DEF Picked

(* The function that adds up exists.                                          *)
LEMMA AdderIs ==
  ASSUME NEW S, IsFiniteSet(S), NEW f
  PROVE  Adder(f, S) = [A \in SUBSET S |-> IF A = {} THEN 0 ELSE f[Picked(A)] + Adder(f, S)[A \ {Picked(A)}]]
  <1> DEFINE F(g) == [A \in SUBSET S |-> IF A = {} THEN 0 ELSE f[Picked(A)] + g[A \ {Picked(A)}]]
             Below(n) == {A \in SUBSET S : Cardinality(A) < n}
             Good == {n \in Nat : \E g : \A A \in Below(n) : g[A] = F(g)[A]}
  <1>1. \A A \in SUBSET S : IsFiniteSet(A) /\ Cardinality(A) \in Nat /\ Cardinality(A) <= Cardinality(S)
    BY FS_Subset, FS_CardinalityType
  <1>2. \A A \in SUBSET S : A # {} => /\ A \ {Picked(A)} \in SUBSET S
                                     /\ Cardinality(A \ {Picked(A)}) = Cardinality(A) - 1
    BY <1>1, PickedIn, FS_RemoveElement
  <1>3. 0 \in Good
    BY <1>1
  <1>4. ASSUME NEW n \in Good PROVE n + 1 \in Good
    <2>1. PICK g : \A A \in Below(n) : g[A] = F(g)[A]
      BY <1>4
    <2> DEFINE h == F(g)
    <2>2. ASSUME NEW A \in Below(n + 1) PROVE h[A] = F(h)[A]
      <3>1. CASE A = {}
        BY <2>2, <3>1
      <3>2. CASE A # {}
        <4>1. A \ {Picked(A)} \in Below(n)
          BY <1>1, <1>2, <2>2, <3>2
        <4>2. g[A \ {Picked(A)}] = h[A \ {Picked(A)}]
          BY <2>1, <4>1
        <4>3. A \in SUBSET S
          BY <2>2
        <4>4. h[A] = f[Picked(A)] + g[A \ {Picked(A)}] /\ F(h)[A] = f[Picked(A)] + h[A \ {Picked(A)}]
          BY <3>2, <4>3
        <4> QED BY <4>2, <4>4
      <3> QED BY <3>1, <3>2
    <2>3. \E k : \A A \in Below(n + 1) : k[A] = F(k)[A]
      BY <2>2
    <2> HIDE DEF F, Below, h
    <2>4. n + 1 \in Nat
      BY <1>4
    <2> QED BY <2>3, <2>4
  <1>5. Cardinality(S) + 1 \in Good
    <2> HIDE DEF Good
    <2>1. Good \subseteq Nat
      BY DEF Good
    <2> QED BY <1>1, <1>3, <1>4, <2>1, Climbing
  <1>6. PICK g : \A A \in Below(Cardinality(S) + 1) : g[A] = F(g)[A]
    BY <1>5
  <1>7. \A A \in SUBSET S : g[A] = F(g)[A]
    <2>1. \A A \in SUBSET S : A \in Below(Cardinality(S) + 1)
      <3> HIDE DEF F
      <3>1. Cardinality(S) \in Nat
        BY FS_CardinalityType
      <3> QED BY <1>1, <3>1
    <2> HIDE DEF F, Below
    <2> QED BY <1>6, <2>1
  <1>8. F(g) = F(F(g))
    <2>1. ASSUME NEW A \in SUBSET S PROVE F(g)[A] = F(F(g))[A]
      <3>1. CASE A = {}
        BY <2>1, <3>1
      <3>2. CASE A # {}
        <4>1. g[A \ {Picked(A)}] = F(g)[A \ {Picked(A)}]
          BY <1>2, <1>7, <3>2
        <4>2. F(g)[A] = f[Picked(A)] + g[A \ {Picked(A)}] /\ F(F(g))[A] = f[Picked(A)] + F(g)[A \ {Picked(A)}]
          BY <2>1, <3>2
        <4> QED BY <4>1, <4>2
      <3> QED BY <3>1, <3>2
    <2> QED BY <2>1
  <1>9. \E k : k = F(k)
    BY <1>8
  <1>10. Adder(f, S) = CHOOSE k : k = F(k)
    BY DEF Adder
  <1>11. Adder(f, S) = F(Adder(f, S))
    <2> HIDE DEF F
    <2> QED BY <1>9, <1>10
  <1> QED BY <1>11

(* A sum over fewer elements is the value of that function there.             *)
LEMMA AdderOf ==
  ASSUME NEW S, IsFiniteSet(S), NEW f, NEW T \in SUBSET S
  PROVE  Adder(f, S)[T] = Add(f, T)
  <1> DEFINE a == Adder(f, S)
             b == Adder(f, T)
             D == {A \in SUBSET T : a[A] = b[A]}
  <1>1. IsFiniteSet(T)
    BY FS_Subset
  <1>2. \A A \in SUBSET T : /\ a[A] = IF A = {} THEN 0 ELSE f[Picked(A)] + a[A \ {Picked(A)}]
                            /\ b[A] = IF A = {} THEN 0 ELSE f[Picked(A)] + b[A \ {Picked(A)}]
    <2>1. a = [A \in SUBSET S |-> IF A = {} THEN 0 ELSE f[Picked(A)] + a[A \ {Picked(A)}]]
      BY AdderIs
    <2>2. b = [A \in SUBSET T |-> IF A = {} THEN 0 ELSE f[Picked(A)] + b[A \ {Picked(A)}]]
      BY <1>1, AdderIs
    <2>3. \A A \in SUBSET T : A \in SUBSET S
      OBVIOUS
    <2> HIDE DEF a, b
    <2>4. \A A \in SUBSET S : a[A] = IF A = {} THEN 0 ELSE f[Picked(A)] + a[A \ {Picked(A)}]
      BY <2>1
    <2>5. \A A \in SUBSET T : b[A] = IF A = {} THEN 0 ELSE f[Picked(A)] + b[A \ {Picked(A)}]
      BY <2>2
    <2> QED BY <2>3, <2>4, <2>5
  <1> HIDE DEF a, b
  <1>3. {} \in D
    BY <1>2
  <1>4. ASSUME NEW A \in SUBSET T, A # {}, \A x \in A : A \ {x} \in D PROVE A \in D
    <2>1. a[A \ {Picked(A)}] = b[A \ {Picked(A)}]
      BY <1>4, PickedIn
    <2> QED BY <1>2, <1>4, <2>1
  <1>5. D \subseteq SUBSET T
    OBVIOUS
  <1>6. T \in D
    <2> HIDE DEF D
    <2> QED BY <1>1, <1>3, <1>4, <1>5, SetsClimb
  <1> QED BY <1>6 DEF a, b, Add

LEMMA AddEmpty == \A f : Add(f, {}) = 0
  <1> TAKE f
  <1>1. IsFiniteSet({})
    BY FS_EmptySet
  <1>2. Adder(f, {}) = [A \in SUBSET {} |-> IF A = {} THEN 0 ELSE f[Picked(A)] + Adder(f, {})[A \ {Picked(A)}]]
    BY <1>1, AdderIs
  <1>3. {} \in SUBSET {}
    OBVIOUS
  <1> HIDE DEF Add
  <1>4. Adder(f, {})[{}] = 0
    BY <1>2, <1>3
  <1> QED BY <1>4 DEF Add

LEMMA AddPicked ==
  ASSUME NEW S, IsFiniteSet(S), S # {}, NEW f
  PROVE  Add(f, S) = f[Picked(S)] + Add(f, S \ {Picked(S)})
  <1>1. Adder(f, S) = [A \in SUBSET S |-> IF A = {} THEN 0 ELSE f[Picked(A)] + Adder(f, S)[A \ {Picked(A)}]]
    BY AdderIs
  <1>2. Adder(f, S)[S] = f[Picked(S)] + Adder(f, S)[S \ {Picked(S)}]
    BY <1>1
  <1>3. S \ {Picked(S)} \in SUBSET S
    OBVIOUS
  <1>4. Adder(f, S)[S \ {Picked(S)}] = Add(f, S \ {Picked(S)})
    BY <1>3, AdderOf
  <1> QED BY <1>2, <1>4 DEF Add

(* Numbers to add up.                                                         *)
Numbers(f, S) == IsFiniteSet(S) /\ \A x \in S : f[x] \in Int

LEMMA NumbersOf ==
  ASSUME NEW f, NEW S, Numbers(f, S), NEW T \in SUBSET S
  PROVE  Numbers(f, T)
  BY FS_Subset DEF Numbers

LEMMA AddInt ==
  ASSUME NEW f, NEW S, Numbers(f, S)
  PROVE  Add(f, S) \in Int
  <1> DEFINE D == {A \in SUBSET S : Add(f, A) \in Int}
  <1>1. {} \in D
    BY AddEmpty
  <1>2. ASSUME NEW A \in SUBSET S, A # {}, \A x \in A : A \ {x} \in D PROVE A \in D
    <2>1. Picked(A) \in A /\ IsFiniteSet(A)
      BY <1>2, PickedIn, FS_Subset DEF Numbers
    <2>2. f[Picked(A)] \in Int /\ Add(f, A \ {Picked(A)}) \in Int
      BY <1>2, <2>1 DEF Numbers
    <2>3. Add(f, A) = f[Picked(A)] + Add(f, A \ {Picked(A)})
      BY <1>2, <2>1, AddPicked
    <2> QED BY <2>2, <2>3
  <1>3. D \subseteq SUBSET S /\ IsFiniteSet(S)
    BY DEF Numbers
  <1>4. S \in D
    <2> HIDE DEF D
    <2> QED BY <1>1, <1>2, <1>3, SetsClimb
  <1> QED BY <1>4

LEMMA Shuffle ==
  ASSUME NEW total, NEW left, NEW right, NEW a \in Int, NEW b \in Int, NEW c \in Int,
         total = a + left, left = b + c, right = a + c
  PROVE  total = b + right
  OBVIOUS

(* The order does not matter.                                                 *)
LEMMA AddOne ==
  ASSUME NEW f, NEW S, Numbers(f, S), NEW y \in S
  PROVE  Add(f, S) = f[y] + Add(f, S \ {y})
  <1> DEFINE D == {A \in SUBSET S : \A x \in A : Add(f, A) = f[x] + Add(f, A \ {x})}
  <1>1. {} \in D
    OBVIOUS
  <1>2. ASSUME NEW A \in SUBSET S, A # {}, \A x \in A : A \ {x} \in D PROVE A \in D
    <2> DEFINE p == Picked(A)
    <2>1. p \in A /\ IsFiniteSet(A)
      BY <1>2, PickedIn, FS_Subset DEF Numbers
    <2>2. Add(f, A) = f[p] + Add(f, A \ {p})
      BY <1>2, <2>1, AddPicked
    <2> SUFFICES ASSUME NEW x \in A, x # p PROVE Add(f, A) = f[x] + Add(f, A \ {x})
      BY <2>2
    <2> HIDE DEF p
    <2>3. Add(f, A \ {p}) = f[x] + Add(f, (A \ {p}) \ {x})
      BY <1>2, <2>1
    <2>4. Add(f, A \ {x}) = f[p] + Add(f, (A \ {x}) \ {p})
      BY <1>2, <2>1
    <2>5. (A \ {p}) \ {x} = (A \ {x}) \ {p}
      OBVIOUS
    <2>6. f[x] \in Int /\ f[p] \in Int /\ Add(f, (A \ {x}) \ {p}) \in Int
      <3>1. Numbers(f, (A \ {x}) \ {p})
        BY NumbersOf
      <3> QED BY <2>1, <3>1, AddInt DEF Numbers
    <2> HIDE DEF D
    <2>7. Add(f, A \ {p}) = f[x] + Add(f, (A \ {x}) \ {p})
      BY ONLY <2>3, <2>5
    <2> QED BY ONLY <2>2, <2>4, <2>6, <2>7, Shuffle
  <1>3. D \subseteq SUBSET S /\ IsFiniteSet(S)
    BY DEF Numbers
  <1>4. S \in D
    <2> HIDE DEF D
    <2> QED BY <1>1, <1>2, <1>3, SetsClimb
  <1> QED BY <1>4

(* Two ways of adding up agree if they agree on each element.                 *)
LEMMA AddSame ==
  ASSUME NEW f, NEW g, NEW S, Numbers(f, S), \A x \in S : f[x] = g[x]
  PROVE  Add(f, S) = Add(g, S)
  <1> DEFINE D == {A \in SUBSET S : Add(f, A) = Add(g, A)}
  <1>1. {} \in D
    BY AddEmpty
  <1>2. ASSUME NEW A \in SUBSET S, A # {}, \A x \in A : A \ {x} \in D PROVE A \in D
    <2>1. Picked(A) \in A /\ IsFiniteSet(A)
      BY <1>2, PickedIn, FS_Subset DEF Numbers
    <2>2. Add(f, A) = f[Picked(A)] + Add(f, A \ {Picked(A)}) /\ Add(g, A) = g[Picked(A)] + Add(g, A \ {Picked(A)})
      BY <1>2, <2>1, AddPicked
    <2>3. Add(f, A \ {Picked(A)}) = Add(g, A \ {Picked(A)}) /\ f[Picked(A)] = g[Picked(A)]
      BY <1>2, <2>1
    <2> QED BY <2>2, <2>3
  <1>3. D \subseteq SUBSET S /\ IsFiniteSet(S)
    BY DEF Numbers
  <1>4. S \in D
    <2> HIDE DEF D
    <2> QED BY <1>1, <1>2, <1>3, SetsClimb
  <1> QED BY <1>4

LEMMA AddPlus ==
  ASSUME NEW f, NEW g, NEW h, NEW S, Numbers(g, S), Numbers(h, S), \A x \in S : f[x] = g[x] + h[x]
  PROVE  Add(f, S) = Add(g, S) + Add(h, S)
  <1> DEFINE D == {A \in SUBSET S : Add(f, A) = Add(g, A) + Add(h, A)}
  <1>1. {} \in D
    BY AddEmpty
  <1>2. ASSUME NEW A \in SUBSET S, A # {}, \A x \in A : A \ {x} \in D PROVE A \in D
    <2>1. Picked(A) \in A /\ IsFiniteSet(A)
      BY <1>2, PickedIn, FS_Subset DEF Numbers
    <2> DEFINE p == Picked(A)
               B == A \ {p}
    <2>2. Add(f, A) = f[p] + Add(f, B) /\ Add(g, A) = g[p] + Add(g, B) /\ Add(h, A) = h[p] + Add(h, B)
      BY <1>2, <2>1, AddPicked
    <2>3. Add(f, B) = Add(g, B) + Add(h, B) /\ f[p] = g[p] + h[p]
      BY <1>2, <2>1
    <2>4. Add(g, B) \in Int /\ Add(h, B) \in Int /\ g[p] \in Int /\ h[p] \in Int
      <3>1. Numbers(g, B) /\ Numbers(h, B)
        BY NumbersOf
      <3> QED BY <2>1, <3>1, AddInt DEF Numbers
    <2> HIDE DEF p, B
    <2>5. Add(f, A) = Add(g, A) + Add(h, A)
      <3> DEFINE a == g[p]  b == h[p]  c == Add(g, B)  d == Add(h, B)
      <3>1. a \in Int /\ b \in Int /\ c \in Int /\ d \in Int
        BY <2>4
      <3>2. Add(f, A) = (a + b) + (c + d) /\ Add(g, A) = a + c /\ Add(h, A) = b + d
        BY <2>2, <2>3
      <3> HIDE DEF a, b, c, d
      <3>3. (a + b) + (c + d) = (a + c) + (b + d)
        BY ONLY <3>1
      <3> QED BY ONLY <3>2, <3>3
    <2> QED BY <2>5
  <1>3. D \subseteq SUBSET S /\ IsFiniteSet(S)
    BY DEF Numbers
  <1>4. S \in D
    <2> HIDE DEF D
    <2> QED BY <1>1, <1>2, <1>3, SetsClimb
  <1> QED BY <1>4

LEMMA Regroup ==
  ASSUME NEW total, NEW part, NEW left, NEW right, NEW a \in Int, NEW b \in Int, NEW c \in Int,
         total = a + part, part = b + c,
         (left = a + b /\ right = c) \/ (left = b /\ right = a + c)
  PROVE  total = left + right
  OBVIOUS

LEMMA AddSplit ==
  ASSUME NEW f, NEW S, Numbers(f, S), NEW T
  PROVE  Add(f, S) = Add(f, S \cap T) + Add(f, S \ T)
  <1> DEFINE D == {A \in SUBSET S : Add(f, A) = Add(f, A \cap T) + Add(f, A \ T)}
  <1>1. {} \in D
    <2>1. {} \cap T = {} /\ {} \ T = {}
      OBVIOUS
    <2> QED BY <2>1, AddEmpty
  <1>2. ASSUME NEW A \in SUBSET S, A # {}, \A x \in A : A \ {x} \in D PROVE A \in D
    <2>1. PICK x : x \in A
      BY <1>2
    <2> DEFINE B == A \ {x}
    <2>2. Add(f, B) = Add(f, B \cap T) + Add(f, B \ T)
      BY <1>2, <2>1
    <2>3. Numbers(f, A) /\ Numbers(f, A \cap T) /\ Numbers(f, A \ T) /\ Numbers(f, B \cap T) /\ Numbers(f, B \ T)
      BY NumbersOf
    <2>4. /\ Add(f, A) = f[x] + Add(f, B) /\ f[x] \in Int
          /\ Add(f, B \cap T) \in Int /\ Add(f, B \ T) \in Int
      BY <2>1, <2>3, AddOne, AddInt DEF Numbers
    <2>5. CASE x \in T
      <3>1. (A \cap T) \ {x} = B \cap T /\ A \ T = B \ T /\ x \in A \cap T
        BY <2>1, <2>5
      <3>2. Add(f, A \cap T) = f[x] + Add(f, B \cap T)
        BY <2>3, <3>1, AddOne
      <3>3. Add(f, A \ T) = Add(f, B \ T)
        BY <3>1
      <3> HIDE DEF B, D
      <3>4. Add(f, A) = Add(f, A \cap T) + Add(f, A \ T)
        BY ONLY <2>2, <2>4, <3>2, <3>3, Regroup
      <3> QED BY <3>4 DEF D
    <2>6. CASE x \notin T
      <3>1. (A \ T) \ {x} = B \ T /\ A \cap T = B \cap T /\ x \in A \ T
        BY <2>1, <2>6
      <3>2. Add(f, A \ T) = f[x] + Add(f, B \ T)
        BY <2>3, <3>1, AddOne
      <3>3. Add(f, A \cap T) = Add(f, B \cap T)
        BY <3>1
      <3> HIDE DEF B, D
      <3>4. Add(f, A) = Add(f, A \cap T) + Add(f, A \ T)
        BY ONLY <2>2, <2>4, <3>2, <3>3, Regroup
      <3> QED BY <3>4 DEF D
    <2> QED BY <2>5, <2>6
  <1>3. D \subseteq SUBSET S /\ IsFiniteSet(S)
    BY DEF Numbers
  <1>4. S \in D
    <2> HIDE DEF D
    <2> QED BY <1>1, <1>2, <1>3, SetsClimb
  <1> QED BY <1>4

LEMMA AddOnes ==
  ASSUME NEW f, NEW S, IsFiniteSet(S), \A x \in S : f[x] = 1
  PROVE  Add(f, S) = Cardinality(S)
  <1> DEFINE D == {A \in SUBSET S : Add(f, A) = Cardinality(A)}
  <1>1. {} \in D
    BY AddEmpty, FS_EmptySet
  <1>2. ASSUME NEW A \in SUBSET S, A # {}, \A x \in A : A \ {x} \in D PROVE A \in D
    <2>1. Picked(A) \in A /\ IsFiniteSet(A)
      BY <1>2, PickedIn, FS_Subset
    <2>2. Add(f, A) = f[Picked(A)] + Add(f, A \ {Picked(A)}) /\ f[Picked(A)] = 1
      BY <1>2, <2>1, AddPicked
    <2>3. Add(f, A \ {Picked(A)}) = Cardinality(A \ {Picked(A)})
      BY <1>2, <2>1
    <2>4. Cardinality(A \ {Picked(A)}) = Cardinality(A) - 1 /\ Cardinality(A) \in Nat
      BY <2>1, FS_RemoveElement, FS_CardinalityType
    <2>5. Add(f, A) = Cardinality(A)
      <3> DEFINE c == Cardinality(A)
      <3>1. c \in Nat /\ Add(f, A) = 1 + (c - 1)
        BY <2>2, <2>3, <2>4
      <3> HIDE DEF c
      <3>2. Add(f, A) = c
        BY ONLY <3>1
      <3> QED BY <3>2 DEF c
    <2> QED BY <2>5
  <1>3. D \subseteq SUBSET S
    OBVIOUS
  <1>4. S \in D
    <2> HIDE DEF D
    <2> QED BY <1>1, <1>2, <1>3, SetsClimb
  <1> QED BY <1>4

LEMMA AddNatural ==
  ASSUME NEW f, NEW S, IsFiniteSet(S), \A x \in S : f[x] \in Nat
  PROVE  Add(f, S) \in Nat
  <1> DEFINE D == {A \in SUBSET S : Add(f, A) \in Nat}
  <1>1. {} \in D
    BY AddEmpty
  <1>2. ASSUME NEW A \in SUBSET S, A # {}, \A x \in A : A \ {x} \in D PROVE A \in D
    <2>1. Picked(A) \in A /\ IsFiniteSet(A)
      BY <1>2, PickedIn, FS_Subset
    <2>2. Add(f, A) = f[Picked(A)] + Add(f, A \ {Picked(A)})
      BY <1>2, <2>1, AddPicked
    <2>3. Add(f, A \ {Picked(A)}) \in Nat /\ f[Picked(A)] \in Nat
      BY <1>2, <2>1
    <2> QED BY <2>2, <2>3
  <1>3. D \subseteq SUBSET S
    OBVIOUS
  <1>4. S \in D
    <2> HIDE DEF D
    <2> QED BY <1>1, <1>2, <1>3, SetsClimb
  <1> QED BY <1>4

LEMMA Doubled ==
  ASSUME NEW a \in Int, a = a + a
  PROVE  a = 0
  OBVIOUS

LEMMA AddZeros ==
  ASSUME NEW f, NEW S, IsFiniteSet(S), \A x \in S : f[x] = 0
  PROVE  Add(f, S) = 0
  <1>1. Numbers(f, S) /\ \A x \in S : f[x] = f[x] + f[x]
    BY DEF Numbers
  <1>2. Add(f, S) = Add(f, S) + Add(f, S)
    BY <1>1, AddPlus
  <1>3. Add(f, S) \in Int
    BY <1>1, AddInt
  <1> DEFINE a == Add(f, S)
  <1>4. a \in Int /\ a = a + a
    BY <1>2, <1>3
  <1> HIDE DEF a
  <1>5. a = 0
    BY ONLY <1>4, Doubled
  <1> QED BY <1>5 DEF a

(* Adding up by a key: each group first, then the groups.                     *)
GroupedBy(f, S, key, g, K) ==
  /\ Numbers(f, S) /\ IsFiniteSet(K)
  /\ \A x \in S : key[x] \in K
  /\ \A k \in K : g[k] = Add(f, {x \in S : key[x] = k})

LEMMA AddGroups ==
  ASSUME NEW f, NEW S, NEW key, NEW g, NEW K, GroupedBy(f, S, key, g, K)
  PROVE  Add(f, S) = Add(g, K)
  <1>0. /\ Numbers(f, S) /\ IsFiniteSet(K) /\ \A x \in S : key[x] \in K
        /\ \A k \in K : g[k] = Add(f, {x \in S : key[x] = k})
    BY DEF GroupedBy
  <1> DEFINE In(A) == {x \in S : key[x] \in A}
             D == {A \in SUBSET K : Add(f, In(A)) = Add(g, A)}
  <1>1. {} \in D
    <2>1. In({}) = {}
      OBVIOUS
    <2> QED BY <2>1, AddEmpty
  <1>2. ASSUME NEW A \in SUBSET K, A # {}, \A x \in A : A \ {x} \in D PROVE A \in D
    <2>1. Picked(A) \in A /\ IsFiniteSet(A)
      BY <1>0, <1>2, PickedIn, FS_Subset
    <2> DEFINE p == Picked(A)
               Group == {x \in S : key[x] = p}
    <2>2. Add(g, A) = g[p] + Add(g, A \ {p}) /\ g[p] = Add(f, Group)
      BY <1>0, <1>2, <2>1, AddPicked
    <2>3. Add(f, In(A \ {p})) = Add(g, A \ {p})
      BY <1>2, <2>1
    <2>4. In(A) \cap Group = Group /\ In(A) \ Group = In(A \ {p})
      BY <2>1
    <2>5. Numbers(f, In(A))
      BY <1>0, NumbersOf
    <2> HIDE DEF p, In, Group, D
    <2>6. Add(f, In(A)) = Add(f, In(A) \cap Group) + Add(f, In(A) \ Group)
      BY <2>5, AddSplit
    <2>7. Add(f, In(A)) = Add(g, A)
      BY ONLY <2>2, <2>3, <2>4, <2>6
    <2> QED BY <2>7 DEF D
  <1>3. D \subseteq SUBSET K
    OBVIOUS
  <1>4. K \in D
    <2> HIDE DEF D
    <2> QED BY <1>0, <1>1, <1>2, <1>3, SetsClimb
  <1>5. In(K) = S
    BY <1>0
  <1> QED BY <1>4, <1>5

LEMMA AddEqual ==
  ASSUME NEW f, NEW S, IsFiniteSet(S), NEW a \in Nat, \A x \in S : f[x] = a
  PROVE  Add(f, S) = a * Cardinality(S)
  <1> DEFINE D == {A \in SUBSET S : Add(f, A) = a * Cardinality(A)}
  <1>1. {} \in D
    <2>1. a * 0 = 0
      OBVIOUS
    <2> QED BY <2>1, AddEmpty, FS_EmptySet
  <1>2. ASSUME NEW A \in SUBSET S, A # {}, \A x \in A : A \ {x} \in D PROVE A \in D
    <2>1. Picked(A) \in A /\ IsFiniteSet(A)
      BY <1>2, PickedIn, FS_Subset
    <2>2. Add(f, A) = f[Picked(A)] + Add(f, A \ {Picked(A)}) /\ f[Picked(A)] = a
      BY <1>2, <2>1, AddPicked
    <2>3. Add(f, A \ {Picked(A)}) = a * Cardinality(A \ {Picked(A)})
      BY <1>2, <2>1
    <2>4. Cardinality(A \ {Picked(A)}) = Cardinality(A) - 1 /\ Cardinality(A) \in Nat
      BY <2>1, FS_RemoveElement, FS_CardinalityType
    <2>5. Add(f, A) = a * Cardinality(A)
      <3> DEFINE c == Cardinality(A)
      <3>1. c \in Nat /\ Add(f, A) = a + a * (c - 1)
        BY <2>2, <2>3, <2>4
      <3> HIDE DEF c
      <3>2. a + a * (c - 1) = a * c
        BY ONLY <3>1, a \in Nat
      <3> QED BY <3>1, <3>2 DEF c
    <2> QED BY <2>5
  <1>3. D \subseteq SUBSET S
    OBVIOUS
  <1>4. S \in D
    <2> HIDE DEF D
    <2> QED BY <1>1, <1>2, <1>3, SetsClimb
  <1> QED BY <1>4

(* Adding up pairs by either side, each with the weight of one of them.       *)
PairsOf(of, w, f, S, g, K) ==
  /\ IsFiniteSet(S) /\ IsFiniteSet(K)
  /\ \A x \in S : of[x] \subseteq K /\ w[x] \in Nat /\ f[x] = w[x] * Cardinality(of[x])
  /\ \A k \in K : g[k] = Add(w, {x \in S : k \in of[x]})

LEMMA WeighPairs ==
  ASSUME NEW of, NEW w, NEW f, NEW S, NEW g, NEW K, PairsOf(of, w, f, S, g, K)
  PROVE  Add(f, S) = Add(g, K)
  <1> USE DEF PairsOf
  <1> DEFINE In(A) == [k \in K |-> Add(w, {x \in A : k \in of[x]})]
             D == {A \in SUBSET S : Add(f, A) = Add(In(A), K)}
  <1>0. ASSUME NEW A \in SUBSET S PROVE Numbers(w, A)
    BY FS_Subset DEF Numbers
  <1>1. {} \in D
    <2>1. \A k \in K : In({})[k] = 0
      <3> TAKE k \in K
      <3>1. {x \in {} : k \in of[x]} = {}
        OBVIOUS
      <3> QED BY <3>1, AddEmpty
    <2> HIDE DEF In
    <2>2. Add(In({}), K) = 0
      BY <2>1, AddZeros
    <2> QED BY <2>2, AddEmpty
  <1>2. ASSUME NEW A \in SUBSET S, A # {}, \A x \in A : A \ {x} \in D PROVE A \in D
    <2>1. Picked(A) \in A /\ IsFiniteSet(A)
      BY <1>2, PickedIn, FS_Subset
    <2> DEFINE p == Picked(A)
               B == A \ {p}
               one == [k \in K |-> IF k \in of[p] THEN w[p] ELSE 0]
    <2>2. /\ Add(f, A) = f[p] + Add(f, B) /\ f[p] = w[p] * Cardinality(of[p])
          /\ of[p] \subseteq K /\ w[p] \in Nat
      BY <1>2, <2>1, AddPicked
    <2>3. Add(f, B) = Add(In(B), K)
      BY <1>2, <2>1
    <2>4. \A k \in K : In(A)[k] = one[k] + In(B)[k] /\ In(B)[k] \in Int
      <3> TAKE k \in K
      <3> DEFINE a == {x \in A : k \in of[x]}
                 b == {x \in B : k \in of[x]}
      <3>1. Numbers(w, a) /\ Numbers(w, b)
        <4>1. a \in SUBSET S /\ b \in SUBSET S
          BY <1>2
        <4> HIDE DEF a, b
        <4> QED BY <4>1, <1>0
      <3>2. In(A)[k] = Add(w, a) /\ In(B)[k] = Add(w, b)
        OBVIOUS
      <3>3. Add(w, b) \in Int
        <4> HIDE DEF a, b
        <4> QED BY <3>1, AddInt
      <3>4. CASE k \in of[p]
        <4>1. p \in a /\ b = a \ {p} /\ one[k] = w[p]
          BY <2>1, <3>4
        <4> HIDE DEF In, a, b, one, p
        <4>2. Add(w, a) = w[p] + Add(w, a \ {p})
          BY <3>1, <4>1, AddOne
        <4> QED BY ONLY <3>2, <3>3, <4>1, <4>2
      <3>5. CASE k \notin of[p]
        <4>1. a = b /\ one[k] = 0
          BY <3>5
        <4> HIDE DEF In, a, b, one
        <4> QED BY ONLY <3>2, <3>3, <4>1
      <3> QED BY <3>4, <3>5
    <2>5. Numbers(In(B), K) /\ Numbers(one, K)
      <3>1. \A k \in K : one[k] \in Int
        BY <2>2
      <3> HIDE DEF In, one
      <3> QED BY <2>4, <3>1 DEF Numbers
    <2>6. Add(one, K) = w[p] * Cardinality(of[p])
      <3>1. K \cap of[p] = of[p] /\ IsFiniteSet(of[p]) /\ IsFiniteSet(K \ of[p])
        BY <2>2, FS_Subset
      <3>2. (\A x \in of[p] : one[x] = w[p]) /\ (\A x \in K \ of[p] : one[x] = 0) /\ w[p] \in Nat
        BY <2>2
      <3> DEFINE L == of[p]
                 v == w[p]
      <3> HIDE DEF one, p, B, In, D
      <3>3. Add(one, L) = v * Cardinality(L) /\ Add(one, K \ L) = 0
        <4>1. v \in Nat /\ IsFiniteSet(L) /\ \A x \in L : one[x] = v
          BY <3>1, <3>2
        <4>2. IsFiniteSet(K \ L) /\ \A x \in K \ L : one[x] = 0
          BY <3>1, <3>2
        <4> HIDE DEF L, v
        <4> QED BY <4>1, <4>2, AddEqual, AddZeros
      <3>4. Numbers(one, K)
        BY <2>5
      <3>5. Add(one, K) = Add(one, K \cap L) + Add(one, K \ L)
        <4> HIDE DEF L, v
        <4> QED BY ONLY <3>4, AddSplit
      <3>6. v * Cardinality(L) \in Nat /\ Add(one, K \cap L) = Add(one, L)
        <4>1. Cardinality(L) \in Nat /\ v \in Nat
          BY <3>1, <3>2, FS_CardinalityType
        <4>2. \A a, b \in Nat : a * b \in Nat
          OBVIOUS
        <4> QED BY <3>1, <4>1, <4>2
      <3>7. Add(one, K) = v * Cardinality(L)
        <4> HIDE DEF L, v
        <4> QED BY ONLY <3>3, <3>5, <3>6
      <3> QED BY <3>7
    <2> HIDE DEF In, one, p, B
    <2>7. Add(In(A), K) = Add(one, K) + Add(In(B), K)
      BY <2>4, <2>5, AddPlus
    <2>8. Add(f, A) = Add(In(A), K)
      BY ONLY <2>2, <2>3, <2>6, <2>7
    <2> QED BY <2>8
  <1>3. D \subseteq SUBSET S
    OBVIOUS
  <1>4. S \in D
    <2> HIDE DEF D
    <2> QED BY <1>1, <1>2, <1>3, SetsClimb
  <1>5. \A k \in K : In(S)[k] = g[k] /\ In(S)[k] \in Int
    <2> TAKE k \in K
    <2>1. {x \in S : k \in of[x]} \in SUBSET S
      OBVIOUS
    <2>2. Add(w, {x \in S : k \in of[x]}) \in Int
      BY <1>0, <2>1, AddInt
    <2> QED BY <2>2
  <1>6. Add(In(S), K) = Add(g, K)
    <2>1. Numbers(In(S), K)
      BY <1>5 DEF Numbers
    <2> HIDE DEF In
    <2> QED BY <1>5, <2>1, AddSame
  <1> QED BY <1>4, <1>6

LEMMA SumPart ==
  ASSUME NEW s, NEW f, NEW T, Numbers(f, T), NEW g, DOMAIN g = T, \A x \in T : g[x] = f[x]
  PROVE  Figures(s)!SumFunction(g) = Add(f, T)
  <1>1. Figures(s)!SumFunction(g) = Add(g, T)
    BY SumIs
  <1> QED BY <1>1, AddSame

-----------------------------------------------------------------------------
(* The records of the reports: what a deal has won lies in the past, and a    *)
(* deal that is gone has won nothing.                                         *)
FigureInv(s) ==
  /\ Figures(s)!TypeOK
  /\ DOMAIN order = Books[s].orders
  /\ quote \in [Books[s].quotes -> {None} \cup [on : 1..Books[s].days, versions : Seq(Figures(s)!Version)]]
  /\ \A d \in Books[s].deals : wins[d] \subseteq 1..day /\ (stage[d] = "gone" => wins[d] = {})
  /\ notes = {}

LEMMA BookFacts ==
  ASSUME NEW s \in FigureSettings
  PROVE  /\ Books[s].versions \in Nat \ {0} /\ Books[s].days \in Nat \ {0}
         /\ Books[s].amounts \subseteq Nat /\ Books[s].money \subseteq Nat
         /\ IsFiniteSet(Books[s].customers) /\ IsFiniteSet(Books[s].deals) /\ IsFiniteSet(Books[s].quotes)
         /\ IsFiniteSet(Books[s].goods) /\ IsFiniteSet(Books[s].orders) /\ IsFiniteSet(Books[s].sellers)
         /\ None \notin Nat /\ "Admin" \notin Books[s].sellers \cup {None}
         /\ \A x \in Books[s].deals \cup Books[s].quotes : Books[s].of[x] \in Books[s].customers
  <1>1. Figures(s)!FiguresAssumption
    BY BooksAssumption
  <1> QED BY <1>1, SameFinite DEF Figures!FiguresAssumption

LEMMA FiguresStart ==
  ASSUME NEW s \in FigureSettings, Figures(s)!Init
  PROVE  FigureInv(s)
  <1>1. Books[s].days \in Nat \ {0}
    BY BookFacts
  <1> QED BY <1>1 DEF Figures!Init, FigureInv, Figures!TypeOK, Figures!DayOrNone, Figures!Note

LEMMA DealsTyped ==
  ASSUME NEW s \in FigureSettings, FigureInv(s), Figures(s)!MoveDeal \/ Figures(s)!GiveDeal \/ Figures(s)!DropDeal
  PROVE  FigureInv(s)'
  <1>1. Books[s].days \in Nat \ {0} /\ day \in 1..Books[s].days
    BY BookFacts DEF FigureInv, Figures!TypeOK
  <1>2. CASE Figures(s)!MoveDeal
    BY <1>1, <1>2 DEF Figures!MoveDeal, FigureInv, Figures!TypeOK
  <1>3. CASE Figures(s)!GiveDeal
    BY <1>1, <1>3 DEF Figures!GiveDeal, FigureInv, Figures!TypeOK
  <1>4. CASE Figures(s)!DropDeal
    BY <1>1, <1>4 DEF Figures!DropDeal, FigureInv, Figures!TypeOK
  <1> QED BY <1>2, <1>3, <1>4

LEMMA OrdersTyped ==
  ASSUME NEW s \in FigureSettings, FigureInv(s), Figures(s)!WriteOrder \/ Figures(s)!DropOrder
  PROVE  FigureInv(s)'
  <1>1. CASE Figures(s)!WriteOrder
    <2>1. PICK o \in Books[s].orders, x \in Figures(s)!Order :
            /\ IF order[o] # None THEN x.deal = order[o].deal /\ x.customer = order[o].customer
               ELSE x.deal # None => stage[x.deal] # "gone" /\ Books[s].of[x.deal] = x.customer
            /\ order' = [order EXCEPT ![o] = x]
      BY <1>1 DEF Figures!WriteOrder
    <2>2. x.deal # None => stage[x.deal] # "gone" /\ Books[s].of[x.deal] = x.customer
      BY <2>1 DEF FigureInv, Figures!TypeOK
    <2>3. DOMAIN order' = Books[s].orders /\ order'[o] = x /\ \A p \in Books[s].orders : p # o => order'[p] = order[p]
      BY <2>1 DEF FigureInv
    <2>4. \A p \in Books[s].orders : \/ order'[p] = None
                                        \/ /\ order'[p] \in Figures(s)!Order
                                           /\ order'[p].deal # None => /\ stage[order'[p].deal] # "gone"
                                                                       /\ Books[s].of[order'[p].deal] = order'[p].customer
      BY <2>2, <2>3 DEF FigureInv, Figures!TypeOK
    <2>5. UNCHANGED <<day, owner, stage, wins, quote, notes, lastNote, next>>
      BY <1>1 DEF Figures!WriteOrder
    <2> QED BY <2>3, <2>4, <2>5 DEF FigureInv, Figures!TypeOK
  <1>2. CASE Figures(s)!DropOrder
    <2>1. PICK o \in Books[s].orders : order' = [order EXCEPT ![o] = None]
      BY <1>2 DEF Figures!DropOrder
    <2>2. DOMAIN order' = Books[s].orders /\ order'[o] = None /\ \A p \in Books[s].orders : p # o => order'[p] = order[p]
      BY <2>1 DEF FigureInv
    <2>3. \A p \in Books[s].orders : \/ order'[p] = None
                                        \/ /\ order'[p] \in Figures(s)!Order
                                           /\ order'[p].deal # None => /\ stage[order'[p].deal] # "gone"
                                                                       /\ Books[s].of[order'[p].deal] = order'[p].customer
      BY <2>2 DEF FigureInv, Figures!TypeOK
    <2>4. UNCHANGED <<day, owner, stage, wins, quote, notes, lastNote, next>>
      BY <1>2 DEF Figures!DropOrder
    <2> QED BY <2>2, <2>3, <2>4 DEF FigureInv, Figures!TypeOK
  <1> QED BY <1>1, <1>2

LEMMA Revised ==
  ASSUME NEW A, NEW B, NEW r \in [on : A, versions : B], NEW new
  PROVE  [r EXCEPT !.versions = new] = [on |-> r.on, versions |-> new]
  OBVIOUS

LEMMA QuotesTyped ==
  ASSUME NEW s \in FigureSettings, FigureInv(s), Figures(s)!WriteQuote
  PROVE  FigureInv(s)'
  <1> DEFINE V == Figures(s)!Version
             Sheet == [on : 1..Books[s].days, versions : Seq(V)]
             Fits(x) == x.on \in 1..Books[s].days /\ Len(x.versions) \in 1..Books[s].versions
                        /\ \A i \in 1..Len(x.versions) : x.versions[i] \in V
  <1>1. PICK q \in Books[s].quotes, v \in V :
          \/ quote[q] = None /\ quote' = [quote EXCEPT ![q] = [on |-> day, versions |-> <<v>>]]
          \/ /\ quote[q] # None /\ Len(quote[q].versions) < Books[s].versions
             /\ quote' = [quote EXCEPT ![q].versions = Append(@, v)]
          \/ quote' = [quote EXCEPT ![q] = None]
    BY DEF Figures!WriteQuote
  <1>2. UNCHANGED <<day, owner, stage, wins, order, notes, lastNote, next>>
    BY DEF Figures!WriteQuote
  <1>3. /\ quote \in [Books[s].quotes -> {None} \cup Sheet] /\ day \in 1..Books[s].days
        /\ \A p \in Books[s].quotes : quote[p] = None \/ Fits(quote[p])
        /\ Books[s].versions \in Nat \ {0}
    BY BookFacts DEF FigureInv, Figures!TypeOK
  <1> HIDE DEF V
  <1>4. \E x : quote' = [quote EXCEPT ![q] = x] /\ (x = None \/ (x \in Sheet /\ Fits(x)))
    <2>1. CASE quote' = [quote EXCEPT ![q] = [on |-> day, versions |-> <<v>>]]
      <3> DEFINE x == [on |-> day, versions |-> <<v>>]
      <3>1. <<v>> \in Seq(V) /\ Len(<<v>>) = 1 /\ <<v>>[1] = v
        OBVIOUS
      <3>2. x \in Sheet /\ Fits(x)
        BY <1>3, <3>1
      <3> QED BY <2>1, <3>2
    <2>2. CASE /\ quote[q] # None /\ Len(quote[q].versions) < Books[s].versions
               /\ quote' = [quote EXCEPT ![q].versions = Append(@, v)]
      <3> DEFINE w == quote[q].versions
                 x == [on |-> quote[q].on, versions |-> Append(w, v)]
      <3>1. quote[q] \in Sheet /\ Fits(quote[q]) /\ w \in Seq(V)
        BY <1>3, <2>2
      <3>2. Append(w, v) \in Seq(V) /\ Len(Append(w, v)) = Len(w) + 1 /\ Len(w) \in Nat
        BY <3>1
      <3>3. \A i \in 1..Len(Append(w, v)) : Append(w, v)[i] \in V
        BY <3>2
      <3>4. x \in Sheet
        BY <3>1, <3>2
      <3>5. x.on = quote[q].on /\ x.versions = Append(w, v)
        OBVIOUS
      <3>6. Len(w) + 1 \in 1..Books[s].versions
        BY <1>3, <2>2, <3>1, <3>2
      <3>7. Fits(x)
        BY <3>1, <3>2, <3>3, <3>5, <3>6
      <3>8. [quote[q] EXCEPT !.versions = Append(w, v)] = x
        <4> DEFINE r == quote[q]  new == Append(w, v)
        <4>1. r \in Sheet
          BY <3>1
        <4>2. [r EXCEPT !.versions = new] = [on |-> r.on, versions |-> new]
          <5> HIDE DEF r, new, w, x
          <5> QED BY ONLY <4>1, Revised
        <4> QED BY <4>2
      <3>9. quote' = [quote EXCEPT ![q] = [quote[q] EXCEPT !.versions = Append(w, v)]]
        BY <2>2
      <3>10. quote' = [quote EXCEPT ![q] = x]
        BY <3>8, <3>9
      <3> QED BY <3>4, <3>7, <3>10
    <2>3. CASE quote' = [quote EXCEPT ![q] = None]
      BY <2>3
    <2> QED BY <1>1, <2>1, <2>2, <2>3
  <1>5. PICK x : quote' = [quote EXCEPT ![q] = x] /\ (x = None \/ (x \in Sheet /\ Fits(x)))
    BY <1>4
  <1> HIDE DEF Sheet, Fits
  <1>6. quote' \in [Books[s].quotes -> {None} \cup Sheet] /\ \A p \in Books[s].quotes : quote'[p] = None \/ Fits(quote'[p])
    BY <1>3, <1>5
  <1> QED BY <1>2, <1>6 DEF FigureInv, Figures!TypeOK, Sheet, Fits, V

LEMMA FiguresTyped ==
  ASSUME NEW s \in FigureSettings, FigureInv(s), [Figures(s)!Next]_figureVars
  PROVE  FigureInv(s)'
  <1>1. CASE Figures(s)!MoveDeal \/ Figures(s)!GiveDeal \/ Figures(s)!DropDeal
    BY <1>1, DealsTyped
  <1>2. CASE Figures(s)!WriteOrder \/ Figures(s)!DropOrder
    BY <1>2, OrdersTyped
  <1>3. CASE Figures(s)!WriteQuote
    BY <1>3, QuotesTyped
  <1>4. CASE Figures(s)!AddNote \/ Figures(s)!EraseNote
    BY <1>4 DEF Figures!AddNote, Figures!EraseNote, FigureInv, Figures!TypeOK
  <1>5. CASE Figures(s)!Midnight
    <2>1. Books[s].days \in Nat \ {0} /\ day \in 1..Books[s].days
      BY BookFacts DEF FigureInv, Figures!TypeOK
    <2> QED BY <1>5, <2>1 DEF Figures!Midnight, FigureInv, Figures!TypeOK
  <1>6. CASE UNCHANGED figureVars
    BY <1>6 DEF figureVars, FigureInv, Figures!TypeOK
  <1> QED BY <1>1, <1>2, <1>3, <1>4, <1>5, <1>6 DEF Figures!Next
-----------------------------------------------------------------------------
LEMMA OrderFacts ==
  ASSUME NEW s \in FigureSettings, FigureInv(s), NEW o \in Books[s].orders, order[o] # None
  PROVE  /\ order[o].customer \in Books[s].customers /\ order[o].on \in 1..Books[s].days
         /\ order[o].on \in Int /\ order[o].amount \in Nat
         /\ Figures(s)!Accounted(o) =>
              order[o].received \in Nat /\ order[o].purchase \in Nat /\ order[o].freight \in Nat
  <1>1. order[o] \in Figures(s)!Order
    BY DEF FigureInv, Figures!TypeOK
  <1>2. /\ order[o].customer \in Books[s].customers /\ order[o].on \in 1..Books[s].days /\ order[o].amount \in Books[s].amounts
        /\ order[o].received \in Books[s].money \cup {None} /\ order[o].purchase \in Books[s].money \cup {None}
        /\ order[o].freight \in Books[s].money \cup {None}
    BY <1>1 DEF Figures!Order
  <1> QED BY <1>2, BookFacts DEF Figures!Accounted

(* The profits of accounted orders are what was received for them, less what  *)
(* was paid.                                                                  *)
Booked(s, rows) == \A o \in rows : o \in Books[s].orders /\ order[o] # None /\ Figures(s)!Accounted(o)

LEMMA AccountedBooked ==
  ASSUME NEW s \in FigureSettings, NEW from, NEW to
  PROVE  /\ Booked(s, Figures(s)!AccountedIn(from, to)) /\ Figures(s)!AccountedIn(from, to) \subseteq Books[s].orders
         /\ Figures(s)!AccountedIn(from, to) = {o \in Figures(s)!OrdersIn(from, to) : Figures(s)!Accounted(o)}
  BY DEF Booked, Figures!AccountedIn, Figures!OrdersIn

LEMMA ProfitIs ==
  ASSUME NEW s \in FigureSettings, FigureInv(s), NEW rows \in SUBSET Books[s].orders, Booked(s, rows)
  PROVE  Figures(s)!Profit(rows) = Figures(s)!Received(rows) - Figures(s)!Purchase(rows) - Figures(s)!Freight(rows)
  <1> DEFINE r == [o \in rows |-> order[o].received]
             p == [o \in rows |-> order[o].purchase]
             f == [o \in rows |-> order[o].freight]
             g == [o \in rows |-> order[o].received - order[o].purchase - order[o].freight]
             h == [o \in rows |-> order[o].received - order[o].purchase]
  <1>1. \A o \in rows : order[o].received \in Nat /\ order[o].purchase \in Nat /\ order[o].freight \in Nat
    BY OrderFacts DEF Booked
  <1>2. IsFiniteSet(rows)
    BY BookFacts, FS_Subset
  <1>3. \A o \in rows : r[o] \in Int /\ p[o] \in Int /\ f[o] \in Int /\ g[o] \in Int /\ h[o] \in Int
                        /\ r[o] = h[o] + p[o] /\ h[o] = g[o] + f[o]
    BY <1>1
  <1> HIDE DEF r, p, f, g, h
  <1>4. Numbers(r, rows) /\ Numbers(p, rows) /\ Numbers(f, rows) /\ Numbers(g, rows) /\ Numbers(h, rows)
    BY <1>2, <1>3 DEF Numbers
  <1>5. Add(r, rows) = Add(h, rows) + Add(p, rows)
    BY <1>3, <1>4, AddPlus
  <1>6. Add(h, rows) = Add(g, rows) + Add(f, rows)
    BY <1>3, <1>4, AddPlus
  <1>7. Add(p, rows) \in Int /\ Add(f, rows) \in Int /\ Add(g, rows) \in Int
    BY <1>4, AddInt
  <1>8. DOMAIN r = rows /\ DOMAIN p = rows /\ DOMAIN f = rows /\ DOMAIN g = rows
    BY DEF r, p, f, g
  <1>9. /\ Figures(s)!Received(rows) = Add(r, rows) /\ Figures(s)!Purchase(rows) = Add(p, rows)
        /\ Figures(s)!Freight(rows) = Add(f, rows) /\ Figures(s)!Profit(rows) = Add(g, rows)
    <2>1. /\ Figures(s)!SumFunction(r) = Add(r, rows) /\ Figures(s)!SumFunction(p) = Add(p, rows)
          /\ Figures(s)!SumFunction(f) = Add(f, rows) /\ Figures(s)!SumFunction(g) = Add(g, rows)
      BY <1>8, SumIs
    <2> QED BY <2>1 DEF Figures!Received, Figures!Purchase, Figures!Freight, Figures!Profit, r, p, f, g
  <1> QED BY ONLY <1>5, <1>6, <1>7, <1>9

(* How often the join repeats a row.                                          *)
LEMMA CopiesAre ==
  ASSUME NEW s \in FigureSettings, NEW c
  PROVE  /\ Figures(s)!DealsOf(c) \subseteq Books[s].deals /\ IsFiniteSet(Figures(s)!DealsOf(c))
         /\ Figures(s)!Copies(c) = IF Figures(s)!DealsOf(c) = {} THEN 1 ELSE Cardinality(Figures(s)!DealsOf(c))
         /\ Figures(s)!Copies(c) \in Nat
  <1>1. Figures(s)!DealsOf(c) \subseteq Books[s].deals
    BY DEF Figures!DealsOf
  <1>2. IsFiniteSet(Figures(s)!DealsOf(c)) /\ Cardinality(Figures(s)!DealsOf(c)) \in Nat
    BY <1>1, BookFacts, FS_Subset, FS_CardinalityType
  <1>3. Figures(s)!Copies(c) = IF Figures(s)!DealsOf(c) = {} THEN 1 ELSE Cardinality(Figures(s)!DealsOf(c))
    BY SameCount DEF Figures!Copies
  <1> QED BY <1>1, <1>2, <1>3

LEMMA Product == \A a, b \in Nat : a * b \in Nat
  OBVIOUS

LEMMA SinglePagesAgree ==
  ASSUME NEW s \in FigureSettings, FigureInv(s)
  PROVE  Figures(s)!SingleDealPagesAgree
  <1> SUFFICES ASSUME NEW from, NEW to, \A o \in Figures(s)!OrdersIn(from, to) : Figures(s)!CopiesOf(o) = 1
               PROVE  Figures(s)!OrderProfit(from, to) = Figures(s)!Summary(from, to)
    BY DEF Figures!SingleDealPagesAgree
  <1> DEFINE all == Figures(s)!OrdersIn(from, to)
             rows == Figures(s)!AccountedIn(from, to)
             n == [o \in all |-> Figures(s)!CopiesOf(o)]
             r == [o \in rows |-> Figures(s)!CopiesOf(o) * order[o].received]
             p == [o \in rows |-> Figures(s)!CopiesOf(o) * order[o].purchase]
             f == [o \in rows |-> Figures(s)!CopiesOf(o) * order[o].freight]
  <1>1. /\ rows \in SUBSET Books[s].orders /\ Booked(s, rows)
        /\ rows = {o \in all : Figures(s)!Accounted(o)}
    BY AccountedBooked
  <1>2. Figures(s)!Profit(rows) = Figures(s)!Received(rows) - Figures(s)!Purchase(rows) - Figures(s)!Freight(rows)
    BY <1>1, ProfitIs
  <1>3. \A o \in rows : order[o].received \in Nat /\ order[o].purchase \in Nat /\ order[o].freight \in Nat
    BY <1>1, OrderFacts DEF Booked
  <1>4. /\ r = [o \in rows |-> order[o].received] /\ p = [o \in rows |-> order[o].purchase]
        /\ f = [o \in rows |-> order[o].freight]
    <2>1. \A o \in rows : Figures(s)!CopiesOf(o) = 1
      BY <1>1
    <2>2. \A a \in Nat : 1 * a = a
      OBVIOUS
    <2> HIDE DEF rows
    <2> QED BY <1>3, <2>1, <2>2
  <1>5. /\ Figures(s)!SumFunction(r) = Figures(s)!Received(rows) /\ Figures(s)!SumFunction(p) = Figures(s)!Purchase(rows)
        /\ Figures(s)!SumFunction(f) = Figures(s)!Freight(rows)
    BY <1>4 DEF Figures!Received, Figures!Purchase, Figures!Freight
  <1>6. Figures(s)!SumFunction(n) = Figures(s)!Cardinality(all)
    <2>1. all \subseteq Books[s].orders
      BY DEF Figures!OrdersIn
    <2>2. DOMAIN n = all /\ \A o \in all : n[o] = 1
      OBVIOUS
    <2> HIDE DEF n, all
    <2>3. IsFiniteSet(all)
      BY <2>1, BookFacts, FS_Subset
    <2>4. Figures(s)!SumFunction(n) = Add(n, all) /\ Add(n, all) = Cardinality(all)
      BY <2>2, <2>3, SumIs, AddOnes
    <2> QED BY <2>4, SameCount
  <1>7. Figures(s)!OrderProfit(from, to) =
          [count |-> Figures(s)!SumFunction(n), received |-> Figures(s)!SumFunction(r),
           profit |-> Figures(s)!SumFunction(r) - Figures(s)!SumFunction(p) - Figures(s)!SumFunction(f)]
    <2> DEFINE T == {o \in all : Figures(s)!Accounted(o)}
    <2>1. Figures(s)!OrderProfit(from, to) =
            [count |-> Figures(s)!SumFunction(n),
             received |-> Figures(s)!SumFunction([o \in T |-> Figures(s)!CopiesOf(o) * order[o].received]),
             profit |-> Figures(s)!SumFunction([o \in T |-> Figures(s)!CopiesOf(o) * order[o].received])
                          - Figures(s)!SumFunction([o \in T |-> Figures(s)!CopiesOf(o) * order[o].purchase])
                          - Figures(s)!SumFunction([o \in T |-> Figures(s)!CopiesOf(o) * order[o].freight])]
      BY DEF Figures!OrderProfit
    <2>2. T = rows
      BY <1>1
    <2> HIDE DEF T, rows, all
    <2> QED BY <2>1, <2>2
  <1>8. Figures(s)!Summary(from, to) =
          [count |-> Figures(s)!Cardinality(all), received |-> Figures(s)!Received(rows), profit |-> Figures(s)!Profit(rows)]
    BY DEF Figures!Summary
  <1> HIDE DEF rows, all, n, r, p, f
  <1> QED BY <1>2, <1>5, <1>6, <1>7, <1>8

LEMMA ProfitsSplit ==
  ASSUME NEW s \in FigureSettings, FigureInv(s)
  PROVE  Figures(s)!ProfitSplits
  <1> DEFINE days == Books[s].days
             S == Figures(s)!AccountedIn(1, days)
             f == [o \in S |-> order[o].received - order[o].purchase - order[o].freight]
             who == [o \in S |-> order[o].customer]
             when == [o \in S |-> order[o].on]
             g == [c \in Books[s].customers |-> Figures(s)!CustomerRank(c, 1, days)]
             h == [n \in 1..days |-> Figures(s)!MonthlyTrend(n)]
  <1>1. days \in Nat /\ IsFiniteSet(Books[s].customers) /\ IsFiniteSet(1..days) /\ IsFiniteSet(S)
    <2>1. days \in Nat /\ IsFiniteSet(Books[s].customers) /\ IsFiniteSet(Books[s].orders)
      BY BookFacts
    <2>2. S \subseteq Books[s].orders
      BY AccountedBooked
    <2> HIDE DEF S, days
    <2>3. IsFiniteSet(1..days)
      <3>1. 1 \in Int /\ days \in Int
        BY <2>1
      <3> QED BY ONLY <3>1, FS_Interval
    <2> QED BY <2>1, <2>2, <2>3, FS_Subset
  <1>2. \A o \in S : /\ order[o].received \in Nat /\ order[o].purchase \in Nat /\ order[o].freight \in Nat
                     /\ order[o].customer \in Books[s].customers /\ order[o].on \in 1..days
    BY AccountedBooked, OrderFacts DEF Booked
  <1>3. Numbers(f, S)
    BY <1>1, <1>2 DEF Numbers
  <1>4. ASSUME NEW T \in SUBSET S PROVE Figures(s)!Profit(T) = Add(f, T)
    <2> DEFINE e == [o \in T |-> order[o].received - order[o].purchase - order[o].freight]
    <2>1. DOMAIN e = T /\ \A o \in T : e[o] = f[o]
      OBVIOUS
    <2>2. Numbers(f, T)
      BY <1>3, NumbersOf
    <2> HIDE DEF e, f, S
    <2>3. Figures(s)!SumFunction(e) = Add(f, T)
      BY <2>1, <2>2, SumPart
    <2> QED BY <2>3 DEF Figures!Profit, e
  <1>5. Figures(s)!Summary(1, days).profit = Add(f, S)
    <2>1. Figures(s)!Summary(1, days).profit = Figures(s)!Profit(S)
      BY DEF Figures!Summary
    <2> QED BY <1>4, <2>1
  <1>6. \A c \in Books[s].customers : g[c] = Add(f, {o \in S : who[o] = c})
    <2> TAKE c \in Books[s].customers
    <2>1. {o \in S : who[o] = c} = {o \in S : order[o].customer = c}
      OBVIOUS
    <2>2. g[c] = Figures(s)!Profit({o \in S : order[o].customer = c})
      BY DEF Figures!CustomerRank
    <2> HIDE DEF f, g, who
    <2>3. {o \in S : order[o].customer = c} \in SUBSET S
      OBVIOUS
    <2> HIDE DEF S
    <2> QED BY <1>4, <2>1, <2>2, <2>3
  <1>7. \A n \in 1..days : h[n] = Add(f, {o \in S : when[o] = n})
    <2> TAKE n \in 1..days
    <2>1. {o \in S : when[o] = n} = Figures(s)!AccountedIn(n, n)
      <3>1. \A o \in Books[s].orders : order[o] # None => order[o].on \in Int
        BY OrderFacts
      <3>2. n \in Int /\ 1 <= n /\ n <= days /\ days \in Int
        BY <1>1
      <3> QED BY <3>1, <3>2 DEF Figures!AccountedIn, Figures!OrdersIn, Figures!Between
    <2>2. h[n] = Figures(s)!Profit(Figures(s)!AccountedIn(n, n))
      BY DEF Figures!MonthlyTrend
    <2>3. {o \in S : when[o] = n} \in SUBSET S
      OBVIOUS
    <2> HIDE DEF S, f, h, when
    <2> QED BY <1>4, <2>1, <2>2, <2>3
  <1>8. (\A o \in S : who[o] \in Books[s].customers) /\ (\A o \in S : when[o] \in 1..days)
    BY <1>2
  <1>9. DOMAIN g = Books[s].customers /\ DOMAIN h = 1..days
    OBVIOUS
  <1> HIDE DEF S, f, who, when, g, h
  <1>10. Add(f, S) = Add(g, Books[s].customers)
    <2>1. GroupedBy(f, S, who, g, Books[s].customers)
      BY <1>1, <1>3, <1>6, <1>8 DEF GroupedBy
    <2> QED BY <2>1, AddGroups
  <1>11. Add(f, S) = Add(h, 1..days)
    <2>1. GroupedBy(f, S, when, h, 1..days)
      BY <1>1, <1>3, <1>7, <1>8 DEF GroupedBy
    <2> QED BY <2>1, AddGroups
  <1>12. Figures(s)!SumFunction(g) = Add(g, Books[s].customers) /\ Figures(s)!SumFunction(h) = Add(h, 1..days)
    BY <1>9, SumIs
  <1> QED BY <1>5, <1>10, <1>11, <1>12 DEF Figures!ProfitSplits, g, h

(* An order whose customer has one opportunity is sold by its own deal.       *)
LEMMA SoldOnce ==
  ASSUME NEW s \in FigureSettings, FigureInv(s), NEW o \in Books[s].orders, order[o] # None
  PROVE  /\ Figures(s)!TimesSold(o) \in Nat
         /\ Figures(s)!CopiesOf(o) = 1 =>
              Figures(s)!TimesSold(o) = IF order[o].deal # None => stage[order[o].deal] = "Won" THEN 1 ELSE 0
  <1> DEFINE c == order[o].customer
             e == order[o].deal
             D == Figures(s)!DealsOf(c)
             W == {d \in D : stage[d] = "Won"}
  <1>1. D \subseteq Books[s].deals /\ IsFiniteSet(D) /\ Figures(s)!Copies(c) \in Nat
        /\ Figures(s)!Copies(c) = IF D = {} THEN 1 ELSE Cardinality(D)
    BY CopiesAre
  <1>2. IsFiniteSet(W) /\ Cardinality(W) \in Nat
    <2>1. W \subseteq D
      OBVIOUS
    <2> HIDE DEF D, W
    <2> QED BY <1>1, <2>1, FS_Subset, FS_CardinalityType
  <1>3. Figures(s)!TimesSold(o) = IF e = None THEN Figures(s)!Copies(c) ELSE Cardinality(W)
    BY SameCount DEF Figures!TimesSold, Figures!CopiesOf
  <1>4. e # None => e \in D
    <2>1. order[o] \in Figures(s)!Order /\ (e # None => stage[e] # "gone" /\ Books[s].of[e] = c)
      BY DEF FigureInv, Figures!TypeOK
    <2>2. e \in Books[s].deals \cup {None}
      BY <2>1 DEF Figures!Order
    <2> QED BY <2>1, <2>2 DEF Figures!DealsOf
  <1>5. ASSUME Figures(s)!CopiesOf(o) = 1
        PROVE  Figures(s)!TimesSold(o) = IF e # None => stage[e] = "Won" THEN 1 ELSE 0
    <2>1. Figures(s)!Copies(c) = 1
      BY <1>5 DEF Figures!CopiesOf
    <2>2. CASE e = None
      BY <1>3, <2>1, <2>2
    <2>3. CASE e # None
      <3> HIDE DEF D
      <3>1. D = {e}
        <4>1. e \in D /\ Cardinality(D) = 1
          BY <1>1, <1>4, <2>1, <2>3
        <4>2. IsFiniteSet(D \ {e}) /\ Cardinality(D \ {e}) = 1 - 1
          BY <1>1, <4>1, FS_RemoveElement
        <4>3. Cardinality(D \ {e}) = 0
          BY ONLY <4>2
        <4>4. D \ {e} = {}
          BY <4>2, <4>3, FS_EmptySet
        <4> QED BY <4>1, <4>4
      <3>2. CASE stage[e] = "Won"
        <4>1. W = {e}
          BY <3>1, <3>2
        <4>2. Cardinality({e}) = 1
          BY FS_Singleton
        <4> QED BY <1>3, <2>3, <3>2, <4>1, <4>2
      <3>3. CASE stage[e] # "Won"
        <4>1. W = {}
          BY <3>1, <3>3
        <4>2. Cardinality({}) = 0
          BY FS_EmptySet
        <4> QED BY <1>3, <2>3, <3>3, <4>1, <4>2
      <3> QED BY <3>2, <3>3
    <2> QED BY <2>2, <2>3
  <1> QED BY <1>1, <1>2, <1>3, <1>5

LEMMA SalesFit ==
  ASSUME NEW s \in FigureSettings, FigureInv(s)
  PROVE  Figures(s)!SalesAreWon
  <1> DEFINE days == Books[s].days
             won(o) == order[o].deal # None => stage[order[o].deal] = "Won"
  <1> SUFFICES ASSUME NEW c \in Books[s].currencies, NEW from \in 1..days, NEW to \in 1..days
               PROVE  LET rows == Figures(s)!OfCurrency(from, to, c) IN
                      /\ (\A o \in rows : Figures(s)!CopiesOf(o) = 1) =>
                           Figures(s)!SoldIn(from, to, c) = Figures(s)!Sales({o \in rows : won(o)})
                      /\ Figures(s)!SoldIn(from, to, c) <= Figures(s)!SoldIn(1, days, c)
    BY DEF Figures!SalesAreWon
  <1> DEFINE all == Figures(s)!OfCurrency(1, days, c)
             rows == Figures(s)!OfCurrency(from, to, c)
             w == {o \in rows : won(o)}
             f == [o \in all |-> Figures(s)!TimesSold(o) * order[o].amount]
  <1>1. days \in Nat /\ IsFiniteSet(all)
    <2>1. all \subseteq Books[s].orders
      BY DEF Figures!OfCurrency, Figures!OrdersIn
    <2> HIDE DEF all
    <2> QED BY <2>1, BookFacts, FS_Subset
  <1>2. \A o \in all : o \in Books[s].orders /\ order[o] # None
    BY DEF Figures!OfCurrency, Figures!OrdersIn
  <1>3. rows \subseteq all
    <2>1. \A o \in Books[s].orders : order[o] # None => order[o].on \in 1..days
      BY OrderFacts
    <2> QED BY <1>1, <2>1 DEF Figures!OfCurrency, Figures!OrdersIn, Figures!Between
  <1>4. \A o \in all : f[o] \in Nat
    <2>1. \A o \in all : order[o].amount \in Nat /\ Figures(s)!TimesSold(o) \in Nat
      BY <1>2, OrderFacts, SoldOnce
    <2> QED BY <2>1, Product
  <1>5. Numbers(f, all) /\ Numbers(f, rows)
    <2> HIDE DEF f, all, rows
    <2>1. Numbers(f, all)
      BY <1>1, <1>4 DEF Numbers
    <2> QED BY <1>3, <2>1, NumbersOf
  <1>6. Figures(s)!SoldIn(from, to, c) = Add(f, rows) /\ Figures(s)!SoldIn(1, days, c) = Add(f, all)
    <2> DEFINE e == [o \in rows |-> Figures(s)!TimesSold(o) * order[o].amount]
    <2>1. DOMAIN e = rows /\ DOMAIN f = all /\ \A o \in rows : e[o] = f[o]
      BY <1>3
    <2>2. Figures(s)!SoldIn(from, to, c) = Figures(s)!SumFunction(e) /\ Figures(s)!SoldIn(1, days, c) = Figures(s)!SumFunction(f)
      BY DEF Figures!SoldIn
    <2> HIDE DEF e, f, rows, all
    <2>3. Figures(s)!SumFunction(e) = Add(f, rows)
      BY <1>5, <2>1, SumPart
    <2>4. Figures(s)!SumFunction(f) = Add(f, all)
      BY <2>1, SumIs
    <2> QED BY <2>2, <2>3, <2>4
  <1>7. Figures(s)!SoldIn(from, to, c) <= Figures(s)!SoldIn(1, days, c)
    <2> HIDE DEF f, all, rows
    <2>1. Add(f, all) = Add(f, all \cap rows) + Add(f, all \ rows)
      BY <1>5, AddSplit
    <2>2. all \cap rows = rows /\ IsFiniteSet(all \ rows) /\ \A o \in all \ rows : f[o] \in Nat
      BY <1>1, <1>3, <1>4, FS_Subset
    <2>3. Add(f, all \ rows) \in Nat /\ Add(f, rows) \in Int
      BY <1>5, <2>2, AddNatural, AddInt
    <2>4. Add(f, rows) <= Add(f, all)
      BY ONLY <2>1, <2>2, <2>3
    <2> QED BY <1>6, <2>4
  <1>8. ASSUME \A o \in rows : Figures(s)!CopiesOf(o) = 1
        PROVE  Figures(s)!SoldIn(from, to, c) = Figures(s)!Sales(w)
    <2> DEFINE g == [o \in w |-> order[o].amount]
    <2>1. ASSUME NEW o \in rows
          PROVE  /\ order[o].amount \in Nat
                 /\ Figures(s)!TimesSold(o) = IF won(o) THEN 1 ELSE 0
                 /\ f[o] = Figures(s)!TimesSold(o) * order[o].amount
      <3>1. o \in all /\ Figures(s)!CopiesOf(o) = 1
        BY <1>3, <1>8, <2>1
      <3>2. o \in Books[s].orders /\ order[o] # None
        BY <1>2, <3>1
      <3>3. f[o] = Figures(s)!TimesSold(o) * order[o].amount
        BY <3>1
      <3> HIDE DEF f, rows, all
      <3> QED BY <3>1, <3>2, <3>3, OrderFacts, SoldOnce
    <2>2. \A a \in Nat : 1 * a = a /\ 0 * a = 0
      OBVIOUS
    <2>3. (\A o \in w : f[o] = order[o].amount) /\ (\A o \in rows \ w : f[o] = 0)
      <3>1. \A o \in w : o \in rows /\ won(o)
        OBVIOUS
      <3>2. \A o \in rows \ w : ~won(o)
        OBVIOUS
      <3> HIDE DEF f, rows, w, won
      <3>3. ASSUME NEW o \in w PROVE f[o] = order[o].amount
        <4>1. o \in rows /\ won(o)
          BY <3>1
        <4>2. f[o] = 1 * order[o].amount /\ order[o].amount \in Nat
          BY <2>1, <4>1
        <4> QED BY <2>2, <4>2
      <3>4. ASSUME NEW o \in rows \ w PROVE f[o] = 0
        <4>1. f[o] = 0 * order[o].amount /\ order[o].amount \in Nat
          BY <2>1, <3>2
        <4> QED BY <2>2, <4>1
      <3> QED BY <3>3, <3>4
    <2>4. rows \cap w = w /\ w \in SUBSET rows
      OBVIOUS
    <2>5. Figures(s)!Sales(w) = Figures(s)!SumFunction(g) /\ DOMAIN g = w /\ \A o \in w : g[o] = order[o].amount
      BY DEF Figures!Sales
    <2> HIDE DEF f, rows, w, g
    <2>6. Add(f, rows) = Add(f, rows \cap w) + Add(f, rows \ w)
      BY <1>5, AddSplit
    <2>7. Numbers(f, w) /\ IsFiniteSet(rows \ w)
      BY <1>1, <1>3, <1>5, <2>4, NumbersOf, FS_Subset
    <2>8. Add(f, rows \ w) = 0 /\ Add(f, w) \in Int
      BY <2>3, <2>7, AddZeros, AddInt
    <2>9. Figures(s)!SumFunction(g) = Add(f, w)
      BY <2>3, <2>5, <2>7, SumPart
    <2>10. Add(f, rows) = Add(f, w)
      BY ONLY <2>4, <2>6, <2>8
    <2> QED BY <1>6, <2>5, <2>9, <2>10
  <1> QED BY <1>7, <1>8

(* The day a deal was first won.                                              *)
LEMMA FirstWin ==
  ASSUME NEW s, NEW S \in SUBSET Nat, S # {}
  PROVE  Figures(s)!Min(S) \in S /\ \A n \in S : Figures(s)!Min(S) <= n
  <1>1. \E u \in S : \A v \in S : u <= v
    BY HasLeast
  <1> QED BY <1>1 DEF Figures!Min

LEMMA WinsAdd ==
  ASSUME NEW s \in FigureSettings, FigureInv(s)
  PROVE  Figures(s)!WinsAddUp
  <1> DEFINE days == Books[s].days
             K == Books[s].sellers \cup {None}
  <1> SUFFICES ASSUME NEW from \in 1..days, NEW to \in 1..days
               PROVE  /\ Figures(s)!WonCount("Admin", from, to)
                           = Figures(s)!SumFunction([r \in K |-> Figures(s)!WonCount(r, from, to)])
                      /\ Figures(s)!WonCount("Admin", from, to)
                           = Figures(s)!SumFunction([n \in from..to |-> Figures(s)!WonCount("Admin", n, n)])
    BY DEF Figures!WinsAddUp
  <1> DEFINE S == Figures(s)!WonIn(from, to)
             f == [d \in S |-> 1]
             when == [d \in S |-> Figures(s)!WonOn(d)]
             g == [r \in K |-> Figures(s)!WonCount(r, from, to)]
             h == [n \in from..to |-> Figures(s)!WonCount("Admin", n, n)]
  <1>1. S \subseteq Books[s].deals /\ days \in Nat
    BY BookFacts DEF Figures!WonIn
  <1>2. IsFiniteSet(S) /\ IsFiniteSet(K) /\ IsFiniteSet(from..to)
    <2>1. IsFiniteSet(Books[s].deals) /\ IsFiniteSet(Books[s].sellers)
      BY BookFacts
    <2>2. IsFiniteSet({None}) /\ IsFiniteSet(from..to)
      <3>1. from \in Int /\ to \in Int
        BY <1>1
      <3> QED BY <3>1, FS_Singleton, FS_Interval
    <2> HIDE DEF S
    <2> QED BY <1>1, <2>1, <2>2, FS_Subset, FS_Union
  <1>3. \A d \in Books[s].deals : wins[d] # {} => Figures(s)!WonOn(d) \in 1..days
    <2> SUFFICES ASSUME NEW d \in Books[s].deals, wins[d] # {} PROVE Figures(s)!WonOn(d) \in 1..days
      OBVIOUS
    <2>1. wins[d] \in SUBSET (1..days) /\ wins[d] \in SUBSET Nat
      BY <1>1 DEF FigureInv, Figures!TypeOK
    <2>2. Figures(s)!Min(wins[d]) \in wins[d]
      BY <2>1, FirstWin
    <2> QED BY <2>1, <2>2 DEF Figures!WonOn
  <1>4. \A r : Figures(s)!WonCount(r, from, to) = Cardinality({d \in S : r \in {"Admin", owner[d]}})
    BY SameCount DEF Figures!WonCount
  <1>5. Figures(s)!WonCount("Admin", from, to) = Cardinality(S)
    <2>1. {d \in S : "Admin" \in {"Admin", owner[d]}} = S
      OBVIOUS
    <2> HIDE DEF S
    <2> QED BY <1>4, <2>1
  <1>6. Numbers(f, S) /\ Add(f, S) = Cardinality(S)
    <2>1. \A d \in S : f[d] = 1
      OBVIOUS
    <2> HIDE DEF f, S
    <2> QED BY <1>2, <2>1, AddOnes DEF Numbers
  <1>7. ASSUME NEW T \in SUBSET S PROVE Add(f, T) = Cardinality(T)
    <2>1. IsFiniteSet(T) /\ \A d \in T : f[d] = 1
      BY <1>2, FS_Subset
    <2> HIDE DEF f
    <2> QED BY <2>1, AddOnes
  <1>8. \A r \in K : g[r] = Add(f, {d \in S : owner[d] = r})
    <2> TAKE r \in K
    <2>1. r # "Admin"
      BY BookFacts
    <2>2. {d \in S : r \in {"Admin", owner[d]}} = {d \in S : owner[d] = r}
      BY <2>1
    <2>3. g[r] = Figures(s)!WonCount(r, from, to)
      OBVIOUS
    <2>4. {d \in S : owner[d] = r} \in SUBSET S
      OBVIOUS
    <2> HIDE DEF S, f, g
    <2> QED BY <1>4, <1>7, <2>2, <2>3, <2>4
  <1>9. \A n \in from..to : h[n] = Add(f, {d \in S : when[d] = n})
    <2> TAKE n \in from..to
    <2>1. {d \in S : when[d] = n} = Figures(s)!WonIn(n, n)
      <3>1. n \in Int /\ from <= n /\ n <= to /\ from \in Int /\ to \in Int
        BY <1>1
      <3>2. \A d \in Books[s].deals : wins[d] # {} => Figures(s)!WonOn(d) \in Int
        BY <1>1, <1>3
      <3> QED BY <3>1, <3>2 DEF Figures!WonIn, Figures!Between
    <2>2. h[n] = Figures(s)!WonCount("Admin", n, n)
      OBVIOUS
    <2>3. Figures(s)!WonCount("Admin", n, n) = Cardinality(Figures(s)!WonIn(n, n))
      <3>1. Figures(s)!WonCount("Admin", n, n) = Cardinality({d \in Figures(s)!WonIn(n, n) : "Admin" \in {"Admin", owner[d]}})
        BY SameCount DEF Figures!WonCount
      <3>2. {d \in Figures(s)!WonIn(n, n) : "Admin" \in {"Admin", owner[d]}} = Figures(s)!WonIn(n, n)
        OBVIOUS
      <3> QED BY <3>1, <3>2
    <2>4. {d \in S : when[d] = n} \in SUBSET S
      OBVIOUS
    <2> HIDE DEF S, f, h, when
    <2> QED BY <1>7, <2>1, <2>2, <2>3, <2>4
  <1>10. (\A d \in S : owner[d] \in K) /\ (\A d \in S : when[d] \in from..to)
    <2>1. \A d \in S : owner[d] \in K
      BY <1>1 DEF FigureInv, Figures!TypeOK
    <2>2. \A d \in S : wins[d] # {} /\ from <= Figures(s)!WonOn(d) /\ Figures(s)!WonOn(d) <= to
      BY DEF Figures!WonIn, Figures!Between
    <2>3. \A d \in S : Figures(s)!WonOn(d) \in from..to
      BY <1>1, <1>3, <2>2
    <2> QED BY <2>1, <2>3
  <1>11. DOMAIN g = K /\ DOMAIN h = from..to
    OBVIOUS
  <1> HIDE DEF S, f, when, g, h, K
  <1>12. Figures(s)!SumFunction(g) = Add(f, S)
    <2>1. GroupedBy(f, S, owner, g, K)
      BY <1>2, <1>6, <1>8, <1>10 DEF GroupedBy
    <2>2. Add(f, S) = Add(g, K)
      BY <2>1, AddGroups
    <2> QED BY <1>11, <2>2, SumIs
  <1>13. Figures(s)!SumFunction(h) = Add(f, S)
    <2>1. GroupedBy(f, S, when, h, from..to)
      BY <1>2, <1>6, <1>9, <1>10 DEF GroupedBy
    <2>2. Add(f, S) = Add(h, from..to)
      BY <2>1, AddGroups
    <2> QED BY <1>11, <2>2, SumIs
  <1> QED BY <1>5, <1>6, <1>12, <1>13 DEF g, h

LEMMA QuotesAdd ==
  ASSUME NEW s \in FigureSettings, FigureInv(s)
  PROVE  Figures(s)!QuotedProductsAddUp
  <1> DEFINE t(q) == Figures(s)!Copies(Books[s].of[q])
             shown(q) == Figures(s)!Current(q)
  <1> SUFFICES ASSUME NEW c, NEW from, NEW to
               PROVE  Figures(s)!QuoteAmount(from, to, c)
                        = Figures(s)!SumFunction([g \in Books[s].goods |-> Figures(s)!QuotedProduct(g, from, to, c)])
                          + Figures(s)!SumFunction([q \in Figures(s)!QuotedIn(from, to, c) |-> t(q) * shown(q).shipping])
    BY DEF Figures!QuotedProductsAddUp
  <1> DEFINE S == Figures(s)!QuotedIn(from, to, c)
             K == Books[s].goods
             of == [q \in S |-> shown(q).lines]
             w == [q \in S |-> t(q)]
             f == [q \in S |-> t(q) * Figures(s)!Total(q)]
             l == [q \in S |-> t(q) * Cardinality(shown(q).lines)]
             h == [q \in S |-> t(q) * shown(q).shipping]
             g == [k \in K |-> Figures(s)!QuotedProduct(k, from, to, c)]
  <1>1. S \subseteq Books[s].quotes
    BY DEF Figures!QuotedIn, Figures!QuotesIn
  <1>2. IsFiniteSet(S) /\ IsFiniteSet(K)
    <2>1. IsFiniteSet(Books[s].quotes) /\ IsFiniteSet(K)
      BY BookFacts
    <2> HIDE DEF S
    <2> QED BY <1>1, <2>1, FS_Subset
  <1>3. \A q \in S : shown(q).lines \subseteq K /\ shown(q).shipping \in Nat
    <2> TAKE q \in S
    <2>1. quote[q] # None /\ q \in Books[s].quotes
      BY DEF Figures!QuotedIn, Figures!QuotesIn
    <2>2. Len(quote[q].versions) \in 1..Books[s].versions
          /\ \A i \in 1..Len(quote[q].versions) : quote[q].versions[i] \in Figures(s)!Version
      BY <2>1 DEF FigureInv, Figures!TypeOK
    <2>3. shown(q) \in Figures(s)!Version
      <3> DEFINE n == Len(quote[q].versions)
      <3>1. n \in 1..n
        BY <2>2, BookFacts
      <3> HIDE DEF n
      <3>2. quote[q].versions[n] \in Figures(s)!Version
        BY <2>2, <3>1 DEF n
      <3> QED BY <3>2 DEF Figures!Current, n
    <2> QED BY <2>3 DEF Figures!Version
  <1>4. \A q \in S : IsFiniteSet(shown(q).lines) /\ Cardinality(shown(q).lines) \in Nat /\ t(q) \in Nat
    BY <1>2, <1>3, FS_Subset, FS_CardinalityType, CopiesAre
  <1>5. \A q \in S : f[q] = l[q] + h[q] /\ l[q] \in Nat /\ h[q] \in Nat
    <2> TAKE q \in S
    <2> DEFINE a == t(q)
               m == Cardinality(shown(q).lines)
               n == shown(q).shipping
    <2>1. a \in Nat /\ m \in Nat /\ n \in Nat
      BY <1>3, <1>4
    <2>2. Figures(s)!Total(q) = m + n
      BY SameCount DEF Figures!Total
    <2>3. f[q] = a * (m + n) /\ l[q] = a * m /\ h[q] = a * n
      BY <2>2
    <2> HIDE DEF a, m, n, f, l, h
    <2>4. a * (m + n) = a * m + a * n /\ a * m \in Nat /\ a * n \in Nat
      <3>1. a * (m + n) = a * m + a * n
        BY ONLY <2>1
      <3> QED BY <2>1, <3>1, Product
    <2> QED BY <2>3, <2>4
  <1>6. Numbers(l, S) /\ Numbers(h, S) /\ Numbers(w, S)
    <2>1. \A q \in S : w[q] \in Nat
      BY <1>4
    <2> HIDE DEF S, f, l, h, w
    <2> QED BY <1>2, <1>5, <2>1 DEF Numbers
  <1>7. \A q \in S : of[q] \subseteq K /\ w[q] \in Nat /\ l[q] = w[q] * Cardinality(of[q])
    BY <1>3, <1>4
  <1>8. \A k \in K : g[k] = Add(w, {q \in S : k \in of[q]})
    <2> TAKE k \in K
    <2> DEFINE T == {q \in S : k \in shown(q).lines}
               e == [q \in T |-> t(q)]
    <2>1. {q \in S : k \in of[q]} = T /\ T \in SUBSET S
      OBVIOUS
    <2>2. g[k] = Figures(s)!SumFunction(e)
      BY DEF Figures!QuotedProduct
    <2>3. DOMAIN e = T /\ \A q \in T : e[q] = w[q]
      OBVIOUS
    <2> HIDE DEF T, e, w, g, of, S
    <2>4. Numbers(w, T)
      BY <1>6, <2>1, NumbersOf
    <2>5. Figures(s)!SumFunction(e) = Add(w, T)
      BY <2>3, <2>4, SumPart
    <2> QED BY <2>1, <2>2, <2>5
  <1>9. DOMAIN f = S /\ DOMAIN g = K /\ DOMAIN h = S
    OBVIOUS
  <1>10. Figures(s)!QuoteAmount(from, to, c) = Figures(s)!SumFunction(f)
    BY DEF Figures!QuoteAmount
  <1> HIDE DEF S, f, l, h, g, of, w, K
  <1>11. Add(l, S) = Add(g, K)
    <2>1. PairsOf(of, w, l, S, g, K)
      BY <1>2, <1>7, <1>8 DEF PairsOf
    <2> QED BY <2>1, WeighPairs
  <1>12. Add(f, S) = Add(l, S) + Add(h, S)
    BY <1>5, <1>6, AddPlus
  <1>13. /\ Figures(s)!SumFunction(f) = Add(f, S) /\ Figures(s)!SumFunction(g) = Add(g, K)
         /\ Figures(s)!SumFunction(h) = Add(h, S)
    BY <1>9, SumIs
  <1>14. Figures(s)!QuoteAmount(from, to, c) = Figures(s)!SumFunction(g) + Figures(s)!SumFunction(h)
    BY <1>10, <1>11, <1>12, <1>13
  <1> QED BY <1>14 DEF g, h, K, S

(* Of one deal: a win of today is not the first win of an earlier day.        *)
LEMMA WinKept ==
  ASSUME NEW s \in FigureSettings, FigureInv(s), [Figures(s)!Next]_figureVars,
         NEW d \in Books[s].deals, NEW n \in 1..(day - 1)
  PROVE  (wins'[d] # {} /\ Figures(s)!Min(wins'[d]) = n)
           <=> (wins[d] # {} /\ Figures(s)!Min(wins[d]) = n /\ stage'[d] # "gone")
  <1>1. /\ day \in Nat /\ wins[d] \subseteq 1..day /\ (stage[d] = "gone" => wins[d] = {})
        /\ d \in DOMAIN wins /\ d \in DOMAIN stage
    BY BookFacts DEF FigureInv, Figures!TypeOK
  <1>2. \/ wins'[d] = wins[d] /\ (stage'[d] = "gone" => wins[d] = {})
        \/ wins'[d] = wins[d] \cup {day} /\ stage'[d] # "gone"
        \/ wins'[d] = {} /\ stage'[d] = "gone"
    <2>1. CASE Figures(s)!MoveDeal
      <3>1. PICK e \in Books[s].deals, x \in {"open", "Won", "Lost"} :
              /\ stage' = [stage EXCEPT ![e] = x]
              /\ wins' = IF x = "Won" THEN [wins EXCEPT ![e] = @ \cup {day}] ELSE wins
        BY <2>1 DEF Figures!MoveDeal
      <3> QED BY <1>1, <3>1
    <2>2. CASE Figures(s)!DropDeal
      <3>1. PICK e \in Books[s].deals : stage' = [stage EXCEPT ![e] = "gone"] /\ wins' = [wins EXCEPT ![e] = {}]
        BY <2>2 DEF Figures!DropDeal
      <3> QED BY <1>1, <3>1
    <2>3. CASE stage' = stage /\ wins' = wins
      BY <1>1, <2>3
    <2> QED BY <2>1, <2>2, <2>3 DEF Figures!Next, Figures!GiveDeal, Figures!WriteQuote, Figures!WriteOrder,
              Figures!DropOrder, Figures!AddNote, Figures!EraseNote, Figures!Midnight, figureVars
  <1>3. ASSUME wins'[d] = wins[d] \cup {day}
        PROVE  (wins'[d] # {} /\ Figures(s)!Min(wins'[d]) = n) <=> (wins[d] # {} /\ Figures(s)!Min(wins[d]) = n)
    <2>1. wins[d] \in SUBSET Nat /\ wins'[d] \in SUBSET Nat /\ day \in wins'[d]
      BY <1>1, <1>3
    <2>2. Figures(s)!Min(wins'[d]) \in wins'[d] /\ \A m \in wins'[d] : Figures(s)!Min(wins'[d]) <= m
      BY <2>1, FirstWin
    <2>3. CASE wins[d] = {}
      <3>1. Figures(s)!Min(wins'[d]) = day
        BY <1>3, <2>2, <2>3
      <3> QED BY <1>1, <2>3, <3>1
    <2>4. CASE wins[d] # {}
      <3>1. Figures(s)!Min(wins[d]) \in wins[d] /\ \A m \in wins[d] : Figures(s)!Min(wins[d]) <= m
        BY <2>1, <2>4, FirstWin
      <3> DEFINE a == Figures(s)!Min(wins'[d])
                 b == Figures(s)!Min(wins[d])
      <3>2. a \in Nat /\ b \in Nat /\ a <= b /\ b <= day
        BY <1>1, <1>3, <2>1, <2>2, <3>1
      <3>3. a = day \/ b <= a
        BY <1>3, <2>2, <3>1
      <3> HIDE DEF a, b
      <3>4. a = b
        BY <1>1, <3>2, <3>3
      <3> QED BY <2>1, <2>4, <3>4 DEF a, b
    <2> QED BY <2>3, <2>4
  <1> QED BY <1>1, <1>2, <1>3

LEMMA WinsKept ==
  ASSUME NEW s \in FigureSettings, FigureInv(s), [Figures(s)!Next]_figureVars
  PROVE  Figures(s)!WinsStay
  <1> SUFFICES ASSUME NEW n \in 1..(day - 1)
               PROVE  Figures(s)!WonIn(n, n)' = Figures(s)!WonIn(n, n) \ {d \in Books[s].deals : stage'[d] = "gone"}
    BY DEF Figures!WinsStay
  <1> DEFINE first(d) == Figures(s)!Min(wins[d])
             later(d) == Figures(s)!Min(wins'[d])
  <1>1. /\ day \in Nat /\ n \in Nat
        /\ \A d \in Books[s].deals : wins[d] \in SUBSET Nat /\ wins'[d] \in SUBSET Nat
    <2>1. FigureInv(s)'
      BY FiguresTyped
    <2>2. FigureInv(s) /\ FigureInv(s)' => \A d \in Books[s].deals : wins[d] \subseteq 1..day /\ wins'[d] \subseteq 1..day'
      BY DEF FigureInv
    <2>3. day \in Nat /\ day' \in Nat
      BY <2>1, BookFacts DEF FigureInv, Figures!TypeOK
    <2> QED BY <2>1, <2>2, <2>3
  <1>2. \A d \in Books[s].deals : /\ wins[d] # {} => first(d) \in Nat
                                  /\ wins'[d] # {} => later(d) \in Nat
    BY <1>1, FirstWin
  <1>3. \A d \in Books[s].deals :
          (wins'[d] # {} /\ later(d) = n) <=> (wins[d] # {} /\ first(d) = n /\ stage'[d] # "gone")
    BY WinKept
  <1>4. Figures(s)!WonIn(n, n) = {d \in Books[s].deals : wins[d] # {} /\ n <= first(d) /\ first(d) <= n}
    BY DEF Figures!WonIn, Figures!WonOn, Figures!Between
  <1>5. Figures(s)!WonIn(n, n)' = {d \in Books[s].deals : wins'[d] # {} /\ n <= later(d) /\ later(d) <= n}
    BY DEF Figures!WonIn, Figures!WonOn, Figures!Between
  <1> HIDE DEF first, later
  <1>6. /\ {d \in Books[s].deals : wins[d] # {} /\ n <= first(d) /\ first(d) <= n}
             = {d \in Books[s].deals : wins[d] # {} /\ first(d) = n}
        /\ {d \in Books[s].deals : wins'[d] # {} /\ n <= later(d) /\ later(d) <= n}
             = {d \in Books[s].deals : wins'[d] # {} /\ later(d) = n}
    BY <1>1, <1>2
  <1> QED BY <1>3, <1>4, <1>5, <1>6

LEMMA BooksStart ==
  ASSUME DeskInit, NEW s \in FigureSettings, desk = s
  PROVE  FigureInv(s)
  <1>1. Figures(s)!Init
    <2>1. CASE s = "ledger"
      BY <2>1 DEF DeskInit
    <2>2. CASE s = "sales"
      BY <2>2 DEF DeskInit
    <2>3. CASE s = "wins"
      BY <2>3 DEF DeskInit
    <2>4. CASE s = "quoted"
      BY <2>4 DEF DeskInit
    <2>5. CASE s = "joined"
      BY <2>5 DEF DeskInit
    <2> QED BY <2>1, <2>2, <2>3, <2>4, <2>5 DEF FigureSettings
  <1> QED BY <1>1, FiguresStart

LEMMA BookSteps ==
  ASSUME [DeskNext]_deskVars, NEW s \in FigureSettings, desk = s
  PROVE  [Figures(s)!Next]_figureVars
  <1>1. CASE FigureStep
    <2>1. CASE s = "ledger"
      BY <1>1, <2>1 DEF FigureStep
    <2>2. CASE s = "sales"
      BY <1>1, <2>2 DEF FigureStep
    <2>3. CASE s = "wins"
      BY <1>1, <2>3 DEF FigureStep
    <2>4. CASE s = "quoted"
      BY <1>1, <2>4 DEF FigureStep
    <2>5. CASE s = "joined"
      BY <1>1, <2>5 DEF FigureStep
    <2> QED BY <2>1, <2>2, <2>3, <2>4, <2>5 DEF FigureSettings
  <1>2. CASE ~FigureStep
    <2>1. UNCHANGED figureVars
      BY <1>2 DEF DeskNext, SessionStep, PeriodStep, ReminderStep, ProductStep, SearchStep, ImportStep, deskVars, figureVars
    <2> QED BY <2>1
  <1> QED BY <1>1, <1>2

(* For any records of any size: parts make up their totals (profits by        *)
(* customer and month, wins by seller and by day, quoted products and         *)
(* shipping over their joins); the two profit pages agree and sales are those *)
(* of won deals where no customer in the figure has two opportunities; and    *)
(* what was won on a past day changes only by deletion.                       *)
THEOREM FiguresAlwaysAgree == DeskSpec => FiguresAgree
  <1> DEFINE Inv == \A s \in FigureSettings : desk = s => FigureInv(s)
             Agree == \A setting \in FigureSettings :
                        desk = setting => /\ Figures(setting)!TypeOK
                                          /\ Figures(setting)!SingleDealPagesAgree
                                          /\ Figures(setting)!ProfitSplits
                                          /\ Figures(setting)!SalesAreWon
                                          /\ Figures(setting)!WinsAddUp
                                          /\ Figures(setting)!QuotedProductsAddUp
             Stay == \A setting \in FigureSettings : desk = setting => Figures(setting)!WinsStay
  <1>1. DeskInit => Inv
    BY BooksStart
  <1>2. Inv /\ [DeskNext]_deskVars => Inv' /\ [Stay]_deskVars
    <2> SUFFICES ASSUME Inv, [DeskNext]_deskVars PROVE Inv' /\ Stay
      OBVIOUS
    <2>1. desk' = desk
      BY DEF DeskNext, SessionStep, PeriodStep, FigureStep, ReminderStep, ProductStep, SearchStep, ImportStep, deskVars
    <2>2. ASSUME NEW s \in FigureSettings, desk = s PROVE FigureInv(s)' /\ Figures(s)!WinsStay
      <3>1. FigureInv(s) /\ [Figures(s)!Next]_figureVars
        BY <2>2, BookSteps
      <3> QED BY <3>1, FiguresTyped, WinsKept
    <2> QED BY <2>1, <2>2
  <1>3. Inv => Agree
    <2> SUFFICES ASSUME Inv, NEW s \in FigureSettings, desk = s
                 PROVE  /\ Figures(s)!TypeOK /\ Figures(s)!SingleDealPagesAgree /\ Figures(s)!ProfitSplits
                        /\ Figures(s)!SalesAreWon /\ Figures(s)!WinsAddUp /\ Figures(s)!QuotedProductsAddUp
      OBVIOUS
    <2>1. FigureInv(s)
      OBVIOUS
    <2>2. Figures(s)!TypeOK
      BY <2>1 DEF FigureInv
    <2> QED BY <2>1, <2>2, SinglePagesAgree, ProfitsSplit, SalesFit, WinsAdd, QuotesAdd
  <1> QED BY <1>1, <1>2, <1>3, PTL DEF DeskSpec, FiguresAgree
=============================================================================
