---------------------------- MODULE ReportPeriods ---------------------------
(* The periods of the analysis, profit and sales-target pages: which days of  *)
(* the Shanghai calendar each covers, how a period is cut into the buckets of *)
(* its trend, and how the windows move when a day passes.                     *)
EXTENDS Integers, Sequences, FiniteSets, FiniteSetsExt, SequencesExt

CONSTANTS
  FirstYear, LastYear,  \* bound on the calendar
  FirstWeekday,         \* weekday of its first day, 0 for a Monday
  Edges                 \* day numbers a user may enter as ends of a custom range

VARIABLES
  today,    \* number of the day, 1 for the first of the calendar
  report    \* the report on the screen: its period, first and last day

vars == <<today, report>>
-----------------------------------------------------------------------------
IsLeap(y) == (y % 4 = 0 /\ y % 100 # 0) \/ y % 400 = 0
MonthDays(y, m) == IF m = 2 THEN (IF IsLeap(y) THEN 29 ELSE 28) ELSE IF m \in {4, 6, 9, 11} THEN 30 ELSE 31
YearDays(y) == IF IsLeap(y) THEN 366 ELSE 365

(* The days before a month, and the month and year a day falls in.            *)
Offsets == <<0, 31, 59, 90, 120, 151, 181, 212, 243, 273, 304, 334>>
Before(y, m) ==
  365 * (y - FirstYear) + Cardinality({k \in FirstYear..(y - 1) : IsLeap(k)}) + Offsets[m]
    + (IF m > 2 /\ IsLeap(y) THEN 1 ELSE 0)
Number(y, m, d) == Before(y, m) + d
LastDay == Number(LastYear, 12, 31)
(* The calendar has a year of history and one to report on.                  *)
PeriodAssumption ==
  /\ FirstYear \in Nat /\ LastYear \in Nat /\ FirstYear + 1 < LastYear
  /\ FirstWeekday \in 0..6 /\ Edges \subseteq 1..LastDay

Day(n) ==
  LET y == CHOOSE k \in FirstYear..LastYear : Before(k, 1) < n /\ n <= Before(k + 1, 1)
      m == CHOOSE k \in 1..12 : Before(y, k) < n /\ (k = 12 \/ n <= Before(y, k + 1))
  IN [y |-> y, m |-> m, d |-> n - Before(y, m)]
Weekday(n) == (FirstWeekday + n - 1) % 7

(* _subtract_months.                                                          *)
MonthsBack(n, months) ==
  LET a == Day(n).y * 12 + Day(n).m - 1 - months
      y == a \div 12
      m == (a % 12) + 1
  IN Number(y, m, Min({Day(n).d, MonthDays(y, m)}))

MonthStart(n) == Number(Day(n).y, Day(n).m, 1)
QuarterStart(n) == Number(Day(n).y, ((Day(n).m - 1) \div 3) * 3 + 1, 1)
HalfStart(n) == Number(Day(n).y, IF Day(n).m <= 6 THEN 1 ELSE 7, 1)
YearStart(n) == Number(Day(n).y, 1, 1)

Periods == {"today", "yesterday", "week", "month", "quarter", "half_year", "target_half", "year", "custom"}
FromTo(period, n) ==
  CASE period = "today" -> <<n, n>>
    [] period = "yesterday" -> <<n - 1, n - 1>>
    [] period = "week" -> <<n - Weekday(n), n>>
    [] period = "month" -> <<MonthStart(n), n>>
    [] period = "quarter" -> <<QuarterStart(n), n>>
    [] period = "half_year" -> <<MonthsBack(n, 6), n>>
    [] period = "target_half" -> <<HalfStart(n), n>>
    [] period = "year" -> <<YearStart(n), n>>
-----------------------------------------------------------------------------
(* The buckets of a trend: days, or months for a year and a long range        *)
(* (Spanning: the last one is missing).  A month is numbered from year 0.     *)
MonthOf(n) == Day(n).y * 12 + Day(n).m - 1
MonthsFrom(k, count) == [i \in 1..count |-> k + i - 1]

ByMonth(r) == r.period = "year" \/ (r.period = "custom" /\ r.to - r.from > 90)
BucketOf(r, n) == IF ByMonth(r) THEN MonthOf(n) ELSE n
Spanning(from, to) == MonthOf(to) - MonthOf(from)
MonthCount(from, to) == MonthOf(to) - MonthOf(from) + 1
Buckets(r) ==
  IF ByMonth(r) THEN MonthsFrom(MonthOf(r.from), MonthCount(r.from, r.to))
  ELSE [i \in 1..(r.to - r.from + 1) |-> r.from + i - 1]

(* _monthly_trend of the profit page: it starts eleven months back.           *)
TrendBack == 11
TrendStart(n) == MonthsBack(MonthStart(n), TrendBack)
Trend(n) == MonthsFrom(MonthOf(TrendStart(n)), MonthCount(TrendStart(n), n))

(* get_progress: what a year has left.                                        *)
MonthsLeft(n) == 13 - Day(n).m
ElapsedDays(n) == n - YearStart(n) + 1

TypeOK ==
  /\ today \in 1..LastDay
  /\ report = <<>> \/ (report.period \in Periods /\ report.from \in 1..LastDay /\ report.to \in 1..LastDay)

(* The calendar has a year of history before the first report.                *)
Init == today = YearDays(FirstYear) + 1 /\ report = <<>>

(* One report a day: what the next shows does not depend on the last.         *)
Ask == \E p \in Periods \ {"custom"} :
  report = <<>> /\ report' = [period |-> p, from |-> FromTo(p, today)[1], to |-> FromTo(p, today)[2]] /\ UNCHANGED today

(* A range the wrong way round is refused.  A custom range does not depend on *)
(* the day: it is asked on the days of Edges.                                 *)
AskCustom == \E a, b \in Edges :
  report = <<>> /\ today \in Edges /\ a <= b /\ report' = [period |-> "custom", from |-> a, to |-> b] /\ UNCHANGED today

Midnight == today < LastDay /\ today' = today + 1 /\ report' = <<>>

Next == Ask \/ AskCustom \/ Midnight
Spec == Init /\ [][Next]_vars
-----------------------------------------------------------------------------
(* Every day of a report falls in exactly one bucket of its trend, in order,  *)
(* and no bucket lies outside the report: the bars add up to the figure.      *)
BucketsPartition == report # <<>> =>
  LET b == Buckets(report) IN
  /\ Range(b) = {BucketOf(report, n) : n \in report.from..report.to}
  /\ \A i \in 1..(Len(b) - 1) : b[i] < b[i + 1]

(* The rolling half-year only moves forward, and passes over no day twice:    *)
(* its first day never goes back, by month ends of any length.                *)
SlidesOn == today' = today + 1 => MonthsBack(today, 6) <= MonthsBack(today', 6)

(* The cards of the profit page are nested, the quarter fits in the rolling   *)
(* half-year, and the parts of a sales year are nested too: a wider card      *)
(* never counts fewer orders.                                                 *)
CardsNested ==
  LET from(p) == FromTo(p, today)[1] IN
  /\ from("year") <= from("quarter") /\ from("quarter") <= from("month") /\ from("month") <= today
  /\ from("half_year") <= from("quarter") /\ from("week") \in (today - 6)..today /\ Weekday(from("week")) = 0
  /\ from("year") <= from("target_half") /\ from("target_half") <= from("quarter")

(* The profit trend always has twelve months, this one last, and contains     *)
(* both the current year and the rolling half-year.                           *)
TwelveMonths ==
  /\ Len(Trend(today)) = 12 /\ Last(Trend(today)) = MonthOf(today)
  /\ TrendStart(today) <= YearStart(today) /\ TrendStart(today) <= MonthsBack(today, 6)

(* What is left of a year's target is spread over the months not yet ended,   *)
(* this one included: their number is never zero, and with the months begun   *)
(* so far, this one counted twice, they make thirteen.                        *)
MonthsAddUp == MonthsLeft(today) + Len(MonthsFrom(MonthOf(YearStart(today)), MonthCount(YearStart(today), today))) = 13
               /\ ElapsedDays(today) \in 1..YearDays(Day(today).y)
=============================================================================
