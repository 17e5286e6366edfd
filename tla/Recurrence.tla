----------------------------- MODULE Recurrence -----------------------------
(***************************************************************************)
(* The calendar arithmetic of RecurrenceCalculator (domain/recurrence.py): *)
(* the next and the latest instant of a cadence, and how many lie between  *)
(* two of them.  An instant is a number of hours since the first year of   *)
(* the model; a local time is an hour of the day.  A time zone changes its *)
(* offset once.  The calendar, the weekdays and the zone are Python's.     *)
(*                                                                         *)
(* The specification follows one cadence from instant to instant, the way  *)
(* a schedule is advanced, and counts its steps.                           *)
(***************************************************************************)
EXTENDS Integers, FiniteSets, FiniteSetsExt

CONSTANTS
  FirstYear,      \* the calendar of the model
  LastYear,
  FirstWeekday,   \* isoweekday of the first of January of FirstYear
  Cadences,       \* cadence definitions
  Zones,          \* time zones: before, after and the instant of the change
  Starts,         \* instants from which the next one is asked for
  MaxSteps        \* bound: instants followed

VARIABLES
  cadence, zone,
  at,             \* the latest instant, or where the search began
  prev,           \* the instant before it
  first,          \* the first instant that was found
  count           \* how many were found

vars == <<cadence, zone, at, prev, first, count>>

None == -1
Raises == -2     \* ValueError
Years == FirstYear..LastYear

----------------------------------------------------------------------------
(* The calendar *)

Leap(y) == y % 4 = 0 /\ (y % 100 # 0 \/ y % 400 = 0)

monthrange(y, m) ==
  IF m = 2 THEN IF Leap(y) THEN 29 ELSE 28 ELSE IF m \in {4, 6, 9, 11} THEN 30 ELSE 31

\* Days before month m of a year that is no leap year.
DaysBefore == <<0, 31, 59, 90, 120, 151, 181, 212, 243, 273, 304, 334, 365>>

YearStart(y) == 365 * (y - FirstYear) + Cardinality({z \in FirstYear..(y - 1) : Leap(z)})
MonthStart(y, m) == YearStart(y) + DaysBefore[m] + IF m > 2 /\ Leap(y) THEN 1 ELSE 0
date(y, m, d) == MonthStart(y, m) + d - 1

YearOf(n) ==
  CHOOSE y \in (FirstYear + (n \div 366))..(FirstYear + (n \div 365)) :
    YearStart(y) <= n /\ n < YearStart(y + 1)

MonthOf(n) ==
  LET y == YearOf(n) IN CHOOSE m \in 1..12 : MonthStart(y, m) <= n /\ n < MonthStart(y, m + 1)

DayOf(n) == n - MonthStart(YearOf(n), MonthOf(n)) + 1
isoweekday(n) == ((n + FirstWeekday - 1) % 7) + 1

astimezone(t) == t + IF t < zone.change THEN zone.before ELSE zone.after
LocalDate(t) == astimezone(t) \div 24

----------------------------------------------------------------------------
(* Local times *)

valid_instants(local) ==
  {t \in {local - zone.before, local - zone.after} : astimezone(t) = local}

\* A local time that is skipped moves on to the first that exists on the date;
\* it is an error when the clocks skip all that is left of the date.
resolve_civil(n, time) ==
  LET exists == {h \in time..23 : valid_instants(24 * n + h) # {}} IN
  IF exists = {} THEN Raises ELSE Min(valid_instants(24 * n + Min(exists)))

----------------------------------------------------------------------------
(* Intervals, days and weeks *)

interval_index(t) == t \div cadence.every
interval_at(index) == index * cadence.every

matches(n) == cadence.kind = "DAILY" \/ isoweekday(n) \in cadence.weekdays

SearchDays == IF cadence.kind = "DAILY" THEN 2 ELSE 8

Resolved(days) == {resolve_civil(n, cadence.time) : n \in days}

----------------------------------------------------------------------------
(* Months and years *)

month_index(y, m) == (y - 1) * 12 + (m - 1)
IndexOf(t) == month_index(YearOf(LocalDate(t)), MonthOf(LocalDate(t)))

monthly_dates(index) ==
  LET y == (index \div 12) + 1
      m == (index % 12) + 1
      days == {d \in cadence.days : d <= monthrange(y, m)}
              \cup (IF cadence.last_day THEN {monthrange(y, m)} ELSE {}) IN
  IF y \in Years THEN {date(y, m, d) : d \in days} ELSE {}

yearly_dates(y) ==
  IF y \in Years
  THEN {date(y, d[1], d[2]) : d \in {e \in cadence.dates : e[2] <= monthrange(y, e[1])}}
  ELSE {}

MonthSearch == 24

\* Slip: eight years without the date are not foreseen.
YearSearchShort == 8

YearSearch == 10

\* What a search looks at in one turn: a day, a month or a year.
Turn(t, offset) ==
  CASE cadence.kind \in {"DAILY", "WEEKLY"} ->
         Resolved({n \in {LocalDate(t) + offset} : matches(n)})
    [] cadence.kind = "MONTHLY" -> Resolved(monthly_dates(IndexOf(t) + offset))
    [] OTHER -> Resolved(yearly_dates(YearOf(LocalDate(t)) + offset))

Offsets ==
  0..((CASE cadence.kind \in {"DAILY", "WEEKLY"} -> SearchDays
         [] cadence.kind = "MONTHLY" -> MonthSearch
         [] OTHER -> YearSearch) - 1)

\* A search goes from turn to turn.  The first with a date that cannot be resolved ends
\* it with an error, the first with an eligible instant with those of the turn.
Search(turn) ==
  IF \A o \in Offsets : turn[o] = {} THEN {}
  ELSE turn[CHOOSE o \in Offsets : turn[o] # {} /\ \A i \in 0..(o - 1) : turn[i] = {}]

\* What a search returns, best being the one it takes of several.
Found(instants, best) ==
  IF instants = {} THEN None ELSE IF Raises \in instants THEN Raises ELSE best

After(t) == Search([o \in Offsets |-> {c \in Turn(t, o) : c = Raises \/ c > t}])
UpTo(t) == Search([o \in Offsets |-> {c \in Turn(t, -o) : c = Raises \/ c <= t}])

\* The loops of next_after, _next_monthly and _next_yearly.
NextByCalendar(t) == LET found == After(t) IN Found(found, Min(found))

\* Slip: an instant is not at or before itself.
LatestBefore(t) == LET found == UpTo(t - 1) IN Found(found, Max(found))

\* The loops of latest_at_or_before, _latest_monthly and _latest_yearly.
LatestByCalendar(t) == LET found == UpTo(t) IN Found(found, Max(found))

next_after(t) ==
  CASE cadence.kind = "ONCE" -> IF cadence.at > t THEN cadence.at ELSE None
    [] cadence.kind = "INTERVAL" -> interval_at(interval_index(t) + 1)
    [] OTHER -> NextByCalendar(t)

latest_at_or_before(t) ==
  CASE cadence.kind = "ONCE" -> IF cadence.at <= t THEN cadence.at ELSE None
    [] cadence.kind = "INTERVAL" -> interval_at(interval_index(t))
    [] OTHER -> LatestByCalendar(t)

----------------------------------------------------------------------------
(* Counting without enumerating *)

\* Slip: every fourth year is a leap year.
leaps_julian(y) == y \div 4

leaps_through(y) == y \div 4 - y \div 100 + y \div 400

count_leap_years(a, b) == IF b < a THEN 0 ELSE leaps_through(b) - leaps_through(a - 1)

count_month_numbers(start, end, months) ==
  MapThenSumSet(
    LAMBDA m : LET f == start + ((m - 1 - start) % 12) IN
               IF f <= end THEN (end - f) \div 12 + 1 ELSE 0, months)

count_leap_februaries(start, end) ==
  LET f == start + ((1 - start) % 12)
      l == end - ((end - 1) % 12) IN
  IF f > end THEN 0 ELSE count_leap_years(f \div 12 + 1, l \div 12 + 1)

Outside(instants, a, b) == Cardinality({c \in instants : c < a \/ c > b})

boundary_months(a, b) == UNION {Resolved(monthly_dates(i)) : i \in {IndexOf(a), IndexOf(b)}}

count_monthly(a, b) ==
  LET boundary == boundary_months(a, b)
      start == IndexOf(a)
      end == IndexOf(b)
      total == end - start + 1
      february == count_month_numbers(start, end, {2})
      leap == count_leap_februaries(start, end)
      thirty == count_month_numbers(start, end, {4, 6, 9, 11})
      thirty_one == count_month_numbers(start, end, {1, 3, 5, 7, 8, 10, 12})
      of(d) == IF d <= 28 THEN total ELSE IF d = 29 THEN total - (february - leap)
               ELSE IF d = 30 THEN total - february ELSE thirty_one
      twice(d) == IF d = 28 THEN february - leap ELSE IF d = 29 THEN leap
                  ELSE IF d = 30 THEN thirty ELSE IF d = 31 THEN thirty_one ELSE 0
      last == IF cadence.last_day THEN total - MapThenSumSet(twice, cadence.days) ELSE 0 IN
  IF Raises \in boundary THEN Raises
  ELSE MapThenSumSet(of, cadence.days) + last - Outside(boundary, a, b)

count_yearly(a, b) ==
  LET ya == YearOf(LocalDate(a))
      yb == YearOf(LocalDate(b))
      boundary == UNION {Resolved(yearly_dates(y)) : y \in {ya, yb}}
      of(d) == IF d = <<2, 29>> THEN count_leap_years(ya, yb) ELSE yb - ya + 1 IN
  IF Raises \in boundary THEN Raises
  ELSE MapThenSumSet(of, cadence.dates) - Outside(boundary, a, b)

DayCount(a, b) == LocalDate(b) - LocalDate(a) + 1

count_between(a, b) ==
  LET days == DayCount(a, b)
      rest == {n \in LocalDate(a)..(LocalDate(a) + (days % 7) - 1) : matches(n)} IN
  IF b < a THEN 0 ELSE
  CASE cadence.kind = "ONCE" -> IF a <= cadence.at /\ cadence.at <= b THEN 1 ELSE 0
    [] cadence.kind = "INTERVAL" -> interval_index(b) - interval_index(a - 1)
    [] cadence.kind = "DAILY" -> days
    [] cadence.kind = "WEEKLY" -> (days \div 7) * Cardinality(cadence.weekdays) + Cardinality(rest)
    [] cadence.kind = "MONTHLY" -> count_monthly(a, b)
    [] OTHER -> count_yearly(a, b)

----------------------------------------------------------------------------
(* A schedule that is advanced from instant to instant *)

Init ==
  /\ cadence \in Cadences
  /\ zone \in Zones
  /\ at \in Starts
  /\ prev = None /\ first = None /\ count = 0

Advance ==
  /\ count < MaxSteps
  /\ next_after(at) \notin {None, Raises}
  /\ at' = next_after(at)
  /\ prev' = at
  /\ first' = IF first = None THEN at' ELSE first
  /\ count' = count + 1
  /\ UNCHANGED <<cadence, zone>>

Spec == Init /\ [][Advance]_vars

----------------------------------------------------------------------------
(* Properties *)

\* What the owner asked for, day by day: is date n one of the cadence's?
Selected(n) ==
  CASE cadence.kind = "DAILY" -> TRUE
    [] cadence.kind = "WEEKLY" -> isoweekday(n) \in cadence.weekdays
    [] cadence.kind = "MONTHLY" -> \/ DayOf(n) \in cadence.days
                                   \/ cadence.last_day /\ MonthOf(n + 1) # MonthOf(n)
    [] OTHER -> <<MonthOf(n), DayOf(n)>> \in cadence.dates

\* The hours of date n that are not before the local time, clocks changed or not.
Hours(n) ==
  {t \in (24 * n - 24)..(24 * n + 48) : LocalDate(t) = n /\ astimezone(t) % 24 >= cadence.time}

\* The first of them, if the clocks do not skip them all.
Struck(n) == Min(Hours(n))

\* Is t an instant of the cadence?
Instant(t) ==
  CASE cadence.kind = "ONCE" -> t = cadence.at
    [] cadence.kind = "INTERVAL" -> t % cadence.every = 0
    [] OTHER -> /\ Selected(LocalDate(t))
                /\ Hours(LocalDate(t)) # {} /\ t = Struck(LocalDate(t))

\* The dates on which an instant between a and b can lie.
Dates(a, b) == LocalDate(a)..LocalDate(b)

\* The dates that next_after may look at: they begin with the day, the month or
\* the year of the reference.
Reach(t) ==
  LET n == LocalDate(t) IN
  CASE cadence.kind \in {"DAILY", "WEEKLY"} -> n..(n + 7)
    [] cadence.kind = "MONTHLY" -> MonthStart(YearOf(n), MonthOf(n))..(n + 366)
    [] cadence.kind = "YEARLY" -> YearStart(YearOf(n))..(n + 9 * 366)
    [] OTHER -> {}

\* next_after returns an instant of the cadence and skips none, over leap years,
\* years without the date, short months and changes of the clock: its bounded
\* searches are long enough, so that a cadence that recurs never ends, and it
\* fails (_resolve_civil's ValueError) only over a date of the cadence whose
\* remaining hours the clocks skip.
NextInstantIsFound ==
  /\ cadence.kind # "ONCE" => next_after(at) # None
  /\ next_after(at) = Raises => \E n \in Reach(at) : Selected(n) /\ Hours(n) = {}
  /\ count > 0 =>
       /\ Instant(at)
       /\ IF cadence.kind \in {"ONCE", "INTERVAL"}
          THEN \A t \in (prev + 1)..(at - 1) : ~Instant(t)
          ELSE \A n \in Dates(prev, at) : Selected(n) =>
                 Hours(n) # {} /\ (Struck(n) <= prev \/ Struck(n) >= at)

\* Looking back finds what looking forward found: the scheduler that comes late
\* by any time decides the instant that was due (latest_at_or_before).
LatestIsTheOneBefore ==
  count > 1 =>
    /\ latest_at_or_before(at) = at
    /\ \A t \in {prev, (prev + at) \div 2, at - 1} : latest_at_or_before(t) = prev

\* The number of misfires that are reported is the number of instants there were:
\* the closed formulas of count_between agree with stepping through them.
CountIsTheNumberOfSteps == count > 0 => count_between(first, at) = count
=============================================================================
