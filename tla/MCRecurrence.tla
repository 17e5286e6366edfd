---------------------------- MODULE MCRecurrence ----------------------------
(* Model-checking instance of Recurrence: the years around 2100, which is   *)
(* no leap year, and clocks that change on the last of its February.        *)
EXTENDS Recurrence

Times == {0, 2, 23}

MonthEnds ==
  [kind: {"MONTHLY"}, time: {2}, days: SUBSET {1, 28, 29, 30, 31} \ {{}}, last_day: BOOLEAN]
    \cup [kind: {"MONTHLY"}, time: Times, days: {{}, {29}}, last_day: {TRUE}]

LeapDays ==
  [kind: {"YEARLY"}, time: Times, dates: {{<<2, 29>>}, {<<2, 28>>, <<3, 1>>}, {<<1, 1>>, <<2, 29>>, <<12, 31>>}}]

ShortCadences ==
  [kind: {"DAILY"}, time: 0..23]
    \cup [kind: {"WEEKLY"}, time: Times, weekdays: {{7}, {1, 4}, 1..7}]
    \cup [kind: {"INTERVAL"}, every: {5, 24, 36}]
    \cup LeapDays
    \cup [kind: {"ONCE"}, at: {24 * date(2100, 2, 27)}]

AllCadences == MonthEnds \cup ShortCadences

\* No change, an hour skipped, an hour repeated, a zone east of the meridian, and
\* clocks that skip the last hour of a date.
Change == 24 * date(2100, 2, 28) + 2
Clocks ==
  { [before |-> 0, after |-> 0, change |-> Change],
    [before |-> 0, after |-> 1, change |-> Change],
    [before |-> 1, after |-> 0, change |-> Change],
    [before |-> 9, after |-> 8, change |-> Change - 9],
    [before |-> 0, after |-> 1, change |-> Change + 21] }

\* Before leap years, before the year that is none, and around the change.
MCStarts ==
  {24 * date(2096, 2, 28) + 5, 24 * date(2099, 10, 31)}
    \cup {24 * date(2100, 2, 25) + 3, Change - 1, Change, Change + 1}
=============================================================================
