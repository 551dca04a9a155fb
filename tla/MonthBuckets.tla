---------------------------- MODULE MonthBuckets ----------------------------
(***************************************************************************)
(* The six monthly buckets of the dashboard's charts.  Time is counted in  *)
(* fractions of a day from the first of January of a leap year.  The code  *)
(* goes back multiples of 30 days from the first of this month, at the     *)
(* time of day of now, and takes the first of the month it reaches.        *)
(***************************************************************************)
EXTENDS Integers

CONSTANTS Years,       \* bound: now lies in this many years
          FirstMonth,  \* and from this month on
          Tick         \* times of a day that are told apart

\* Five months before the first one lie in the calendar.
ASSUME MonthConstants ==
  Years \in Nat /\ FirstMonth \in Nat /\ FirstMonth >= 5 /\ Tick \in Nat \ {0}

VARIABLE now           \* the time at which the dashboard is read

monthVars == now

-----------------------------------------------------------------------------
\* The calendar, with months numbered from 0; the first year is a leap year.

Leap(year) == year % 4 = 0
DaysBefore == <<0, 31, 59, 90, 120, 151, 181, 212, 243, 273, 304, 334>>

\* The day month k starts on.
FirstDay(k) ==
  LET year  == k \div 12
      month == (k % 12) + 1
  IN 365 * year + (year + 3) \div 4 + DaysBefore[month]
       + (IF Leap(year) /\ month > 2 THEN 1 ELSE 0)

MonthOf(t) ==
  LET day == t \div Tick IN
    CHOOSE k \in (day \div 31)..(day \div 28) :
      FirstDay(k) <= day /\ day < FirstDay(k + 1)

\* datetime.replace(day=1): the first of the month, at the same time of day.
OnTheFirst(t) == FirstDay(MonthOf(t)) * Tick + (t % Tick)

\* Mutants of NextFirst: thirty days lead to the next month; the day reached is
\* not moved to the first.
FirstAfter30(t) == OnTheFirst(t + 30 * Tick)
After32Days(t) == t + 32 * Tick

\* The first of the month that follows a first.
NextFirst(t) == OnTheFirst(t + 32 * Tick)

\* Bucket i, from 5 (the oldest) down to 0 (this month, up to now).
Start(i) == OnTheFirst(OnTheFirst(now) - 30 * i * Tick)
End(i) == IF i = 0 THEN now ELSE NextFirst(Start(i))
InBucket(t, i) == Start(i) <= t /\ t < End(i)
Label(i) == MonthOf(Start(i))

-----------------------------------------------------------------------------
MonthInit == now = FirstDay(FirstMonth) * Tick

Later ==
  /\ now < FirstDay(12 * Years) * Tick - 1
  /\ now' = now + 1

MonthNext == Later

MonthSpec == MonthInit /\ [][MonthNext]_monthVars

-----------------------------------------------------------------------------
\* Properties.

\* "Monthly last 6 months": the buckets are this month and the five before it.
LastSixMonths == \A i \in 0..5 : Label(i) = MonthOf(now) - i

\* They are in every month but March, April and May, which go back over a
\* February; and then the buckets join without a gap or an overlap, so that a
\* claim of the period is counted once.
InSpring == MonthOf(now) % 12 \in {2, 3, 4}

BucketsJoin ==
  ~InSpring =>
    /\ LastSixMonths
    /\ \A i \in 1..5 : End(i) = Start(i - 1)

\* A claim is shown under its own month, or under the month before if it was
\* made on a first earlier in the day than the dashboard is read (the buckets
\* start at the time of now, analytics_service.py line 76).
ShownInItsMonth ==
  ~InSpring =>
    \A i \in 0..5 :
      \A t \in {Start(i), End(i) - 1} :
        InBucket(t, i) =>
          \/ MonthOf(t) = Label(i)
          \/ /\ MonthOf(t) = Label(i) + 1
             /\ t - FirstDay(MonthOf(t)) * Tick < now % Tick

=============================================================================
