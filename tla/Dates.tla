------------------------------- MODULE Dates -------------------------------
(***************************************************************************)
(* The arithmetic of datetime that the calendar uses.  A date is the       *)
(* number of days since Monday 1 January 2024, a month the number of       *)
(* months since January 2024, an instant the number of ticks since the     *)
(* midnight (UTC) that date 0 begins with.  A time zone is its distance    *)
(* from UTC in ticks; one without summer time is enough here.              *)
(***************************************************************************)
EXTENDS Integers, Sequences

CONSTANTS
  Ticks,   \* ticks of one day
  Home     \* the household's zone

ASSUME ZoneWithinADay == Ticks \in Nat \ {0} /\ Home \in (1 - Ticks) .. (Ticks - 1)

Weekdays == 0 .. 6

Weekday(d) == d % 7

\* Days before each month of a common year.
DaysBefore == <<0, 31, 59, 90, 120, 151, 181, 212, 243, 273, 304, 334>>

\* The date of the first day of month m, from 1900 to 2099.
FirstOf(m) ==
  LET year == m \div 12
      month == m % 12
      leap == IF month >= 2 /\ year % 4 = 0 THEN 1 ELSE 0
  IN  365 * year + (year + 3) \div 4 + DaysBefore[month + 1] + leap

IsMonthOf(m, d) == FirstOf(m) <= d /\ d < FirstOf(m + 1)

\* The month of a date: date.replace(day=1) is FirstOf(MonthOf(d)).  Four years
\* are 48 months of 1461 days.
MonthOf(d) ==
  LET near == (48 * d) \div 1461
  IN  CHOOSE m \in near - 1 .. near + 1 : IsMonthOf(m, d)

\* datetime.date() and datetime.time() of an instant, seen in a zone.
DateIn(t, zone) == (t + zone) \div Ticks
TimeIn(t, zone) == (t + zone) % Ticks

\* datetime.combine(date, time, tzinfo=zone)
Combine(d, time, zone) == d * Ticks + time - zone
=============================================================================
