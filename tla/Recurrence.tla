----------------------------- MODULE Recurrence -----------------------------
(***************************************************************************)
(* calendar/recurrence.py and the query in front of it: stored events are  *)
(* expanded to occurrences when they are read.                             *)
(*                                                                         *)
(* A row of events is [start, end, allday, weekdays]: instants, and the    *)
(* weekdays of a weekly series ({} for a single event).  An occurrence is  *)
(* [event, date, from, to], the times NoTime for an all-day event.         *)
(***************************************************************************)
EXTENDS Dates

NoTime == -1

MaxRangeDays == 62

RangeAllowed(from, to) == to - from <= MaxRangeDays

\* UTC instants that cover the days from .. to, the end exclusive.
WindowBounds(from, to) ==
  [start |-> Combine(from, 0, Home), end |-> Combine(to + 1, 0, Home)]

\* Mutant: a weekly series is fetched by its first occurrence only.
FetchedByStart(row, from, to) ==
  LET window == WindowBounds(from, to)
  IN  row.start < window.end /\ row.start >= window.start
\* The WHERE clause of CalendarRepository.range.
Fetched(row, from, to) ==
  LET window == WindowBounds(from, to)
  IN  row.start < window.end /\ (row.start >= window.start \/ row.weekdays # {})

\* The dates an event occurs on within from .. to.
OccurrenceDates(row, from, to) ==
  LET first == DateIn(row.start, Home)
  IN  IF row.weekdays = {}
      THEN {d \in {first} : from <= d /\ d <= to}
      ELSE {d \in (IF first > from THEN first ELSE from) .. to : Weekday(d) \in row.weekdays}

Occurrence(id, row, d) ==
  [event |-> id, date |-> d,
   from |-> IF row.allday THEN NoTime ELSE TimeIn(row.start, Home),
   to   |-> IF row.allday \/ row.end = NoTime THEN NoTime ELSE TimeIn(row.end, Home)]

Expanded(id, row, from, to) == {Occurrence(id, row, d) : d \in OccurrenceDates(row, from, to)}

\* CalendarService.range over the stored rows (a function from event ids).
RangeOf(rows, from, to) ==
  UNION {Expanded(id, rows[id], from, to) : id \in {i \in DOMAIN rows : Fetched(rows[i], from, to)}}

\* First date on or after d whose weekday is one of `weekdays`.
FirstWeekdayOnOrAfter(d, weekdays) ==
  CHOOSE c \in d .. d + 6 :
    Weekday(c) \in weekdays /\ \A b \in d .. c - 1 : Weekday(b) \notin weekdays
=============================================================================
