---------------------------- MODULE EventMapping ----------------------------
(***************************************************************************)
(* How an event of iCloud (icloud_ics.py) or Google (google_calendar/      *)
(* mapping.py) becomes a row of events, and how nidaro's own writes become *)
(* Google events.  Only what decides when an event is shown is modelled.   *)
(*                                                                         *)
(* A moment is what a source writes: [kind, date, time, zone], a date      *)
(* without a time, a date-time in a zone, or one that names no zone.       *)
(***************************************************************************)
EXTENDS Recurrence

DateTime == [kind : {"zoned", "naive"}, date : Int, time : Int, zone : Int]
Moment   == DateTime \cup [kind : {"date"}, date : Int, time : {0}, zone : {0}]

DateOnly(d)    == [kind |-> "date", date |-> d, time |-> 0, zone |-> 0]
Zoned(d, t, z) == [kind |-> "zoned", date |-> d, time |-> t, zone |-> z]
Naive(d, t)    == [kind |-> "naive", date |-> d, time |-> t, zone |-> 0]
NoMoment       == [kind |-> "none", date |-> 0, time |-> 0, zone |-> 0]

\* The instant of a moment; dates and floating times are the household's.
InstantOf(m) ==
  IF m.kind = "none" THEN NoTime
  ELSE Combine(m.date, m.time, IF m.kind = "zoned" THEN m.zone ELSE Home)

SeenFrom(zone, t) == Zoned(DateIn(t, zone), TimeIn(t, zone), zone)

-----------------------------------------------------------------------------
(* iCalendar: a VEVENT is [replaces, start, end, freq, interval, byday,    *)
(* until, added, excluded, cancelled].  An exception replaces the          *)
(* occurrence of its series on one date (RECURRENCE-ID), a series none.    *)
(* until is the date a COUNT or UNTIL ends the series with, or Forever;    *)
(* added and excluded are RDATE and EXDATE, or an exception that is        *)
(* cancelled.  "monthly" stands for every frequency but two.               *)

\* external_id: an exception is an event of its own.
IcsSource(v) == IF v.replaces = {} THEN "icloud" ELSE "moved"

\* series_weekdays: what recurrence_weekdays can hold of an RRULE.
SeriesWeekdays(v) ==
  CASE v.freq = "daily" -> Weekdays
    [] v.freq = "weekly" -> IF v.byday # {} THEN v.byday ELSE {Weekday(v.start.date)}
    [] OTHER -> {}

\* record_payload of the decoded VEVENT, as the applier stores it.
IcsRow(v) ==
  [start |-> InstantOf(v.start), end |-> InstantOf(v.end),
   allday |-> v.start.kind = "date", weekdays |-> SeriesWeekdays(v)]

-----------------------------------------------------------------------------
(* Google: an event is [start, end], dates or zoned moments.               *)

Aware(m) == IF m.kind = "naive" THEN Zoned(m.date, m.time, Home) ELSE m

WhenJson(m, allday) == IF allday THEN DateOnly(m.date) ELSE m

\* build_event_body of a request [starts, ends, allday].
EventBody(req) ==
  [start |-> WhenJson(Aware(req.starts), req.allday),
   end   |-> IF req.ends # NoMoment THEN WhenJson(Aware(req.ends), req.allday)
             ELSE IF req.allday THEN DateOnly(req.starts.date + 1)
             ELSE NoMoment]

IsAllDay(event) == event.start.kind = "date"

\* parse_when: a date is the household's midnight.
ExistingStart(event) ==
  IF IsAllDay(event) THEN Zoned(event.start.date, 0, Home) ELSE event.start

\* Mutant: the date is taken in UTC.
MergedUtc(event, fields) ==
  LET starts == IF fields.starts # NoMoment THEN Aware(fields.starts) ELSE ExistingStart(event)
  IN  [start |-> WhenJson(SeenFrom(0, InstantOf(starts)), fields.mode = "allday"),
       end   |-> IF fields.mode = "allday" THEN DateOnly(DateIn(InstantOf(starts), 0) + 1)
                 ELSE SeenFrom(0, InstantOf(starts) + Ticks)]
\* merge_event_update with fields [starts, ends, mode], mode "keep" for None.
Merged(event, fields) ==
  LET allday == fields.mode = "allday"
      starts == IF fields.starts # NoMoment THEN Aware(fields.starts) ELSE ExistingStart(event)
  IN  IF fields.mode # "keep" /\ allday # IsAllDay(event)
      THEN [start |-> WhenJson(starts, allday),
            end |-> IF allday THEN DateOnly(starts.date + 1)
                    ELSE [starts EXCEPT !.date = @ + 1]]
      ELSE [start |-> IF fields.starts # NoMoment
                      THEN WhenJson(starts, IsAllDay(event)) ELSE event.start,
            end   |-> IF fields.ends # NoMoment
                      THEN WhenJson(Aware(fields.ends), event.end.kind = "date")
                      ELSE event.end]

\* Google takes a body with two ends of one kind in their order ...
Accepts(body) ==
  /\ body.end # NoMoment /\ body.end.kind = body.start.kind
  /\ IF IsAllDay(body) THEN InstantOf(body.start) < InstantOf(body.end)
                       ELSE InstantOf(body.start) <= InstantOf(body.end)

\* ... and returns times in the zone of the calendar.
Returned(body, zone) ==
  IF IsAllDay(body) THEN body
  ELSE [start |-> SeenFrom(zone, InstantOf(body.start)),
        end   |-> SeenFrom(zone, InstantOf(body.end))]

\* to_external_record, as the applier stores it; singleEvents leaves no series.
GoogleRow(event) ==
  [start |-> InstantOf(event.start), end |-> InstantOf(event.end),
   allday |-> IsAllDay(event), weekdays |-> {}]
=============================================================================
