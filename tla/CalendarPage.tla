---------------------------- MODULE CalendarPage ----------------------------
(***************************************************************************)
(* web/routes/calendar.py over the events of one household: the add form,  *)
(* the month, week and day views, and three ways an event comes to be: the *)
(* form, a write to Google with its landing, and an iCloud sync.  Each is  *)
(* one step here; MirrorSync and CalDavSync have what happens inside.      *)
(*                                                                         *)
(* `asked` keeps what the author of an event wrote, so that what a page    *)
(* shows can be compared with it.                                          *)
(***************************************************************************)
EXTENDS EventMapping, FiniteSets

CONSTANTS
  FirstDay, LastDay,   \* bound: the days that pass
  Offsets,             \* bound: the offsets visited, per view
  Form,                \* submitted add forms
  Request,             \* writes to Google: [starts, ends, allday]
  Fields,              \* updates of a Google event: [starts, ends, mode]
  Vevent,              \* what the iCloud server may hold
  GoogleZone,          \* the zone the Google calendar is kept in
  MaxRows              \* bound: events at a time

ASSUME DaysAssumption ==
  /\ FirstDay \in Int /\ LastDay \in Int /\ FirstDay <= LastDay
  /\ DOMAIN Offsets = {"month", "week", "day"} /\ 0 \in Offsets["month"]
  /\ \A v \in DOMAIN Offsets : Offsets[v] \subseteq Int

\* A time of day is a tick of it; dates typed into the form are after the first.
ASSUME InputAssumption ==
  /\ GoogleZone \in Int
  /\ Form \subseteq [title : BOOLEAN, on : Nat \ {0}, weekly : BOOLEAN,
                    weekdays : SUBSET Weekdays, allday : BOOLEAN,
                    starts : NoTime .. Ticks - 1, ends : NoTime .. Ticks - 1]
  /\ Request \subseteq [starts : DateTime, ends : DateTime \cup {NoMoment}, allday : BOOLEAN]
  /\ Fields \subseteq [starts : DateTime \cup {NoMoment}, ends : DateTime \cup {NoMoment},
                      mode : {"keep", "allday", "timed"}]
  /\ Vevent \subseteq [start : Moment, end : Moment \cup {NoMoment},
                      freq : {"none", "daily", "weekly", "monthly"},
                      interval : Nat \ {0}, byday : SUBSET Weekdays, until : Int,
                      added : SUBSET Int, excluded : SUBSET Int,
                      replaces : SUBSET Int, cancelled : BOOLEAN]

VARIABLES
  today, view, o,   \* what the URL and the clock select
  rows,             \* events: source -> row
  asked,            \* history: source -> what its author wrote
  google            \* the event at Google, or NoEvent

vars == <<today, view, o, rows, asked, google>>

Source   == {"form", "google", "icloud", "moved"}
NoEvent  == [start |-> NoMoment, end |-> NoMoment]
PadDays  == 7
MonthsInStep == 18
Forever  == LastDay + 10000

TypeOK ==
  /\ today \in FirstDay .. LastDay
  /\ view \in {"month", "week", "day"} /\ o \in Offsets[view]
  /\ DOMAIN rows \subseteq Source /\ DOMAIN asked = DOMAIN rows
  /\ \A s \in DOMAIN rows :
       /\ rows[s].start \in Int /\ rows[s].end \in Int
       /\ rows[s].allday \in BOOLEAN /\ rows[s].weekdays \subseteq Weekdays
  /\ ("google" \in DOMAIN rows) = (google # NoEvent)

Init ==
  /\ today = FirstDay
  /\ view = "month" /\ o = 0
  /\ rows = <<>> /\ asked = <<>>
  /\ google = NoEvent

-----------------------------------------------------------------------------
(* The add form: [title, on, weekly, weekdays, allday, starts, ends].      *)

Anchor(f) == IF f.weekly THEN FirstWeekdayOnOrAfter(f.on, f.weekdays) ELSE f.on

Valid(f) ==
  /\ f.title
  /\ f.weekly => f.weekdays # {}
  /\ f.allday \/ (f.starts # NoTime /\ (f.ends # NoTime => f.ends > f.starts))

\* _compose_event for valid values.
Composed(f) ==
  [start |-> Combine(Anchor(f), IF f.allday THEN 0 ELSE f.starts, Home),
   end   |-> IF f.allday \/ f.ends = NoTime THEN NoTime ELSE Combine(Anchor(f), f.ends, Home),
   allday |-> f.allday, weekdays |-> IF f.weekly THEN f.weekdays ELSE {}]

-----------------------------------------------------------------------------
(* The page.                                                               *)

\* Mutant: months are reached by steps of 30 days.
ShiftMonthThirty(d, k) == MonthOf(FirstOf(MonthOf(d)) + 30 * k)
\* _shift_month: the month of a date some steps of 32 days away.
ShiftMonth(d, k) == MonthOf(FirstOf(MonthOf(d)) + 32 * k)

\* The Monday-start grid whose last day lies in the month reached `reach` days on.
Grid(start, reach) ==
  LET end == FirstOf(MonthOf(start + reach)) - 1
  IN  <<start - Weekday(start), end + 6 - Weekday(end)>>

\* Mutant: the last day of the month is looked for 28 days on.
WindowShort(v, k) == Grid(FirstOf(ShiftMonth(today, k)), 28)
\* _window, the first and last visible date: grid, Monday to Sunday, or a day.
Window(v, k) ==
  LET monday == today - Weekday(today) + 7 * k
  IN  CASE v = "month" -> Grid(FirstOf(ShiftMonth(today, k)), 32)
        [] v = "week" -> <<monday, monday + 6>>
        [] v = "day" -> <<today + k, today + k>>

\* Mutant: what is asked for is the visible window.
PaddedNot(w) == w
\* The range asked of the service.
Padded(w) == <<w[1] - PadDays, w[2] + PadDays>>

Found(w) == RangeOf(rows, Padded(w)[1], Padded(w)[2])

\* Event ids on two or more dates of the padded window carry the badge.
RepeatIds(occurrences) ==
  {s \in Source : Cardinality({oc \in occurrences : oc.event = s}) > 1}

ShownOn(occurrences, w, d) == {oc \in occurrences : oc.date = d /\ w[1] <= d /\ d <= w[2]}

\* A cell of the grid is in the month when the month's number agrees.
InMonth(d) ==
  LET anchor == IF view = "month" THEN ShiftMonth(today, o) ELSE MonthOf(today)
  IN  MonthOf(d) % 12 = anchor % 12

-----------------------------------------------------------------------------
(* Requests and syncs.                                                     *)

With(fn, s, value) == [x \in DOMAIN fn \cup {s} |-> IF x = s THEN value ELSE fn[x]]
Without(fn, s)     == [x \in DOMAIN fn \ {s} |-> fn[x]]

Room(s) == s \in DOMAIN rows \/ Cardinality(DOMAIN rows) < MaxRows

Store(s, row, wish) ==
  /\ Room(s)
  /\ rows' = With(rows, s, row)
  /\ asked' = With(asked, s, wish)

Drop(s) ==
  /\ s \in DOMAIN rows
  /\ rows' = Without(rows, s) /\ asked' = Without(asked, s)

Navigate(v, k) ==
  /\ view' = v /\ o' = k
  /\ UNCHANGED <<today, rows, asked, google>>

Midnight ==
  /\ today < LastDay
  /\ today' = today + 1
  /\ UNCHANGED <<view, o, rows, asked, google>>

\* POST /calendar/events; invalid values only render the form again.
Add(f) ==
  /\ "form" \notin DOMAIN rows
  /\ Valid(f)
  /\ Store("form", Composed(f), f)
  /\ UNCHANGED <<today, view, o, google>>

\* The day a request names: all-day events are dates of the request's zone.
DayOf(m, allday) == IF allday THEN m.date ELSE DateIn(InstantOf(m), Home)

\* Bound: where zones differ, toggling moves an event a day at a time.
Near(event) == event.start.date \in FirstDay - 2 .. LastDay + 3

Land(event, day) ==
  /\ Near(event)
  /\ google' = event
  /\ Store("google", GoogleRow(event), day)
  /\ UNCHANGED <<today, view, o>>

\* create_event, then _land with what Google returns.
CreateOnGoogle(req) ==
  LET body == EventBody(req)
  IN  /\ google = NoEvent
      /\ Accepts(body)
      /\ Land(Returned(body, GoogleZone), DayOf(req.starts, req.allday))

\* update_event: get, merge, put, _land.
UpdateOnGoogle(f) ==
  LET body   == Merged(google, f)
      starts == IF f.starts # NoMoment THEN f.starts ELSE ExistingStart(google)
  IN  /\ google # NoEvent
      /\ Accepts(body)
      /\ Land(Returned(body, GoogleZone), DayOf(starts, IsAllDay(body)))

\* Mutant: the deletion is not landed.
DeleteUnlanded ==
  /\ google # NoEvent
  /\ google' = NoEvent
  /\ UNCHANGED <<rows, asked, today, view, o>>
\* delete_event and the tombstone it lands.
DeleteOnGoogle ==
  /\ google # NoEvent
  /\ google' = NoEvent
  /\ Drop("google")
  /\ UNCHANGED <<today, view, o>>

\* A sync lands the VEVENT the server now holds; a cancelled one is a tombstone.
SyncIcloud(v) ==
  /\ IF v.cancelled THEN Drop(IcsSource(v)) ELSE Store(IcsSource(v), IcsRow(v), v)
  /\ UNCHANGED <<today, view, o, google>>

Next ==
  \/ \E v \in DOMAIN Offsets : \E k \in Offsets[v] : Navigate(v, k)
  \/ Midnight
  \/ \E f \in Form : Add(f)
  \/ \E req \in Request : CreateOnGoogle(req)
  \/ \E f \in Fields : UpdateOnGoogle(f)
  \/ DeleteOnGoogle
  \/ \E v \in Vevent : SyncIcloud(v)

Spec == Init /\ [][Next]_vars

-----------------------------------------------------------------------------
(* Properties.                                                             *)

\* The first local day of an iCloud event is the day its own zone names.
SameDay(v) == DateIn(InstantOf(v.start), Home) = v.start.date

\* Day d is kept of the days of a VEVENT: series_weekdays gives up on a frequency
\* but for its first day, and RDATE is not read.
Kept(v, d) ==
  /\ SameDay(v) /\ d \notin v.added
  /\ v.freq = "monthly" => d = v.start.date

\* recurrence_weekdays can hold the rule: it has no COUNT, UNTIL or INTERVAL and
\* a daily one no BYDAY.
Expressible(v) ==
  /\ SameDay(v) /\ v.until = Forever /\ v.interval = 1
  /\ v.freq = "daily" => v.byday = {}

WeekOf(d)     == d \div 7
DayOfMonth(d) == d - FirstOf(MonthOf(d))

\* iCalendar: the VEVENT takes place on day d of its own zone.
Falls(v, d) ==
  LET first == v.start.date
      On(days) == days = {} \/ Weekday(d) \in days
      Every(n) == n % v.interval = 0
      InRule ==
        /\ first <= d /\ (v.until = Forever \/ d <= v.until)
        /\ CASE v.freq = "daily" -> Every(d - first) /\ On(v.byday)
             [] v.freq = "weekly" -> /\ Every(WeekOf(d) - WeekOf(first))
                                     /\ On(IF v.byday = {} THEN {Weekday(first)} ELSE v.byday)
             [] v.freq = "monthly" -> /\ Every(MonthOf(d) - MonthOf(first))
                                      /\ DayOfMonth(d) = DayOfMonth(first)
             [] OTHER -> d = first
  IN  (InRule \/ d \in v.added) /\ d \notin v.excluded

\* The dates an exception has moved away from the series, and all it lacks.
Replaced(s) == IF s = "icloud" /\ "moved" \in DOMAIN asked THEN asked["moved"].replaces ELSE {}
TakenOut(s) == asked[s].excluded \cup Replaced(s)

\* The event takes place on day d of the household, by what its author wrote.
Happens(s, d) ==
  CASE s = "form" -> IF asked[s].weekly
                     THEN d >= asked[s].on /\ Weekday(d) \in asked[s].weekdays
                     ELSE d = asked[s].on
    [] s = "google" -> d = asked[s]
    [] OTHER -> \E e \in d - 1 .. d + 1 :
         /\ Falls(asked[s], e) /\ e \notin Replaced(s)
         /\ DateIn(InstantOf([asked[s].start EXCEPT !.date = e]), Home) = d

Hours(f) == IF f.allday THEN <<NoTime, NoTime>> ELSE <<f.starts, f.ends>>

\* A page shows an event on exactly the visible days it takes place on, by
\* what was typed into the form, written to Google or held by iCloud, and
\* form events at the hours typed.  Of iCloud, two things are excepted.  A series
\* is shown on too few days when its frequency is not daily or weekly (its first
\* day alone) or RDATE adds to it.  It is shown on too many when COUNT or UNTIL
\* ends it, INTERVAL or the BYDAY of a daily one thins it, EXDATE excludes a date
\* or an exception has moved it.  Nothing is said of a VEVENT that its own zone
\* puts on another date.
ShownAsAsked ==
  LET w == Window(view, o)
      found == Found(w)
  IN  \A s \in DOMAIN rows : \A d \in w[1] .. w[2] :
        LET shown == {oc \in ShownOn(found, w, d) : oc.event = s}
            ics == s \in {"icloud", "moved"}
        IN  /\ Happens(s, d) /\ (ics => Kept(asked[s], d)) => shown # {}
            /\ shown # {} /\ (ics => Expressible(asked[s]) /\ d \notin TakenOut(s))
                 => Happens(s, d)
            /\ s = "form" => \A oc \in shown : <<oc.from, oc.to>> = Hours(asked[s])

\* The badge marks exactly the weekly series among what is visible: PAD_DAYS
\* promises that a series is found twice in the padded window.
BadgeIsWeekly ==
  LET w == Window(view, o)
      found == Found(w)
  IN  \A d \in w[1] .. w[2] : \A oc \in ShownOn(found, w, d) :
        oc.event \in RepeatIds(found) <=> rows[oc.event].weekdays # {}

\* The month view is the whole weeks of one month, whose days alone are marked.
MonthIsWhole ==
  view = "month" =>
    LET w == Window(view, o)
        month == ShiftMonth(today, o)
    IN  /\ Weekday(w[1]) = 0 /\ Weekday(w[2]) = 6
        /\ w[1] <= FirstOf(month) /\ FirstOf(month) < w[1] + 7
        /\ w[2] - 7 < FirstOf(month + 1) - 1 /\ FirstOf(month + 1) - 1 <= w[2]
        /\ \A d \in w[1] .. w[2] : InMonth(d) <=> IsMonthOf(month, d)

\* "Next month" shows the next month, up to an offset of MonthsInStep: steps of
\* 32 days gain on the months.  (The step to -1 always passes over one.)
NextMonthFollows ==
  view = "month" /\ 0 <= o /\ o < MonthsInStep =>
    ShiftMonth(today, o + 1) = ShiftMonth(today, o) + 1

\* An update that only turns a timed Google event into an all-day one, or back,
\* leaves it on its day, where the calendar's zone agrees on that day.
Toggled == google # NoEvent /\ google' # NoEvent /\ IsAllDay(google) # IsAllDay(google)'
ToggleKeepsDay ==
  [][\A f \in Fields :
       /\ Toggled /\ f.starts = NoMoment /\ google' = Returned(Merged(google, f), GoogleZone)
       /\ google.start.date = DateIn(rows["google"].start, Home)
       => DateIn(rows["google"].start, Home)' = DateIn(rows["google"].start, Home)]_vars
=============================================================================
