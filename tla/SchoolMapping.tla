--------------------------- MODULE SchoolMapping ---------------------------
(***************************************************************************)
(* connectors/bakalari_mapping.py for one gather day: what the answers of  *)
(* a Bakalari server become.  A timetable is a sequence of hours           *)
(* [code, numbered, hour, timed, canceled]: the subject's code ("?" for a  *)
(* subject without one, NoSubject for none), whether there is a HourId and *)
(* which, whether a slot gives it times, and what its Change says.  A      *)
(* substitution is [today, hour, cancels], a mark or homework is           *)
(* [id, code, value].                                                      *)
(***************************************************************************)
EXTENDS Integers, Sequences, FiniteSets, SequencesExt

NoSubject == "no subject"
NoId      == "none"

\* The endpoints asked after /user, in their order: only enabled modules are,
\* and the substitutions of a timetable only with the timetable.
Requests(modules) ==
  LET Asked(e) == IF e \in modules THEN <<e>> ELSE <<>>
  IN  (IF "Timetable" \in modules THEN <<"Timetable">> \o Asked("Substitutions") ELSE <<>>)
      \o Asked("Marks") \o Asked("Homeworks")

\* _lesson_from_hour, appended; the fallback position counts the lessons so far.
WithHour(lessons, h) ==
  IF h.code = NoSubject \/ ~h.timed THEN lessons
  ELSE Append(lessons, [code |-> h.code, canceled |-> h.canceled,
                        position |-> IF h.numbered THEN h.hour ELSE Len(lessons) + 1])

\* The place of a lesson when sorted by position: lessons of one position keep
\* their order.
Place(lessons, k) ==
  1 + Cardinality({j \in DOMAIN lessons :
        \/ lessons[j].position < lessons[k].position
        \/ lessons[j].position = lessons[k].position /\ j < k})

ByPosition(lessons) ==
  [i \in DOMAIN lessons |-> lessons[CHOOSE k \in DOMAIN lessons : Place(lessons, k) = i]]

LessonsFrom(hours) == ByPosition(FoldLeft(WithHour, <<>>, hours))

\* by_position keeps the last lesson of a position.
OverlayAt(lessons, position) ==
  {i \in DOMAIN lessons : /\ lessons[i].position = position
                          /\ \A j \in i + 1 .. Len(lessons) : lessons[j].position # position}

Cancels(entry, lessons, i) ==
  entry.today /\ i \in OverlayAt(lessons, entry.hour) /\ entry.cancels

\* Each entry of the day is overlaid; none brings a canceled lesson back.
Substituted(lessons, entries) ==
  [i \in DOMAIN lessons |->
     [lessons[i] EXCEPT !.canceled = @ \/ \E k \in DOMAIN entries : Cancels(entries[k], lessons, i)]]

\* grades_from_marks and homework_from_payload: entries without an id are dropped.
WithItem(items, e) == IF e.id = NoId THEN items ELSE Append(items, e)

ItemsFrom(entries) == FoldLeft(WithItem, <<>>, entries)

Positions(lessons) == {lessons[i].position : i \in DOMAIN lessons}

\* Two lessons at one position cannot both be stored.
Collides(lessons) == Cardinality(Positions(lessons)) # Len(lessons)

Keyed(lessons) ==
  [p \in Positions(lessons) |-> lessons[CHOOSE i \in DOMAIN lessons : lessons[i].position = p]]
=============================================================================
