-------------------------- MODULE MCSchoolGather --------------------------
(* Two accounts for TLC: a school that serves a timetable with             *)
(* substitutions, and one that serves marks (homework takes the same way). *)
EXTENDS SchoolGather

MCServed ==
  LET Hour(c, h) == [code |-> c, numbered |-> TRUE, hour |-> h, timed |-> TRUE, canceled |-> FALSE]
      Entry(id, v) == [id |-> id, code |-> "M", value |-> v]
      none == [modules |-> {"Timetable", "Substitutions"}, hours |-> <<>>, substitutions |-> <<>>,
               marks |-> <<>>, homeworks |-> <<>>]
      plain == [none EXCEPT !.hours = <<Hour("M", 1)>>]
      changed == [none EXCEPT
        !.hours = <<[Hour("C", 1) EXCEPT !.timed = FALSE], Hour(NoSubject, 3), Hour("M", 2)>>,
        !.substitutions = <<[today |-> FALSE, hour |-> 2, cancels |-> TRUE],
                            [today |-> TRUE, hour |-> 2, cancels |-> TRUE]>>]
      marked == [none EXCEPT !.modules = {"Marks"}, !.marks = <<Entry("m1", 1), Entry(NoId, 1)>>]
  IN  <<<<plain, none, changed>>,
        <<marked, [marked EXCEPT !.marks = <<Entry("m1", 2)>>]>>>>

MCEquipped == {<<1, "M">>}
=============================================================================
