------------------------------ MODULE MCPortal ------------------------------
(***************************************************************************)
(* What the web process serves, as TLC checks it: the calendar page, the   *)
(* meals and dishes pages and the assistant of one household.  They share  *)
(* no state, so that one initial choice takes the place of their product.  *)
(*                                                                         *)
(* The calendar has 30 May to 1 June 2025, six-hour ticks, a household at  *)
(* UTC+6 and a Google calendar at UTC+12.                                  *)
(***************************************************************************)
EXTENDS CalendarPage

CONSTANTS
  Dishes, Names, Tags, Browsers, Weeks, PlanDates, FirstDate, LastDate, MaxMeals,
  Messages, MaxConversations, MaxFamilyRows, FactLimit

VARIABLES
  part,
  date, dishes, meals, request, saved, torn,
  message, conversations, family

\* The dates move one day at a time from the first to the last.
ASSUME DatesAssumption == FirstDate \in Int /\ LastDate \in Int /\ FirstDate <= LastDate

ASSUME LimitAssumption == FactLimit \in Nat

M == INSTANCE Meals
A == INSTANCE Assistant

mealVars      == <<date, dishes, meals, request, saved, torn>>
assistantVars == <<message, conversations, family>>
portalVars    == <<part, vars, mealVars, assistantVars>>

PortalInit ==
  /\ part \in {"calendar", "meals", "assistant"}
  /\ Init /\ M!MealsInit /\ A!AssistantInit

PortalNext ==
  \/ part = "calendar" /\ Next /\ UNCHANGED <<part, mealVars, assistantVars>>
  \/ part = "meals" /\ M!MealsNext /\ UNCHANGED <<part, vars, assistantVars>>
  \/ part = "assistant" /\ A!AssistantNext /\ UNCHANGED <<part, vars, mealVars>>

PortalSpec == PortalInit /\ [][PortalNext]_portalVars

PortalTypeOK == TypeOK /\ M!MealsTypeOK /\ A!AssistantTypeOK

\* Meals and Assistant state these two and this one.
MealsOutliveDishes == M!MealsOutliveDishes
DishIsOneEdit      == M!DishIsOneEdit
AssistantKnows     == A!AssistantKnows

-----------------------------------------------------------------------------
MCOffsets == [month |-> {-1, 0, 1, 9, 17}, week |-> {-1, 0}, day |-> {0, 3}]

MCForm ==
  LET single == [title |-> TRUE, on |-> 518, weekly |-> FALSE, weekdays |-> {},
                 allday |-> FALSE, starts |-> 1, ends |-> NoTime]
      series == [single EXCEPT !.on = 516, !.weekly = TRUE, !.weekdays = {0, 5}, !.starts = 0]
  IN  {single, series, [series EXCEPT !.allday = TRUE, !.weekdays = {4}],
       [single EXCEPT !.allday = TRUE], [series EXCEPT !.weekdays = {6}, !.ends = 3],
       [series EXCEPT !.weekdays = {}], [single EXCEPT !.ends = 1], [single EXCEPT !.title = FALSE]}

MCRequest ==
  {[starts |-> m, ends |-> e, allday |-> a] :
     m \in {Naive(516, 0), Zoned(516, 2, Home), Zoned(516, 3, 0)},
     e \in {NoMoment, Zoned(517, 1, Home)}, a \in BOOLEAN}

MCFields ==
  {[starts |-> m, ends |-> e, mode |-> md] :
     m \in {NoMoment, Naive(517, 1)}, e \in {NoMoment, Zoned(518, 0, Home)},
     md \in {"keep", "allday", "timed"}}

MCVevent ==
  LET once == [start |-> DateOnly(514), end |-> NoMoment, freq |-> "none", byday |-> {},
               interval |-> 1, until |-> Forever, added |-> {}, excluded |-> {},
               replaces |-> {}, cancelled |-> FALSE]
      late == [once EXCEPT !.start = Zoned(515, 3, 0), !.freq = "weekly"]
  IN  {once, late, [once EXCEPT !.cancelled = TRUE], [once EXCEPT !.freq = "daily"],
       [once EXCEPT !.freq = "weekly"], [once EXCEPT !.freq = "monthly"],
       [once EXCEPT !.start = Naive(516, 3), !.freq = "weekly", !.byday = {1, 5}],
       [late EXCEPT !.start = Zoned(516, 1, 0), !.until = 530],
       [late EXCEPT !.byday = {2, 6}],
       [once EXCEPT !.freq = "weekly", !.excluded = {521}],
       [once EXCEPT !.freq = "weekly", !.interval = 2],
       [once EXCEPT !.freq = "daily", !.byday = 0 .. 4, !.added = {512}],
       [once EXCEPT !.start = Naive(517, 1), !.replaces = {521}],
       [once EXCEPT !.replaces = {515}, !.cancelled = TRUE]}
=============================================================================
