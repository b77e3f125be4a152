------------------------------- MODULE Meals -------------------------------
(***************************************************************************)
(* meals/ with its two pages: the dishes a family cooks and what it plans  *)
(* for the days of a rolling week.  A planned meal has a copy of its       *)
(* dish's name and a key that the database clears when the dish goes.      *)
(*                                                                         *)
(* Planning a dish reads it in one transaction and inserts the meal in     *)
(* another; editing one selects it and writes the columns that differ from *)
(* what it selected.  Requests of several browsers lie in between.         *)
(***************************************************************************)
EXTENDS Integers, FiniteSets

CONSTANTS
  Dishes,        \* dishes that may come to be
  Names, Tags,   \* what a dish can be called and tagged
  Browsers,      \* requests under way at a time
  Weeks,         \* bound: the weeks looked at
  PlanDates,     \* bound: the days planned for
  FirstDate, LastDate,   \* bound: the days that pass
  MaxMeals       \* bound: planned meals at a time

VARIABLES
  date,      \* date.today()
  dishes,    \* dishes: dish -> [name, tags]
  meals,     \* planned_meals: id -> [on, dish, name]
  request,   \* per browser what its request holds
  saved,     \* history: dish -> what it was last saved as, also once deleted
  torn       \* history: dishes last written by edits that overlapped

mealVars == <<date, dishes, meals, request, saved, torn>>

NoDish == "no dish"
OneOff == "a one-off name"
Values == [name : Names, tags : Tags]
Ready  == [pc |-> "ready"]

MealsTypeOK ==
  /\ date \in FirstDate .. LastDate
  /\ DOMAIN dishes \subseteq Dishes /\ \A d \in DOMAIN dishes : dishes[d] \in Values
  /\ DOMAIN meals \subseteq 1 .. MaxMeals
  /\ \A b \in Browsers : request[b].pc \in {"ready", "edit", "plan"}
  /\ torn \subseteq Dishes /\ DOMAIN dishes \subseteq DOMAIN saved

MealsInit ==
  /\ date = FirstDate
  /\ dishes = <<>> /\ meals = <<>> /\ saved = <<>> /\ torn = {}
  /\ request = [b \in Browsers |-> Ready]

\* _window: the seven days of the week w weeks on.
WeekOf(w) == PlanDates \cap (date + 7 * w .. date + 7 * w + 6)

Put(table, key, row) == [k \in DOMAIN table \cup {key} |-> IF k = key THEN row ELSE table[k]]
Less(table, key)     == [k \in DOMAIN table \ {key} |-> table[k]]
Hold(b, s)           == request' = [request EXCEPT ![b] = s]

-----------------------------------------------------------------------------
(* The dishes page.                                                        *)

CreateDish(d, values) ==
  /\ d \in Dishes \ DOMAIN saved
  /\ dishes' = Put(dishes, d, values) /\ saved' = Put(saved, d, values)
  /\ UNCHANGED <<date, meals, request, torn>>

\* update_dish selects the row; one that is gone leaves the page as it is.
EditRead(b, d, values) ==
  /\ request[b] = Ready /\ d \in DOMAIN dishes
  /\ Hold(b, [pc |-> "edit", dish |-> d, old |-> dishes[d], new |-> values, overlapped |-> FALSE])
  /\ UNCHANGED <<date, dishes, meals, saved, torn>>

Editing(b, d) == request[b].pc = "edit" /\ request[b].dish = d

\* Mutant: the tags of an edit are dropped.
ChangedName(r, now) == [now EXCEPT !.name = r.new.name]
\* The columns that differ from the row selected are written.
Changed(r, now) ==
  [c \in {"name", "tags"} |-> IF r.new[c] = r.old[c] THEN now[c] ELSE r.new[c]]

\* The UPDATE of a row that was deleted meanwhile matches nothing and raises.
EditWrite(b) ==
  LET r == request[b]
  IN  /\ r.pc = "edit"
      /\ request' = [c \in Browsers |->
           IF c = b THEN Ready
           ELSE IF Editing(c, r.dish) THEN [request[c] EXCEPT !.overlapped = TRUE] ELSE request[c]]
      /\ IF r.dish \notin DOMAIN dishes THEN UNCHANGED <<dishes, saved, torn>>
         ELSE /\ dishes' = [dishes EXCEPT ![r.dish] = Changed(r, @)]
              /\ saved' = [saved EXCEPT ![r.dish] = r.new]
              /\ torn' = IF r.overlapped THEN torn \cup {r.dish} ELSE torn \ {r.dish}
      /\ UNCHANGED <<date, meals>>

\* Mutant: the meals keep the key of the dish.
DeleteDishOnly(d) ==
  /\ d \in DOMAIN dishes
  /\ dishes' = Less(dishes, d)
  /\ UNCHANGED <<date, meals, request, saved, torn>>
\* delete_dish, and ON DELETE SET NULL of the meals planned from it.
DeleteDish(d) ==
  /\ d \in DOMAIN dishes
  /\ dishes' = Less(dishes, d)
  /\ meals' = [i \in DOMAIN meals |->
                 IF meals[i].dish = d THEN [meals[i] EXCEPT !.dish = NoDish] ELSE meals[i]]
  /\ UNCHANGED <<date, request, saved, torn>>

-----------------------------------------------------------------------------
(* The week.                                                               *)

Insert(on, dish, name) ==
  \E i \in 1 .. MaxMeals \ DOMAIN meals :
    /\ \A j \in 1 .. i - 1 : j \in DOMAIN meals
    /\ meals' = Put(meals, i, [on |-> on, dish |-> dish, name |-> name])

\* _guard passes and plan_meal gets the dish; one that is gone is not found.
PlanRead(b, w, on, d) ==
  /\ request[b] = Ready /\ on \in WeekOf(w) /\ d \in DOMAIN dishes
  /\ Hold(b, [pc |-> "plan", dish |-> d, on |-> on, name |-> dishes[d].name])
  /\ UNCHANGED <<date, dishes, meals, saved, torn>>

\* The meal is inserted with the name read before; the foreign key refuses it
\* when the dish was deleted in between.
PlanWrite(b) ==
  /\ request[b].pc = "plan"
  /\ Hold(b, Ready)
  /\ IF request[b].dish \in DOMAIN dishes
     THEN Insert(request[b].on, request[b].dish, request[b].name)
     ELSE UNCHANGED meals
  /\ UNCHANGED <<date, dishes, saved, torn>>

PlanOneOff(w, on) ==
  /\ on \in WeekOf(w)
  /\ Insert(on, NoDish, OneOff)
  /\ UNCHANGED <<date, dishes, request, saved, torn>>

\* remove: the day is guarded, the meal is taken by its id.
Remove(w, on, i) ==
  /\ on \in WeekOf(w) /\ i \in DOMAIN meals
  /\ meals' = Less(meals, i)
  /\ UNCHANGED <<date, dishes, request, saved, torn>>

NextDay ==
  /\ date < LastDate /\ date' = date + 1
  /\ UNCHANGED <<dishes, meals, request, saved, torn>>

MealsNext ==
  \/ \E d \in Dishes : DeleteDish(d) \/ \E v \in Values : CreateDish(d, v)
  \/ \E b \in Browsers :
       \/ EditWrite(b) \/ PlanWrite(b)
       \/ \E d \in Dishes, v \in Values : EditRead(b, d, v)
       \/ \E w \in Weeks : \E on \in WeekOf(w), d \in Dishes : PlanRead(b, w, on, d)
  \/ \E w \in Weeks : \E on \in WeekOf(w) :
       PlanOneOff(w, on) \/ \E i \in DOMAIN meals : Remove(w, on, i)
  \/ NextDay

-----------------------------------------------------------------------------
\* "Deleting a dish never dangles planned meals because planning copies the
\* name" (web/routes/dishes.py 4-5): a planned meal refers to a dish that is
\* there or to none, and has a name in any case, whatever is deleted while it
\* is being planned.
MealsOutliveDishes ==
  \A i \in DOMAIN meals :
    /\ meals[i].dish \in DOMAIN dishes \cup {NoDish}
    /\ meals[i].name \in Names \cup {OneOff}

\* A dish is what was last saved for it, name and tags, unless that edit
\* overlapped another one.
DishIsOneEdit == \A d \in DOMAIN dishes : d \in torn \/ dishes[d] = saved[d]
=============================================================================
