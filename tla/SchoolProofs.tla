---------------------------- MODULE SchoolProofs ----------------------------
(***************************************************************************)
(* Proofs about SchoolGather, for any accounts, payloads and number of     *)
(* overlapping syncs.                                                      *)
(***************************************************************************)
EXTENDS SchoolGather, FiniteSetTheorems, SequenceTheorems, TLAPS

-----------------------------------------------------------------------------
(* Folds: what they return is shown by induction on sets of naturals.      *)

\* A set of naturals has a least member.
LEMMA LeastNatural ==
  ASSUME NEW T \in SUBSET Nat, NEW t \in T
  PROVE  \E x \in T : \A y \in T : x <= y
  <1> DEFINE W == 0 .. t
             F == {0 .. x : x \in {y \in T : y <= t}}
             O == StrictSubsetOrdering(W)
  <1>1. IsFiniteSet(W) /\ FiniteSubsetsOf(W) = SUBSET W
    <2>1. IsFiniteSet(W)
      BY FS_Interval
    <2> HIDE DEF W
    <2> QED
      BY <2>1, FS_FiniteSubsetsOfFinite
  <1>2. IsWellFoundedOn(O, SUBSET W)
    BY <1>1, FS_StrictSubsetOrderingWellFounded
  <1>3. F \subseteq SUBSET W /\ 0 .. t \in F
    OBVIOUS
  <1>4. F # {}
    BY <1>3
  <1>5. PICK m \in F : \A n \in F : <<n, m>> \notin O
    <2> HIDE DEF F, W, O
    <2> QED
      BY <1>2, <1>3, <1>4, WFMin
  <1>6. PICK x \in T : x <= t /\ m = 0 .. x
    BY <1>5
  <1>7. ASSUME NEW y \in T, ~ x <= y  PROVE FALSE
    <2>1. y <= t /\ 0 .. y \in F /\ 0 .. x \in F
      BY <1>6, <1>7
    <2>2. 0 .. y \subseteq 0 .. x /\ 0 .. y # 0 .. x
      BY <1>7
    <2>3. <<0 .. y, 0 .. x>> \in O
      BY <2>1, <2>2, <1>3 DEF StrictSubsetOrdering
    <2> QED
      BY <2>1, <2>3, <1>5, <1>6
  <1> QED
    BY <1>7

\* Induction on naturals, about a set of them.
LEMMA Induct ==
  ASSUME NEW T \in SUBSET Nat, 0 \in T, \A n \in T : n + 1 \in T
  PROVE  T = Nat
  <1> SUFFICES ASSUME NEW t \in Nat \ T PROVE FALSE
    OBVIOUS
  <1>1. PICK x \in Nat \ T : \A y \in Nat \ T : x <= y
    BY LeastNatural
  <1>2. x # 0 /\ x - 1 \in Nat
    BY <1>1
  <1>3. x - 1 \in T
    BY <1>1, <1>2
  <1> QED
    BY <1>3, <1>1, <1>2

\* A sequence, whatever its entries are.
IsSeq(s) == s \in Seq(ToSet(s))

\* A sequence of anything is one of its own entries.
LEMMA IsSeqOf ==
  ASSUME NEW S, NEW s \in Seq(S)
  PROVE  IsSeq(s)
  BY DEF IsSeq, ToSet

\* A function on the first n positions is a sequence.
LEMMA MapIsSeq ==
  ASSUME NEW n \in Nat, NEW f, f = [i \in 1 .. n |-> f[i]]
  PROVE  IsSeq(f)
  <1>1. f \in Seq({f[i] : i \in 1 .. n})
    OBVIOUS
  <1> QED
    BY <1>1, IsSeqOf

\* An entry more keeps it a sequence.
LEMMA AppendIsSeq ==
  ASSUME NEW s, IsSeq(s), NEW e
  PROVE  IsSeq(Append(s, e))
  <1>1. Append(s, e) \in Seq(ToSet(s) \cup {e})
    BY DEF IsSeq
  <1> QED
    BY <1>1, IsSeqOf

\* The two folds of SchoolMapping, as one.
WithEntry(kind, list, e) == IF kind = "hour" THEN WithHour(list, e) ELSE WithItem(list, e)

\* What a fold over a sequence is, by definition: a recursion on sets of positions.
Folds(kind, g, entries, n) ==
  g = [s \in SUBSET (1 .. n) |->
         IF s = {} THEN <<>> ELSE WithEntry(kind, g[s \ {Max(s)}], entries[Max(s)])]

Folded(kind, entries) == FoldLeft(LAMBDA list, e : WithEntry(kind, list, e), <<>>, entries)

\* The last position of a set that has it is its maximum.
LEMMA MaxOf ==
  ASSUME NEW n \in Nat, NEW s \in SUBSET (1 .. n + 1), n + 1 \in s
  PROVE  Max(s) = n + 1
  <1> DEFINE m == Max(s)
  <1>1. s \subseteq Int /\ \A y \in s : n + 1 >= y
    OBVIOUS
  <1>2. m \in s /\ \A y \in s : m >= y
    BY <1>1 DEF Max
  <1>3. m >= n + 1 /\ n + 1 >= m /\ m \in Int
    <2> HIDE DEF m
    <2> QED
      BY <1>1, <1>2
  <1> HIDE DEF m
  <1>4. m = n + 1
    BY <1>3
  <1> QED
    BY <1>4 DEF m

\* The recursion the folds of SchoolMapping stand for has a solution, for a
\* list of any length.
LEMMA FoldExists ==
  ASSUME NEW kind, NEW entries, NEW n \in Nat
  PROVE  \E g : Folds(kind, g, entries, n)
  <1> DEFINE T == {k \in Nat : \E g : Folds(kind, g, entries, k)}
  <1>1. 0 \in T
    <2> DEFINE g == [s \in SUBSET (1 .. 0) |-> <<>>]
    <2>1. SUBSET (1 .. 0) = {{}}
      OBVIOUS
    <2>2. Folds(kind, g, entries, 0)
      BY <2>1 DEF Folds
    <2> QED
      BY <2>2
  <1>2. ASSUME NEW k \in T  PROVE k + 1 \in T
    <2>1. PICK g : Folds(kind, g, entries, k)
      OBVIOUS
    <2> DEFINE h == [s \in SUBSET (1 .. k + 1) |->
                       IF k + 1 \in s THEN WithEntry(kind, g[s \ {k + 1}], entries[k + 1]) ELSE g[s]]
               B(s) == IF s = {} THEN <<>> ELSE WithEntry(kind, h[s \ {Max(s)}], entries[Max(s)])
    <2>2. ASSUME NEW s \in SUBSET (1 .. k + 1)  PROVE h[s] = B(s)
      <3>1. CASE k + 1 \in s
        <4>1. Max(s) = k + 1 /\ s # {} /\ s \ {k + 1} \in SUBSET (1 .. k + 1)
          BY <3>1, MaxOf
        <4>2. s \ {k + 1} \in SUBSET (1 .. k) /\ k + 1 \notin s \ {k + 1}
          OBVIOUS
        <4>3. h[s \ {k + 1}] = g[s \ {k + 1}]
          BY <4>1, <4>2
        <4> QED
          BY <3>1, <4>1, <4>3
      <3>2. CASE k + 1 \notin s
        <4>1. s \in SUBSET (1 .. k)
          BY <3>2
        <4>1a. s \ {Max(s)} \in SUBSET (1 .. k + 1)
          OBVIOUS
        <4>2. h[s] = g[s] /\ h[s \ {Max(s)}] = g[s \ {Max(s)}]
          BY <3>2, <4>1, <4>1a
        <4>3. g[s] = IF s = {} THEN <<>> ELSE WithEntry(kind, g[s \ {Max(s)}], entries[Max(s)])
          BY <2>1, <4>1 DEF Folds
        <4> HIDE DEF h
        <4> QED
          BY <4>2, <4>3
      <3> QED
        BY <3>1, <3>2
    <2>3. h = [s \in SUBSET (1 .. k + 1) |-> h[s]]
      OBVIOUS
    <2>4. Folds(kind, h, entries, k + 1)
      <3> HIDE DEF h
      <3> QED
        BY <2>2, <2>3 DEF Folds
    <2>5. k + 1 \in Nat
      OBVIOUS
    <2> QED
      BY <2>4, <2>5
  <1>3. T = Nat
    <2> HIDE DEF T
    <2>1. T \in SUBSET Nat
      BY DEF T
    <2> QED
      BY <1>1, <1>2, <2>1, Induct
  <1> QED
    BY <1>3

\* What an entry more keeps, the fold over a list of any length has.
LEMMA FoldKeeps ==
  ASSUME NEW kind, NEW entries, IsSeq(entries), NEW G, <<>> \in G,
         \A list \in G : \A i \in DOMAIN entries : WithEntry(kind, list, entries[i]) \in G
  PROVE  Folded(kind, entries) \in G
  <1> DEFINE N0 == Len(entries)
  <1>1. N0 \in Nat /\ DOMAIN entries = 1 .. N0
    BY DEF IsSeq
  <1> DEFINE iter == CHOOSE g : Folds(kind, g, entries, N0)
  <1>2. Folded(kind, entries) = iter[1 .. N0]
    BY <1>1 DEF Folded, FoldLeft, MapThenFoldSet, Folds
  <1>3. Folds(kind, iter, entries, N0)
    BY <1>1, FoldExists
  <1> DEFINE T == {k \in Nat : k <= N0 => iter[1 .. k] \in G}
  <1> HIDE DEF iter, N0
  <1>4. 0 \in T
    <2>1. 1 .. 0 = {} /\ 1 .. 0 \in SUBSET (1 .. N0)
      OBVIOUS
    <2>2. iter[1 .. 0] = <<>>
      BY <1>3, <2>1 DEF Folds
    <2> QED
      BY <2>2
  <1>5. ASSUME NEW k \in T  PROVE k + 1 \in T
    <2> SUFFICES ASSUME k + 1 <= N0  PROVE iter[1 .. k + 1] \in G
      OBVIOUS
    <2>1. k \in Nat /\ 1 .. k + 1 \in SUBSET (1 .. N0) /\ k + 1 \in 1 .. k + 1 /\ iter[1 .. k] \in G
      BY <1>1
    <2>2. Max(1 .. k + 1) = k + 1 /\ (1 .. k + 1) \ {k + 1} = 1 .. k
      BY <2>1, MaxOf
    <2>3. iter[1 .. k + 1] = WithEntry(kind, iter[1 .. k], entries[k + 1])
      BY <1>3, <2>1, <2>2 DEF Folds
    <2>4. k + 1 \in DOMAIN entries
      BY <1>1, <2>1
    <2> QED
      BY <2>1, <2>3, <2>4
  <1>6. T = Nat
    <2> HIDE DEF T
    <2>1. T \in SUBSET Nat
      BY DEF T
    <2> QED
      BY <1>4, <1>5, <2>1, Induct
  <1> QED
    BY <1>1, <1>2, <1>6

\* The lessons the hours of a timetable can become.
LessonOf(h, n) ==
  [code |-> h.code, canceled |-> h.canceled, position |-> IF h.numbered THEN h.hour ELSE n]

LessonsOf(hours) ==
  {LessonOf(h, n) : h \in {x \in ToSet(hours) : x.code # NoSubject /\ x.timed}, n \in Nat}

\* _lesson_from_hour: an hour without a subject or a slot becomes no lesson.
LEMMA GivenLessons ==
  ASSUME NEW hours, IsSeq(hours)
  PROVE  FoldLeft(WithHour, <<>>, hours) \in Seq(LessonsOf(hours))
  <1> DEFINE S == LessonsOf(hours)
  <1>1. FoldLeft(WithHour, <<>>, hours) = Folded("hour", hours)
    BY DEF Folded, WithEntry, FoldLeft, MapThenFoldSet
  <1>2. ASSUME NEW list \in Seq(S), NEW i \in DOMAIN hours
        PROVE  WithEntry("hour", list, hours[i]) \in Seq(S)
    <2>1. CASE hours[i].code = NoSubject \/ ~hours[i].timed
      BY <2>1 DEF WithEntry, WithHour
    <2>2. CASE ~(hours[i].code = NoSubject \/ ~hours[i].timed)
      <3>1. WithEntry("hour", list, hours[i]) = Append(list, LessonOf(hours[i], Len(list) + 1))
        BY <2>2 DEF WithEntry, WithHour, LessonOf
      <3>2. hours[i] \in {x \in ToSet(hours) : x.code # NoSubject /\ x.timed} /\ Len(list) + 1 \in Nat
        BY <2>2 DEF ToSet
      <3>3. LessonOf(hours[i], Len(list) + 1) \in S
        BY <3>2 DEF LessonsOf
      <3> HIDE DEF S
      <3> QED
        BY <3>1, <3>3
    <2> QED
      BY <2>1, <2>2
  <1> HIDE DEF S
  <1>3. <<>> \in Seq(S)
    OBVIOUS
  <1> QED
    BY <1>1, <1>2, <1>3, FoldKeeps DEF S

\* Lessons are sorted by position, those of one position in the order given:
\* j comes before k.
Before(list, j, k) ==
  \/ list[j].position < list[k].position
  \/ list[j].position = list[k].position /\ j < k

\* sorted(key=position): the result is a rearrangement of the list, by a
\* permutation of its positions that follows the order.
THEOREM SortIsStable ==
  ASSUME NEW list, IsSeq(list), \A i \in DOMAIN list : list[i].position \in Int
  PROVE  \E from \in Bijection(DOMAIN list, DOMAIN list) :
           /\ ByPosition(list) = [i \in DOMAIN list |-> list[from[i]]]
           /\ \A i, j \in DOMAIN list : i < j => Before(list, from[i], from[j])
  <1> DEFINE D == DOMAIN list
             B(k) == {j \in D : Before(list, j, k)}
             place == [k \in D |-> 1 + Cardinality(B(k))]
             from == [i \in D |-> CHOOSE k \in D : place[k] = i]
  <1>1. /\ Len(list) \in Nat /\ D = 1 .. Len(list) /\ D \subseteq Int
        /\ IsFiniteSet(D) /\ Cardinality(D) = Len(list)
    <2>1. Len(list) \in Nat /\ D = 1 .. Len(list)
      BY DEF IsSeq
    <2> QED
      BY <2>1, FS_Interval
  <1> HIDE DEF D
  <1>2. \A k \in D : list[k].position \in Int
    BY DEF D
  <1>3. ASSUME NEW k \in D
        PROVE  /\ B(k) \subseteq D /\ k \notin B(k) /\ IsFiniteSet(B(k))
               /\ Cardinality(B(k)) \in Nat /\ place[k] = 1 + Cardinality(B(k)) /\ place[k] \in D
    <2>1. B(k) \subseteq D /\ k \notin B(k)
      BY <1>1, <1>2 DEF Before
    <2>2. IsFiniteSet(B(k)) /\ Cardinality(B(k)) \in Nat /\ Cardinality(B(k)) <= Len(list)
          /\ Cardinality(B(k)) # Len(list)
      <3> DEFINE b == B(k)
      <3>1. b \in SUBSET D /\ b # D
        BY <2>1
      <3> HIDE DEF b
      <3> QED
        BY <1>1, <3>1, FS_Subset, FS_CardinalityType DEF b
    <2>3. place[k] = 1 + Cardinality(B(k))
      OBVIOUS
    <2> HIDE DEF place
    <2>4. place[k] \in D
      BY <1>1, <2>2, <2>3
    <2> QED
      BY <2>1, <2>2, <2>3, <2>4
  <1>4. ASSUME NEW j \in D, NEW k \in D, Before(list, j, k)
        PROVE  place[j] < place[k]
    <2>1. B(j) \subseteq B(k) /\ j \in B(k) /\ j \notin B(j)
      BY <1>1, <1>2, <1>4 DEF Before
    <2>2. Cardinality(B(j)) < Cardinality(B(k))
      <3> DEFINE a == B(j)
                 b == B(k)
      <3>1. a \in SUBSET b /\ a # b /\ IsFiniteSet(b)
        BY <1>3, <2>1
      <3>2. Cardinality(a) \in Nat /\ Cardinality(b) \in Nat
        BY <1>3
      <3> HIDE DEF a, b
      <3>3. Cardinality(a) <= Cardinality(b) /\ Cardinality(a) # Cardinality(b)
        BY <3>1, FS_Subset
      <3> QED
        BY <3>2, <3>3 DEF a, b
    <2>3. /\ place[j] = 1 + Cardinality(B(j)) /\ place[k] = 1 + Cardinality(B(k))
          /\ Cardinality(B(j)) \in Nat /\ Cardinality(B(k)) \in Nat
      BY <1>3
    <2> HIDE DEF place
    <2> QED
      BY <2>2, <2>3
  <1>5. \A j, k \in D : j # k => Before(list, j, k) \/ Before(list, k, j)
    BY <1>1, <1>2 DEF Before
  <1>6. \A k \in D : place[k] \in D
    BY <1>3
  <1>7. place \in [D -> D]
    BY <1>6
  <1> HIDE DEF place, B
  <1>8. \A j, k \in D : place[j] = place[k] => j = k
    BY <1>1, <1>4, <1>5, <1>6
  <1>9. place \in Injection(D, D)
    BY <1>7, <1>8 DEF Injection, IsInjective
  <1>10. place \in Surjection(D, D)
    BY <1>1, <1>9, FS_Injection
  <1>11. \A i \in D : from[i] \in D /\ place[from[i]] = i
    BY <1>10 DEF Surjection
  <1>12. from \in [D -> D]
    BY <1>11
  <1>13. \A k \in D : from[place[k]] = k
    BY <1>6, <1>8, <1>11
  <1> HIDE DEF from
  <1>14. from \in Bijection(D, D)
    BY <1>6, <1>11, <1>12, <1>13 DEF Bijection, Injection, IsInjective, Surjection
  <1>15. ByPosition(list) = [i \in D |-> list[from[i]]]
    <2> DEFINE Source(i) == CHOOSE k \in DOMAIN list : Place(list, k) = i
    <2>1. \A k \in D : Place(list, k) = place[k]
      BY DEF Place, place, B, Before, D
    <2>2. \A i \in D : Source(i) = from[i]
      BY <2>1 DEF D, from
    <2>3. ByPosition(list) = [i \in D |-> list[Source(i)]]
      BY DEF ByPosition, D
    <2> HIDE DEF Source
    <2> QED
      BY <2>2, <2>3
  <1>16. ASSUME NEW i \in D, NEW j \in D, i < j  PROVE Before(list, from[i], from[j])
    <2>1. from[i] # from[j] /\ ~(place[from[j]] < place[from[i]])
      BY <1>1, <1>11, <1>16
    <2> QED
      BY <1>4, <1>5, <1>11, <2>1
  <1> QED
    BY <1>14, <1>15, <1>16 DEF D

\* map_timetable returns a list of lessons.
LEMMA LessonsAreSeq ==
  ASSUME NEW hours, IsSeq(hours)
  PROVE  IsSeq(LessonsFrom(hours))
  <1> DEFINE given == FoldLeft(WithHour, <<>>, hours)
  <1>1. IsSeq(given)
    BY GivenLessons, IsSeqOf
  <1>2. Len(given) \in Nat /\ DOMAIN given = 1 .. Len(given)
    BY <1>1 DEF IsSeq
  <1> HIDE DEF given
  <1>3. ByPosition(given) = [i \in DOMAIN given |-> ByPosition(given)[i]]
    BY DEF ByPosition
  <1>4. IsSeq(ByPosition(given))
    BY <1>2, <1>3, MapIsSeq
  <1> QED
    BY <1>4 DEF LessonsFrom, given

\* lessons_from_timetable: whatever the hours, every lesson has a subject and they come
\* in the order of their positions.
THEOREM TimetableInOrder ==
  ASSUME NEW hours, IsSeq(hours), \A h \in ToSet(hours) : h.numbered => h.hour \in Int
  PROVE  LET day == LessonsFrom(hours)
         IN  /\ \A i \in DOMAIN day : day[i].code # NoSubject
             /\ \A i, j \in DOMAIN day : i < j => day[i].position <= day[j].position
  <1> DEFINE given == FoldLeft(WithHour, <<>>, hours)
             day == LessonsFrom(hours)
  <1>1. given \in Seq(LessonsOf(hours))
    BY GivenLessons
  <1>2. \A x \in LessonsOf(hours) : x.code # NoSubject /\ x.position \in Int
    BY DEF LessonsOf, LessonOf
  <1> HIDE DEF given
  <1>3. IsSeq(given) /\ \A i \in DOMAIN given : given[i].code # NoSubject /\ given[i].position \in Int
    BY <1>1, <1>2, IsSeqOf
  <1>4. PICK from \in Bijection(DOMAIN given, DOMAIN given) :
          /\ ByPosition(given) = [i \in DOMAIN given |-> given[from[i]]]
          /\ \A i, j \in DOMAIN given : i < j => Before(given, from[i], from[j])
    BY <1>3, SortIsStable
  <1>5. from \in [DOMAIN given -> DOMAIN given]
    BY DEF Bijection, Injection
  <1>6. day = [i \in DOMAIN given |-> given[from[i]]]
    BY <1>4 DEF LessonsFrom, given
  <1> HIDE DEF day
  <1>7. ASSUME NEW i \in DOMAIN given, NEW j \in DOMAIN given, i < j
        PROVE  day[i].position <= day[j].position
    <2>1. Before(given, from[i], from[j]) /\ from[i] \in DOMAIN given /\ from[j] \in DOMAIN given
      BY <1>4, <1>5, <1>7
    <2>2. given[from[i]].position \in Int /\ given[from[j]].position \in Int
      BY <1>3, <2>1
    <2> QED
      BY <1>6, <2>1, <2>2 DEF Before
  <1>8. DOMAIN day = DOMAIN given /\ \A i \in DOMAIN given : day[i].code # NoSubject
    BY <1>3, <1>5, <1>6
  <1> QED
    BY <1>7, <1>8 DEF day

\* grades_from_marks and homework_from_payload return entries of the payload only, and
\* only those that have an id.
THEOREM ItemsHaveIds ==
  ASSUME NEW entries, IsSeq(entries)
  PROVE  ItemsFrom(entries) \in Seq({e \in ToSet(entries) : e.id # NoId})
  <1> DEFINE S == {e \in ToSet(entries) : e.id # NoId}
  <1>1. ItemsFrom(entries) = Folded("item", entries)
    BY DEF Folded, WithEntry, ItemsFrom, FoldLeft, MapThenFoldSet
  <1>2. ASSUME NEW list \in Seq(S), NEW i \in DOMAIN entries
        PROVE  WithEntry("item", list, entries[i]) \in Seq(S)
    <2>1. CASE entries[i].id = NoId
      BY <2>1 DEF WithEntry, WithItem
    <2>2. CASE entries[i].id # NoId
      <3>1. entries[i] \in S /\ WithEntry("item", list, entries[i]) = Append(list, entries[i])
        BY <2>2 DEF WithEntry, WithItem, ToSet
      <3> HIDE DEF S
      <3> QED
        BY <3>1
    <2> QED
      BY <2>1, <2>2
  <1> HIDE DEF S
  <1>3. <<>> \in Seq(S)
    OBVIOUS
  <1> QED
    BY <1>1, <1>2, <1>3, FoldKeeps DEF S

\* They return a list.
LEMMA ItemsAreSeq ==
  ASSUME NEW entries, IsSeq(entries)
  PROVE  IsSeq(ItemsFrom(entries))
  BY ItemsHaveIds, IsSeqOf

-----------------------------------------------------------------------------
(* The inductive invariant.                                                *)

\* A sync is a record of its fields.
Fields == {"pc", "acct", "plan", "held", "todo", "seen", "overlapped", "failed"}

Shape(s) == s = [f \in Fields |-> s[f]]

\* What a sync holds fits where it is.
Placed(s) ==
  /\ s.pc \in {"idle", "dead", "account", "get", "recover", "relogin", "again", "read", "commit"}
  /\ s.pc \in {"read", "commit"} => s.todo # <<>>
  /\ s.pc \in {"get", "recover", "relogin", "again"} => s.plan # <<>>
  /\ s.pc = "idle" => s = Idle

\* The subject of each item and lesson is known already, or comes before it.
There(todo, i, known, code) ==
  code \in known \/ \E j \in 1 .. i - 1 : todo[j] = SubjectOp(code)

SubjectsFirst(todo, known) ==
  \A i \in DOMAIN todo :
    /\ IsItem(todo[i]) => There(todo, i, known, todo[i].code)
    /\ todo[i].kind = "day" =>
         \A k \in DOMAIN todo[i].lessons : There(todo, i, known, todo[i].lessons[k].code)

\* What is left to ask, and what the answers held so far are.
Endpoint == {"Timetable", "Substitutions", "Marks", "Homeworks"}
Rest == Seq({"Marks", "Homeworks"})

Overlaid(a, u) == "Substitutions" \in Served[a][u].modules

PlanOK(s, n) ==
  \E x \in Rest :
    \/ s.plan = x
    \/ \E u \in 1 .. n :
         \/ s.plan = Cons("Timetable", x) /\ ~Overlaid(s.acct, u)
         \/ s.plan = Cons("Timetable", Cons("Substitutions", x)) /\ Overlaid(s.acct, u)
         \/ /\ s.plan = Cons("Substitutions", x) /\ Overlaid(s.acct, u)
            /\ \E v \in u .. n : s.held = Lessons[s.acct][v]

\* A day that was served until answer n, as rows.
ServedDay(a, n, day) ==
  \E w \in 1 .. n : \E v \in 1 .. w : \E u \in 1 .. v : day = DayRows[a][u][v][w]

DaysServed(a, n, todo) ==
  \A i \in DOMAIN todo :
    todo[i].kind = "day" => todo[i].key = "day" /\ ServedDay(a, n, Keyed(todo[i].lessons))

Sound(s, subs, srv) ==
  /\ Shape(s) /\ s.acct \in Accounts /\ s.failed \subseteq 1 .. s.acct
  /\ s.overlapped \in BOOLEAN /\ IsSeq(s.todo)
  /\ SubjectsFirst(s.todo, DOMAIN subs[s.acct])
  /\ PlanOK(s, srv[s.acct])
  /\ DaysServed(s.acct, srv[s.acct], s.todo)

\* What a transaction has selected still stands, unless another one landed.
RowsFor(w, rows) == {i \in DOMAIN rows : rows[i].kind = w.kind /\ rows[i].id = w.key}

SeenOK(s, days, rows) ==
  s.pc = "commit" /\ ~s.overlapped =>
    /\ Head(s.todo).kind = "day" => s.seen = DOMAIN days[s.acct]
    /\ IsItem(Head(s.todo)) /\ s.seen = {} => RowsFor(Head(s.todo), rows[s.acct]) = {}

RunInv ==
  /\ run = [r \in Runs |-> run[r]]
  /\ \A r \in Runs : /\ Placed(run[r]) /\ Sound(run[r], subjects, server)
                     /\ SeenOK(run[r], lessons, items)

StoreInv ==
  /\ server = [a \in Accounts |-> server[a]] /\ subjects = [a \in Accounts |-> subjects[a]]
  /\ lessons = [a \in Accounts |-> lessons[a]] /\ items = [a \in Accounts |-> items[a]]
  /\ wanted = [a \in Accounts |-> wanted[a]]
  /\ \A a \in Accounts :
       /\ server[a] \in DOMAIN Served[a] /\ IsSeq(items[a])
       /\ \A i \in DOMAIN items[a] :
            /\ items[a][i] = [f \in {"kind", "id", "code", "value"} |-> items[a][i][f]]
            /\ IsItem(items[a][i]) /\ items[a][i].code \in DOMAIN subjects[a]
       /\ \A p \in DOMAIN lessons[a] :
            lessons[a][p].position = p /\ lessons[a][p].code \in DOMAIN subjects[a]

\* A subject has the equipment the family saved for it, and no other.
EquipInv ==
  \A a \in Accounts :
    /\ DOMAIN wanted[a] \subseteq DOMAIN subjects[a]
    /\ \A code \in DOMAIN subjects[a] :
         subjects[a][code] = IF code \in DOMAIN wanted[a] THEN wanted[a][code] ELSE "none"

IInv == RunInv /\ StoreInv /\ EquipInv /\ DayIsServed /\ OneRowPerItem

-----------------------------------------------------------------------------
(* What is asked and what is landed.                                       *)

\* The first question of a plan, and what is left after it.
LEMMA ConsProperties ==
  ASSUME NEW S, NEW e \in S, NEW x \in Seq(S)
  PROVE  /\ Cons(e, x) \in Seq(S) /\ Cons(e, x) # <<>>
         /\ Head(Cons(e, x)) = e /\ Tail(Cons(e, x)) = x
         /\ Range(Cons(e, x)) = {e} \cup Range(x)
  <1> DEFINE c == <<e>> \o x
  <1>1. <<e>> \in Seq(S) /\ Len(<<e>>) = 1 /\ <<e>>[1] = e
    OBVIOUS
  <1>2. /\ c \in Seq(S) /\ Len(c) = 1 + Len(x) /\ c[1] = e
        /\ \A i \in 1 .. Len(x) : c[i + 1] = x[i]
    BY <1>1, ConcatProperties
  <1> HIDE DEF c
  <1>3. c # <<>> /\ Head(c) = e
    BY <1>2
  <1>4. /\ Tail(c) \in Seq(S) /\ Len(Tail(c)) = Len(x)
        /\ \A i \in 1 .. Len(x) : Tail(c)[i] = x[i]
    BY <1>2, <1>3, HeadTailProperties
  <1>5. Tail(c) = x
    BY <1>4, SeqEqual
  <1>6. \A i \in 1 .. Len(c) : i # 1 => i - 1 \in 1 .. Len(x) /\ c[i] = x[i - 1]
    <2> SUFFICES ASSUME NEW i \in 1 .. Len(c), i # 1
                 PROVE  i - 1 \in 1 .. Len(x) /\ c[i] = x[i - 1]
      OBVIOUS
    <2>1. i - 1 \in 1 .. Len(x) /\ i - 1 + 1 = i
      BY <1>2
    <2> QED
      BY <1>2, <2>1
  <1>7. DOMAIN c = 1 .. Len(c) /\ DOMAIN x = 1 .. Len(x)
    BY <1>2
  <1>8. Range(c) = {e} \cup Range(x)
    <2>1. ASSUME NEW y \in Range(c)  PROVE y \in {e} \cup Range(x)
      <3>1. PICK i \in 1 .. Len(c) : y = c[i]
        BY <1>7 DEF Range
      <3>2. CASE i = 1
        BY <1>2, <3>1, <3>2
      <3>3. CASE i # 1
        BY <1>6, <1>7, <3>1, <3>3 DEF Range
      <3> QED
        BY <3>2, <3>3
    <2>2. e \in Range(c)
      BY <1>2, <1>7 DEF Range
    <2>3. ASSUME NEW i \in 1 .. Len(x)  PROVE x[i] \in Range(c)
      <3>1. i + 1 \in 1 .. Len(c) /\ c[i + 1] = x[i]
        BY <1>2
      <3> QED
        BY <3>1, <1>7 DEF Range
    <2> QED
      BY <2>1, <2>2, <2>3, <1>7 DEF Range
  <1> QED
    BY <1>2, <1>3, <1>5, <1>8 DEF c, Cons

\* What is left after the first request of a plan.
LEMMA PlanHeads ==
  ASSUME NEW x \in Rest
  PROVE  /\ Cons("Timetable", x) # <<>> /\ Head(Cons("Timetable", x)) = "Timetable"
         /\ Tail(Cons("Timetable", x)) = x /\ "Substitutions" \notin Range(Cons("Timetable", x))
         /\ Cons("Substitutions", x) # <<>> /\ Head(Cons("Substitutions", x)) = "Substitutions"
         /\ Tail(Cons("Substitutions", x)) = x
         /\ LET both == Cons("Timetable", Cons("Substitutions", x))
            IN  /\ both # <<>> /\ Head(both) = "Timetable" /\ "Substitutions" \in Range(both)
                /\ Tail(both) = Cons("Substitutions", x)
         /\ x # <<>> => Head(x) \in {"Marks", "Homeworks"} /\ Tail(x) \in Rest
  <1>0. "Timetable" \in Endpoint /\ "Substitutions" \in Endpoint
        /\ {"Marks", "Homeworks"} \subseteq Endpoint
    BY DEF Endpoint
  <1>1. x \in Seq(Endpoint) /\ Range(x) \subseteq {"Marks", "Homeworks"}
    <2>1. x \in Seq(Endpoint)
      BY <1>0, SeqMonotonic DEF Rest
    <2>2. Range(x) \subseteq {"Marks", "Homeworks"}
      BY DEF Rest, Range
    <2> QED
      BY <2>1, <2>2
  <1>2. Cons("Substitutions", x) \in Seq(Endpoint)
    BY <1>0, <1>1, ConsProperties
  <1>3. x # <<>> => Head(x) \in {"Marks", "Homeworks"} /\ Tail(x) \in Rest
    BY HeadTailProperties DEF Rest
  <1>4. ASSUME NEW e \in Endpoint, NEW z \in Seq(Endpoint)
        PROVE  /\ Cons(e, z) # <<>> /\ Head(Cons(e, z)) = e /\ Tail(Cons(e, z)) = z
               /\ Range(Cons(e, z)) = {e} \cup Range(z)
    BY ConsProperties
  <1>5. /\ Cons("Timetable", x) # <<>> /\ Head(Cons("Timetable", x)) = "Timetable"
        /\ Tail(Cons("Timetable", x)) = x
        /\ Range(Cons("Timetable", x)) = {"Timetable"} \cup Range(x)
    BY <1>0, <1>1, <1>4
  <1>6. /\ Cons("Substitutions", x) # <<>> /\ Head(Cons("Substitutions", x)) = "Substitutions"
        /\ Tail(Cons("Substitutions", x)) = x
        /\ Range(Cons("Substitutions", x)) = {"Substitutions"} \cup Range(x)
    BY <1>0, <1>1, <1>4
  <1>7. LET both == Cons("Timetable", Cons("Substitutions", x))
        IN  /\ both # <<>> /\ Head(both) = "Timetable" /\ Tail(both) = Cons("Substitutions", x)
            /\ Range(both) = {"Timetable"} \cup Range(Cons("Substitutions", x))
    BY <1>0, <1>2, <1>4
  <1>8. "Substitutions" \notin Range(Cons("Timetable", x))
    BY <1>1, <1>5
  <1>9. "Substitutions" \in Range(Cons("Timetable", Cons("Substitutions", x)))
    BY <1>6, <1>7
  <1> QED
    BY <1>3, <1>5, <1>6, <1>7, <1>8, <1>9

\* The requests for any enabled modules are such a plan.
LEMMA RequestsArePlans ==
  ASSUME NEW modules
  PROVE  \E x \in Rest :
           \/ Requests(modules) = x
           \/ Requests(modules) = Cons("Timetable", x) /\ "Substitutions" \notin modules
           \/ /\ Requests(modules) = Cons("Timetable", Cons("Substitutions", x))
              /\ "Substitutions" \in modules
  <1> DEFINE Asked(e) == IF e \in modules THEN <<e>> ELSE <<>>
             t == <<"Timetable">>
             b == Asked("Substitutions")
             d == IF "Timetable" \in modules THEN t \o b ELSE <<>>
             m == Asked("Marks")
             h == Asked("Homeworks")
             x == m \o h
  <1>1. Requests(modules) = (d \o m) \o h
    BY DEF Requests
  <1>2. /\ t \in Seq(Endpoint) /\ b \in Seq(Endpoint) /\ m \in Seq(Endpoint) /\ h \in Seq(Endpoint)
        /\ m \in Rest /\ h \in Rest
        /\ b = IF "Substitutions" \in modules THEN <<"Substitutions">> ELSE <<>>
    <2>1. <<>> \in Seq(Endpoint) /\ <<>> \in Rest
      BY DEF Rest
    <2>2. /\ <<"Timetable">> \in Seq(Endpoint) /\ <<"Substitutions">> \in Seq(Endpoint)
          /\ <<"Marks">> \in Seq(Endpoint) /\ <<"Homeworks">> \in Seq(Endpoint)
      BY DEF Endpoint
    <2>3. <<"Marks">> \in Rest /\ <<"Homeworks">> \in Rest
      BY DEF Rest
    <2> QED
      BY <2>1, <2>2, <2>3
  <1> HIDE DEF t, b, m, h, Asked
  <1>3. x \in Rest /\ x \in Seq(Endpoint)
    BY <1>2, ConcatProperties DEF Rest
  <1>4. t \o b \in Seq(Endpoint) /\ d \in Seq(Endpoint)
    <2>1. t \o b \in Seq(Endpoint)
      BY <1>2, ConcatProperties
    <2>2. <<>> \in Seq(Endpoint)
      OBVIOUS
    <2> QED
      BY <2>1, <2>2
  <1>5. Requests(modules) = d \o x
    <2> HIDE DEF d
    <2> QED
      BY <1>1, <1>2, <1>4, ConcatAssociative
  <1> HIDE DEF x
  <1>6. CASE "Timetable" \notin modules
    BY <1>3, <1>5, <1>6, ConcatEmptySeq
  <1>7. CASE "Timetable" \in modules
    <2>0. Requests(modules) = (t \o b) \o x
      BY <1>5, <1>7
    <2>1a. (t \o b) \o x = t \o (b \o x)
      <3>1. \A s1, s2, s3 \in Seq(Endpoint) : (s1 \o s2) \o s3 = s1 \o (s2 \o s3)
        BY ConcatAssociative
      <3>2. t \in Seq(Endpoint) /\ b \in Seq(Endpoint) /\ x \in Seq(Endpoint)
        BY <1>2, <1>3
      <3> QED
        BY <3>1, <3>2, Zenon
    <2>1. Requests(modules) = t \o (b \o x)
      BY <2>0, <2>1a
    <2>2. CASE "Substitutions" \in modules
      BY <1>2, <1>3, <2>1, <2>2 DEF Cons, t
    <2>3. CASE "Substitutions" \notin modules
      BY <1>2, <1>3, <2>1, <2>3, ConcatEmptySeq DEF Cons, t
    <2> QED
      BY <2>2, <2>3
  <1> QED
    BY <1>6, <1>7

\* A day is a sequence, also with its substitutions.
LEMMA DaysAreSeq ==
  ASSUME NEW a \in Accounts, NEW v \in DOMAIN Served[a], NEW w \in DOMAIN Served[a]
  PROVE  IsSeq(Lessons[a][v]) /\ IsSeq(Substituted(Lessons[a][v], Served[a][w].substitutions))
  <1>1. Lessons[a][v] = LessonsFrom(Served[a][v].hours)
    BY DEF Lessons
  <1>2. IsSeq(Served[a][v].hours)
    BY ServedAssumption DEF IsSeq
  <1>3. IsSeq(Lessons[a][v])
    BY <1>1, <1>2, LessonsAreSeq
  <1> DEFINE day == Lessons[a][v]
             n == Len(day)
             over == Substituted(day, Served[a][w].substitutions)
  <1>4. n \in Nat /\ DOMAIN day = 1 .. n
    BY <1>3 DEF IsSeq
  <1> HIDE DEF day
  <1>5. over = [i \in 1 .. n |-> over[i]]
    BY <1>4 DEF Substituted
  <1>6. IsSeq(over)
    <2> HIDE DEF over, n
    <2> QED
      BY <1>4, <1>5, MapIsSeq
  <1> QED
    BY <1>3, <1>6 DEF day

\* The operations of a day: its subjects first, then the day.
LEMMA DayOpsOK ==
  ASSUME NEW day, IsSeq(day), NEW known
  PROVE  /\ IsSeq(DayOps(day)) /\ SubjectsFirst(DayOps(day), known)
         /\ \A i \in DOMAIN DayOps(day) :
              DayOps(day)[i].kind = "day" => DayOps(day)[i].key = "day" /\ DayOps(day)[i].lessons = day
  <1> DEFINE n == Len(day)
             first == [i \in 1 .. n |-> SubjectOp(day[i].code)]
             op == [kind |-> "day", key |-> "day", lessons |-> day]
             ops == first \o <<op>>
             S == {SubjectOp(day[i].code) : i \in 1 .. n} \cup {op}
  <1>1. n \in Nat /\ DOMAIN day = 1 .. n
    BY DEF IsSeq
  <1>2. DayOps(day) = IF day = <<>> THEN <<>> ELSE ops
    BY <1>1 DEF DayOps
  <1> HIDE DEF op, n
  <1>3. first \in Seq(S) /\ <<op>> \in Seq(S) /\ Len(first) = n
    BY <1>1
  <1>4. ops \in Seq(S) /\ Len(ops) = n + 1 /\ ops[n + 1] = op
        /\ \A i \in 1 .. n : ops[i] = SubjectOp(day[i].code)
    <2>1. \A i \in 1 .. n : first[i] = SubjectOp(day[i].code)
      OBVIOUS
    <2> HIDE DEF first, S
    <2> QED
      BY <1>1, <1>3, <2>1
  <1> HIDE DEF ops, S, first
  <1>5. IsSeq(<<>>) /\ IsSeq(ops)
    BY <1>4, IsSeqOf DEF IsSeq
  <1>6. ASSUME NEW i \in DOMAIN ops
        PROVE  /\ ops[i].kind = "day" => i = n + 1 /\ ops[i].key = "day" /\ ops[i].lessons = day
               /\ ~IsItem(ops[i])
    <2>1. i \in 1 .. n \/ i = n + 1
      BY <1>1, <1>4
    <2>2. op.kind = "day" /\ op.key = "day" /\ op.lessons = day
      BY DEF op
    <2>3. \A code : SubjectOp(code).kind = "subject"
      BY DEF SubjectOp
    <2> QED
      BY <2>1, <2>2, <2>3, <1>4 DEF IsItem
  <1>7. SubjectsFirst(ops, known)
    <2> SUFFICES ASSUME NEW i \in DOMAIN ops, i = n + 1, NEW k \in 1 .. n
                 PROVE  There(ops, i, known, day[k].code)
      BY <1>1, <1>6 DEF SubjectsFirst
    <2>1. k \in 1 .. i - 1 /\ ops[k] = SubjectOp(day[k].code)
      BY <1>1, <1>4
    <2> QED
      BY <2>1 DEF There
  <1>8. SubjectsFirst(<<>>, known)
    BY DEF SubjectsFirst
  <1> QED
    BY <1>2, <1>5, <1>6, <1>7, <1>8

\* The operations of marks or homework: before each its subject.
LEMMA ItemOpsOK ==
  ASSUME NEW kind \in {"grade", "homework"}, NEW given, IsSeq(given), NEW known
  PROVE  /\ IsSeq(ItemOps(kind, given)) /\ SubjectsFirst(ItemOps(kind, given), known)
         /\ \A i \in DOMAIN ItemOps(kind, given) : ItemOps(kind, given)[i].kind # "day"
  <1> DEFINE n == 2 * Len(given)
             Op(e) == [kind |-> kind, key |-> e.id, code |-> e.code, value |-> e.value]
             At1(k) == IF k % 2 = 1 THEN SubjectOp(given[(k + 1) \div 2].code)
                       ELSE Op(given[(k + 1) \div 2])
             ops == ItemOps(kind, given)
  <1>1. n \in Nat
    BY DEF IsSeq
  <1>2. ops = [k \in 1 .. n |-> At1(k)]
    BY DEF ItemOps
  <1> HIDE DEF n, ops
  <1>3. IsSeq(ops)
    <2>1. ops = [k \in 1 .. n |-> ops[k]]
      <3> HIDE DEF At1
      <3> QED
        BY <1>2
    <2> QED
      BY <1>1, <2>1, MapIsSeq
  <1>4. DOMAIN ops = 1 .. n /\ \A k \in 1 .. n : ops[k] = At1(k)
    <2> HIDE DEF At1
    <2> QED
      BY <1>2
  <1>5. ASSUME NEW i \in DOMAIN ops, IsItem(ops[i])
        PROVE  There(ops, i, known, ops[i].code)
    <2>1. i \in 1 .. n /\ i % 2 # 1 /\ ops[i] = Op(given[(i + 1) \div 2])
      BY <1>4, <1>5 DEF IsItem, SubjectOp
    <2>2. i - 1 \in 1 .. n /\ (i - 1) % 2 = 1 /\ (i - 1 + 1) \div 2 = (i + 1) \div 2
      BY <1>1, <2>1
    <2>3. ops[i - 1] = SubjectOp(given[(i + 1) \div 2].code)
      BY <1>4, <2>2
    <2>4. ops[i].code = given[(i + 1) \div 2].code /\ i - 1 \in 1 .. i - 1
      BY <2>1, <2>2
    <2> QED
      BY <2>3, <2>4 DEF There
  <1>6. ASSUME NEW i \in DOMAIN ops  PROVE ops[i].kind # "day"
    BY <1>4 DEF SubjectOp
  <1> QED
    BY <1>3, <1>5, <1>6 DEF SubjectsFirst, ops

-----------------------------------------------------------------------------
(* Where a sync goes next stays sound.                                     *)

\* What is sound stays so as subjects are added and answers come in.
LEMMA SoundGrows ==
  ASSUME NEW s, NEW subs, NEW srv, NEW subs2, NEW srv2, Sound(s, subs, srv),
         DOMAIN subs[s.acct] \subseteq DOMAIN subs2[s.acct],
         srv[s.acct] \in Nat, srv2[s.acct] \in Nat, srv[s.acct] <= srv2[s.acct]
  PROVE  Sound(s, subs2, srv2)
  <1> DEFINE n == srv[s.acct]
             m == srv2[s.acct]
             a == s.acct
  <1>0. \A k \in 1 .. n : k \in 1 .. m
    OBVIOUS
  <1>0a. \A u \in 1 .. n : \A v \in u .. n : v \in u .. m
    OBVIOUS
  <1>1. SubjectsFirst(s.todo, DOMAIN subs2[a])
    BY DEF Sound, SubjectsFirst, There
  <1> HIDE DEF n, m
  <1>2. PlanOK(s, n)
    BY DEF Sound, n
  <1>3. PlanOK(s, m)
    BY <1>0, <1>0a, <1>2 DEF PlanOK
  <1>4. \A day : ServedDay(a, n, day) => ServedDay(a, m, day)
    BY <1>0 DEF ServedDay
  <1>5. DaysServed(a, m, s.todo)
    BY <1>4 DEF Sound, DaysServed, n
  <1> QED
    BY <1>1, <1>3, <1>5 DEF Sound, m

\* A sync with nothing to ask and nothing to land.
LEMMA EmptyOK ==
  ASSUME NEW s, NEW subs, NEW srv, Shape(s), s.acct \in Accounts, s.failed \subseteq 1 .. s.acct,
         s.overlapped \in BOOLEAN, s.todo = <<>>, s.plan = <<>>
  PROVE  Sound(s, subs, srv)
  <1>1. <<>> \in Rest
    BY DEF Rest
  <1>2. PlanOK(s, srv[s.acct])
    BY <1>1 DEF PlanOK
  <1>3. IsSeq(<<>>) /\ DOMAIN <<>> = {}
    BY DEF IsSeq
  <1> QED
    BY <1>2, <1>3 DEF Sound, SubjectsFirst, DaysServed

\* A sync that is not running.
LEMMA IdleOK ==
  ASSUME NEW subs, NEW srv
  PROVE  Placed(Idle) /\ Sound(Idle, subs, srv) /\ Idle.pc # "commit"
  <1>1. Shape(Idle)
    BY DEF Idle, Shape, Fields
  <1>2. Idle.acct \in Accounts /\ Idle.failed \subseteq 1 .. Idle.acct /\ Idle.overlapped \in BOOLEAN
    BY NAssumption DEF Accounts, Idle
  <1>3. Idle.todo = <<>> /\ Idle.plan = <<>> /\ Idle.pc = "idle"
    BY DEF Idle
  <1>4. Placed(Idle)
    BY <1>3 DEF Placed
  <1> QED
    BY <1>1, <1>2, <1>3, <1>4, EmptyOK

\* The next account starts with nothing.
LEMMA NextAccountOK ==
  ASSUME NEW s, NEW subs, NEW srv, Shape(s), s.acct \in Accounts, s.failed \subseteq 1 .. s.acct
  PROVE  LET t == NextAccount(s)
         IN  Placed(t) /\ Sound(t, subs, srv) /\ t.pc # "commit"
  <1> DEFINE t == [Cleared(s) EXCEPT !.pc = "account", !.acct = @ + 1]
  <1>1. CASE s.acct < N
    <2>1. NextAccount(s) = t
      BY <1>1 DEF NextAccount
    <2>2. /\ Shape(t) /\ t.pc = "account" /\ t.acct = s.acct + 1 /\ t.failed = s.failed
          /\ t.todo = <<>> /\ t.plan = <<>> /\ t.overlapped = FALSE
      BY DEF Shape, Fields, Cleared
    <2> HIDE DEF t
    <2>3. t.acct \in Accounts /\ t.failed \subseteq 1 .. t.acct
      BY <1>1, <2>2, NAssumption DEF Accounts
    <2>4. Placed(t)
      BY <2>2 DEF Placed
    <2>5. Sound(t, subs, srv)
      BY <2>2, <2>3, EmptyOK
    <2> QED
      BY <2>1, <2>2, <2>4, <2>5
  <1>2. CASE ~ s.acct < N
    <2>1. NextAccount(s) = Idle
      BY <1>2 DEF NextAccount
    <2> QED
      BY <2>1, IdleOK
  <1> QED
    BY <1>1, <1>2

\* A handled error.
LEMMA FailedOK ==
  ASSUME NEW s, NEW subs, NEW srv, Shape(s), s.acct \in Accounts, s.failed \subseteq 1 .. s.acct
  PROVE  LET t == Failed(s)
         IN  Placed(t) /\ Sound(t, subs, srv) /\ t.pc # "commit"
  <1> DEFINE b == [s EXCEPT !.failed = @ \cup {s.acct}]
  <1>1. Shape(b) /\ b.acct = s.acct /\ b.failed = s.failed \cup {s.acct}
    BY DEF Shape, Fields
  <1>2. b.failed \subseteq 1 .. b.acct
    BY <1>1, NAssumption DEF Accounts
  <1> HIDE DEF b
  <1>3. Failed(s) = NextAccount(b)
    BY DEF Failed, b
  <1> QED
    BY <1>1, <1>2, <1>3, NextAccountOK

\* A sync that only turns to another question of its answer.
LEMMA TurnOK ==
  ASSUME NEW s, NEW subs, NEW srv, NEW pc, Sound(s, subs, srv)
  PROVE  LET t == [s EXCEPT !.pc = pc]
         IN  Sound(t, subs, srv) /\ t.pc = pc /\ t.todo = s.todo /\ t.plan = s.plan
  <1> DEFINE t == [s EXCEPT !.pc = pc]
  <1>1. Shape(t) /\ t.pc = pc /\ t.acct = s.acct /\ t.todo = s.todo /\ t.plan = s.plan
        /\ t.held = s.held /\ t.failed = s.failed /\ t.overlapped = s.overlapped
    BY DEF Sound, Shape, Fields
  <1> HIDE DEF t
  <1> QED
    BY <1>1 DEF Sound, PlanOK, t

\* A sync that starts, or that breaks off.
LEMMA OutOK ==
  ASSUME NEW subs, NEW srv, NEW pc \in {"dead", "account"}
  PROVE  LET t == [Idle EXCEPT !.pc = pc]
         IN  Placed(t) /\ Sound(t, subs, srv) /\ t.pc # "commit"
  <1> DEFINE t == [Idle EXCEPT !.pc = pc]
  <1>1. /\ Shape(t) /\ t.pc = pc /\ t.acct = 1 /\ t.failed = {} /\ t.overlapped = FALSE
        /\ t.todo = <<>> /\ t.plan = <<>>
    BY DEF Idle, Shape, Fields
  <1> HIDE DEF t
  <1>2. t.acct \in Accounts /\ t.failed \subseteq 1 .. t.acct
    BY <1>1, NAssumption DEF Accounts
  <1>3. Sound(t, subs, srv)
    BY <1>1, <1>2, EmptyOK
  <1>4. Placed(t)
    BY <1>1 DEF Placed
  <1> QED
    BY <1>1, <1>3, <1>4 DEF t

\* On to the work, the next question or the next account.
LEMMA OnwardOK ==
  ASSUME NEW s, NEW subs, NEW srv, Sound(s, subs, srv)
  PROVE  LET t == Onward(s)
         IN  Placed(t) /\ Sound(t, subs, srv) /\ t.pc # "commit"
  <1>1. CASE s.todo # <<>>
    <2>1. Onward(s) = [s EXCEPT !.pc = "read"]
      BY <1>1 DEF Onward
    <2> DEFINE t == [s EXCEPT !.pc = "read"]
    <2>2. Sound(t, subs, srv) /\ t.pc = "read" /\ t.todo = s.todo /\ t.plan = s.plan
      BY TurnOK
    <2> HIDE DEF t
    <2>3. Placed(t)
      BY <1>1, <2>2 DEF Placed
    <2>4. Onward(s) = t
      BY <2>1 DEF t
    <2> QED
      BY <2>2, <2>3, <2>4
  <1>2. CASE s.todo = <<>> /\ s.plan # <<>>
    <2>1. Onward(s) = [s EXCEPT !.pc = "get"]
      BY <1>2 DEF Onward
    <2> DEFINE t == [s EXCEPT !.pc = "get"]
    <2>2. Sound(t, subs, srv) /\ t.pc = "get" /\ t.todo = s.todo /\ t.plan = s.plan
      BY TurnOK
    <2> HIDE DEF t
    <2>3. Placed(t)
      BY <1>2, <2>2 DEF Placed
    <2>4. Onward(s) = t
      BY <2>1 DEF t
    <2> QED
      BY <2>2, <2>3, <2>4
  <1>3. CASE s.todo = <<>> /\ s.plan = <<>>
    <2>1. Onward(s) = NextAccount(s)
      BY <1>3 DEF Onward
    <2> QED
      BY <2>1, NextAccountOK DEF Sound
  <1> QED
    BY <1>1, <1>2, <1>3

-----------------------------------------------------------------------------
(* An answer.                                                              *)

\* A payload that was served follows those served before it.
LEMMA ServedUpTo ==
  ASSUME NEW a \in Accounts, NEW n \in DOMAIN Served[a]
  PROVE  n \in Nat /\ n \in 1 .. n /\ 1 .. n \subseteq DOMAIN Served[a]
  <1>1. Served[a] \in Seq(ToSet(Served[a]))
    BY ServedAssumption
  <1>2. Len(Served[a]) \in Nat /\ DOMAIN Served[a] = 1 .. Len(Served[a])
    BY <1>1
  <1> QED
    BY <1>2

\* The rows of the day, by what the modules say of substitutions.
LEMMA DayRowsAre ==
  ASSUME NEW a \in Accounts, NEW u \in DOMAIN Served[a], NEW v \in DOMAIN Served[a],
         NEW w \in DOMAIN Served[a]
  PROVE  /\ Overlaid(a, u) =>
              DayRows[a][u][v][w] = Keyed(Substituted(Lessons[a][v], Served[a][w].substitutions))
         /\ ~Overlaid(a, u) => DayRows[a][u][v][w] = Keyed(Lessons[a][v])
  BY DEF DayRows, Overlaid

\* Work taken up for answers that were served.
LEMMA WorkOK ==
  ASSUME NEW s, NEW t, NEW subs, NEW srv, Sound(s, subs, srv), Shape(t),
         t.acct = s.acct, t.failed = s.failed, t.overlapped = s.overlapped,
         IsSeq(t.todo), SubjectsFirst(t.todo, DOMAIN subs[s.acct]),
         DaysServed(s.acct, srv[s.acct], t.todo), PlanOK(t, srv[s.acct])
  PROVE  Sound(t, subs, srv)
  BY DEF Sound

\* A day to land, with the plan that is left.
LEMMA DayWorkOK ==
  ASSUME NEW s, NEW t, NEW subs, NEW srv, Sound(s, subs, srv), Shape(t),
         t.acct = s.acct, t.failed = s.failed, t.overlapped = s.overlapped,
         NEW day, IsSeq(day), t.todo = DayOps(day),
         ServedDay(s.acct, srv[s.acct], Keyed(day)), t.plan \in Rest
  PROVE  Sound(t, subs, srv)
  <1>1. /\ IsSeq(t.todo) /\ SubjectsFirst(t.todo, DOMAIN subs[s.acct])
        /\ DaysServed(s.acct, srv[s.acct], t.todo)
    BY DayOpsOK DEF DaysServed
  <1>2. PlanOK(t, srv[s.acct])
    BY DEF PlanOK
  <1> QED
    BY <1>1, <1>2, WorkOK

\* An answer adds sound work.
LEMMA TakenOK ==
  ASSUME NEW s, Sound(s, subjects, server), s.plan # <<>>, server[s.acct] \in DOMAIN Served[s.acct]
  PROVE  Sound(Taken(s), subjects, server)
  <1> DEFINE a == s.acct
             n == server[s.acct]
             day == Lessons[a][n]
             given == Items[a][n]
             t == Taken(s)
  <1>1. Shape(s) /\ a \in Accounts /\ PlanOK(s, n)
    BY DEF Sound
  <1>2. n \in Nat /\ n \in 1 .. n /\ 1 .. n \subseteq DOMAIN Served[a] /\ n \in DOMAIN Served[a]
    BY <1>1, ServedUpTo
  <1>3. PICK x \in Rest :
          \/ s.plan = x
          \/ \E u \in 1 .. n :
               \/ s.plan = Cons("Timetable", x) /\ ~Overlaid(a, u)
               \/ s.plan = Cons("Timetable", Cons("Substitutions", x)) /\ Overlaid(a, u)
               \/ /\ s.plan = Cons("Substitutions", x) /\ Overlaid(a, u)
                  /\ \E v \in u .. n : s.held = Lessons[a][v]
    BY <1>1 DEF PlanOK
  <1>4. CASE s.plan = x
    <2>1. Head(s.plan) \in {"Marks", "Homeworks"} /\ Tail(s.plan) \in Rest
      BY <1>3, <1>4, PlanHeads
    <2>2. PICK kind \in {"grade", "homework"} :
            t = [[s EXCEPT !.plan = Tail(@)] EXCEPT !.todo = ItemOps(kind, given[kind])]
      BY <2>1 DEF Taken
    <2>3. Shape(t) /\ t.acct = s.acct /\ t.failed = s.failed /\ t.overlapped = s.overlapped
          /\ t.todo = ItemOps(kind, given[kind]) /\ t.plan = Tail(s.plan)
      BY <1>1, <2>2 DEF Shape, Fields
    <2>4. IsSeq(given[kind])
      <3>1. given = [grade |-> ItemsFrom(Served[a][n].marks),
                     homework |-> ItemsFrom(Served[a][n].homeworks)]
        BY <1>1, <1>2 DEF Items
      <3>2. IsSeq(Served[a][n].marks) /\ IsSeq(Served[a][n].homeworks)
        BY <1>1, <1>2, ServedAssumption DEF IsSeq
      <3>3. IsSeq(ItemsFrom(Served[a][n].marks)) /\ IsSeq(ItemsFrom(Served[a][n].homeworks))
        BY <3>2, ItemsAreSeq
      <3> QED
        BY <3>1, <3>3
    <2>5. IsSeq(t.todo) /\ SubjectsFirst(t.todo, DOMAIN subjects[a])
          /\ \A i \in DOMAIN t.todo : t.todo[i].kind # "day"
      BY <2>3, <2>4, ItemOpsOK
    <2>6. DaysServed(a, n, t.todo)
      BY <2>5 DEF DaysServed
    <2>7. PlanOK(t, n)
      BY <2>1, <2>3 DEF PlanOK
    <2> HIDE DEF t
    <2> QED
      BY <2>3, <2>5, <2>6, <2>7, WorkOK DEF t
  <1>5. ASSUME NEW u \in 1 .. n, s.plan = Cons("Timetable", x), ~Overlaid(a, u)
        PROVE  Sound(t, subjects, server)
    <2>1. Head(s.plan) = "Timetable" /\ Tail(s.plan) = x /\ "Substitutions" \notin Range(s.plan)
      BY <1>5, PlanHeads
    <2>2. t = [[s EXCEPT !.plan = Tail(@)] EXCEPT !.todo = DayOps(day)]
      BY <2>1 DEF Taken
    <2>3. Shape(t) /\ t.acct = s.acct /\ t.failed = s.failed /\ t.overlapped = s.overlapped
          /\ t.todo = DayOps(day) /\ t.plan \in Rest
      BY <1>1, <2>1, <2>2 DEF Shape, Fields
    <2>4. IsSeq(day)
      BY <1>1, <1>2, DaysAreSeq
    <2>5. ServedDay(a, n, Keyed(day))
      <3>1. Keyed(day) = DayRows[a][u][n][n]
        BY <1>1, <1>2, <1>5, DayRowsAre
      <3> QED
        BY <1>2, <3>1 DEF ServedDay
    <2> HIDE DEF t, day
    <2> QED
      BY <2>3, <2>4, <2>5, DayWorkOK DEF t
  <1>6. ASSUME NEW u \in 1 .. n, s.plan = Cons("Timetable", Cons("Substitutions", x)), Overlaid(a, u)
        PROVE  Sound(t, subjects, server)
    <2>1. /\ Head(s.plan) = "Timetable" /\ Tail(s.plan) = Cons("Substitutions", x)
          /\ "Substitutions" \in Range(s.plan)
      BY <1>6, PlanHeads
    <2>2. t = [[s EXCEPT !.plan = Tail(@)] EXCEPT !.held = day]
      BY <2>1 DEF Taken
    <2>3. Shape(t) /\ t.acct = s.acct /\ t.failed = s.failed /\ t.overlapped = s.overlapped
          /\ t.todo = s.todo /\ t.plan = Cons("Substitutions", x) /\ t.held = day
      BY <1>1, <2>1, <2>2 DEF Shape, Fields
    <2>4. n \in u .. n
      BY <1>2
    <2>5. PlanOK(t, n)
      BY <1>6, <2>3, <2>4 DEF PlanOK
    <2>6. IsSeq(s.todo) /\ SubjectsFirst(s.todo, DOMAIN subjects[a]) /\ DaysServed(a, n, s.todo)
      BY DEF Sound
    <2> HIDE DEF t, day
    <2> QED
      BY <2>3, <2>5, <2>6, WorkOK DEF t
  <1>7. ASSUME NEW u \in 1 .. n, s.plan = Cons("Substitutions", x), Overlaid(a, u),
               NEW v \in u .. n, s.held = Lessons[a][v]
        PROVE  Sound(t, subjects, server)
    <2> DEFINE over == Substituted(s.held, Served[a][n].substitutions)
    <2>1. Head(s.plan) = "Substitutions" /\ Tail(s.plan) = x
      BY <1>7, PlanHeads
    <2>2. t = [[s EXCEPT !.plan = Tail(@)] EXCEPT !.todo = DayOps(over), !.held = <<>>]
      BY <1>1, <2>1 DEF Taken, Payload, Shape, Fields
    <2>3. Shape(t) /\ t.acct = s.acct /\ t.failed = s.failed /\ t.overlapped = s.overlapped
          /\ t.todo = DayOps(over) /\ t.plan \in Rest
      <3> HIDE DEF over, t
      <3> QED
        BY <1>1, <2>1, <2>2 DEF Shape, Fields
    <2>3a. v \in 1 .. n /\ u \in 1 .. v
      BY <1>2
    <2>4. IsSeq(over)
      BY <1>1, <1>2, <1>7, <2>3a, DaysAreSeq
    <2>5. ServedDay(a, n, Keyed(over))
      <3>1. Keyed(over) = DayRows[a][u][v][n]
        BY <1>1, <1>2, <1>7, <2>3a, DayRowsAre
      <3> QED
        BY <1>2, <2>3a, <3>1 DEF ServedDay
    <2> HIDE DEF t, over
    <2> QED
      BY <2>3, <2>4, <2>5, DayWorkOK DEF t
  <1> QED
    BY <1>3, <1>4, <1>5, <1>6, <1>7

-----------------------------------------------------------------------------
(* The steps.                                                              *)

\* A step that moves one sync and leaves the tables alone.
LEMMA LocalStep ==
  ASSUME IInv, NEW r \in Runs, NEW t, Placed(t), Sound(t, subjects, server),
         SeenOK(t, lessons, items), run' = [run EXCEPT ![r] = t],
         UNCHANGED <<server, subjects, lessons, items, wanted, mixed>>
  PROVE  IInv'
  <1>1. run' = [q \in Runs |-> IF q = r THEN t ELSE run[q]]
    BY DEF IInv, RunInv
  <1>2. RunInv'
    <2>1. run' = [q \in Runs |-> run'[q]]
      BY <1>1
    <2>2. ASSUME NEW q \in Runs
          PROVE  Placed(run'[q]) /\ Sound(run'[q], subjects, server) /\ SeenOK(run'[q], lessons, items)
      BY <1>1 DEF IInv, RunInv
    <2> QED
      BY <2>1, <2>2 DEF RunInv
  <1>3. StoreInv' /\ EquipInv'
    BY DEF IInv, StoreInv, EquipInv
  <1>4. DayIsServed' /\ OneRowPerItem'
    BY DEF IInv, DayIsServed, OneRowPerItem
  <1> QED
    BY <1>2, <1>3, <1>4 DEF IInv

\* At first nothing is stored and no sync runs.
LEMMA InitOK ==
  ASSUME Init
  PROVE  IInv
  <1>1. RunInv
    <2>1. SeenOK(Idle, lessons, items)
      BY IdleOK DEF SeenOK
    <2> QED
      BY <2>1, IdleOK DEF Init, RunInv
  <1>2. ASSUME NEW a \in Accounts
        PROVE  1 \in DOMAIN Served[a] /\ IsSeq(<<>>) /\ DOMAIN <<>> = {}
    <2>1. Served[a] \in Seq(ToSet(Served[a])) /\ Served[a] # <<>>
      BY ServedAssumption
    <2> QED
      BY <2>1 DEF IsSeq
  <1>3. StoreInv
    BY <1>2 DEF Init, StoreInv
  <1>4. EquipInv
    BY <1>2 DEF Init, EquipInv
  <1>5. DayIsServed
    BY DEF Init, DayIsServed
  <1>6. OneRowPerItem
    BY <1>2 DEF Init, OneRowPerItem
  <1> QED
    BY <1>1, <1>3, <1>4, <1>5, <1>6 DEF IInv

\* A sync that is not between a SELECT and its commit.
LEMMA OutsideOK ==
  ASSUME NEW s, s.pc # "commit"
  PROVE  SeenOK(s, lessons, items)
  BY DEF SeenOK

\* A sync starts with its first account.
LEMMA StartOK ==
  ASSUME IInv, NEW r \in Runs, Start(r)
  PROVE  IInv'
  <1> DEFINE t == [Idle EXCEPT !.pc = "account"]
  <1>1. Placed(t) /\ Sound(t, subjects, server) /\ SeenOK(t, lessons, items)
    <2>1. Placed(t) /\ Sound(t, subjects, server) /\ t.pc # "commit"
      BY OutOK
    <2> HIDE DEF t
    <2> QED
      BY <2>1, OutsideOK
  <1>2. run' = [run EXCEPT ![r] = t] /\ UNCHANGED <<server, subjects, lessons, items, wanted, mixed>>
    BY DEF Start, Set, stored
  <1> HIDE DEF t
  <1> QED
    BY <1>1, <1>2, LocalStep

\* A sync that breaks off.
LEMMA DiedOK ==
  ASSUME IInv, NEW r \in Runs, Set(r, Died),
         UNCHANGED <<server, subjects, lessons, items, wanted, mixed>>
  PROVE  IInv'
  <1>1. Placed(Died) /\ Sound(Died, subjects, server) /\ Died.pc # "commit"
    BY OutOK DEF Died
  <1> QED
    BY <1>1, OutsideOK, LocalStep DEF Set

\* A sync that is answered.
LEMMA AnsweredOK ==
  ASSUME IInv, NEW r \in Runs, NEW s, Sound(s, subjects, server), Answered(r, s)
  PROVE  IInv'
  <1> DEFINE t == Onward(s)
  <1>1. Placed(t) /\ Sound(t, subjects, server) /\ SeenOK(t, lessons, items)
    BY OnwardOK, OutsideOK
  <1>2. run' = [run EXCEPT ![r] = t] /\ UNCHANGED <<server, subjects, lessons, items, wanted, mixed>>
    BY DEF Answered, Set, stored
  <1> HIDE DEF t
  <1> QED
    BY <1>1, <1>2, LocalStep

\* The login answers with the modules of the payload the school serves.
LEMMA LoginOK ==
  ASSUME IInv, NEW r \in Runs, Login(r)
  PROVE  IInv'
  <1> DEFINE s == run[r]
             a == s.acct
             n == server[a]
             modules == Payload(a).modules
             t == [s EXCEPT !.plan = Requests(modules)]
  <1>1. Sound(s, subjects, server) /\ Shape(s) /\ a \in Accounts
    BY DEF IInv, RunInv, Sound
  <1>2. Shape(t) /\ t.acct = a /\ t.failed = s.failed /\ t.overlapped = s.overlapped
        /\ t.todo = s.todo /\ t.plan = Requests(modules)
    BY <1>1 DEF Shape, Fields
  <1>3. n \in DOMAIN Served[a] /\ n \in 1 .. n
    <2>1. n \in DOMAIN Served[a]
      BY <1>1 DEF IInv, StoreInv
    <2> QED
      BY <1>1, <2>1, ServedUpTo
  <1>4. Overlaid(a, n) <=> "Substitutions" \in modules
    BY DEF Overlaid, Payload
  <1>5. IsSeq(s.todo) /\ SubjectsFirst(s.todo, DOMAIN subjects[a]) /\ DaysServed(a, n, s.todo)
    BY <1>1 DEF Sound
  <1>6. Answered(r, t)
    BY DEF Login
  <1> HIDE DEF t, modules, n, a, s
  <1>7. PlanOK(t, n)
    BY <1>2, <1>3, <1>4, RequestsArePlans DEF PlanOK
  <1>8. Sound(t, subjects, server)
    BY <1>1, <1>2, <1>5, <1>7, WorkOK DEF n, a
  <1> QED
    BY <1>6, <1>8, AnsweredOK

\* A page is fetched: what it says is what the school serves now or served since
\* the login.
LEMMA GetOK ==
  ASSUME IInv, NEW r \in Runs, Get(r)
  PROVE  IInv'
  <1>1. Sound(run[r], subjects, server) /\ run[r].plan # <<>>
    BY DEF IInv, RunInv, Get, Placed
  <1>2. server[run[r].acct] \in DOMAIN Served[run[r].acct]
    BY <1>1 DEF IInv, StoreInv, Sound
  <1>3. Sound(Taken(run[r]), subjects, server)
    BY <1>1, <1>2, TakenOK
  <1>4. Answered(r, Taken(run[r]))
    BY DEF Get
  <1> QED
    BY <1>3, <1>4, AnsweredOK

\* A request that is refused, tried again or logged in anew changes no data.
LEMMA TurnStepOK ==
  ASSUME IInv, NEW r \in Runs,
         Turn(r, "get", "recover") \/ Turn(r, "recover", "again")
         \/ Turn(r, "recover", "relogin") \/ Turn(r, "relogin", "again")
  PROVE  IInv'
  <1>1. PICK to \in {"recover", "again", "relogin"} :
          /\ run[r].pc \in {"get", "recover", "relogin"}
          /\ Set(r, [run[r] EXCEPT !.pc = to])
          /\ UNCHANGED <<server, stored, wanted, mixed, due, manual>>
    BY DEF Turn, At
  <1>2. Placed(run[r]) /\ Sound(run[r], subjects, server)
    BY DEF IInv, RunInv
  <1> DEFINE t == [run[r] EXCEPT !.pc = to]
  <1>3. Sound(t, subjects, server) /\ t.pc = to /\ t.plan = run[r].plan
    BY <1>2, TurnOK
  <1>4. run' = [run EXCEPT ![r] = t] /\ UNCHANGED <<server, subjects, lessons, items, wanted, mixed>>
    BY <1>1 DEF Set, stored
  <1> HIDE DEF t
  <1>5. Placed(t) /\ t.pc # "commit"
    BY <1>1, <1>2, <1>3 DEF Placed
  <1> QED
    BY <1>3, <1>4, <1>5, OutsideOK, LocalStep

\* An account whose login is refused is left for the next one.
LEMMA RefusedOK ==
  ASSUME IInv, NEW r \in Runs, Refused(r)
  PROVE  IInv'
  <1> DEFINE t == Failed(run[r])
  <1>1. Placed(t) /\ Sound(t, subjects, server) /\ t.pc # "commit"
    BY FailedOK DEF IInv, RunInv, Sound
  <1>2. run' = [run EXCEPT ![r] = t] /\ UNCHANGED <<server, subjects, lessons, items, wanted, mixed>>
    BY DEF Refused, Collected, Set, stored
  <1> HIDE DEF t
  <1> QED
    BY <1>1, <1>2, OutsideOK, LocalStep

\* A sync that breaks leaves what was committed.
LEMMA BreaksOK ==
  ASSUME IInv, NEW r \in Runs, Breaks(r)
  PROVE  IInv'
  BY DiedOK DEF Breaks, stored

\* So does one whose insert finds the row there.
LEMMA ConflictOK ==
  ASSUME IInv, NEW r \in Runs, Conflict(r)
  PROVE  IInv'
  BY DiedOK DEF Conflict, stored

\* A unit of work is done: what is left keeps its order.
LEMMA TailOK ==
  ASSUME NEW todo, IsSeq(todo), todo # <<>>, NEW known, NEW known2, SubjectsFirst(todo, known),
         known \subseteq known2, Head(todo).kind = "subject" => Head(todo).key \in known2,
         NEW a, NEW n, DaysServed(a, n, todo)
  PROVE  IsSeq(Tail(todo)) /\ SubjectsFirst(Tail(todo), known2) /\ DaysServed(a, n, Tail(todo))
  <1> DEFINE left == Tail(todo)
  <1>1. todo \in Seq(ToSet(todo))
    BY DEF IsSeq
  <1>2. /\ left \in Seq(ToSet(todo)) /\ Len(left) = Len(todo) - 1 /\ Head(todo) = todo[1]
        /\ \A i \in 1 .. Len(left) : left[i] = todo[i + 1]
    BY <1>1, HeadTailProperties
  <1>2a. Len(todo) \in Nat /\ DOMAIN todo = 1 .. Len(todo) /\ DOMAIN left = 1 .. Len(left)
    BY <1>1, <1>2
  <1> HIDE DEF left
  <1>3. IsSeq(left)
    BY <1>2, IsSeqOf
  <1>4. \A i \in DOMAIN left : i + 1 \in DOMAIN todo /\ left[i] = todo[i + 1] /\ i \in Nat
    BY <1>2, <1>2a
  <1>5. ASSUME NEW i \in DOMAIN left, NEW code, There(todo, i + 1, known, code)
        PROVE  There(left, i, known2, code)
    <2>1. CASE code \in known
      BY <2>1 DEF There
    <2>2. ASSUME NEW j \in 1 .. i + 1 - 1, todo[j] = SubjectOp(code), j = 1
          PROVE  There(left, i, known2, code)
      BY <1>2, <2>2 DEF There, SubjectOp
    <2>3. ASSUME NEW j \in 1 .. i + 1 - 1, todo[j] = SubjectOp(code), j # 1
          PROVE  There(left, i, known2, code)
      <3>1. j - 1 \in 1 .. i - 1 /\ j - 1 \in DOMAIN left /\ j - 1 + 1 = j
        BY <1>2, <1>2a, <1>4, <2>3
      <3>2. left[j - 1] = SubjectOp(code)
        BY <1>4, <2>3, <3>1
      <3> QED
        BY <3>1, <3>2 DEF There
    <2> QED
      BY <1>5, <2>1, <2>2, <2>3 DEF There
  <1>6. SubjectsFirst(left, known2)
    BY <1>4, <1>5 DEF SubjectsFirst
  <1>7. DaysServed(a, n, left)
    BY <1>4 DEF DaysServed
  <1> QED
    BY <1>3, <1>6, <1>7 DEF left

\* The sync that has done a unit of work goes on soundly.
LEMMA DoneOK ==
  ASSUME NEW s, NEW subs, NEW srv, NEW subs2, Sound(s, subs, srv), s.todo # <<>>,
         DOMAIN subs[s.acct] \subseteq DOMAIN subs2[s.acct],
         Head(s.todo).kind = "subject" => Head(s.todo).key \in DOMAIN subs2[s.acct]
  PROVE  LET t == [s EXCEPT !.todo = Tail(@)]
             z == [s EXCEPT !.todo = Tail(@), !.seen = {}, !.overlapped = FALSE]
         IN  Sound(t, subs2, srv) /\ Sound(z, subs2, srv)
  <1> DEFINE t == [s EXCEPT !.todo = Tail(@)]
             z == [s EXCEPT !.todo = Tail(@), !.seen = {}, !.overlapped = FALSE]
             a == s.acct
  <1>0. Shape(s)
    BY DEF Sound
  <1>1. /\ Shape(s) /\ IsSeq(s.todo) /\ SubjectsFirst(s.todo, DOMAIN subs[a])
        /\ DaysServed(a, srv[a], s.todo) /\ PlanOK(s, srv[a]) /\ s.acct \in Accounts
        /\ s.failed \subseteq 1 .. s.acct /\ s.overlapped \in BOOLEAN
    BY DEF Sound
  <1>2. /\ IsSeq(Tail(s.todo)) /\ SubjectsFirst(Tail(s.todo), DOMAIN subs2[a])
        /\ DaysServed(a, srv[a], Tail(s.todo))
    BY <1>1, TailOK
  <1>3. /\ Shape(t) /\ t.acct = a /\ t.failed = s.failed /\ t.overlapped = s.overlapped
        /\ t.todo = Tail(s.todo) /\ t.plan = s.plan /\ t.held = s.held
    BY <1>0 DEF Shape, Fields
  <1>4. /\ Shape(z) /\ z.acct = a /\ z.failed = s.failed /\ z.overlapped = FALSE
        /\ z.todo = Tail(s.todo) /\ z.plan = s.plan /\ z.held = s.held
    BY <1>0 DEF Shape, Fields
  <1> HIDE DEF t, z, a
  <1>5. PlanOK(t, srv[a]) /\ PlanOK(z, srv[a])
    BY <1>1, <1>3, <1>4 DEF PlanOK, a
  <1>6. Sound(t, subs2, srv)
    BY <1>1, <1>2, <1>3, <1>5 DEF Sound, a
  <1>7. Sound(z, subs2, srv)
    BY <1>1, <1>2, <1>4, <1>5 DEF Sound, a
  <1> QED
    BY <1>6, <1>7 DEF t, z

\* A subject that is there already is touched and keeps its equipment.
LEMMA TouchSubjectOK ==
  ASSUME IInv, NEW r \in Runs, TouchSubject(r)
  PROVE  IInv'
  <1> DEFINE s == [run[r] EXCEPT !.todo = Tail(@)]
             t == Onward(s)
  <1>1. Sound(run[r], subjects, server) /\ run[r].todo # <<>>
    BY DEF IInv, RunInv, TouchSubject, At, Placed
  <1>2. Sound(s, subjects, server)
    BY <1>1, DoneOK DEF TouchSubject, Work
  <1>3. run' = [run EXCEPT ![r] = t] /\ UNCHANGED <<server, subjects, lessons, items, wanted, mixed>>
    BY DEF TouchSubject, Set, stored
  <1> HIDE DEF s
  <1>4. Placed(t) /\ Sound(t, subjects, server) /\ t.pc # "commit"
    BY <1>2, OnwardOK
  <1> HIDE DEF t
  <1> QED
    BY <1>3, <1>4, OutsideOK, LocalStep

\* A unit of work reads the row it is about to write.
LEMMA ReadOK ==
  ASSUME IInv, NEW r \in Runs, Read(r)
  PROVE  IInv'
  <1> DEFINE s == run[r]
             a == s.acct
  <1>1. Sound(s, subjects, server) /\ Shape(s) /\ s.todo # <<>> /\ s.pc = "read"
    BY DEF IInv, RunInv, Read, At, Placed, Sound
  <1>2. PICK seen :
          /\ Work(r).kind = "day" => seen = DOMAIN lessons[a]
          /\ IsItem(Work(r)) /\ RowsOf(r) # {} => \E i \in RowsOf(r) : seen = {<<i, Rows(r)[i]>>}
          /\ run' = [run EXCEPT ![r] = [s EXCEPT !.pc = "commit", !.seen = seen, !.overlapped = FALSE]]
    BY DEF Read, Set, IsItem
  <1> DEFINE t == [s EXCEPT !.pc = "commit", !.seen = seen, !.overlapped = FALSE]
  <1>3. /\ Shape(t) /\ t.acct = a /\ t.failed = s.failed /\ t.overlapped = FALSE /\ t.todo = s.todo
        /\ t.plan = s.plan /\ t.held = s.held /\ t.seen = seen /\ t.pc = "commit"
    <2>1. Shape(s)
      BY <1>1
    <2> HIDE DEF s
    <2> QED
      BY <2>1 DEF Shape, Fields
  <1> HIDE DEF t
  <1>4. Sound(t, subjects, server)
    <2>1. PlanOK(s, server[a]) <=> PlanOK(t, server[a])
      BY <1>3 DEF PlanOK
    <2> QED
      BY <1>1, <1>3, <2>1 DEF Sound
  <1>5. SeenOK(t, lessons, items)
    <2>1. Work(r) = Head(t.todo) /\ RowsOf(r) = RowsFor(Head(t.todo), items[t.acct])
      BY <1>3 DEF Work, RowsOf, Rows, RowsFor
    <2> QED
      BY <1>2, <1>3, <2>1 DEF SeenOK
  <1>6. Placed(t)
    BY <1>1, <1>3 DEF Placed
  <1>7. UNCHANGED <<server, subjects, lessons, items, wanted, mixed>>
    BY DEF Read, stored
  <1> QED
    BY <1>2, <1>4, <1>5, <1>6, <1>7, LocalStep DEF t

-----------------------------------------------------------------------------
(* The commits.                                                            *)

\* After a commit: every sync is sound still, and what another one has selected
\* stands unless it stands in an overlap now.
LEMMA LandedOK ==
  ASSUME IInv, NEW r \in Runs, At(r, "commit"), Landed(r),
         \A a \in Accounts : DOMAIN subjects[a] \subseteq DOMAIN subjects'[a],
         Work(r).kind = "subject" => Work(r).key \in DOMAIN subjects'[run[r].acct],
         \A q \in Runs \ {r} : ~SameRows(r, q) => SeenOK(run[q], lessons', items')
  PROVE  RunInv' /\ server' = server /\ wanted' = wanted
  <1>0. server' = server /\ wanted' = wanted
    BY DEF Landed
  <1> DEFINE left == [run[r] EXCEPT !.todo = Tail(@), !.seen = {}, !.overlapped = FALSE]
             next == Onward(left)
             Late(q) == [run[q] EXCEPT !.overlapped = TRUE,
                               !.seen = IF Work(r).kind = "day" THEN @ \ run[r].seen ELSE @]
  <1>1. run' = [q \in Runs |-> IF q = r THEN next ELSE IF SameRows(r, q) THEN Late(q) ELSE run[q]]
    BY DEF Landed
  <1>2. ASSUME NEW q \in Runs
        PROVE  /\ Sound(run[q], subjects, server) /\ Shape(run[q]) /\ run[q].acct \in Accounts
               /\ server[run[q].acct] \in Nat /\ Placed(run[q])
    BY ServedUpTo DEF IInv, RunInv, StoreInv, Sound
  <1>3. ASSUME NEW q \in Runs
        PROVE  Sound(run[q], subjects', server)
    BY <1>2, SoundGrows
  <1>4. Placed(next) /\ Sound(next, subjects', server) /\ SeenOK(next, lessons', items')
    <2>1. run[r].todo # <<>>
      BY <1>2 DEF Placed, At
    <2>2. Sound(left, subjects', server)
      BY <1>2, <2>1, DoneOK DEF Work
    <2> HIDE DEF left
    <2> QED
      BY <2>2, OnwardOK DEF SeenOK
  <1>5. ASSUME NEW q \in Runs, SameRows(r, q)
        PROVE  Placed(Late(q)) /\ Sound(Late(q), subjects', server) /\ SeenOK(Late(q), lessons', items')
    <2> DEFINE s == run[q]
               t == Late(q)
    <2>1. Shape(s) /\ Sound(s, subjects', server) /\ Placed(s) /\ s.pc = "commit"
      BY <1>2, <1>3, <1>5 DEF SameRows, At
    <2>2. /\ Shape(t) /\ t.acct = s.acct /\ t.failed = s.failed /\ t.overlapped = TRUE
          /\ t.todo = s.todo /\ t.plan = s.plan /\ t.held = s.held /\ t.pc = s.pc
      <3>1. Shape(s)
        BY <2>1
      <3> HIDE DEF s
      <3>2. t = [s EXCEPT !.overlapped = TRUE,
                          !.seen = IF Work(r).kind = "day" THEN @ \ run[r].seen ELSE @]
        BY DEF s
      <3> QED
        BY <3>1, <3>2 DEF Shape, Fields
    <2> HIDE DEF s, t
    <2>3. Placed(t) /\ SeenOK(t, lessons', items')
      BY <2>1, <2>2 DEF Placed, SeenOK
    <2>4. PlanOK(t, server[t.acct])
      BY <2>1, <2>2 DEF PlanOK, Sound
    <2>5. Sound(t, subjects', server)
      BY <2>1, <2>2, <2>4 DEF Sound
    <2> QED
      BY <2>3, <2>5 DEF t
  <1> HIDE DEF next, Late, left
  <1>6. ASSUME NEW q \in Runs
        PROVE  Placed(run'[q]) /\ Sound(run'[q], subjects', server) /\ SeenOK(run'[q], lessons', items')
    <2>1. CASE q = r
      BY <1>1, <1>4, <2>1
    <2>2. CASE q # r /\ SameRows(r, q)
      BY <1>1, <1>5, <2>2
    <2>3. CASE q # r /\ ~SameRows(r, q)
      BY <1>1, <1>2, <1>3, <2>3
    <2> QED
      BY <2>1, <2>2, <2>3
  <1>7. run' = [q \in Runs |-> run'[q]]
    BY <1>1
  <1> QED
    BY <1>0, <1>6, <1>7 DEF RunInv

\* What Put changes of a table, and what it leaves.
LEMMA PutIs ==
  ASSUME NEW table, table = [a \in Accounts |-> table[a]], NEW b \in Accounts, NEW key, NEW value
  PROVE  /\ Put(table, b, key, value) = [a \in Accounts |-> Put(table, b, key, value)[a]]
         /\ \A a \in Accounts \ {b} : Put(table, b, key, value)[a] = table[a]
         /\ DOMAIN Put(table, b, key, value)[b] = DOMAIN table[b] \cup {key}
         /\ \A k \in DOMAIN table[b] \cup {key} :
              Put(table, b, key, value)[b][k] = IF k = key THEN value ELSE table[b][k]
  <1> DEFINE new == [k \in DOMAIN table[b] \cup {key} |-> IF k = key THEN value ELSE table[b][k]]
  <1>1. Put(table, b, key, value) = [table EXCEPT ![b] = new]
    BY DEF Put
  <1>2. DOMAIN new = DOMAIN table[b] \cup {key}
        /\ \A k \in DOMAIN table[b] \cup {key} : new[k] = IF k = key THEN value ELSE table[b][k]
    OBVIOUS
  <1> HIDE DEF new
  <1>3. Put(table, b, key, value) = [a \in Accounts |-> IF a = b THEN new ELSE table[a]]
    BY <1>1
  <1> QED
    BY <1>2, <1>3

\* A new subject starts with nothing to pack.
LEMMA CommitSubjectOK ==
  ASSUME IInv, NEW r \in Runs, CommitSubject(r)
  PROVE  IInv'
  <1> DEFINE a == run[r].acct
             key == Work(r).key
  <1>1. CASE key \in DOMAIN subjects[a]
    BY <1>1, ConflictOK DEF CommitSubject
  <1>2. CASE key \notin DOMAIN subjects[a]
    <2>1. /\ At(r, "commit") /\ Work(r).kind = "subject" /\ Landed(r)
          /\ subjects' = Put(subjects, a, key, "none") /\ UNCHANGED <<lessons, items>>
      BY <1>2 DEF CommitSubject
    <2>2. a \in Accounts /\ subjects = [b \in Accounts |-> subjects[b]]
      BY DEF IInv, RunInv, StoreInv, Sound
    <2> HIDE DEF a, key
    <2>3. /\ subjects' = [b \in Accounts |-> subjects'[b]]
          /\ \A b \in Accounts \ {a} : subjects'[b] = subjects[b]
          /\ DOMAIN subjects'[a] = DOMAIN subjects[a] \cup {key}
          /\ \A k \in DOMAIN subjects[a] \cup {key} :
               subjects'[a][k] = IF k = key THEN "none" ELSE subjects[a][k]
      BY <2>1, <2>2, PutIs
    <2>4. \A b \in Accounts : DOMAIN subjects[b] \subseteq DOMAIN subjects'[b]
      BY <2>3
    <2>5. \A q \in Runs : SeenOK(run[q], lessons', items')
      BY <2>1 DEF IInv, RunInv
    <2>6. RunInv' /\ server' = server /\ wanted' = wanted
      BY <2>1, <2>3, <2>4, <2>5, LandedOK DEF a, key
    <2>7. StoreInv'
      BY <2>1, <2>3, <2>4, <2>6 DEF IInv, StoreInv
    <2>8. EquipInv'
      <3>1. \A b \in Accounts : DOMAIN wanted[b] \subseteq DOMAIN subjects'[b]
        BY <2>4 DEF IInv, EquipInv
      <3>2. ASSUME NEW b \in Accounts, NEW code \in DOMAIN subjects'[b]
            PROVE  subjects'[b][code] = IF code \in DOMAIN wanted[b] THEN wanted[b][code] ELSE "none"
        <4>1. CASE b # a
          BY <2>3, <4>1 DEF IInv, EquipInv
        <4>2. CASE b = a /\ code # key
          BY <2>3, <4>2 DEF IInv, EquipInv
        <4>3. CASE b = a /\ code = key
          BY <1>2, <2>3, <4>3 DEF IInv, EquipInv, a, key
        <4> QED
          BY <4>1, <4>2, <4>3
      <3> QED
        BY <2>6, <3>1, <3>2 DEF EquipInv
    <2>9. mixed' = mixed
      BY <2>1 DEF Landed
    <2>10. DayIsServed' /\ OneRowPerItem'
      BY <2>1, <2>6, <2>9 DEF IInv, DayIsServed, OneRowPerItem
    <2> QED
      BY <2>6, <2>7, <2>8, <2>10 DEF IInv
  <1> QED
    BY <1>1, <1>2

\* The first unit of work: the subjects it needs are there.
LEMMA HeadOK ==
  ASSUME NEW s, NEW subs, NEW srv, Sound(s, subs, srv), s.todo # <<>>
  PROVE  LET w == Head(s.todo)
         IN  /\ IsItem(w) => w.code \in DOMAIN subs[s.acct]
             /\ w.kind = "day" => /\ w.key = "day" /\ ServedDay(s.acct, srv[s.acct], Keyed(w.lessons))
                                  /\ \A k \in DOMAIN w.lessons : w.lessons[k].code \in DOMAIN subs[s.acct]
  <1>1. /\ IsSeq(s.todo) /\ SubjectsFirst(s.todo, DOMAIN subs[s.acct])
        /\ DaysServed(s.acct, srv[s.acct], s.todo)
    BY DEF Sound
  <1>2. Head(s.todo) = s.todo[1] /\ 1 \in DOMAIN s.todo
    BY <1>1 DEF IsSeq
  <1>3. ASSUME NEW known, NEW code, There(s.todo, 1, known, code)
        PROVE  code \in known
    BY <1>3 DEF There
  <1> QED
    BY <1>1, <1>2, <1>3 DEF SubjectsFirst, DaysServed

\* A lesson of the keyed day is one of the day.
LEMMA KeyedEntry ==
  ASSUME NEW day, NEW p \in DOMAIN Keyed(day)
  PROVE  Keyed(day)[p].position = p /\ \E k \in DOMAIN day : Keyed(day)[p] = day[k]
  <1>1. Keyed(day)[p] = day[CHOOSE i \in DOMAIN day : day[i].position = p] /\ p \in Positions(day)
    BY DEF Keyed
  <1>2. PICK i \in DOMAIN day : day[i].position = p
    BY <1>1 DEF Positions
  <1> QED
    BY <1>1, <1>2

\* A day replaces the rows that were read for it.
LEMMA CommitDayOK ==
  ASSUME IInv, NEW r \in Runs, CommitDay(r)
  PROVE  IInv'
  <1> DEFINE a == run[r].acct
             day == Work(r).lessons
             new == Keyed(day)
             kept == DOMAIN lessons[a] \ run[r].seen
             rows == [p \in kept \cup DOMAIN new |-> IF p \in kept THEN lessons[a][p] ELSE new[p]]
  <1>1. CASE Collides(day) \/ kept \cap DOMAIN new # {}
    BY <1>1, ConflictOK DEF CommitDay
  <1>2. CASE ~(Collides(day) \/ kept \cap DOMAIN new # {})
    <2>1. /\ At(r, "commit") /\ Work(r).kind = "day" /\ Landed(r)
          /\ lessons' = [lessons EXCEPT ![a] = rows] /\ UNCHANGED <<subjects, items>>
      BY <1>2 DEF CommitDay
    <2>2. /\ Sound(run[r], subjects, server) /\ a \in Accounts /\ run[r].todo # <<>>
          /\ SeenOK(run[r], lessons, items)
      BY <2>1 DEF IInv, RunInv, Sound, Placed, At
    <2>3. /\ Work(r).key = "day" /\ ServedDay(a, server[a], new)
          /\ \A k \in DOMAIN day : day[k].code \in DOMAIN subjects[a]
      BY <2>1, <2>2, HeadOK DEF Work
    <2>4. new = [p \in DOMAIN new |-> new[p]]
      BY DEF Keyed
    <2>5. ~run[r].overlapped => rows = new
      <3> SUFFICES ASSUME ~run[r].overlapped PROVE rows = new
        OBVIOUS
      <3>1. kept = {}
        BY <2>1, <2>2 DEF SeenOK, At, Work
      <3> HIDE DEF new, kept
      <3> QED
        BY <2>4, <3>1
    <2>6. ASSUME NEW p \in DOMAIN rows
          PROVE  rows[p].position = p /\ rows[p].code \in DOMAIN subjects[a]
      <3>1. CASE p \in kept
        BY <2>2, <3>1 DEF IInv, StoreInv
      <3>2. CASE p \notin kept
        <4>1. rows[p] = new[p] /\ p \in DOMAIN new
          BY <3>2
        <4>2. new[p].position = p /\ \E k \in DOMAIN day : new[p] = day[k]
          BY <4>1, KeyedEntry
        <4> HIDE DEF new, day, rows
        <4> QED
          BY <2>3, <4>1, <4>2
      <3> QED
        BY <3>1, <3>2
    <2> HIDE DEF rows, kept, new, day
    <2>7. /\ lessons' = [b \in Accounts |-> lessons'[b]] /\ lessons'[a] = rows
          /\ \A b \in Accounts \ {a} : lessons'[b] = lessons[b]
      <3>1. lessons = [b \in Accounts |-> lessons[b]]
        BY DEF IInv, StoreInv
      <3> QED
        BY <2>1, <2>2, <3>1
    <2>8. ASSUME NEW q \in Runs \ {r}, ~SameRows(r, q)
          PROVE  SeenOK(run[q], lessons', items')
      <3>1. SeenOK(run[q], lessons, items) /\ Sound(run[q], subjects, server) /\ Placed(run[q])
        BY DEF IInv, RunInv
      <3>1a. run[q].acct \in Accounts
        BY <3>1 DEF Sound
      <3>2. CASE run[q].pc = "commit" /\ Work(q).kind = "day"
        <4>1. Work(q).key = "day"
          BY <3>1, <3>2, HeadOK DEF Work, Placed
        <4>2. run[q].acct # a
          BY <2>1, <2>3, <2>8, <3>2, <4>1 DEF SameRows, At
        <4> QED
          BY <2>1, <2>7, <3>1, <3>1a, <4>2 DEF SeenOK
      <3>3. CASE ~(run[q].pc = "commit" /\ Work(q).kind = "day")
        BY <2>1, <3>1, <3>3 DEF SeenOK, Work
      <3> QED
        BY <3>2, <3>3
    <2>9. RunInv' /\ server' = server /\ wanted' = wanted
      BY <2>1, <2>8, LandedOK
    <2>10. StoreInv'
      BY <2>1, <2>6, <2>7, <2>9 DEF IInv, StoreInv
    <2>11. EquipInv'
      BY <2>1, <2>9 DEF IInv, EquipInv
    <2> DEFINE here == <<a, "day", "day">>
    <2>12. mixed' = IF run[r].overlapped THEN mixed \cup {here} ELSE mixed \ {here}
      BY <2>1, <2>3 DEF Landed
    <2>13. DayIsServed'
      <3> SUFFICES ASSUME NEW b \in Accounts
                   PROVE  <<b, "day", "day">> \in mixed' \/ lessons'[b] = <<>> \/ ServedDay(b, server[b], lessons'[b])
        BY <2>9 DEF DayIsServed, ServedDay
      <3>1. CASE b # a
        <4>1. <<b, "day", "day">> \in mixed => <<b, "day", "day">> \in mixed'
          BY <2>12, <3>1
        <4> QED
          BY <2>7, <3>1, <4>1 DEF IInv, DayIsServed, ServedDay
      <3>2. CASE b = a /\ run[r].overlapped
        BY <2>12, <3>2
      <3>3. CASE b = a /\ ~run[r].overlapped
        BY <2>3, <2>5, <2>7, <3>3
      <3> QED
        BY <3>1, <3>2, <3>3
    <2>14. OneRowPerItem'
      <3> SUFFICES ASSUME NEW b \in Accounts, NEW i \in DOMAIN items[b], NEW j \in DOMAIN items[b],
                          items[b][i].kind = items[b][j].kind /\ items[b][i].id = items[b][j].id
                   PROVE  i = j \/ <<b, items[b][i].kind, items[b][i].id>> \in mixed'
        BY <2>1 DEF OneRowPerItem
      <3>1. items[b][i].kind # "day"
        BY DEF IInv, StoreInv, IsItem
      <3>2. <<b, items[b][i].kind, items[b][i].id>> # here
        BY <3>1
      <3>3. i = j \/ <<b, items[b][i].kind, items[b][i].id>> \in mixed
        BY DEF IInv, OneRowPerItem
      <3> HIDE DEF here
      <3> QED
        BY <2>12, <3>2, <3>3
    <2> QED
      BY <2>9, <2>10, <2>11, <2>13, <2>14 DEF IInv
  <1> QED
    BY <1>1, <1>2

\* An item replaces the row that was read, or is added.
LEMMA CommitItemOK ==
  ASSUME IInv, NEW r \in Runs, CommitItem(r)
  PROVE  IInv'
  <1> DEFINE a == run[r].acct
             w == Work(r)
             old == items[a]
             read == CHOOSE e \in run[r].seen : TRUE
             Updated(now, was) ==
               [now EXCEPT !.code  = IF w.code = was.code THEN @ ELSE w.code,
                           !.value = IF w.value = was.value THEN @ ELSE w.value]
             rows == IF run[r].seen = {} THEN Append(old, RowOf(w))
                     ELSE [i \in DOMAIN old |-> IF i = read[1] THEN Updated(old[i], read[2]) ELSE old[i]]
  <1>1. /\ At(r, "commit") /\ IsItem(w) /\ Landed(r)
        /\ items' = [items EXCEPT ![a] = rows] /\ UNCHANGED <<subjects, lessons>>
    BY DEF CommitItem
  <1>2. /\ Sound(run[r], subjects, server) /\ a \in Accounts /\ run[r].todo # <<>>
        /\ SeenOK(run[r], lessons, items)
    BY <1>1 DEF IInv, RunInv, Sound, Placed, At
  <1>3. w.code \in DOMAIN subjects[a]
    BY <1>1, <1>2, HeadOK DEF Work
  <1>4. /\ IsSeq(old)
        /\ \A i \in DOMAIN old :
             /\ old[i] = [f \in {"kind", "id", "code", "value"} |-> old[i][f]]
             /\ IsItem(old[i]) /\ old[i].code \in DOMAIN subjects[a]
    BY <1>2 DEF IInv, StoreInv
  <1>5. Len(old) \in Nat /\ DOMAIN old = 1 .. Len(old)
    BY <1>4 DEF IsSeq
  \* The rows that were there keep their kind and id; a new one is the item's.
  <1>6. /\ IsSeq(rows) /\ DOMAIN old \subseteq DOMAIN rows
        /\ \A i \in DOMAIN rows :
             /\ rows[i] = [f \in {"kind", "id", "code", "value"} |-> rows[i][f]]
             /\ IsItem(rows[i]) /\ rows[i].code \in DOMAIN subjects[a]
        /\ \A i \in DOMAIN old : rows[i].kind = old[i].kind /\ rows[i].id = old[i].id
        /\ \A i \in DOMAIN rows \ DOMAIN old :
             i = Len(old) + 1 /\ rows[i] = RowOf(w) /\ run[r].seen = {}
    <2>1. CASE run[r].seen = {}
      <3>1. rows = Append(old, RowOf(w))
        BY <2>1
      <3> HIDE DEF rows, old, w
      <3>2. IsSeq(rows)
        BY <1>4, <3>1, AppendIsSeq
      <3>3. /\ DOMAIN rows = 1 .. Len(old) + 1 /\ rows[Len(old) + 1] = RowOf(w)
            /\ \A i \in 1 .. Len(old) : rows[i] = old[i]
        <4>1. old \in Seq(ToSet(old) \cup {RowOf(w)}) /\ RowOf(w) \in ToSet(old) \cup {RowOf(w)}
          BY <1>4 DEF IsSeq
        <4> QED
          BY <1>5, <3>1, <4>1, AppendProperties
      <3>4. /\ RowOf(w) = [f \in {"kind", "id", "code", "value"} |-> RowOf(w)[f]]
            /\ IsItem(RowOf(w)) /\ RowOf(w).code = w.code
        BY <1>1 DEF RowOf, IsItem
      <3> QED
        BY <1>3, <1>4, <1>5, <2>1, <3>2, <3>3, <3>4
    <2>2. CASE run[r].seen # {}
      <3>1. rows = [i \in 1 .. Len(old) |-> rows[i]]
            /\ \A i \in 1 .. Len(old) :
                 rows[i] = IF i = read[1] THEN Updated(old[i], read[2]) ELSE old[i]
        BY <1>5, <2>2
      <3>2. ASSUME NEW now, now = [f \in {"kind", "id", "code", "value"} |-> now[f]],
                   IsItem(now), now.code \in DOMAIN subjects[a], NEW was
            PROVE  LET new == Updated(now, was)
                   IN  /\ new = [f \in {"kind", "id", "code", "value"} |-> new[f]]
                       /\ IsItem(new) /\ new.code \in DOMAIN subjects[a]
                       /\ new.kind = now.kind /\ new.id = now.id
        <4> HIDE DEF w
        <4> QED
          BY <1>3, <3>2 DEF IsItem
      <3> HIDE DEF rows, Updated, read, old
      <3>3. IsSeq(rows)
        BY <1>5, <3>1, MapIsSeq
      <3> QED
        BY <1>4, <1>5, <3>1, <3>2, <3>3
    <2> QED
      BY <2>1, <2>2
  <1> HIDE DEF rows
  <1>7. /\ items' = [b \in Accounts |-> items'[b]] /\ items'[a] = rows
        /\ \A b \in Accounts \ {a} : items'[b] = items[b]
    <2>1. items = [b \in Accounts |-> items[b]]
      BY DEF IInv, StoreInv
    <2> HIDE DEF a
    <2> QED
      BY <1>1, <1>2, <2>1
  <1>8. ASSUME NEW q \in Runs \ {r}, ~SameRows(r, q)
        PROVE  SeenOK(run[q], lessons', items')
    <2>1. SeenOK(run[q], lessons, items) /\ run[q].acct \in Accounts
      BY DEF IInv, RunInv, Sound
    <2>2. CASE run[q].acct = a /\ run[q].pc = "commit"
      <3>1. Work(q).kind # w.kind \/ Work(q).key # w.key
        BY <1>8, <2>2 DEF SameRows, At
      <3>2. RowsFor(Work(q), old) = {} => RowsFor(Work(q), rows) = {}
        <4> SUFFICES ASSUME NEW i \in DOMAIN rows, rows[i].kind = Work(q).kind, rows[i].id = Work(q).key
                     PROVE  i \in DOMAIN old /\ old[i].kind = Work(q).kind /\ old[i].id = Work(q).key
          BY DEF RowsFor
        <4>1. RowOf(w).kind = w.kind /\ RowOf(w).id = w.key
          BY DEF RowOf
        <4> HIDE DEF w, old
        <4> QED
          BY <1>6, <3>1, <4>1
      <3> QED
        BY <1>1, <1>7, <2>1, <2>2, <3>2 DEF SeenOK, Work
    <2>3. CASE ~(run[q].acct = a /\ run[q].pc = "commit")
      <3> HIDE DEF a
      <3> QED
        BY <1>1, <1>7, <2>1, <2>3 DEF SeenOK
    <2> QED
      BY <2>2, <2>3
  <1>8a. w.kind # "subject" /\ w.kind # "day"
    BY <1>1 DEF IsItem
  <1>9. RunInv' /\ server' = server /\ wanted' = wanted
    BY <1>1, <1>8, <1>8a, LandedOK
  <1>10. StoreInv'
    <2>1. ASSUME NEW b \in Accounts
          PROVE  /\ IsSeq(items'[b])
                 /\ \A i \in DOMAIN items'[b] :
                      /\ items'[b][i] = [f \in {"kind", "id", "code", "value"} |-> items'[b][i][f]]
                      /\ IsItem(items'[b][i]) /\ items'[b][i].code \in DOMAIN subjects[b]
      <3>1. CASE b = a
        <4> HIDE DEF a, old
        <4> QED
          BY <1>6, <1>7, <3>1
      <3>2. CASE b # a
        BY <1>7, <3>2 DEF IInv, StoreInv
      <3> QED
        BY <3>1, <3>2
    <2> HIDE DEF a, old
    <2> QED
      BY <1>1, <1>7, <1>9, <2>1 DEF IInv, StoreInv
  <1>11. EquipInv'
    BY <1>1, <1>9 DEF IInv, EquipInv
  <1> DEFINE here == <<a, w.kind, w.key>>
  <1>12. mixed' = IF run[r].overlapped THEN mixed \cup {here} ELSE mixed
    BY <1>1, <1>8a DEF Landed
  <1>13. DayIsServed'
    BY <1>1, <1>9, <1>12 DEF IInv, DayIsServed
  <1>14. OneRowPerItem'
    <2> SUFFICES ASSUME NEW b \in Accounts, NEW i \in DOMAIN items'[b], NEW j \in DOMAIN items'[b],
                        items'[b][i].kind = items'[b][j].kind /\ items'[b][i].id = items'[b][j].id
                 PROVE  i = j \/ <<b, items'[b][i].kind, items'[b][i].id>> \in mixed'
      BY DEF OneRowPerItem
    <2>1. CASE b # a
      BY <1>7, <1>12, <2>1 DEF IInv, OneRowPerItem
    <2>2. CASE b = a /\ i \in DOMAIN old /\ j \in DOMAIN old
      <3>1. i = j \/ <<b, old[i].kind, old[i].id>> \in mixed
        BY <1>2, <1>6, <1>7, <2>2 DEF IInv, OneRowPerItem
      <3> HIDE DEF old, a, w, here
      <3> QED
        BY <1>6, <1>7, <1>12, <2>2, <3>1 DEF a
    <2>3. CASE b = a /\ (i \notin DOMAIN old \/ j \notin DOMAIN old)
      <3>1. /\ i \in DOMAIN rows /\ j \in DOMAIN rows
            /\ rows[i].kind = rows[j].kind /\ rows[i].id = rows[j].id
        BY <1>7, <2>3
      <3>2. rows[i].kind = w.kind /\ rows[i].id = w.key /\ run[r].seen = {}
        <4>1. RowOf(w).kind = w.kind /\ RowOf(w).id = w.key
          BY DEF RowOf
        <4> HIDE DEF old, w
        <4> QED
          BY <1>6, <2>3, <3>1, <4>1
      <3>3. CASE run[r].overlapped
        <4>1. <<b, items'[b][i].kind, items'[b][i].id>> = here
          <5> HIDE DEF a, w
          <5> QED
            BY <1>7, <2>3, <3>2
        <4> HIDE DEF here
        <4> QED
          BY <1>12, <3>3, <4>1
      <3>4. CASE ~run[r].overlapped
        <4>1. RowsFor(w, old) = {}
          BY <1>1, <1>2, <3>2, <3>4 DEF SeenOK, At, Work
        <4>2. \A k \in DOMAIN old : ~(rows[k].kind = w.kind /\ rows[k].id = w.key)
          <5> HIDE DEF old, w
          <5> QED
            BY <1>6, <4>1 DEF RowsFor
        <4> HIDE DEF old, w
        <4>3. i \notin DOMAIN old
          BY <3>2, <4>2
        <4>4. j \notin DOMAIN old
          BY <3>1, <3>2, <4>2
        <4> QED
          BY <1>6, <3>1, <4>3, <4>4
      <3> QED
        BY <3>3, <3>4
    <2> QED
      BY <2>1, <2>2, <2>3
  <1> QED
    BY <1>9, <1>10, <1>11, <1>13, <1>14 DEF IInv

-----------------------------------------------------------------------------
(* The schools, the family and the hour.                                   *)

\* The school publishes: what was served before stays in the past.
LEMMA PublishOK ==
  ASSUME IInv, NEW a \in Accounts, Publish(a)
  PROVE  IInv'
  <1>1. /\ server[a] < Len(Served[a]) /\ server' = [server EXCEPT ![a] = server[a] + 1]
        /\ UNCHANGED <<run, subjects, lessons, items, wanted, mixed>>
    BY DEF Publish, stored
  <1>2. ASSUME NEW b \in Accounts
        PROVE  /\ server[b] \in Nat /\ server'[b] \in Nat /\ server[b] <= server'[b]
               /\ server'[b] \in DOMAIN Served[b] /\ 1 .. server[b] \subseteq 1 .. server'[b]
    <2>1. Len(Served[b]) \in Nat /\ DOMAIN Served[b] = 1 .. Len(Served[b])
      BY ServedAssumption
    <2>2. server = [c \in Accounts |-> server[c]] /\ server[b] \in DOMAIN Served[b]
      BY DEF IInv, StoreInv
    <2>3. server'[b] = server[b] \/ (b = a /\ server'[b] = server[b] + 1)
      BY <1>1, <2>2
    <2> QED
      BY <1>1, <2>1, <2>2, <2>3
  <1>3. server' = [b \in Accounts |-> server'[b]]
    BY <1>1 DEF IInv, StoreInv
  <1>4. RunInv'
    <2>1. ASSUME NEW r \in Runs
          PROVE  Sound(run[r], subjects, server')
      <3>1. Sound(run[r], subjects, server) /\ run[r].acct \in Accounts
        BY DEF IInv, RunInv, Sound
      <3> QED
        BY <1>2, <3>1, SoundGrows
    <2> QED
      BY <1>1, <2>1 DEF IInv, RunInv
  <1>5. StoreInv'
    BY <1>1, <1>2, <1>3 DEF IInv, StoreInv
  <1>6. EquipInv' /\ OneRowPerItem'
    BY <1>1 DEF IInv, EquipInv, OneRowPerItem
  <1>7. DayIsServed'
    BY <1>1, <1>2 DEF IInv, DayIsServed
  <1> QED
    BY <1>4, <1>5, <1>6, <1>7 DEF IInv

\* A parent saves what to pack, for a subject that is there.
LEMMA SetEquipmentOK ==
  ASSUME IInv, NEW a \in Accounts, NEW code \in DOMAIN subjects[a], SetEquipment(a, code)
  PROVE  IInv'
  <1>1. /\ subjects' = Put(subjects, a, code, "kit") /\ wanted' = Put(wanted, a, code, "kit")
        /\ UNCHANGED <<run, server, lessons, items, mixed>>
    BY DEF SetEquipment
  <1>2. subjects = [b \in Accounts |-> subjects[b]] /\ wanted = [b \in Accounts |-> wanted[b]]
    BY DEF IInv, StoreInv
  <1>3. /\ subjects' = [b \in Accounts |-> subjects'[b]] /\ wanted' = [b \in Accounts |-> wanted'[b]]
        /\ \A b \in Accounts \ {a} : subjects'[b] = subjects[b] /\ wanted'[b] = wanted[b]
        /\ DOMAIN subjects'[a] = DOMAIN subjects[a] \cup {code}
        /\ DOMAIN wanted'[a] = DOMAIN wanted[a] \cup {code}
        /\ \A k \in DOMAIN subjects[a] \cup {code} :
             subjects'[a][k] = IF k = code THEN "kit" ELSE subjects[a][k]
        /\ \A k \in DOMAIN wanted[a] \cup {code} :
             wanted'[a][k] = IF k = code THEN "kit" ELSE wanted[a][k]
    BY <1>1, <1>2, PutIs
  <1>4. \A b \in Accounts : DOMAIN subjects'[b] = DOMAIN subjects[b]
    BY <1>3
  <1>5. RunInv'
    <2>1. ASSUME NEW r \in Runs
          PROVE  Sound(run[r], subjects', server)
      BY <1>4 DEF IInv, RunInv, Sound
    <2> QED
      BY <1>1, <2>1 DEF IInv, RunInv
  <1>6. StoreInv'
    <2>1. ASSUME NEW b \in Accounts
          PROVE  /\ server[b] \in DOMAIN Served[b] /\ IsSeq(items[b])
                 /\ \A i \in DOMAIN items[b] :
                      /\ items[b][i] = [f \in {"kind", "id", "code", "value"} |-> items[b][i][f]]
                      /\ IsItem(items[b][i]) /\ items[b][i].code \in DOMAIN subjects'[b]
                 /\ \A p \in DOMAIN lessons[b] :
                      lessons[b][p].position = p /\ lessons[b][p].code \in DOMAIN subjects'[b]
      BY <1>4 DEF IInv, StoreInv
    <2>2. /\ server = [b \in Accounts |-> server[b]] /\ lessons = [b \in Accounts |-> lessons[b]]
          /\ items = [b \in Accounts |-> items[b]]
      BY DEF IInv, StoreInv
    <2> QED
      BY <1>1, <1>3, <2>1, <2>2 DEF StoreInv
  <1>7. EquipInv'
    <2>1. ASSUME NEW b \in Accounts
          PROVE  /\ DOMAIN wanted'[b] \subseteq DOMAIN subjects'[b]
                 /\ \A k \in DOMAIN subjects'[b] :
                      subjects'[b][k] = IF k \in DOMAIN wanted'[b] THEN wanted'[b][k] ELSE "none"
      <3>1. CASE b # a
        BY <1>3, <3>1 DEF IInv, EquipInv
      <3>2. CASE b = a
        BY <1>3, <3>2 DEF IInv, EquipInv
      <3> QED
        BY <3>1, <3>2
    <2> QED
      BY <2>1 DEF EquipInv
  <1>8. DayIsServed' /\ OneRowPerItem'
    BY <1>1 DEF IInv, DayIsServed, OneRowPerItem
  <1> QED
    BY <1>5, <1>6, <1>7, <1>8 DEF IInv

\* Steps that change nothing here.
LEMMA StutterOK ==
  ASSUME IInv, UNCHANGED <<run, server, subjects, lessons, items, wanted, mixed>>
  PROVE  IInv'
  <1>1. RunInv'
    BY DEF IInv, RunInv
  <1>2. StoreInv'
    BY DEF IInv, StoreInv
  <1>3. EquipInv'
    BY DEF IInv, EquipInv
  <1>4. DayIsServed' /\ OneRowPerItem'
    BY DEF IInv, DayIsServed, OneRowPerItem
  <1> QED
    BY <1>1, <1>2, <1>3, <1>4 DEF IInv

\* Every step keeps the invariant.
LEMMA NextOK ==
  ASSUME IInv, [Next]_vars
  PROVE  IInv'
  <1>1. ASSUME NEW r \in Runs, Start(r)  PROVE IInv'
    BY <1>1, StartOK
  <1>2. ASSUME NEW r \in Runs, Step(r)  PROVE IInv'
    <2>1. CASE Login(r)
      BY <2>1, LoginOK
    <2>2. CASE Get(r)
      BY <2>2, GetOK
    <2>3. CASE Expired(r) \/ Refresh(r) \/ RefreshRejected(r) \/ Relogin(r)
      BY <2>3, TurnStepOK DEF Expired, Refresh, RefreshRejected, Relogin
    <2>4. CASE Refused(r)
      BY <2>4, RefusedOK
    <2>5. CASE Breaks(r)
      BY <2>5, BreaksOK
    <2>6. CASE TouchSubject(r)
      BY <2>6, TouchSubjectOK
    <2>7. CASE Read(r)
      BY <2>7, ReadOK
    <2>8. CASE CommitSubject(r)
      BY <2>8, CommitSubjectOK
    <2>9. CASE CommitDay(r)
      BY <2>9, CommitDayOK
    <2>10. CASE CommitItem(r)
      BY <2>10, CommitItemOK
    <2> QED
      BY <1>2, <2>1, <2>2, <2>3, <2>4, <2>5, <2>6, <2>7, <2>8, <2>9, <2>10 DEF Step
  <1>3. ASSUME NEW a \in Accounts, Publish(a)  PROVE IInv'
    BY <1>3, PublishOK
  <1>4. ASSUME NEW a \in Accounts, NEW code \in DOMAIN subjects[a], SetEquipment(a, code)  PROVE IInv'
    BY <1>4, SetEquipmentOK
  <1>5. CASE Elapse
    BY <1>5, StutterOK DEF Elapse, stored
  <1>6. CASE UNCHANGED vars
    BY <1>6, StutterOK DEF vars, stored
  <1> QED
    BY <1>1, <1>2, <1>3, <1>4, <1>5, <1>6 DEF Next

\* The invariant holds of every behaviour.
THEOREM Inductive == Spec => []IInv
  <1>1. IInv /\ [Next]_vars => IInv'
    BY NextOK
  <1> QED
    BY InitOK, <1>1, PTL DEF Spec

\* TypeOK of SchoolGather: a sync that lands has work, one that asks has a plan,
\* and every lesson, mark and homework stored refers to a subject that is there.
THEOREM TypeCorrect == Spec => []TypeOK
  <1>1. IInv => TypeOK
    <2> SUFFICES ASSUME IInv PROVE TypeOK
      OBVIOUS
    <2>1. ASSUME NEW r \in Runs
          PROVE  /\ run[r].pc \in {"idle", "dead", "account", "get", "recover", "relogin", "again",
                                    "read", "commit"}
                 /\ run[r].acct \in Accounts /\ run[r].failed \subseteq 1 .. run[r].acct
                 /\ run[r].pc \in {"read", "commit"} => run[r].todo # <<>>
                 /\ run[r].pc \in {"get", "recover", "relogin", "again"} => run[r].plan # <<>>
                 /\ run[r].pc = "idle" => run[r] = Idle
      BY DEF IInv, RunInv, Placed, Sound
    <2>2. ASSUME NEW a \in Accounts
          PROVE  /\ server[a] \in DOMAIN Served[a]
                 /\ \A p \in DOMAIN lessons[a] :
                      lessons[a][p].position = p /\ lessons[a][p].code \in DOMAIN subjects[a]
                 /\ \A i \in DOMAIN items[a] : items[a][i].code \in DOMAIN subjects[a]
      BY DEF IInv, StoreInv
    <2> QED
      BY <2>1, <2>2 DEF TypeOK
  <1> QED
    BY <1>1, Inductive, PTL

\* DayIsServed: the stored day is one timetable the school answered with, overlaid
\* with the substitutions of one later answer, however many syncs overlap.
THEOREM DayServed == Spec => []DayIsServed
  <1>1. IInv => DayIsServed
    BY DEF IInv
  <1> QED
    BY <1>1, Inductive, PTL

\* OneRowPerItem: a mark or homework has one row, unless it was written by a
\* transaction that overlapped another one's commit of it.
THEOREM OneRow == Spec => []OneRowPerItem
  <1>1. IInv => OneRowPerItem
    BY DEF IInv
  <1> QED
    BY <1>1, Inductive, PTL

\* PackedAsSaved: the packing list has the equipment the family saved, whatever was
\* gathered since.
THEOREM Packed == Spec => []PackedAsSaved
  <1>1. IInv => PackedAsSaved
    <2> SUFFICES ASSUME IInv, NEW a \in Accounts, NEW p \in DOMAIN lessons[a]
                 PROVE  LET code == lessons[a][p].code
                        IN  subjects[a][code] =
                              IF code \in DOMAIN wanted[a] THEN wanted[a][code] ELSE "none"
      BY DEF PackedAsSaved, PackList
    <2>1. lessons[a][p].code \in DOMAIN subjects[a]
      BY DEF IInv, StoreInv
    <2> QED
      BY <2>1 DEF IInv, EquipInv
  <1> QED
    BY <1>1, Inductive, PTL
=============================================================================
