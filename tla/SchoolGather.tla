---------------------------- MODULE SchoolGather ----------------------------
(***************************************************************************)
(* connectors/bakalari.py over school/: the hourly job and the portal's    *)
(* refresh gather every account of a household, one after the other, and   *)
(* land what each server answers through SchoolService, one transaction a  *)
(* subject, a mark, a homework or a day.  A transaction is its SELECT      *)
(* (Read) and what follows up to its commit (Commit).                      *)
(*                                                                         *)
(* The gather day is one day; accounts are members, numbered in the order  *)
(* of their names.                                                         *)
(***************************************************************************)
EXTENDS SchoolMapping

CONSTANTS
  N,            \* accounts of the household
  Runs, Job,    \* syncs that may overlap, and the one the worker makes
  Served,       \* Served[a]: the payloads account a's server comes to hold
  Equipped,     \* bound: the <<account, code>> the family saves equipment for
  MaxManual     \* bound: refreshes from the portal

Accounts == 1 .. N

\* A household without accounts is refused before anything is gathered.
ASSUME NAssumption == N \in Nat \ {0}
ASSUME ServedAssumption ==
  \A a \in Accounts :
    /\ Served[a] \in Seq(ToSet(Served[a])) \ {<<>>}
    /\ \A v \in DOMAIN Served[a] :
         LET p == Served[a][v]
         IN  \A answer \in {p.hours, p.substitutions, p.marks, p.homeworks} :
               answer \in Seq(ToSet(answer))

VARIABLES
  run,        \* the state of each sync
  server,     \* server[a]: the payload held now
  subjects,   \* subjects[a]: code -> equipment
  lessons,    \* lessons[a]: position -> lesson of the day
  items,      \* items[a]: rows of grades and homework
  wanted,     \* history: the equipment the family last saved
  mixed,      \* history: <<account, kind, key>> last written in overlapping transactions
  due,        \* the config is due: its last sync in order is an hour old
  manual

stored == <<subjects, lessons, items>>
vars   == <<run, server, stored, wanted, mixed, due, manual>>

Idle == [pc |-> "idle", acct |-> 1, plan |-> <<>>, held |-> <<>>,
         todo |-> <<>>, seen |-> {}, overlapped |-> FALSE, failed |-> {}]

Payload(a) == Served[a][server[a]]

\* The lessons of each timetable served, before any substitution.
Lessons == [a \in Accounts |-> [v \in DOMAIN Served[a] |-> LessonsFrom(Served[a][v].hours)]]

\* The marks and the homework served, as far as they have an id.
Items ==
  [a \in Accounts |-> [v \in DOMAIN Served[a] |->
     [grade |-> ItemsFrom(Served[a][v].marks), homework |-> ItemsFrom(Served[a][v].homeworks)]]]

TypeOK ==
  /\ \A r \in Runs :
       /\ run[r].pc \in {"idle", "dead", "account", "get", "recover", "relogin", "again",
                         "read", "commit"}
       /\ run[r].acct \in Accounts /\ run[r].failed \subseteq 1 .. run[r].acct
       /\ run[r].pc \in {"read", "commit"} => run[r].todo # <<>>
       /\ run[r].pc \in {"get", "recover", "relogin", "again"} => run[r].plan # <<>>
       /\ run[r].pc = "idle" => run[r] = Idle
  /\ \A a \in Accounts :
       /\ server[a] \in DOMAIN Served[a]
       /\ \A p \in DOMAIN lessons[a] :
            lessons[a][p].position = p /\ lessons[a][p].code \in DOMAIN subjects[a]
       /\ \A i \in DOMAIN items[a] : items[a][i].code \in DOMAIN subjects[a]

Init ==
  /\ run = [r \in Runs |-> Idle]
  /\ server = [a \in Accounts |-> 1]
  /\ subjects = [a \in Accounts |-> <<>>] /\ lessons = [a \in Accounts |-> <<>>]
  /\ items = [a \in Accounts |-> <<>>] /\ wanted = [a \in Accounts |-> <<>>]
  /\ mixed = {} /\ due = TRUE /\ manual = 0

-----------------------------------------------------------------------------
(* Where a sync goes next.                                                 *)

Cleared(s) ==
  [s EXCEPT !.plan = <<>>, !.held = <<>>, !.todo = <<>>, !.seen = {},
            !.overlapped = FALSE]

\* The loop goes to the next account, or out of sync.
NextAccount(s) ==
  IF s.acct < N THEN [Cleared(s) EXCEPT !.pc = "account", !.acct = @ + 1] ELSE Idle

\* Mutant: the first failure ends the sync.
FailedAtOnce(s) == Idle
\* A handled error: the account is noted and the loop goes on.
Failed(s) == NextAccount([s EXCEPT !.failed = @ \cup {s.acct}])

\* Any other error leaves sync; the accounts that follow are not reached.
Died == [Idle EXCEPT !.pc = "dead"]

\* After an answer: land it, ask for more, or be done with the account.
Onward(s) ==
  IF s.todo # <<>> THEN [s EXCEPT !.pc = "read"]
  ELSE IF s.plan # <<>> THEN [s EXCEPT !.pc = "get"]
  ELSE NextAccount(s)

-----------------------------------------------------------------------------
(* What is landed.                                                         *)

SubjectOp(code) == [kind |-> "subject", key |-> code]

\* apply_grades and apply_homework: for each entry its subject and its row.
ItemOps(kind, given) ==
  LET Op(e) == [kind |-> kind, key |-> e.id, code |-> e.code, value |-> e.value]
  IN  [k \in 1 .. 2 * Len(given) |->
         LET e == given[(k + 1) \div 2] IN IF k % 2 = 1 THEN SubjectOp(e.code) ELSE Op(e)]

\* Mutant: the day is replaced before its subjects are there.
DayOpsFirst(day) ==
  IF day = <<>> THEN <<>>
  ELSE <<[kind |-> "day", key |-> "day", lessons |-> day]>>
       \o [i \in DOMAIN day |-> SubjectOp(day[i].code)]
\* apply_day, for a day that has lessons: the subjects, then the replacement.
DayOps(day) ==
  IF day = <<>> THEN <<>>
  ELSE [i \in DOMAIN day |-> SubjectOp(day[i].code)]
       \o <<[kind |-> "day", key |-> "day", lessons |-> day]>>

\* One answer: what it adds to the work of the account.
Taken(s) ==
  LET ask  == Head(s.plan)
      rest == [s EXCEPT !.plan = Tail(@)]
      payload == Payload(s.acct)
      day  == Lessons[s.acct][server[s.acct]]
      given == Items[s.acct][server[s.acct]]
  IN  CASE ask = "Timetable" ->
             IF "Substitutions" \in Range(s.plan)
             THEN [rest EXCEPT !.held = day] ELSE [rest EXCEPT !.todo = DayOps(day)]
        [] ask = "Substitutions" ->
             [rest EXCEPT !.todo = DayOps(Substituted(s.held, payload.substitutions)),
                          !.held = <<>>]
        [] ask = "Marks" -> [rest EXCEPT !.todo = ItemOps("grade", given.grade)]
        [] ask = "Homeworks" -> [rest EXCEPT !.todo = ItemOps("homework", given.homework)]

-----------------------------------------------------------------------------
(* The steps of a sync.                                                    *)

Set(r, s) == run' = [run EXCEPT ![r] = s]
At(r, pc) == run[r].pc = pc

\* A sync that has landed its last account returns, and is stamped, when no
\* account failed; it raises otherwise.
Stamp(r, next) ==
  due' = IF next = Idle /\ run[r].acct = N /\ run[r].failed = {} THEN FALSE ELSE due

Start(r) ==
  /\ run[r].pc \in {"idle", "dead"}
  /\ IF r = Job THEN due /\ UNCHANGED manual
     ELSE manual < MaxManual /\ manual' = manual + 1
  /\ Set(r, [Idle EXCEPT !.pc = "account"])
  /\ UNCHANGED <<server, stored, wanted, mixed, due>>

\* The account of sync r goes on with s, which its answer has made of it.
Answered(r, s) ==
  /\ \E next \in {Onward(s)} : Set(r, next) /\ Stamp(r, next)
  /\ UNCHANGED <<server, stored, wanted, mixed, manual>>

\* _account, a new client, and its first request, which logs in and asks for the
\* enabled modules.
Login(r) ==
  /\ At(r, "account")
  /\ Answered(r, [run[r] EXCEPT !.plan = Requests(Payload(run[r].acct).modules)])

\* get_json: the answer to the first request, or to the second.
Get(r) ==
  /\ run[r].pc \in {"get", "again"}
  /\ \E s \in {Taken(run[r])} : Answered(r, s)

Turn(r, from, to) ==
  /\ At(r, from)
  /\ Set(r, [run[r] EXCEPT !.pc = to])
  /\ UNCHANGED <<server, stored, wanted, mixed, due, manual>>

\* The access token has expired: the first request is answered with a 401.
Expired(r) == Turn(r, "get", "recover")

Refresh(r) == Turn(r, "recover", "again")

Collected(r) ==
  /\ Set(r, Failed(run[r]))
  /\ UNCHANGED <<server, stored, wanted, mixed, due, manual>>

\* Mutant: a rejected refresh is not followed by a login.
RefreshRejectedFails(r) == At(r, "recover") /\ Collected(r)
\* A rejected refresh, or none to redeem, falls back to the password.
RefreshRejected(r) == Turn(r, "recover", "relogin")

Relogin(r) == Turn(r, "relogin", "again")

\* An unreadable credential, a rejected password, a second 401, any other status.
Refused(r) == run[r].pc \in {"account", "get", "again", "relogin"} /\ Collected(r)

\* No answer at all is not among the errors sync collects.
Breaks(r) ==
  /\ run[r].pc \in {"account", "get", "again", "recover", "relogin"}
  /\ Set(r, Died)
  /\ UNCHANGED <<server, stored, wanted, mixed, due, manual>>

Work(r)   == Head(run[r].todo)
Rows(r)   == items[run[r].acct]
RowsOf(r) == {i \in DOMAIN Rows(r) : Rows(r)[i].kind = Work(r).kind /\ Rows(r)[i].id = Work(r).key}
IsItem(w) == w.kind \in {"grade", "homework"}

\* Mutant: a subject that is there is written anew.
TouchSubjectAnew(r) ==
  /\ At(r, "read") /\ Work(r).kind = "subject"
  /\ Work(r).key \in DOMAIN subjects[run[r].acct]
  /\ subjects' = [subjects EXCEPT ![run[r].acct][Work(r).key] = "none"]
  /\ Set(r, Onward([run[r] EXCEPT !.todo = Tail(@)]))
  /\ UNCHANGED <<lessons, items, server, wanted, mixed, due, manual>>
\* upsert_subject of a row that is there writes name and teacher, left out here,
\* and no other column; an item or the day always follows.
TouchSubject(r) ==
  /\ At(r, "read") /\ Work(r).kind = "subject"
  /\ Work(r).key \in DOMAIN subjects[run[r].acct]
  /\ Set(r, Onward([run[r] EXCEPT !.todo = Tail(@)]))
  /\ UNCHANGED <<stored, server, wanted, mixed, due, manual>>

\* The SELECT: no row of the subject, all rows of the day, one row of the item.
Read(r) ==
  /\ At(r, "read")
  /\ Work(r).kind = "subject" => Work(r).key \notin DOMAIN subjects[run[r].acct]
  /\ \E seen \in CASE Work(r).kind = "day" -> {DOMAIN lessons[run[r].acct]}
                   [] IsItem(Work(r)) /\ RowsOf(r) # {} ->
                        {{<<i, Rows(r)[i]>>} : i \in RowsOf(r)}
                   [] OTHER -> {{}} :
       Set(r, [run[r] EXCEPT !.pc = "commit", !.seen = seen, !.overlapped = FALSE])
  /\ UNCHANGED <<server, stored, wanted, mixed, due, manual>>

SameRows(r, q) ==
  /\ At(q, "commit") /\ run[q].acct = run[r].acct
  /\ Work(q).kind = Work(r).kind /\ Work(q).key = Work(r).key

\* After a commit: others that read before it have rows that are gone (of a
\* day), and stand in an overlap; the sync that committed goes on.
Landed(r) ==
  LET next == Onward([run[r] EXCEPT !.todo = Tail(@), !.seen = {}, !.overlapped = FALSE])
      key  == <<run[r].acct, Work(r).kind, Work(r).key>>
  IN  /\ run' = [q \in Runs |->
           IF q = r THEN next
           ELSE IF SameRows(r, q)
           THEN [run[q] EXCEPT !.overlapped = TRUE,
                               !.seen = IF Work(r).kind = "day" THEN @ \ run[r].seen ELSE @]
           ELSE run[q]]
      /\ Stamp(r, next)
      /\ mixed' = CASE run[r].overlapped /\ Work(r).kind # "subject" -> mixed \cup {key}
                    [] ~run[r].overlapped /\ Work(r).kind = "day" -> mixed \ {key}
                    [] OTHER -> mixed
      /\ UNCHANGED <<server, wanted, manual>>

\* An IntegrityError rolls back and is not one of the errors sync collects.
Conflict(r) ==
  /\ Set(r, Died)
  /\ UNCHANGED <<server, stored, wanted, mixed, due, manual>>

Put(table, a, key, value) ==
  [table EXCEPT ![a] = [k \in DOMAIN @ \cup {key} |-> IF k = key THEN value ELSE @[k]]]

\* The insert of upsert_subject, which another sync may have come before.
CommitSubject(r) ==
  LET a == run[r].acct
  IN  /\ At(r, "commit") /\ Work(r).kind = "subject"
      /\ IF Work(r).key \in DOMAIN subjects[a] THEN Conflict(r)
         ELSE /\ subjects' = Put(subjects, a, Work(r).key, "none")
              /\ UNCHANGED <<lessons, items>> /\ Landed(r)

\* Mutant: rows at positions the new day does not use stay.
CommitDayOver(r) ==
  LET a == run[r].acct
      new == Keyed(Work(r).lessons)
  IN  /\ At(r, "commit") /\ Work(r).kind = "day"
      /\ lessons' = [lessons EXCEPT ![a] = new @@ @]
      /\ UNCHANGED <<subjects, items>> /\ Landed(r)
\* replace_lessons: the rows read are deleted, then the new ones inserted.
CommitDay(r) ==
  LET a == run[r].acct
      kept == DOMAIN lessons[a] \ run[r].seen
      new == Keyed(Work(r).lessons)
  IN  /\ At(r, "commit") /\ Work(r).kind = "day"
      /\ IF Collides(Work(r).lessons) \/ kept \cap DOMAIN new # {} THEN Conflict(r)
         ELSE /\ lessons' = [lessons EXCEPT ![a] =
                   [p \in kept \cup DOMAIN new |-> IF p \in kept THEN @[p] ELSE new[p]]]
              /\ UNCHANGED <<subjects, items>> /\ Landed(r)

RowOf(w) == [kind |-> w.kind, id |-> w.key, code |-> w.code, value |-> w.value]

\* Mutant: a mark or homework is inserted each time.
CommitItemAgain(r) ==
  LET a == run[r].acct
      w == Work(r)
  IN  /\ At(r, "commit") /\ IsItem(w)
      /\ items' = [items EXCEPT ![a] = Append(@, RowOf(w))]
      /\ UNCHANGED <<subjects, lessons>> /\ Landed(r)
\* upsert_grade and upsert_homework: no key keeps two inserts apart, and an
\* update writes the columns that differ from the row read.
CommitItem(r) ==
  LET a == run[r].acct
      w == Work(r)
      Updated(now, old) ==
        [now EXCEPT !.code  = IF w.code = old.code THEN @ ELSE w.code,
                    !.value = IF w.value = old.value THEN @ ELSE w.value]
  IN  /\ At(r, "commit") /\ IsItem(w)
      /\ items' = [items EXCEPT ![a] =
            IF run[r].seen = {}
            THEN Append(@, RowOf(w))
            ELSE [i \in DOMAIN @ |->
                   LET read == CHOOSE e \in run[r].seen : TRUE
                   IN  IF i = read[1] THEN Updated(@[i], read[2]) ELSE @[i]]]
      /\ UNCHANGED <<subjects, lessons>> /\ Landed(r)

Step(r) ==
  \/ Login(r) \/ Get(r) \/ Expired(r) \/ Refresh(r) \/ RefreshRejected(r) \/ Relogin(r)
  \/ Refused(r) \/ Breaks(r) \/ TouchSubject(r) \/ Read(r)
  \/ CommitSubject(r) \/ CommitDay(r) \/ CommitItem(r)

-----------------------------------------------------------------------------
(* Around them: the schools and the family.                   *)

Publish(a) ==
  /\ server[a] < Len(Served[a])
  /\ server' = [server EXCEPT ![a] = @ + 1]
  /\ UNCHANGED <<run, stored, wanted, mixed, due, manual>>

\* set_equipment of a subject the member has.
SetEquipment(a, code) ==
  /\ code \in DOMAIN subjects[a] /\ <<a, code>> \in Equipped
  /\ subjects' = Put(subjects, a, code, "kit") /\ wanted' = Put(wanted, a, code, "kit")
  /\ UNCHANGED <<run, server, lessons, items, mixed, due, manual>>

\* An hour passes since the last stamp.
Elapse ==
  /\ ~due /\ due' = TRUE
  /\ UNCHANGED <<run, server, stored, wanted, mixed, manual>>

Next ==
  \/ \E r \in Runs : Start(r) \/ Step(r)
  \/ \E a \in Accounts : \/ Publish(a)
                         \/ \E code \in DOMAIN subjects[a] : SetEquipment(a, code)
  \/ Elapse

\* The worker posts a due job each hour and the event loop runs both syncs.
Spec == /\ Init /\ [][Next]_vars
        /\ WF_vars(Elapse) /\ WF_vars(Start(Job)) /\ \A r \in Runs : WF_vars(Step(r))

-----------------------------------------------------------------------------
(* Properties.                                                             *)

\* The rows made by the answers v about the timetable and w about its changes,
\* when these were asked for because of the answer u about the modules.
DayRows ==
  [a \in Accounts |-> [u \in DOMAIN Served[a] |-> [v \in DOMAIN Served[a] |-> [w \in DOMAIN Served[a] |->
     LET day == Lessons[a][v]
     IN  Keyed(IF "Substitutions" \in Served[a][u].modules
               THEN Substituted(day, Served[a][w].substitutions) ELSE day)]]]]

\* The stored day is one timetable the school answered with, overlaid with the
\* substitutions of one later answer, unless it was last replaced while another
\* sync was replacing it.
DayIsServed ==
  \A a \in Accounts : <<a, "day", "day">> \in mixed \/ lessons[a] = <<>> \/
    \E w \in 1 .. server[a] : \E v \in 1 .. w : \E u \in 1 .. v : lessons[a] = DayRows[a][u][v][w]

\* A mark or homework has one row, unless two syncs wrote it at the same time:
\* nothing but the SELECT before the INSERT keeps it from being doubled.
OneRowPerItem ==
  \A a \in Accounts : \A i, j \in DOMAIN items[a] :
    items[a][i].kind = items[a][j].kind /\ items[a][i].id = items[a][j].id
      => i = j \/ <<a, items[a][i].kind, items[a][i].id>> \in mixed

\* pack_list: the subjects of the day that take place, with their equipment.
PackList(a) ==
  {<<lessons[a][p].code, subjects[a][lessons[a][p].code]>> :
     p \in {q \in DOMAIN lessons[a] : ~lessons[a][q].canceled}}

\* What the family saved is what it is told to pack: no gather, and no overlap
\* of two, takes the equipment from a subject.
PackedAsSaved ==
  \A a \in Accounts : \A entry \in PackList(a) :
    entry[2] = IF entry[1] \in DOMAIN wanted[a] THEN wanted[a][entry[1]] ELSE "none"

SoundDay ==
  [a \in Accounts |-> [v \in DOMAIN Served[a] |->
     "Timetable" \in Served[a][v].modules => ~Collides(Lessons[a][v])]]

\* What the portal shows of an account is what its school has.  A day without
\* lessons is not applied, and a mark that is gone is not removed.
Shows(a) ==
  LET p == Payload(a)
      day == DayRows[a][server[a]][server[a]][server[a]]
      Stored(kind, entries) == \A i \in DOMAIN entries :
        LET e == entries[i]
        IN  e.id = NoId \/ [kind |-> kind, id |-> e.id, code |-> e.code, value |-> e.value] \in ToSet(items[a])
  IN  /\ "Timetable" \in p.modules /\ day # <<>> => lessons[a] = day
      /\ "Marks" \in p.modules => Stored("grade", p.marks)
      /\ "Homeworks" \in p.modules => Stored("homework", p.homeworks)

\* An account is gathered in the end, and stays so, once its school answers what
\* is asked: be its tokens expired and its refreshes rejected each time, and the
\* accounts before it refused each time.  (Only what is not collected, a broken
\* connection or two lessons at one position, keeps the later accounts waiting.)
Gathered ==
  \A a \in Accounts :
    /\ <>[](\A b \in 1 .. a : SoundDay[b][server[b]])
    /\ <>[][\A r \in Runs : /\ run[r].acct = a => ~Refused(r)
                            /\ run[r].acct <= a => ~Breaks(r)]_vars
    => <>[]Shows(a)
=============================================================================
