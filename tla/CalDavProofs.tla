---------------------------- MODULE CalDavProofs ----------------------------
(***************************************************************************)
(* The iCloud connector keeps its sync tokens, its href memory and the     *)
(* mirror in step, for any calendars, hrefs and ids and any number of      *)
(* edits, refusals and failures.                                           *)
(***************************************************************************)
EXTENDS CalDavSync, WellFoundedInduction, TLAPS

-----------------------------------------------------------------------------
(* What a list of record groups says of an id.                             *)

\* Some record is about u.
Said(groups, u) == \E i \in 1 .. Len(groups) : u \in Ids(groups[i])

\* The last group about u writes its row.
Written(groups, u) ==
  \E i \in 1 .. Len(groups) :
    /\ [uid |-> u, deleted |-> FALSE] \in groups[i]
    /\ \A j \in i + 1 .. Len(groups) : u \notin Ids(groups[j])

\* A group has one record for an id.
Single(group) == \A r, q \in group : r.uid = q.uid => r = q

\* A set of naturals that is not empty has its minimum.
LEMMA MinIsThere ==
  ASSUME NEW S, S \subseteq Nat, S # {}
  PROVE  Min(S) \in S
  <1>1. PICK x \in S : \A y \in S : ~ (<<y, x>> \in OpToRel(<, Nat))
    BY NatLessThanWellFounded, WFMin
  <1>2. \A y \in S : ~ (y < x)
    BY <1>1 DEF OpToRel
  <1>3. \A y \in S : x <= y
    BY <1>2
  <1> QED
    BY <1>3, Zenon DEF Min

\* A group appended to the list has the last word on its ids; an empty one is
\* not appended.
LEMMA Appended ==
  ASSUME NEW s \in Seq(SUBSET Record), NEW g \in SUBSET Record, NEW u \in Uid,
         NEW t, t = IF g = {} THEN s ELSE Append(s, g)
  PROVE  /\ t \in Seq(SUBSET Record)
         /\ Said(t, u) <=> Said(s, u) \/ u \in Ids(g)
         /\ Written(t, u) <=> \/ [uid |-> u, deleted |-> FALSE] \in g
                              \/ u \notin Ids(g) /\ Written(s, u)
  <1>1. CASE g = {}
    BY <1>1 DEF Ids
  <1>2. CASE g # {}
    <2>1. /\ t \in Seq(SUBSET Record) /\ Len(t) = Len(s) + 1 /\ t[Len(s) + 1] = g
          /\ \A i \in 1 .. Len(s) : t[i] = s[i]
          /\ Len(s) \in Nat
      BY <1>2
    <2>2. Said(t, u) <=> Said(s, u) \/ u \in Ids(g)
      BY <2>1 DEF Said
    <2>3. [uid |-> u, deleted |-> FALSE] \in g => Written(t, u)
      BY <2>1 DEF Written
    <2>4. ASSUME u \notin Ids(g), Written(s, u) PROVE Written(t, u)
      <3>1. PICK i \in 1 .. Len(s) :
              /\ [uid |-> u, deleted |-> FALSE] \in s[i]
              /\ \A j \in i + 1 .. Len(s) : u \notin Ids(s[j])
        BY <2>4 DEF Written
      <3>2. \A j \in i + 1 .. Len(t) : u \notin Ids(t[j])
        <4> TAKE j \in i + 1 .. Len(t)
        <4>1. CASE j = Len(s) + 1
          BY <4>1, <2>1, <2>4
        <4>2. CASE j \in i + 1 .. Len(s)
          BY <4>2, <3>1, <2>1
        <4> QED
          BY <4>1, <4>2, <2>1
      <3> QED
        BY <3>1, <3>2, <2>1 DEF Written
    <2>5. ASSUME Written(t, u), [uid |-> u, deleted |-> FALSE] \notin g
          PROVE  u \notin Ids(g) /\ Written(s, u)
      <3>1. PICK i \in 1 .. Len(t) :
              /\ [uid |-> u, deleted |-> FALSE] \in t[i]
              /\ \A j \in i + 1 .. Len(t) : u \notin Ids(t[j])
        BY <2>5 DEF Written
      <3>2. i \in 1 .. Len(s)
        BY <3>1, <2>1, <2>5
      <3>3. u \notin Ids(g)
        BY <3>1, <3>2, <2>1
      <3>4. \A j \in i + 1 .. Len(s) : u \notin Ids(s[j])
        BY <3>1, <3>2, <2>1
      <3> QED
        BY <3>1, <3>2, <3>3, <3>4, <2>1 DEF Written
    <2>6. Written(t, u) <=> \/ [uid |-> u, deleted |-> FALSE] \in g
                            \/ u \notin Ids(g) /\ Written(s, u)
      BY <2>3, <2>4, <2>5, Zenon
    <2>7. t \in Seq(SUBSET Record)
      BY <2>1
    <2> QED
      BY <2>2, <2>6, <2>7, Zenon
  <1> QED
    BY <1>1, <1>2

\* What the groups after the first say of an id.
SaidLater(groups, u) == \E i \in 2 .. Len(groups) : u \in Ids(groups[i])
WrittenLater(groups, u) ==
  \E i \in 2 .. Len(groups) :
    /\ [uid |-> u, deleted |-> FALSE] \in groups[i]
    /\ \A j \in i + 1 .. Len(groups) : u \notin Ids(groups[j])

\* The first group has the last word on an id when the others are silent on it.
LEMMA FirstGroup ==
  ASSUME NEW s \in Seq(SUBSET Record), s # <<>>, NEW u \in Uid
  PROVE  /\ Said(s, u) <=> u \in Ids(s[1]) \/ SaidLater(s, u)
         /\ SaidLater(s, u) => (Written(s, u) <=> WrittenLater(s, u))
         /\ ~ SaidLater(s, u) => (Written(s, u) <=> [uid |-> u, deleted |-> FALSE] \in s[1])
  <1> DEFINE up == [uid |-> u, deleted |-> FALSE]
  <1>1. Len(s) \in Nat \ {0} /\ \A i \in 1 .. Len(s) : up \in s[i] => u \in Ids(s[i])
    BY DEF Ids
  <1>2. \A i \in 1 .. Len(s) : i = 1 \/ i \in 2 .. Len(s)
    BY <1>1
  <1>3. 1 \in 1 .. Len(s) /\ 2 .. Len(s) \subseteq 1 .. Len(s)
    BY <1>1
  <1>4. Said(s, u) <=> u \in Ids(s[1]) \/ SaidLater(s, u)
    BY <1>2, <1>3 DEF Said, SaidLater
  <1>5. WrittenLater(s, u) => Written(s, u)
    BY <1>3 DEF Written, WrittenLater
  <1>6. Written(s, u) => WrittenLater(s, u) \/ (up \in s[1] /\ ~ SaidLater(s, u))
    BY <1>1, <1>2 DEF Written, WrittenLater, SaidLater
  <1>7. up \in s[1] /\ ~ SaidLater(s, u) => Written(s, u)
    <2> HAVE up \in s[1] /\ ~ SaidLater(s, u)
    <2>1. \A j \in 1 + 1 .. Len(s) : u \notin Ids(s[j])
      BY <1>1 DEF SaidLater
    <2> QED
      BY <2>1, <1>3 DEF Written
  <1>8. WrittenLater(s, u) => SaidLater(s, u)
    BY <1>1, <1>3 DEF WrittenLater, SaidLater
  <1> QED
    BY <1>4, <1>5, <1>6, <1>7, <1>8

\* The list without this record of its first group, as Apply leaves it.
Without(groups, rec) ==
  IF Head(groups) = {rec} THEN Tail(groups) ELSE <<Head(groups) \ {rec}>> \o Tail(groups)

\* Taking a record off the first group leaves the last word on every other id,
\* and on its own id unless nothing more is said of it.
LEMMA TakenOff ==
  ASSUME NEW s \in Seq(SUBSET Record), s # <<>>, NEW rec \in Head(s),
         \A i \in 1 .. Len(s) : Single(s[i]),
         NEW u \in Uid
  PROVE  /\ Without(s, rec) \in Seq(SUBSET Record)
         /\ \A i \in 1 .. Len(Without(s, rec)) : Single(Without(s, rec)[i])
         /\ u # rec.uid => (Said(Without(s, rec), u) <=> Said(s, u))
         /\ Said(Without(s, rec), u) => Said(s, u)
         /\ Said(Without(s, rec), u) => (Written(Without(s, rec), u) <=> Written(s, u))
         /\ u = rec.uid =>
              /\ Said(s, u)
              /\ ~ Said(Without(s, rec), u) => (Written(s, u) <=> ~ rec.deleted)
  <1> DEFINE t == Without(s, rec)
  <1> SUFFICES /\ t \in Seq(SUBSET Record)
               /\ \A i \in 1 .. Len(t) : Single(t[i])
               /\ u # rec.uid => (Said(t, u) <=> Said(s, u))
               /\ Said(t, u) => Said(s, u)
               /\ Said(t, u) => (Written(t, u) <=> Written(s, u))
               /\ u = rec.uid =>
                    Said(s, u) /\ (~ Said(t, u) => (Written(s, u) <=> ~ rec.deleted))
    OBVIOUS
  <1> DEFINE up == [uid |-> u, deleted |-> FALSE]
  <1>1. /\ Len(s) \in Nat \ {0} /\ Head(s) = s[1] /\ s[1] \subseteq Record /\ rec \in s[1]
        /\ \A i \in 1 .. Len(s) : s[i] \subseteq Record
    OBVIOUS
  <1>2. rec \in Record /\ rec.deleted \in BOOLEAN
    BY <1>1 DEF Record
  <1>3. u = rec.uid => u \in Ids(s[1])
    BY <1>1 DEF Ids
  <1>4. u = rec.uid => (up \in s[1] <=> ~ rec.deleted)
    <2>1. ASSUME u = rec.uid, ~ rec.deleted PROVE up = rec
      BY <2>1, <1>2 DEF Record
    <2>2. ASSUME u = rec.uid, up \in s[1] PROVE up = rec
      BY <2>2, <1>1 DEF Single
    <2>3. up.deleted = FALSE
      OBVIOUS
    <2> QED
      BY <2>1, <2>2, <2>3, <1>1, <1>2
  <1>5. /\ Said(s, u) <=> u \in Ids(s[1]) \/ SaidLater(s, u)
        /\ SaidLater(s, u) => (Written(s, u) <=> WrittenLater(s, u))
        /\ ~ SaidLater(s, u) => (Written(s, u) <=> up \in s[1])
    BY FirstGroup
  <1> HIDE DEF t
  <1>6. CASE Head(s) = {rec}
    <2>1. /\ t \in Seq(SUBSET Record) /\ Len(t) = Len(s) - 1
          /\ \A i \in 1 .. Len(t) : t[i] = s[i + 1]
      BY <1>6, <1>1 DEF Without, t
    <2>2. \A i \in 1 .. Len(t) : Single(t[i])
      BY <2>1, <1>1
    <2>3. u # rec.uid => u \notin Ids(s[1])
      BY <1>6, <1>1 DEF Ids
    <2>4. Said(t, u) <=> SaidLater(s, u)
      <3>1. Said(t, u) => SaidLater(s, u)
        BY <2>1, <1>1 DEF Said, SaidLater
      <3>2. ASSUME NEW i \in 2 .. Len(s), u \in Ids(s[i]) PROVE Said(t, u)
        <4>1. i - 1 \in 1 .. Len(t) /\ t[i - 1] = s[i]
          BY <2>1, <1>1
        <4> QED
          BY <3>2, <4>1 DEF Said
      <3> QED
        BY <3>1, <3>2 DEF SaidLater
    <2>5. WrittenLater(s, u) => Written(t, u)
      <3>1. ASSUME NEW i \in 2 .. Len(s), up \in s[i],
                   \A j \in i + 1 .. Len(s) : u \notin Ids(s[j])
            PROVE  Written(t, u)
        <4>1. i - 1 \in 1 .. Len(t) /\ t[i - 1] = s[i]
          BY <2>1, <1>1
        <4>2. \A j \in (i - 1) + 1 .. Len(t) : u \notin Ids(t[j])
          BY <3>1, <2>1, <1>1
        <4> QED
          BY <3>1, <4>1, <4>2 DEF Written
      <3> QED
        BY <3>1 DEF WrittenLater
    <2>6. Written(t, u) => WrittenLater(s, u)
      <3>1. ASSUME NEW i \in 1 .. Len(t), up \in t[i],
                   \A j \in i + 1 .. Len(t) : u \notin Ids(t[j])
            PROVE  WrittenLater(s, u)
        <4>1. i + 1 \in 2 .. Len(s) /\ t[i] = s[i + 1]
          BY <2>1, <1>1
        <4>2. ASSUME NEW j \in (i + 1) + 1 .. Len(s) PROVE u \notin Ids(s[j])
          <5>1. j - 1 \in i + 1 .. Len(t) /\ t[j - 1] = s[j]
            BY <2>1, <1>1
          <5> QED
            BY <5>1, <3>1
        <4> QED
          BY <3>1, <4>1, <4>2 DEF WrittenLater
      <3> QED
        BY <3>1 DEF Written
    <2> QED
      BY <1>3, <1>4, <1>5, <2>1, <2>2, <2>3, <2>4, <2>5, <2>6
  <1>7. CASE Head(s) # {rec}
    <2>1. /\ t \in Seq(SUBSET Record) /\ t # <<>> /\ Len(t) = Len(s) /\ t[1] = s[1] \ {rec}
          /\ \A i \in 2 .. Len(s) : t[i] = s[i]
      BY <1>7, <1>1 DEF Without, t
    <2>2. \A i \in 1 .. Len(t) : Single(t[i])
      <3>1. Single(t[1])
        BY <2>1, <1>1 DEF Single
      <3>2. \A i \in 1 .. Len(t) : i = 1 \/ (i \in 2 .. Len(s) /\ i \in 1 .. Len(s))
        BY <2>1, <1>1
      <3> QED
        BY <3>1, <3>2, <2>1
    <2>3. /\ Said(t, u) <=> u \in Ids(t[1]) \/ SaidLater(t, u)
          /\ SaidLater(t, u) => (Written(t, u) <=> WrittenLater(t, u))
          /\ ~ SaidLater(t, u) => (Written(t, u) <=> up \in t[1])
      BY <2>1, FirstGroup
    <2>4. (SaidLater(t, u) <=> SaidLater(s, u)) /\ (WrittenLater(t, u) <=> WrittenLater(s, u))
      <3>1. 2 .. Len(t) = 2 .. Len(s)
        BY <2>1
      <3>2. \A i \in 2 .. Len(s) : \A j \in i + 1 .. Len(s) : j \in 2 .. Len(s)
        BY <1>1
      <3> QED
        BY <3>1, <3>2, <2>1 DEF SaidLater, WrittenLater
    <2>5. u \in Ids(t[1]) => u \in Ids(s[1])
      BY <2>1 DEF Ids
    <2>6. u # rec.uid => (u \in Ids(t[1]) <=> u \in Ids(s[1])) /\ (up \in t[1] <=> up \in s[1])
      BY <2>1 DEF Ids
    <2>7. u = rec.uid => u \notin Ids(t[1])
      BY <2>1, <1>1 DEF Ids, Single
    <2>8. up \in t[1] => up \in s[1] /\ u \in Ids(t[1])
      BY <2>1 DEF Ids
    <2> QED
      BY <1>3, <1>4, <1>5, <2>1, <2>2, <2>3, <2>4, <2>5, <2>6, <2>7, <2>8
  <1> QED
    BY <1>6, <1>7

-----------------------------------------------------------------------------
(* The inductive invariant, as a conjunction of named parts.               *)

\* What the source has done is not ahead of its clock, and neither is a token.
ClockInv ==
  /\ \A c \in Cal, h \in Href : store[c][h].rev <= clock
  /\ \A c \in Cal : cursor[c].token <= clock /\ work[c].token <= clock
  /\ token <= clock

\* An event is live or cancelled, in one resource; one never edited is empty.
StoreInv ==
  \A c \in Cal, h \in Href :
    /\ store[c][h].live \cap store[c][h].cancelled = {}
    /\ store[c][h].rev = 0 => ~ Stands(c, h)
    /\ \A d \in Cal, g \in Href : <<d, g>> # <<c, h>> => Events(d, g) \cap Events(c, h) = {}

\* The ids remembered for a resource are its live events, unless it was
\* deleted before a listing without a token.
Exact(items, c, h) ==
  \/ items[h] = store[c][h].live
  \/ ~ Stands(c, h) /\ \A u \in items[h] : "blind" \in missed[u]

Covered(entry, c) == \A h \in Href : store[c][h].rev <= entry.token => Exact(entry.items, c, h)

\* What a token has passed is in the memory, in the stored cursor and the run's.
CoverInv == \A c \in Cal : Covered(cursor[c], c) /\ Covered(work[c], c)

\* After the REPORT: what its token has passed is in the memory or among the
\* hrefs to fetch, which still stand.
FetchInv ==
  phase = "fetch" =>
    \A h \in Href :
      store[at][h].rev <= token =>
        IF h \in changed THEN Stands(at, h) ELSE Exact(work[at].items, at, h)

\* Where the run is fits what it holds.
PhaseInv ==
  /\ phase \in {"idle", "clear"} => records = <<>>
  /\ phase \in {"report", "fetch", "query"} => at \in agenda
  /\ \A i \in 1 .. Len(records) : Single(records[i])

\* Some href of the account has the id in this memory.
Known(entries, u) == \E c \in Cal, h \in Href : u \in entries[c].items[h]

\* Before the cursor is stored, memory and mirror agree as between runs.
IdleInv ==
  phase # "apply" => \A u \in Uid : missed[u] = {} => (u \in mirror <=> Known(cursor, u))

\* The records the run holds lead from the mirror to its memory: an id they name
\* is remembered exactly if the last word on it is an upsert, and an id they do
\* not name is already right.
Agrees(entries) ==
  \A u \in Uid :
    /\ Said(records, u) /\ missed[u] \cap {"moved", "blind"} = {} =>
         (Written(records, u) <=> Known(entries, u))
    /\ ~ Said(records, u) /\ missed[u] = {} => (u \in mirror <=> Known(entries, u))

RunInv ==
  /\ phase \in {"report", "fetch", "query", "save"} => Agrees(work)
  /\ phase = "apply" => Agrees(cursor)

\* What the last word writes is remembered for a calendar the run is done with.
DoneInv ==
  phase \in {"report", "fetch", "query"} =>
    \A u \in Uid :
      Written(records, u) => \E c \in Cal \ agenda, h \in Href : u \in work[c].items[h]

IInv ==
  /\ TypeOK /\ ClockInv /\ StoreInv /\ CoverInv /\ FetchInv
  /\ PhaseInv /\ IdleInv /\ RunInv /\ DoneInv

-----------------------------------------------------------------------------
(* What the parts of the actions leave behind.                             *)

\* Noting a cause forgets no other.
LEMMA Noted ==
  ASSUME TypeOK, NEW causes, DOMAIN causes \subseteq Cause, Miss(causes)
  PROVE  /\ missed' \in [Uid -> SUBSET Cause]
         /\ \A u \in Uid : /\ missed[u] \subseteq missed'[u]
                           /\ \A w \in DOMAIN causes : u \in causes[w] => w \in missed'[u]
  BY DEF TypeOK, Miss

\* The loop goes to a calendar it has still to visit, or to the end of the run.
LEMMA Visited ==
  ASSUME NEW left \in SUBSET Cal, Visit(left)
  PROVE  /\ at' \in Cal /\ agenda' = left /\ phase' \in {"save", "report"}
         /\ phase' = "report" => at' \in agenda'
  <1>1. CASE left = {}
    BY <1>1, NumCalPositive DEF Visit, Cal
  <1>2. CASE left # {}
    <2>1. Min(left) \in left
      BY <1>2, MinIsThere, NumCalPositive, Cal \subseteq Nat DEF Cal
    <2> QED
      BY <1>2, <2>1 DEF Visit
  <1> QED
    BY <1>1, <1>2

\* Tombstones and upserts are groups of records.
LEMMA Groups ==
  ASSUME NEW live \in SUBSET Uid, NEW dead \in SUBSET Uid, NEW u \in Uid
  PROVE  /\ Upserts(live) \in SUBSET Record /\ Tombs(dead) \in SUBSET Record
         /\ live \cap dead = {} => Single(Upserts(live) \cup Tombs(dead))
         /\ u \in Ids(Upserts(live) \cup Tombs(dead)) <=> u \in live \/ u \in dead
         /\ [uid |-> u, deleted |-> FALSE] \in Upserts(live) \cup Tombs(dead) <=> u \in live
         /\ dead = {} <=> Tombs(dead) = {}
  <1>1. Upserts(live) \in SUBSET Record /\ Tombs(dead) \in SUBSET Record
    BY DEF Upserts, Tombs, Record
  <1>2. /\ \A r \in Upserts(live) : r.uid \in live /\ r = [uid |-> r.uid, deleted |-> FALSE]
        /\ \A r \in Tombs(dead) : r.uid \in dead /\ r = [uid |-> r.uid, deleted |-> TRUE]
    <2>1. ASSUME NEW flag \in BOOLEAN, NEW uids \in SUBSET Uid,
                 NEW r \in [uid : uids, deleted : {flag}]
          PROVE  r.uid \in uids /\ r = [uid |-> r.uid, deleted |-> flag]
      <3>1. r.deleted \in {flag}
        OBVIOUS
      <3>2. r.deleted = flag
        BY <3>1, Zenon
      <3>3. r = [uid |-> r.uid, deleted |-> r.deleted] /\ r.uid \in uids
        OBVIOUS
      <3> QED
        BY <3>2, <3>3, Zenon
    <2> QED
      BY <2>1 DEF Upserts, Tombs
  <1>3. /\ \A v \in live : [uid |-> v, deleted |-> FALSE] \in Upserts(live)
        /\ \A v \in dead : [uid |-> v, deleted |-> TRUE] \in Tombs(dead)
    BY DEF Upserts, Tombs
  <1>4. ASSUME live \cap dead = {} PROVE Single(Upserts(live) \cup Tombs(dead))
    BY <1>2, <1>4 DEF Single
  <1>5. u \in Ids(Upserts(live) \cup Tombs(dead)) <=> u \in live \/ u \in dead
    <2>1. u \in live => [uid |-> u, deleted |-> FALSE].uid \in Ids(Upserts(live) \cup Tombs(dead))
      BY <1>3 DEF Ids
    <2>2. u \in dead => [uid |-> u, deleted |-> TRUE].uid \in Ids(Upserts(live) \cup Tombs(dead))
      BY <1>3 DEF Ids
    <2>3. u \in Ids(Upserts(live) \cup Tombs(dead)) => u \in live \/ u \in dead
      BY <1>2 DEF Ids
    <2> QED
      BY <2>1, <2>2, <2>3
  <1>6. [uid |-> u, deleted |-> FALSE] \in Upserts(live) \cup Tombs(dead) <=> u \in live
    BY <1>2, <1>3
  <1>7. dead = {} <=> Tombs(dead) = {}
    BY <1>2, <1>3
  <1> QED
    BY <1>1, <1>4, <1>5, <1>6, <1>7

\* What is known once this calendar's memory is `items` is what Held says.
LEMMA HeldIsKnown ==
  ASSUME NEW items, NEW u, Known(work', u), work'[at].items = items,
         \A c \in Cal : c # at => work'[c] = work[c]
  PROVE  u \in Held(items)
  <1>1. PICK c \in Cal, h \in Href : u \in work'[c].items[h]
    BY DEF Known
  <1>2. CASE c = at
    <2> DEFINE mine == {items[g] : g \in Href}
    <2>1. items[h] \in mine /\ u \in items[h]
      BY <1>1, <1>2
    <2>2. u \in UNION mine
      <3> HIDE DEF mine
      <3> QED
        BY <2>1
    <2> QED
      BY <2>2 DEF Held
  <1>3. CASE c # at
    <2>1. u \in Remembered(work, c)
      BY <1>1, <1>3 DEF Remembered
    <2> DEFINE others == {Remembered(work, d) : d \in Cal \ {at}}
    <2>2. Remembered(work, c) \in others
      BY <1>3
    <2>3. u \in UNION others
      <3> HIDE DEF others
      <3> QED
        BY <2>1, <2>2
    <2> QED
      BY <2>3 DEF Held
  <1> QED
    BY <1>2, <1>3

\* A step that appends a group and changes the run's memory keeps them in
\* agreement, if the memory changes for the ids of the group as its records say,
\* or the cause is noted.
LEMMA StillAgrees ==
  ASSUME TypeOK, Agrees(work), NEW group \in SUBSET Record,
         records' = (IF group = {} THEN records ELSE Append(records, group)),
         mirror' = mirror, \A u \in Uid : missed[u] \subseteq missed'[u],
         \A u \in Uid :
           /\ [uid |-> u, deleted |-> FALSE] \in group => Known(work', u)
           /\ u \in Ids(group) /\ [uid |-> u, deleted |-> FALSE] \notin group /\ Known(work', u)
                => "moved" \in missed'[u]
           /\ u \notin Ids(group) /\ Known(work', u) => Known(work, u)
           /\ u \notin Ids(group) /\ Known(work, u) /\ ~ Known(work', u)
                => missed'[u] # {} /\ ~ Written(records, u)
  PROVE  Agrees(work)'
  <1> SUFFICES ASSUME NEW u \in Uid
        PROVE /\ Said(records', u) /\ missed'[u] \cap {"moved", "blind"} = {} =>
                   (Written(records', u) <=> Known(work', u))
              /\ ~ Said(records', u) /\ missed'[u] = {} => (u \in mirror' <=> Known(work', u))
    BY DEF Agrees, Known, Said, Written
  <1>1. /\ Said(records', u) <=> Said(records, u) \/ u \in Ids(group)
        /\ Written(records', u) <=> \/ [uid |-> u, deleted |-> FALSE] \in group
                                    \/ u \notin Ids(group) /\ Written(records, u)
    BY Appended DEF TypeOK
  <1>2. /\ Said(records, u) /\ missed[u] \cap {"moved", "blind"} = {} =>
             (Written(records, u) <=> Known(work, u))
        /\ ~ Said(records, u) /\ missed[u] = {} => (u \in mirror <=> Known(work, u))
    BY DEF Agrees
  <1>3. [uid |-> u, deleted |-> FALSE] \in group => u \in Ids(group)
    BY DEF Ids
  <1>4. CASE u \in Ids(group)
    BY <1>1, <1>3, <1>4
  <1>5. CASE u \notin Ids(group)
    BY <1>1, <1>2, <1>3, <1>5
  <1> QED
    BY <1>4, <1>5

-----------------------------------------------------------------------------
(* One lemma per action.                                                   *)

\* At the start nothing is known, said or mirrored.
LEMMA InitIInv == Init => IInv
<1> SUFFICES ASSUME Init PROVE IInv
  OBVIOUS
<1> USE NumCalPositive, LimitsNat DEF Init
<1>1. TypeOK
  BY DEF TypeOK, Cal, Rev, Resource, Entry, NoToken, Fresh
<1>2. ClockInv /\ StoreInv
  BY DEF ClockInv, StoreInv, Events, Stands, Fresh, NoToken
<1>3. CoverInv /\ FetchInv
  BY DEF CoverInv, Covered, FetchInv, Fresh, NoToken
<1>4. PhaseInv /\ IdleInv /\ RunInv /\ DoneInv
  BY DEF PhaseInv, IdleInv, RunInv, DoneInv, Known, Fresh
<1> QED
  BY <1>1, <1>2, <1>3, <1>4 DEF IInv

\* An edit is ahead of every token; what the run holds is not about it.
LEMMA EditStep ==
  ASSUME IInv, NEW c \in Cal, NEW h \in Href,
         NEW live \in SUBSET Uid, NEW cancelled \in SUBSET Uid,
         clock < MaxRev, live \cap cancelled = {},
         \A d \in Cal, g \in Href : <<d, g>> # <<c, h>> =>
           Events(d, g) \cap (live \cup cancelled) = {},
         clock' = clock + 1,
         store' = [store EXCEPT ![c][h] =
                     [rev |-> clock + 1, live |-> live, cancelled |-> cancelled]],
         UNCHANGED <<listed, cursor, mirror, phase, at, agenda, work, token, changed, records,
                     missed, faults>>
  PROVE  IInv'
<1> USE LimitsNat DEF IInv
<1>0. /\ clock \in Nat /\ clock + 1 \in Rev
      /\ store \in [Cal -> [Href -> Resource]]
      /\ \A d \in Cal : cursor[d].token \in Int /\ work[d].token \in Int
      /\ token \in Int /\ at \in Cal
  BY DEF TypeOK, Entry, Rev, NoToken
<1>1. /\ store'[c][h] = [rev |-> clock + 1, live |-> live, cancelled |-> cancelled]
      /\ \A d \in Cal, g \in Href : <<d, g>> # <<c, h>> => store'[d][g] = store[d][g]
  BY <1>0
<1>2. TypeOK'
  <2>1. store' \in [Cal -> [Href -> Resource]]
    BY <1>0 DEF Resource
  <2> QED
    BY <2>1, <1>0 DEF TypeOK
<1>3. ClockInv'
  <2>1. \A d \in Cal, g \in Href : store[d][g].rev \in Int
    BY <1>0 DEF Resource, Rev
  <2>2. \A d \in Cal, g \in Href : store'[d][g].rev <= clock'
    BY <2>1, <1>0, <1>1 DEF ClockInv
  <2> QED
    BY <2>2, <1>0 DEF ClockInv
<1>4. StoreInv'
  <2>1. /\ \A d \in Cal, g \in Href : <<d, g>> # <<c, h>> => Events(d, g)' = Events(d, g)
        /\ Events(c, h)' = live \cup cancelled
    BY <1>1 DEF Events
  <2>2. ASSUME NEW d \in Cal, NEW g \in Href
        PROVE  /\ store'[d][g].live \cap store'[d][g].cancelled = {}
               /\ store'[d][g].rev = 0 => Events(d, g)' = {}
               /\ \A e \in Cal, k \in Href :
                    <<e, k>> # <<d, g>> => Events(e, k)' \cap Events(d, g)' = {}
    <3>1. CASE <<d, g>> = <<c, h>>
      BY <3>1, <2>1, <1>0, <1>1
    <3>2. CASE <<d, g>> # <<c, h>>
      BY <3>2, <2>1, <1>1 DEF StoreInv, Stands
    <3> QED
      BY <3>1, <3>2
  <2> QED
    BY <2>2 DEF StoreInv, Stands, Events
<1>6. CoverInv'
  BY <1>0, <1>1 DEF CoverInv, Covered, Exact, Stands, Events, ClockInv
<1>7. FetchInv'
  BY <1>0, <1>1 DEF FetchInv, Exact, Stands, Events, ClockInv
<1>8. PhaseInv' /\ IdleInv' /\ RunInv' /\ DoneInv'
  BY DEF PhaseInv, IdleInv, RunInv, DoneInv, Agrees, Known
<1> QED
  BY <1>2, <1>3, <1>4, <1>6, <1>7, <1>8

\* Withdrawing is an edit to nothing; a change of subscriptions is no edit of a
\* resource.
LEMMA ServerStep ==
  ASSUME IInv, NEW c \in Cal,
         \/ \E h \in Href : Withdraw(c, h) \/ \E live, cancelled \in SUBSET Uid : Put(c, h, live, cancelled)
         \/ Leave(c) \/ Join(c)
  PROVE  IInv'
<1>1. ASSUME NEW h \in Href, Withdraw(c, h) PROVE IInv'
  <2> DEFINE none == {}
  <2>1. none \in SUBSET Uid /\ none \cap none = {} /\ none \cup none = {}
    OBVIOUS
  <2> QED
    BY <1>1, <2>1, EditStep DEF Withdraw
<1>2. ASSUME NEW h \in Href, NEW live \in SUBSET Uid, NEW cancelled \in SUBSET Uid,
             Put(c, h, live, cancelled)
      PROVE  IInv'
  BY <1>2, EditStep DEF Put
<1>3. ASSUME Leave(c) \/ Join(c) PROVE IInv'
  <2> USE LimitsNat DEF IInv
  <2>1. /\ clock \in Nat /\ clock' = clock + 1 /\ clock' \in Rev /\ listed' \subseteq Cal
        /\ UNCHANGED <<store, cursor, mirror, phase, at, agenda, work, token, changed,
                       records, missed, faults>>
    BY <1>3 DEF Leave, Join, Subscribe, TypeOK, Rev
  <2>2. TypeOK'
    BY <2>1 DEF TypeOK
  <2>3. ClockInv'
    <3>1. /\ \A d \in Cal, h \in Href : store[d][h].rev \in Int
          /\ \A d \in Cal : cursor[d].token \in Int /\ work[d].token \in Int
          /\ token \in Int
      BY DEF TypeOK, Resource, Entry, Rev, NoToken
    <3> QED
      BY <2>1, <3>1 DEF ClockInv
  <2>4. StoreInv' /\ CoverInv' /\ FetchInv'
    BY <2>1 DEF StoreInv, CoverInv, Covered, FetchInv, Exact, Stands, Events
  <2>5. PhaseInv' /\ IdleInv' /\ RunInv' /\ DoneInv'
    BY <2>1 DEF PhaseInv, IdleInv, RunInv, DoneInv, Agrees, Known
  <2> QED
    BY <2>2, <2>3, <2>4, <2>5
<1> QED
  BY <1>1, <1>2, <1>3

\* A run starts from the stored memory, with nothing said yet.
LEMMA StartStep ==
  ASSUME IInv, Start
  PROVE  IInv'
<1> USE DEF IInv, Start, server
<1>1. /\ at' \in Cal /\ agenda' = listed /\ phase' \in {"save", "report"}
      /\ phase' = "report" => at' \in agenda'
  BY Visited DEF TypeOK
<1>2. records = <<>>
  BY DEF PhaseInv
<1>3. TypeOK'
  BY <1>1 DEF TypeOK
<1>4. ClockInv' /\ StoreInv' /\ CoverInv' /\ FetchInv'
  BY <1>1 DEF ClockInv, StoreInv, CoverInv, Covered, FetchInv, Exact, Stands, Events
<1>5. PhaseInv'
  BY <1>1, <1>2 DEF PhaseInv
<1>6. \A u : ~ Said(records, u) /\ ~ Written(records, u)
  BY <1>2 DEF Said, Written
<1>7. IdleInv' /\ RunInv' /\ DoneInv'
  BY <1>1, <1>6 DEF IdleInv, RunInv, DoneInv, Agrees, Known
<1> QED
  BY <1>3, <1>4, <1>5, <1>7

\* The REPORT is refused: nothing is known yet.
LEMMA ReportUnsupportedStep ==
  ASSUME IInv, ReportUnsupported
  PROVE  IInv'
<1> USE LimitsNat DEF IInv, ReportUnsupported, server
<1>1. TypeOK'
  BY DEF TypeOK, Fault
<1>2. ClockInv' /\ StoreInv' /\ CoverInv' /\ FetchInv'
  BY DEF ClockInv, StoreInv, CoverInv, Covered, FetchInv, Exact, Stands, Events
<1>3. PhaseInv' /\ IdleInv' /\ RunInv' /\ DoneInv'
  BY DEF PhaseInv, IdleInv, RunInv, DoneInv, Agrees, Known
<1> QED
  BY <1>1, <1>2, <1>3

\* A memory that was never filled: nothing is known by it, and nothing covered.
LEMMA FreshMemory ==
  /\ Fresh \in [Cal -> Entry]
  /\ \A c \in Cal : Fresh[c].token = NoToken
  /\ \A u : ~ Known(Fresh, u)
  BY DEF Fresh, Entry, Known, NoToken

\* The server refuses the credentials: what the run holds is dropped.
LEMMA AuthRefusedStep ==
  ASSUME IInv, AuthRefused
  PROVE  IInv'
<1> USE LimitsNat, FreshMemory DEF IInv, AuthRefused, Discard, server
<1>1. TypeOK'
  BY NumCalPositive DEF TypeOK, Fault, Cal
<1>2. ClockInv' /\ StoreInv' /\ CoverInv' /\ FetchInv'
  <2>1. clock \in Nat /\ \A c \in Cal, h \in Href : store[c][h].rev \in Nat
    BY DEF TypeOK, Rev, Resource
  <2>2. ClockInv'
    BY <2>1 DEF ClockInv, NoToken
  <2>3. CoverInv'
    BY <2>1 DEF CoverInv, Covered, Exact, Stands, Events, NoToken
  <2> QED
    BY <2>2, <2>3 DEF StoreInv, FetchInv, Stands, Events
<1>3. PhaseInv' /\ IdleInv' /\ RunInv' /\ DoneInv'
  BY DEF PhaseInv, IdleInv, RunInv, DoneInv, Known
<1> QED
  BY <1>1, <1>2, <1>3

\* The memory is cleared: an id that still has a row is noted.
LEMMA ClearCursorStep ==
  ASSUME IInv, ClearCursor
  PROVE  IInv'
<1> USE FreshMemory DEF IInv, ClearCursor, server
<1>1. /\ missed' \in [Uid -> SUBSET Cause]
      /\ \A u \in Uid : missed[u] \subseteq missed'[u] /\ (u \in mirror => "reset" \in missed'[u])
  <2> DEFINE causes == [reset |-> mirror]
  <2>1. DOMAIN causes = {"reset"} /\ causes["reset"] = mirror /\ DOMAIN causes \subseteq Cause
    BY DEF Cause
  <2> QED
    BY <2>1, Noted
<1>2. TypeOK'
  BY <1>1 DEF TypeOK
<1>3. ClockInv' /\ StoreInv' /\ CoverInv' /\ FetchInv'
  <2>1. clock \in Nat /\ \A c \in Cal, h \in Href : store[c][h].rev \in Nat
    BY DEF TypeOK, Rev, Resource
  <2>2. ClockInv'
    BY <2>1 DEF ClockInv, NoToken
  <2>0. \A c \in Cal, h \in Href : work[c].items[h] \subseteq Uid
    BY DEF TypeOK, Entry
  <2>3. \A c \in Cal : Covered(work[c], c)'
    BY <1>1, <2>0 DEF CoverInv, Covered, Exact, Stands, Events
  <2>4. CoverInv'
    BY <2>1, <2>3 DEF CoverInv, Covered, NoToken
  <2> QED
    BY <2>2, <2>4 DEF StoreInv, FetchInv, Stands, Events
<1>4. PhaseInv' /\ RunInv' /\ DoneInv'
  BY DEF PhaseInv, RunInv, DoneInv
<1>5. IdleInv'
  BY <1>1 DEF IdleInv
<1> QED
  BY <1>2, <1>3, <1>4, <1>5

\* The run's memory becomes the stored one.
LEMMA SaveCursorStep ==
  ASSUME IInv, SaveCursor
  PROVE  IInv'
<1> USE FreshMemory DEF IInv, SaveCursor, server
<1>1. TypeOK'
  BY DEF TypeOK
<1>2. ClockInv' /\ StoreInv' /\ CoverInv' /\ FetchInv'
  <2>1. clock \in Nat /\ \A c \in Cal, h \in Href : store[c][h].rev \in Nat
    BY DEF TypeOK, Rev, Resource
  <2>2. ClockInv'
    BY <2>1 DEF ClockInv, NoToken
  <2>3. CoverInv'
    BY <2>1 DEF CoverInv, Covered, Exact, Stands, Events, NoToken
  <2> QED
    BY <2>2, <2>3 DEF StoreInv, FetchInv, Stands, Events
<1>3. PhaseInv' /\ IdleInv' /\ RunInv' /\ DoneInv'
  BY DEF PhaseInv, IdleInv, RunInv, DoneInv, Agrees, Known
<1> QED
  BY <1>1, <1>2, <1>3

\* Nothing is left to apply: what no record names is right.
LEMMA FinishStep ==
  ASSUME IInv, Finish
  PROVE  IInv'
<1> USE DEF IInv, Finish, server
<1>1. TypeOK'
  BY DEF TypeOK
<1>2. ClockInv' /\ StoreInv' /\ CoverInv' /\ FetchInv'
  BY DEF ClockInv, StoreInv, CoverInv, Covered, FetchInv, Exact, Stands, Events
<1>3. \A u : ~ Said(records, u)
  BY DEF Said
<1>4. PhaseInv' /\ IdleInv' /\ RunInv' /\ DoneInv'
  BY <1>3 DEF PhaseInv, IdleInv, RunInv, DoneInv, Agrees, Known
<1> QED
  BY <1>1, <1>2, <1>4

\* What is held by no record any more is noted, or was never said.
LEMMA FailStep ==
  ASSUME IInv, Fail
  PROVE  IInv'
<1> USE LimitsNat, FreshMemory DEF IInv, Fail, Discard, server
<1> DEFINE causes == [abandoned |-> IF phase = "apply" THEN UNION {Ids(g) : g \in ToSet(records)} ELSE {}]
<1>1. /\ missed' \in [Uid -> SUBSET Cause]
      /\ \A u \in Uid : /\ missed[u] \subseteq missed'[u]
                        /\ u \in causes["abandoned"] => "abandoned" \in missed'[u]
  <2>1. DOMAIN causes = {"abandoned"} /\ DOMAIN causes \subseteq Cause
    BY DEF Cause
  <2>2. Miss(causes)
    OBVIOUS
  <2> HIDE DEF causes
  <2> QED
    BY <2>1, <2>2, Noted
<1>2. phase = "apply" => \A u \in Uid : Said(records, u) => u \in causes["abandoned"]
  <2> SUFFICES ASSUME phase = "apply", NEW u \in Uid, NEW i \in 1 .. Len(records), u \in Ids(records[i])
               PROVE  u \in causes["abandoned"]
    BY DEF Said
  <2>1. records[i] \in ToSet(records)
    BY DEF ToSet, TypeOK
  <2> QED
    BY <2>1
<1> HIDE DEF causes
<1>3. TypeOK'
  BY <1>1, NumCalPositive DEF TypeOK, Fault, Cal
<1>4. ClockInv' /\ StoreInv' /\ CoverInv' /\ FetchInv'
  <2>1. clock \in Nat /\ \A c \in Cal, h \in Href : store[c][h].rev \in Nat
    BY DEF TypeOK, Rev, Resource
  <2>2. ClockInv'
    BY <2>1 DEF ClockInv, NoToken
  <2>3. \A c \in Cal, h \in Href : cursor[c].items[h] \subseteq Uid
    BY DEF TypeOK, Entry
  <2>4. CoverInv'
    BY <1>1, <2>1, <2>3 DEF CoverInv, Covered, Exact, Stands, Events, NoToken
  <2> QED
    BY <2>2, <2>4 DEF StoreInv, FetchInv, Stands, Events
<1>5. PhaseInv' /\ RunInv' /\ DoneInv'
  BY DEF PhaseInv, RunInv, DoneInv
<1>6. IdleInv'
  BY <1>1, <1>2 DEF IdleInv, RunInv, Agrees, Known
<1> QED
  BY <1>3, <1>4, <1>5, <1>6

\* A record is applied: the last one about an id leaves its row as remembered.
LEMMA ApplyStep ==
  ASSUME IInv, Apply
  PROVE  IInv'
<1> USE DEF IInv, server
<1>1. PICK rec \in Head(records) :
        /\ records' = Without(records, rec)
        /\ IF rec.deleted
           THEN mirror' = mirror \ {rec.uid} /\ UNCHANGED missed
           ELSE /\ mirror' = mirror \cup {rec.uid}
                /\ missed' = [missed EXCEPT ![rec.uid] = @ \ {"trimmed", "reset", "abandoned"}]
  BY DEF Apply, Without
<1>2. /\ phase = "apply" /\ records # <<>> /\ records \in Seq(SUBSET Record)
      /\ UNCHANGED <<server, cursor, phase, at, agenda, work, token, changed, faults>>
  BY DEF Apply, TypeOK
<1>3. rec \in Record /\ rec.uid \in Uid
  BY <1>2 DEF Record
<1>4. /\ missed' \in [Uid -> SUBSET Cause]
      /\ \A u \in Uid : /\ missed'[u] \cap {"moved", "blind"} = missed[u] \cap {"moved", "blind"}
                        /\ u # rec.uid => missed'[u] = missed[u]
  BY <1>1, <1>3 DEF TypeOK
<1>5. \A u \in Uid :
        /\ records' \in Seq(SUBSET Record)
        /\ \A i \in 1 .. Len(records') : Single(records'[i])
        /\ u # rec.uid => (Said(records', u) <=> Said(records, u))
        /\ Said(records', u) => Said(records, u)
        /\ Said(records', u) => (Written(records', u) <=> Written(records, u))
        /\ u = rec.uid => /\ Said(records, u)
                          /\ ~ Said(records', u) => (Written(records, u) <=> ~ rec.deleted)
  <2> TAKE u \in Uid
  <2>1. \A i \in 1 .. Len(records) : Single(records[i])
    BY DEF PhaseInv
  <2> QED
    BY <1>1, <1>2, <2>1, TakenOff
<1>6. TypeOK'
  BY <1>1, <1>2, <1>3, <1>4, <1>5 DEF TypeOK
<1>7. ClockInv' /\ StoreInv' /\ FetchInv' /\ DoneInv' /\ IdleInv' /\ PhaseInv'
  BY <1>2, <1>3, <1>5 DEF ClockInv, StoreInv, FetchInv, DoneInv, IdleInv, PhaseInv, Stands, Events
<1>8. CoverInv'
  <2>1. \A c \in Cal, h \in Href : work[c].items[h] \subseteq Uid /\ cursor[c].items[h] \subseteq Uid
    BY DEF TypeOK, Entry
  <2>2. \A u \in Uid : "blind" \in missed[u] => "blind" \in missed'[u]
    BY <1>4
  <2> QED
    BY <1>2, <2>1, <2>2 DEF CoverInv, Covered, Exact, Stands, Events
<1>9. RunInv'
  <2> SUFFICES ASSUME NEW u \in Uid
               PROVE /\ Said(records', u) /\ missed'[u] \cap {"moved", "blind"} = {} =>
                          (Written(records', u) <=> Known(cursor, u))
                     /\ ~ Said(records', u) /\ missed'[u] = {} => (u \in mirror' <=> Known(cursor, u))
    BY <1>2 DEF RunInv, Agrees, Known
  <2>1. /\ Said(records, u) /\ missed[u] \cap {"moved", "blind"} = {} =>
             (Written(records, u) <=> Known(cursor, u))
        /\ ~ Said(records, u) /\ missed[u] = {} => (u \in mirror <=> Known(cursor, u))
    BY <1>2 DEF RunInv, Agrees
  <2>2. CASE u # rec.uid
    <3>1. u \in mirror' <=> u \in mirror
      BY <1>1, <2>2
    <3> QED
      BY <2>1, <2>2, <3>1, <1>4, <1>5
  <2>3. CASE u = rec.uid
    <3>1. u \in mirror' <=> ~ rec.deleted
      BY <1>1, <2>3
    <3>2. missed'[u] = {} => missed[u] \cap {"moved", "blind"} = {}
      BY <1>4
    <3> QED
      BY <2>1, <2>3, <3>1, <3>2, <1>4, <1>5
  <2> QED
    BY <2>2, <2>3
<1> QED
  BY <1>6, <1>7, <1>8, <1>9

\* What a REPORT does not name is in the memory, or blind; what it takes out of
\* the memory it says.
LEMMA ReportStep ==
  ASSUME IInv, Report
  PROVE  IInv'
<1> USE DEF IInv
<1> DEFINE since  == work[at].token
           items  == work[at].items
           known  == {h \in Href : store[at][h].rev > 0 /\ store[at][h].rev > since}
           stands == {h \in known : Stands(at, h)}
           gone   == IF since = NoToken THEN {} ELSE known \ stands
           dead   == UNION {items[h] : h \in gone}
           unseen == IF since = NoToken THEN {h \in Href : ~Stands(at, h)} ELSE {}
           left   == PopItems(items, gone)
           group  == Tombs(dead)
           causes == [moved |-> dead \cap Held(left), blind |-> UNION {items[h] : h \in unseen}]
<1>1. /\ clock \in Rev /\ clock \in Nat /\ at \in Cal /\ at \in agenda /\ agenda \subseteq Cal
      /\ since \in Rev \cup {NoToken} /\ (since = NoToken \/ since \in Nat) /\ NoToken = -1
      /\ items \in [Href -> SUBSET Uid] /\ left \in [Href -> SUBSET Uid]
      /\ known \subseteq Href /\ stands \subseteq Href /\ gone \subseteq Href
      /\ dead \in SUBSET Uid /\ work \in [Cal -> Entry]
      /\ \A c \in Cal, h \in Href : store[c][h].rev \in Nat
  BY DEF Report, TypeOK, Entry, Resource, Rev, PhaseInv, PopItems, NoToken
<1>2. /\ missed' \in [Uid -> SUBSET Cause]
      /\ \A u \in Uid : /\ missed[u] \subseteq missed'[u]
                        /\ u \in dead \cap Held(left) => "moved" \in missed'[u]
                        /\ u \in UNION {items[h] : h \in unseen} => "blind" \in missed'[u]
  <2>1. /\ DOMAIN causes = {"moved", "blind"} /\ DOMAIN causes \subseteq Cause
        /\ causes["moved"] = dead \cap Held(left)
        /\ causes["blind"] = UNION {items[h] : h \in unseen}
    BY DEF Cause
  <2>2. Miss(causes)
    BY DEF Report
  <2> HIDE DEF causes, dead, left, unseen, items
  <2> QED
    BY <2>1, <2>2, Noted
<1>3. /\ phase = "report" /\ UNCHANGED <<server, cursor, mirror, faults>>
      /\ records' = IF group = {} THEN records ELSE Append(records, group)
      /\ \/ /\ stands = {} /\ Visit(agenda \ {at}) /\ token' = NoToken /\ changed' = {}
            /\ work' = [work EXCEPT ![at] = [token |-> clock, items |-> left]]
         \/ /\ stands # {} /\ phase' = "fetch" /\ token' = clock /\ changed' = stands
            /\ work' = [work EXCEPT ![at].items = left] /\ UNCHANGED <<at, agenda>>
  <2>1. dead = {} <=> Tombs(dead) = {}
    <3>1. {} \in SUBSET Uid
      OBVIOUS
    <3> HIDE DEF dead
    <3>2. ASSUME NEW u \in dead PROVE [uid |-> u, deleted |-> TRUE] \in Tombs(dead)
      BY DEF Tombs
    <3>3. dead = {} => Tombs(dead) = {}
      BY DEF Tombs
    <3> QED
      BY <3>2, <3>3
  <2> QED
    BY <2>1 DEF Report, NextCalendar
<1>4. /\ work' \in [Cal -> Entry]
      /\ \A c \in Cal : c # at => work'[c] = work[c]
      /\ work'[at].items = left
      /\ work'[at].token = IF stands = {} THEN clock ELSE since
  <2> DEFINE full == [token |-> clock, items |-> left]
  <2>1. full \in Entry /\ [work[at] EXCEPT !.items = left] \in Entry
    BY <1>1 DEF Entry
  <2>2. full.items = left /\ full.token = clock
    OBVIOUS
  <2>3. /\ [work[at] EXCEPT !.items = left].items = left
        /\ [work[at] EXCEPT !.items = left].token = work[at].token
    BY <1>1 DEF Entry
  <2> HIDE DEF left, stands, full
  <2>4. CASE stands = {} /\ work' = [work EXCEPT ![at] = full]
    BY <1>1, <2>1, <2>2, <2>4
  <2>5. CASE stands # {} /\ work' = [work EXCEPT ![at].items = left]
    <3>1. work' = [work EXCEPT ![at] = [work[at] EXCEPT !.items = left]]
      BY <2>5, <1>1
    <3> QED
      BY <1>1, <2>1, <2>3, <2>5, <3>1
  <2> QED
    BY <2>4, <2>5, <1>3 DEF full
<1>5. ASSUME NEW h \in Href, h \notin stands
      PROVE  \/ left[h] = store[at][h].live
             \/ ~ Stands(at, h) /\ \A u \in left[h] : "blind" \in missed'[u]
  <2>1. ~ Stands(at, h) => store[at][h].live = {}
    BY DEF Stands, Events
  <2>2. left[h] = IF h \in gone THEN {} ELSE items[h]
    BY DEF PopItems
  <2>3. CASE since = NoToken /\ ~ Stands(at, h)
    <3>1. h \in unseen /\ left[h] = items[h]
      BY <2>2, <2>3
    <3>2. \A u \in items[h] : u \in Uid /\ u \in UNION {items[g] : g \in unseen}
      BY <3>1, <1>1
    <3> QED
      BY <3>1, <3>2, <2>3, <1>2
  <2>4. CASE since = NoToken /\ Stands(at, h)
    <3>1. store[at][h].rev > 0
      BY <2>4, <1>1 DEF StoreInv
    <3> QED
      BY <3>1, <2>4, <1>1, <1>5
  <2>5. CASE since # NoToken /\ h \in known
    BY <2>1, <2>2, <2>5, <1>5
  <2>6. CASE since # NoToken /\ h \notin known
    <3>1. store[at][h].rev <= since
      BY <2>6, <1>1
    <3>2. Exact(items, at, h)
      BY <3>1, <1>1 DEF CoverInv, Covered
    <3>3. left[h] = items[h] /\ items[h] \subseteq Uid
      BY <2>2, <2>6, <1>1
    <3> QED
      BY <3>2, <3>3, <1>2 DEF Exact
  <2> QED
    BY <2>3, <2>4, <2>5, <2>6
<1>6. group \in SUBSET Record /\ Single(group)
      /\ \A u \in Uid : (u \in Ids(group) <=> u \in dead) /\ [uid |-> u, deleted |-> FALSE] \notin group
  <2>1. dead \in SUBSET Uid
    BY <1>1
  <2> DEFINE none == {}
  <2>2. none \in SUBSET Uid /\ none \cap dead = {} /\ Upserts(none) \cup Tombs(dead) = Tombs(dead)
    BY DEF Upserts
  <2> HIDE DEF dead
  <2>3. group \in SUBSET Record
    BY <2>1 DEF Tombs, Record
  <2>4. ASSUME NEW u \in Uid
        PROVE  /\ Single(Upserts(none) \cup Tombs(dead))
               /\ u \in Ids(Upserts(none) \cup Tombs(dead)) <=> u \in none \/ u \in dead
               /\ [uid |-> u, deleted |-> FALSE] \in Upserts(none) \cup Tombs(dead) <=> u \in none
    BY <2>1, <2>2, Groups
  <2>5. Single(group)
    BY <2>1, <2>2, <2>4 DEF Single, Tombs
  <2> QED
    BY <2>2, <2>3, <2>4, <2>5
<1>7. \A u \in Uid : /\ Known(work', u) => u \in Held(left)
                     /\ u \notin dead => (Known(work', u) <=> Known(work, u))
  <2> TAKE u \in Uid
  <2>1. Known(work', u) => u \in Held(left)
    BY <1>4, HeldIsKnown
  <2>2. \A h \in Href : u \notin dead => (u \in left[h] <=> u \in items[h])
    BY DEF PopItems
  <2>3. u \notin dead => (Known(work', u) <=> Known(work, u))
    BY <2>2, <1>1, <1>4 DEF Known
  <2> QED
    BY <2>1, <2>3
<1> HIDE DEF since, items, known, gone, dead, unseen, left, group, causes
<1>8. /\ at' \in Cal /\ agenda' \subseteq Cal /\ phase' \in {"save", "report", "fetch"}
      /\ phase' \in {"report", "fetch"} => at' \in agenda'
  BY <1>1, <1>3, Visited
<1>9. /\ records' \in Seq(SUBSET Record)
      /\ \A u \in Uid : Written(records', u) =>
           u \notin Ids(group) /\ Written(records, u)
  <2>1. ASSUME NEW u \in Uid
        PROVE  /\ records' \in Seq(SUBSET Record)
               /\ Written(records', u) => u \notin Ids(group) /\ Written(records, u)
    BY <1>3, <1>6, Appended DEF TypeOK
  <2>2. records' \in Seq(SUBSET Record)
    BY <1>3, <1>6 DEF TypeOK
  <2> QED
    BY <2>1, <2>2
<1>10. TypeOK'
  <2>1. token' \in Rev \cup {NoToken} /\ changed' \subseteq Href
    BY <1>1, <1>3
  <2> QED
    BY <2>1, <1>2, <1>3, <1>4, <1>8, <1>9 DEF TypeOK, server
<1>11. ClockInv' /\ StoreInv'
  <2>1. \A c \in Cal : work'[c].token <= clock
    BY <1>1, <1>4 DEF ClockInv, since
  <2>2. token' <= clock
    BY <1>1, <1>3
  <2> QED
    BY <2>1, <2>2, <1>3 DEF ClockInv, StoreInv, Stands, Events, server
<1>12. CoverInv'
  <2>1. \A c \in Cal, h \in Href : work[c].items[h] \subseteq Uid /\ cursor[c].items[h] \subseteq Uid
    BY DEF TypeOK, Entry
  <2>2. \A c \in Cal : Covered(cursor[c], c)'
    BY <2>1, <1>2, <1>3 DEF CoverInv, Covered, Exact, Stands, Events, server
  <2>3. ASSUME NEW c \in Cal, c # at PROVE Covered(work[c], c)'
    BY <2>1, <2>3, <1>2, <1>3, <1>4 DEF CoverInv, Covered, Exact, Stands, Events, server
  <2>4. ASSUME NEW h \in Href, store[at][h].rev <= work'[at].token
        PROVE  \/ left[h] = store[at][h].live
               \/ ~ Stands(at, h) /\ \A u \in left[h] : "blind" \in missed'[u]
    <3>1. h \notin stands
      <4>1. CASE stands = {}
        BY <4>1
      <4>2. CASE stands # {}
        BY <4>2, <2>4, <1>1, <1>4 DEF since, known
      <4> QED
        BY <4>1, <4>2
    <3> QED
      BY <3>1, <1>5
  <2>5. ASSUME NEW c \in Cal, c = at PROVE Covered(work[c], c)'
    <3>1. work'[c].items = left /\ work'[c].token = work'[at].token /\ store' = store
      BY <2>5, <1>3, <1>4 DEF server
    <3> QED
      BY <2>4, <2>5, <3>1 DEF Covered, Exact, Stands, Events
  <2> QED
    BY <2>2, <2>3, <2>5 DEF CoverInv
<1>13. FetchInv'
  <2> SUFFICES ASSUME phase' = "fetch", NEW h \in Href
               PROVE  IF h \in changed' THEN Stands(at, h)' ELSE Exact(work[at].items, at, h)'
    BY DEF FetchInv
  <2>1. at' = at /\ changed' = stands /\ store' = store
    BY <1>1, <1>3, <1>8, Visited DEF server
  <2>2. h \in stands => Stands(at, h)
    OBVIOUS
  <2> HIDE DEF stands
  <2> QED
    BY <2>1, <2>2, <1>4, <1>5 DEF Exact, Stands, Events
<1>14. PhaseInv'
  <2>1. \A i \in 1 .. Len(records') : Single(records'[i])
    BY <1>3, <1>6 DEF PhaseInv, TypeOK
  <2> QED
    BY <2>1, <1>8 DEF PhaseInv
<1>15. IdleInv'
  <2>1. \A u \in Uid : missed'[u] = {} => missed[u] = {}
    BY <1>2
  <2> QED
    BY <2>1, <1>3 DEF IdleInv, Known
<1>16. RunInv'
  <2>1. Agrees(work)
    BY <1>3 DEF RunInv
  <2>2. Agrees(work)'
    BY <2>1, <1>2, <1>3, <1>6, <1>7, StillAgrees
  <2> QED
    BY <2>2, <1>8 DEF RunInv
<1>17. DoneInv'
  <2> SUFFICES ASSUME NEW u \in Uid, Written(records', u)
               PROVE  \E c \in Cal \ agenda', h \in Href : u \in work'[c].items[h]
    BY DEF DoneInv
  <2>1. PICK c \in Cal \ agenda, h \in Href : u \in work[c].items[h]
    BY <1>3, <1>9 DEF DoneInv
  <2>2. c # at /\ c \notin agenda' /\ work'[c] = work[c]
    BY <2>1, <1>1, <1>3, <1>4 DEF Visit
  <2> QED
    BY <2>1, <2>2
<1> QED
  BY <1>10, <1>11, <1>12, <1>13, <1>14, <1>15, <1>16, <1>17

\* A resource listed anew is remembered by its live events, which are upserted;
\* its cancelled ones are tombstones.
LEMMA RelistStep ==
  ASSUME IInv, phase \in {"fetch", "query"}, NEW hrefs \in SUBSET Href,
         NEW newToken \in Rev \cup {NoToken}, newToken <= clock, Relist(hrefs, newToken),
         UNCHANGED <<server, cursor, mirror, faults>>,
         \A h \in Href : store[at][h].rev <= newToken =>
           IF h \in hrefs THEN Stands(at, h) ELSE Exact(work[at].items, at, h)
  PROVE  IInv'
<1> USE DEF IInv
<1> DEFINE found     == {h \in hrefs : Stands(at, h)}
           items     == [h \in Href |-> IF h \in found THEN store[at][h].live ELSE work[at].items[h]]
           live      == UNION {store[at][h].live : h \in found}
           cancelled == UNION {store[at][h].cancelled : h \in found}
           dropped   == UNION {work[at].items[h] \ Events(at, h) : h \in found}
           group     == Upserts(live) \cup Tombs(cancelled)
           causes    == [moved |-> cancelled \cap Held(items), trimmed |-> dropped]
           entry     == [token |-> newToken, items |-> items]
<1>1. /\ clock \in Rev /\ at \in Cal /\ at \in agenda /\ agenda \subseteq Cal
      /\ work \in [Cal -> Entry] /\ found \subseteq Href
      /\ \A h \in Href : /\ store[at][h].live \subseteq Uid /\ store[at][h].cancelled \subseteq Uid
                         /\ work[at].items[h] \subseteq Uid
  BY DEF TypeOK, PhaseInv, Resource, Entry
<1>2. items \in [Href -> SUBSET Uid] /\ entry \in Entry /\ entry.items = items /\ entry.token = newToken
  BY <1>1 DEF Entry
<1>3. live \in SUBSET Uid /\ cancelled \in SUBSET Uid /\ live \cap cancelled = {}
  <2>1. ASSUME NEW h \in found, NEW g \in found
        PROVE  store[at][h].live \cap store[at][g].cancelled = {}
    <3>1. CASE h = g
      BY <3>1, <1>1 DEF StoreInv
    <3>2. CASE h # g
      <4>1. <<at, h>> # <<at, g>>
        BY <3>2
      <4>2. Events(at, h) \cap Events(at, g) = {}
        BY <4>1, <1>1 DEF StoreInv
      <4> QED
        BY <4>2 DEF Events
    <3> QED
      BY <3>1, <3>2
  <2>2. live \cap cancelled = {}
    <3> HIDE DEF found
    <3> QED
      BY <2>1
  <2> QED
    BY <2>2, <1>1
<1>4. /\ missed' \in [Uid -> SUBSET Cause]
      /\ \A u \in Uid : /\ missed[u] \subseteq missed'[u]
                        /\ u \in cancelled \cap Held(items) => "moved" \in missed'[u]
                        /\ u \in dropped => "trimmed" \in missed'[u]
  <2>1. /\ DOMAIN causes = {"moved", "trimmed"} /\ DOMAIN causes \subseteq Cause
        /\ causes["moved"] = cancelled \cap Held(items) /\ causes["trimmed"] = dropped
    BY DEF Cause
  <2>2. Miss(causes)
    BY DEF Relist
  <2> HIDE DEF causes, cancelled, items, dropped
  <2> QED
    BY <2>1, <2>2, Noted
<1>5. /\ work' = [work EXCEPT ![at] = entry]
      /\ records' = IF group = {} THEN records ELSE Append(records, group)
      /\ token' = NoToken /\ changed' = {} /\ Visit(agenda \ {at})
  BY DEF Relist, NextCalendar
<1>6. /\ group \in SUBSET Record /\ Single(group)
      /\ \A u \in Uid : /\ u \in Ids(group) <=> u \in live \/ u \in cancelled
                        /\ [uid |-> u, deleted |-> FALSE] \in group <=> u \in live
  <2> HIDE DEF live, cancelled
  <2>1. group \in SUBSET Record
    BY <1>3 DEF Upserts, Tombs, Record
  <2>2. ASSUME NEW u \in Uid
        PROVE  /\ u \in Ids(group) <=> u \in live \/ u \in cancelled
               /\ [uid |-> u, deleted |-> FALSE] \in group <=> u \in live
    BY <1>3, Groups
  <2>3. Single(group)
    <3>1. CASE Uid = {}
      BY <3>1, <2>1 DEF Single, Record
    <3>2. CASE Uid # {}
      BY <3>2, <1>3, Groups
    <3> QED
      BY <3>1, <3>2
  <2> QED
    BY <2>1, <2>2, <2>3
<1>7. /\ work' \in [Cal -> Entry]
      /\ \A c \in Cal : c # at => work'[c] = work[c]
      /\ work'[at].items = items /\ work'[at].token = newToken
  <2> HIDE DEF entry
  <2> QED
    BY <1>1, <1>2, <1>5
<1>8. ASSUME NEW u \in Uid
      PROVE  /\ u \in live => Known(work', u)
             /\ Known(work', u) => u \in Held(items)
             /\ u \notin live /\ u \notin cancelled /\ Known(work', u) => Known(work, u)
             /\ u \notin live /\ u \notin cancelled /\ Known(work, u) /\ ~ Known(work', u)
                  => u \in dropped
  <2>1. u \in live => Known(work', u)
    BY <1>1, <1>7 DEF Known
  <2>2. Known(work', u) => u \in Held(items)
    BY <1>7, HeldIsKnown
  <2>3. ASSUME u \notin live, u \notin cancelled, NEW h \in Href
        PROVE  /\ u \in items[h] => u \in work[at].items[h]
               /\ u \in work[at].items[h] /\ u \notin items[h] => u \in dropped
    BY <2>3 DEF Events
  <2>4. u \notin live /\ u \notin cancelled /\ Known(work', u) => Known(work, u)
    BY <2>3, <1>1, <1>7 DEF Known
  <2>5. u \notin live /\ u \notin cancelled /\ Known(work, u) /\ ~ Known(work', u) => u \in dropped
    <3> HIDE DEF live, cancelled, dropped
    <3> QED
      BY <2>3, <1>1, <1>7 DEF Known
  <2> QED
    BY <2>1, <2>2, <2>4, <2>5
<1>9. ASSUME NEW u \in Uid, Written(records, u)
      PROVE  \E c \in Cal \ agenda, h \in Href : c # at /\ u \in work'[c].items[h]
  <2>1. PICK c \in Cal \ agenda, h \in Href : u \in work[c].items[h]
    BY <1>9 DEF DoneInv
  <2> QED
    BY <2>1, <1>1, <1>7
<1>10. ASSUME NEW h \in Href, store[at][h].rev <= newToken
       PROVE  \/ items[h] = store[at][h].live
              \/ ~ Stands(at, h) /\ \A u \in items[h] : "blind" \in missed'[u]
  <2>1. CASE h \in hrefs
    BY <2>1, <1>10
  <2>2. CASE h \notin hrefs
    BY <2>2, <1>1, <1>4, <1>10 DEF Exact
  <2> QED
    BY <2>1, <2>2
<1> HIDE DEF found, items, live, cancelled, dropped, group, causes, entry
<1>11. /\ at' \in Cal /\ agenda' = agenda \ {at} /\ agenda' \subseteq Cal
       /\ phase' \in {"save", "report"}
       /\ phase' = "report" => at' \in agenda'
  BY <1>1, <1>5, Visited
<1>12. /\ records' \in Seq(SUBSET Record)
       /\ \A i \in 1 .. Len(records') : Single(records'[i])
  BY <1>5, <1>6 DEF TypeOK, PhaseInv
<1>13. TypeOK'
  BY <1>4, <1>5, <1>7, <1>11, <1>12 DEF TypeOK, server
<1>14. ClockInv' /\ StoreInv' /\ FetchInv'
  <2>1. \A c \in Cal : work'[c].token <= clock
    BY <1>1, <1>7 DEF ClockInv
  <2>2. token' <= clock
    BY <1>1, <1>5 DEF Rev, NoToken
  <2> QED
    BY <2>1, <2>2, <1>11 DEF ClockInv, StoreInv, FetchInv, Stands, Events, server
<1>15. CoverInv'
  <2>1. \A c \in Cal, h \in Href : work[c].items[h] \subseteq Uid /\ cursor[c].items[h] \subseteq Uid
    BY DEF TypeOK, Entry
  <2>2. \A c \in Cal : Covered(cursor[c], c)'
    BY <2>1, <1>4 DEF CoverInv, Covered, Exact, Stands, Events, server
  <2>3. ASSUME NEW c \in Cal, c # at PROVE Covered(work[c], c)'
    BY <2>1, <2>3, <1>4, <1>7 DEF CoverInv, Covered, Exact, Stands, Events, server
  <2>4. ASSUME NEW c \in Cal, c = at PROVE Covered(work[c], c)'
    BY <2>4, <1>7, <1>10 DEF Covered, Exact, Stands, Events, server
  <2> QED
    BY <2>2, <2>3, <2>4 DEF CoverInv
<1>16. PhaseInv'
  BY <1>11, <1>12 DEF PhaseInv
<1>17. IdleInv'
  <2>1. \A u \in Uid : missed'[u] = {} => missed[u] = {}
    BY <1>4
  <2> QED
    BY <2>1 DEF IdleInv, Known
<1>18. RunInv'
  <2>1. Agrees(work)
    BY DEF RunInv
  <2>2. \A u \in Uid :
          /\ [uid |-> u, deleted |-> FALSE] \in group => Known(work', u)
          /\ u \in Ids(group) /\ [uid |-> u, deleted |-> FALSE] \notin group /\ Known(work', u)
               => "moved" \in missed'[u]
          /\ u \notin Ids(group) /\ Known(work', u) => Known(work, u)
          /\ u \notin Ids(group) /\ Known(work, u) /\ ~ Known(work', u)
               => missed'[u] # {} /\ ~ Written(records, u)
    <3> TAKE u \in Uid
    <3>1. ~ Known(work', u) => ~ Written(records, u)
      BY <1>9 DEF Known
    <3> QED
      BY <3>1, <1>4, <1>6, <1>8
  <2>3. Agrees(work)'
    BY <2>1, <2>2, <1>4, <1>5, <1>6, StillAgrees
  <2> QED
    BY <2>3, <1>11 DEF RunInv
<1>19. DoneInv'
  <2> SUFFICES ASSUME NEW u \in Uid, Written(records', u)
               PROVE  \E c \in Cal \ agenda', h \in Href : u \in work'[c].items[h]
    BY DEF DoneInv
  <2>1. \/ [uid |-> u, deleted |-> FALSE] \in group
        \/ u \notin Ids(group) /\ Written(records, u)
    BY <1>5, <1>6, Appended DEF TypeOK
  <2>2. CASE u \in live
    <3>1. PICK h \in found : u \in store[at][h].live
      BY <2>2 DEF live
    <3>2. h \in Href /\ u \in items[h]
      BY <3>1, <1>1 DEF items
    <3> QED
      BY <3>2, <1>1, <1>7, <1>11
  <2>3. CASE Written(records, u)
    BY <2>3, <1>9, <1>11
  <2> QED
    BY <2>1, <2>2, <2>3, <1>6
<1> QED
  BY <1>13, <1>14, <1>15, <1>16, <1>17, <1>18, <1>19

\* The multiget answers for the hrefs the REPORT named, at the REPORT's token.
LEMMA FetchStep ==
  ASSUME IInv, Fetch
  PROVE  IInv'
<1>1. phase = "fetch" /\ Relist(changed, token) /\ UNCHANGED <<server, cursor, mirror, faults>>
  BY DEF Fetch
<1>2. changed \in SUBSET Href /\ token \in Rev \cup {NoToken} /\ token <= clock
  BY DEF IInv, TypeOK, ClockInv
<1>3. \A h \in Href : store[at][h].rev <= token =>
        IF h \in changed THEN Stands(at, h) ELSE Exact(work[at].items, at, h)
  BY <1>1 DEF IInv, FetchInv
<1> QED
  BY <1>1, <1>2, <1>3, RelistStep

\* A query lists all hrefs, and stores no token that could cover anything.
LEMMA QueryStep ==
  ASSUME IInv, Query
  PROVE  IInv'
<1>1. phase = "query" /\ Relist(Href, NoToken) /\ UNCHANGED <<server, cursor, mirror, faults>>
  BY DEF Query
<1>2. at \in Cal /\ clock \in Nat /\ \A h \in Href : store[at][h].rev \in Nat
  BY DEF IInv, TypeOK, Rev, Resource
<1>3. NoToken <= clock /\ \A h \in Href : ~ (store[at][h].rev <= NoToken)
  BY <1>2 DEF NoToken
<1>4. Href \in SUBSET Href /\ NoToken \in Rev \cup {NoToken}
  OBVIOUS
<1> QED
  BY <1>1, <1>3, <1>4, RelistStep

\* One case per action of Next.
LEMMA NextIInv == IInv /\ [Next]_vars => IInv'
<1> SUFFICES ASSUME IInv, [Next]_vars PROVE IInv'
  OBVIOUS
<1>1. CASE \/ \E c \in Cal, h \in Href :
                Withdraw(c, h) \/ \E live, cancelled \in SUBSET Uid : Put(c, h, live, cancelled)
           \/ \E c \in Cal : Leave(c) \/ Join(c)
  BY <1>1, ServerStep
<1>2. CASE RunStep
  BY <1>2, StartStep, ReportStep, FetchStep, QueryStep, ClearCursorStep, SaveCursorStep,
     ApplyStep, FinishStep DEF RunStep
<1>3. CASE ReportUnsupported \/ AuthRefused \/ Fail
  BY <1>3, ReportUnsupportedStep, AuthRefusedStep, FailStep
<1>4. CASE UNCHANGED vars
  <2> USE <1>4 DEF vars, server, IInv
  <2>1. TypeOK' /\ ClockInv' /\ PhaseInv'
    BY DEF TypeOK, ClockInv, PhaseInv
  <2>2. StoreInv' /\ CoverInv' /\ FetchInv'
    BY DEF StoreInv, CoverInv, Covered, FetchInv, Exact, Stands, Events
  <2>3. IdleInv' /\ RunInv' /\ DoneInv'
    BY DEF IdleInv, RunInv, DoneInv, Agrees, Known
  <2> QED
    BY <2>1, <2>2, <2>3
<1> QED
  BY <1>1, <1>2, <1>3, <1>4 DEF Next

(* The connector keeps its inductive invariant, for any calendars and ids and  *)
(* wherever edits, refusals and failures fall.                                 *)
THEOREM CalDavInvariance == Spec => []IInv
<1>1. QED
  BY InitIInv, NextIInv, PTL DEF Spec

(* Every variable keeps its type: the memory holds ids, a batch records.       *)
THEOREM CalDavTypeCorrect == Spec => []TypeOK
<1>1. IInv => TypeOK
  BY DEF IInv
<1>2. QED
  BY <1>1, CalDavInvariance, PTL

(* What a stored sync token has passed is in the href memory exactly, or blind. *)
THEOREM TokensCoverTheMemory == Spec => []TokenCoversMemory
<1>1. IInv => TokenCoversMemory
  BY DEF IInv, CoverInv, Covered, Exact, TokenCoversMemory
<1>2. QED
  BY <1>1, CalDavInvariance, PTL

(* Between runs the memory and the mirror agree, outside the five events.      *)
THEOREM MemoryMatchesTheMirror == Spec => []MemoryIsTheMirror
<1>1. IInv => MemoryIsTheMirror
  <2> SUFFICES ASSUME IInv, phase = "idle", NEW u \in Uid, missed[u] = {}
               PROVE  u \in mirror <=> \E c \in Cal : u \in Remembered(cursor, c)
    BY DEF MemoryIsTheMirror
  <2>1. u \in mirror <=> Known(cursor, u)
    BY DEF IInv, IdleInv
  <2> QED
    BY <2>1 DEF Known, Remembered
<1>2. QED
  BY <1>1, CalDavInvariance, PTL

(* A caught-up cursor means the mirror shows what the account has: the memory   *)
(* is both what the server had at the tokens and what the mirror holds.        *)
THEOREM CaughtUpMirrorShowsTheServer == Spec => []MirrorShowsTheServer
<1>1. IInv => MirrorShowsTheServer
  <2> SUFFICES ASSUME IInv, phase = "idle",
                      \A c \in listed, h \in Href : store[c][h].rev <= cursor[c].token,
                      NEW u \in Uid \ Departed, missed[u] = {}
               PROVE  u \in mirror <=> \E c \in listed, h \in Href : u \in store[c][h].live
    BY DEF MirrorShowsTheServer
  <2>1. u \in mirror <=> Known(cursor, u)
    BY DEF IInv, IdleInv
  <2>2. listed \subseteq Cal
    BY DEF IInv, TypeOK
  <2>3. ASSUME NEW c \in Cal \ listed, NEW h \in Href PROVE u \notin cursor[c].items[h]
    <3>1. u \notin Remembered(cursor, c)
      BY DEF Departed
    <3> QED
      BY <3>1 DEF Remembered
  <2>4. ASSUME NEW c \in listed, NEW h \in Href
        PROVE  u \in cursor[c].items[h] <=> u \in store[c][h].live
    <3>1. Exact(cursor[c].items, c, h)
      BY <2>2 DEF IInv, CoverInv, Covered
    <3>2. ~ Stands(c, h) => store[c][h].live = {}
      BY DEF Stands, Events
    <3> QED
      BY <3>1, <3>2 DEF Exact
  <2> QED
    BY <2>1, <2>2, <2>3, <2>4 DEF Known
<1>2. QED
  BY <1>1, CalDavInvariance, PTL
=============================================================================
