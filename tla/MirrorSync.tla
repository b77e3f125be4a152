---------------------------- MODULE MirrorSync ----------------------------
(***************************************************************************)
(* One (household, connector) pair whose records land in the calendar:     *)
(* the job body run_connector_sync, ConnectorService.sync with its cursor  *)
(* and stamp, CalendarService.apply_external_records, and the Google       *)
(* write-back that lands its own record through the same applier.          *)
(*                                                                         *)
(* Every edit of the source gets the next revision number.  A cursor is    *)
(* the revision up to which the source has been listed; a mirrored row is  *)
(* the revision whose content it carries.  Jobs (Run) and user writes      *)
(* (Writer) interleave at every await that separates two transactions.     *)
(***************************************************************************)
EXTENDS Integers

CONSTANTS
  Item,       \* external identities at the source
  Run,        \* sync jobs that may be in flight together
  Writer,     \* user requests that write through to the source
  MaxRev,     \* bound: edits of the source
  MaxFaults   \* bound: failures, expired tokens and empty answers

ASSUME ActorsDisjoint == Run \cap Writer = {}
ASSUME BoundsNat == MaxRev \in Nat /\ MaxFaults \in Nat

VARIABLES
  clock,   \* revision of the last edit
  src,     \* the source: each item's last revision and what it left there
  old,     \* items whose event lies before a full listing's timeMin
  mirror,  \* events table: the revision mirrored, NoRow or Torn
  cursor,  \* connector_cursors.cursor, or NoCursor
  due,     \* ConnectorConfigService.due returns the config
  phase,   \* where each actor is
  from,    \* the cursor a run read
  next,    \* SyncResult.next_cursor
  batch,   \* records held and not yet applied
  cur,     \* the record whose transaction is open
  row,     \* the row that transaction selected
  excuse,  \* history: why an item may have missed an edit
  faults   \* history: failures so far

vars == <<clock, src, old, mirror, cursor, due, phase, from, next, batch, cur, row,
          excuse, faults>>

Actor    == Run \cup Writer
NoCursor == -1
NoRow    == 0
Torn     == -1
Kind     == {"live", "malformed", "deleted"}
Rev      == 0 .. MaxRev
Record   == [item : Item, rev : Rev, kind : {"live", "deleted"}]
NoRecord == [item |-> "none", rev |-> 0, kind |-> "deleted"]
Cause    == {"raced", "abandoned", "orphaned", "aged"}
Landing  == {"stamp", "apply", "write"}     \* the run's cursor is stored
Phase    == {"idle", "queued", "fetch", "clear", "save"} \cup Landing

TypeOK ==
  /\ clock \in Rev
  /\ src \in [Item -> [rev : Rev, kind : Kind]]
  /\ old \subseteq Item
  /\ mirror \in [Item -> Rev \cup {Torn}]
  /\ cursor \in Rev \cup {NoCursor}
  /\ due \in BOOLEAN
  /\ phase \in [Actor -> Phase]
  /\ from \in [Actor -> Rev \cup {NoCursor}]
  /\ next \in [Actor -> Rev \cup {NoCursor}]
  /\ batch \in [Actor -> SUBSET Record]
  /\ cur \in [Actor -> Record \cup {NoRecord}]
  /\ row \in [Actor -> Rev \cup {Torn}]
  /\ excuse \in [Item -> SUBSET Cause]
  /\ faults \in 0 .. MaxFaults

Init ==
  /\ clock = 0
  /\ src = [i \in Item |-> [rev |-> 0, kind |-> "deleted"]]
  /\ old = {}
  /\ mirror = [i \in Item |-> NoRow]
  /\ cursor = NoCursor
  /\ due = TRUE
  /\ phase = [a \in Actor |-> "idle"]
  /\ from = [a \in Actor |-> NoCursor]
  /\ next = [a \in Actor |-> NoCursor]
  /\ batch = [a \in Actor |-> {}]
  /\ cur = [a \in Actor |-> NoRecord]
  /\ row = [a \in Actor |-> NoRow]
  /\ excuse = [i \in Item |-> {}]
  /\ faults = 0

-----------------------------------------------------------------------------
Current(i)      == [item |-> i, rev |-> src[i].rev, kind |-> src[i].kind]
Holds(a, i)     == \E rec \in batch[a] : rec.item = i
OtherHolds(a, i) == \E b \in Actor \ {a} : Holds(b, i)
\* The mirror value a well-formed record asks for.
Target(rec)     == IF rec.kind = "live" THEN rec.rev ELSE NoRow
Reflects(i)     == src[i].kind # "malformed" /\ mirror[i] = Target(Current(i))

Goto(a, p) == phase' = [phase EXCEPT ![a] = p]
Fault      == faults < MaxFaults /\ faults' = faults + 1

\* Someone edits item i at the source, and may move its event to another year.
Publish(i, k) ==
  /\ clock < MaxRev
  /\ clock' = clock + 1
  /\ src' = [src EXCEPT ![i] = [rev |-> clock + 1, kind |-> k]]
  /\ old' \in {old \ {i}} \cup (IF k = "deleted" THEN {} ELSE {old \cup {i}})

Change(i, k) ==
  /\ k = "deleted" => src[i].kind # "deleted"
  /\ Publish(i, k)
  /\ UNCHANGED <<mirror, cursor, due, phase, from, next, batch, cur, row, excuse, faults>>

\* A year after its date the event leaves the window of full listings.
Age(i) ==
  /\ src[i].kind # "deleted" /\ i \notin old
  /\ old' = old \cup {i}
  /\ UNCHANGED <<clock, src, mirror, cursor, due, phase, from, next, batch, cur, row,
                 excuse, faults>>

-----------------------------------------------------------------------------
(* The job: dispatch, ConnectorService.sync.                               *)

\* Mutant: a config that has a cursor is not due again.
ElapseOnce ==
  /\ ~due /\ cursor = NoCursor
  /\ due' = TRUE
  /\ UNCHANGED <<clock, src, old, mirror, cursor, phase, from, next, batch, cur, row,
                 excuse, faults>>

\* The poll interval has elapsed since the last stamp.
Elapse ==
  /\ ~due
  /\ due' = TRUE
  /\ UNCHANGED <<clock, src, old, mirror, cursor, phase, from, next, batch, cur, row,
                 excuse, faults>>

\* The hourly pass queues a job for a due config; nothing marks it in flight.
Dispatch(r) ==
  /\ due
  /\ phase[r] = "idle"
  /\ Goto(r, "queued")
  /\ UNCHANGED <<clock, src, old, mirror, cursor, due, from, next, batch, cur, row,
                 excuse, faults>>

ReadCursor(r) ==
  /\ phase[r] = "queued"
  /\ from' = [from EXCEPT ![r] = cursor]
  /\ Goto(r, "fetch")
  /\ UNCHANGED <<clock, src, old, mirror, cursor, due, next, batch, cur, row, excuse, faults>>

\* Mutant: the incremental listing leaves deletions out.
ListedNoTombstones(full, since) ==
  {Current(i) : i \in {j \in Item : src[j].kind # "deleted"
                                       /\ (IF full THEN j \notin old ELSE src[j].rev > since)}}

\* Mutant: an item the incremental listing leaves out is taken for deleted.
ListedAbsentGone(full, since) ==
  {IF full \/ src[i].rev > since THEN Current(i) ELSE [Current(i) EXCEPT !.kind = "deleted"] :
     i \in {j \in Item : IF full THEN src[j].kind # "deleted" /\ j \notin old
                                    ELSE src[j].rev > 0}}

\* A full listing carries what is there now and not over a year past; an
\* incremental one every item edited after the cursor, deletions as tombstones.
Listed(full, since) ==
  {Current(i) : i \in {j \in Item : IF full THEN src[j].kind # "deleted" /\ j \notin old
                                            ELSE src[j].rev > since}}

\* The actor stops; a run past its cursor save leaves its batch unapplied.
Abandon(a) ==
  /\ Goto(a, "idle")
  /\ batch' = [batch EXCEPT ![a] = {}]
  /\ cur' = [cur EXCEPT ![a] = NoRecord]
  /\ row' = [row EXCEPT ![a] = NoRow]
  /\ from' = [from EXCEPT ![a] = NoCursor]
  /\ next' = [next EXCEPT ![a] = NoCursor]
  /\ excuse' = [i \in Item |->
       IF a \in Run /\ phase[a] \in Landing /\ Holds(a, i)
       THEN excuse[i] \cup {"abandoned"} ELSE excuse[i]]
  /\ UNCHANGED <<clock, src, old, mirror, cursor, due>>

\* What a full listing passes over while the mirror shows something else.
PassedOver(i) ==
  (IF src[i].kind = "deleted" /\ mirror[i] # NoRow THEN {"orphaned"} ELSE {})
  \cup (IF i \in old /\ ~Reflects(i) THEN {"aged"} ELSE {})

\* The connector answers with `records`, the source at this moment.
Land(r, full, records) ==
  /\ batch' = [batch EXCEPT ![r] = records]
  /\ next' = [next EXCEPT ![r] = clock]
  /\ excuse' = [i \in Item |->
       excuse[i]
       \cup (IF OtherHolds(r, i) /\ (full \/ Current(i) \in records) THEN {"raced"} ELSE {})
       \cup (IF full THEN PassedOver(i) ELSE {})]
  /\ from' = [from EXCEPT ![r] = NoCursor]
  /\ Goto(r, "save")
  /\ UNCHANGED <<clock, src, old, mirror, cursor, due, cur, row>>

\* Mutant: a malformed item is skipped and the run goes on.
AnswerSkipping(r, full) ==
  Land(r, full, {rec \in Listed(full, from[r]) : rec.kind # "malformed"})

\* The items listed are converted one by one; a malformed one raises, and
\* the run ends before the cursor is stored.
Answer(r, full) ==
  LET listed == Listed(full, from[r])
  IN  \/ /\ \A rec \in listed : rec.kind # "malformed"
         /\ Land(r, full, listed)
      \/ /\ \E rec \in listed : rec.kind = "malformed"
         /\ Abandon(r)

Fetch(r) ==
  /\ phase[r] = "fetch"
  /\ Answer(r, from[r] = NoCursor)
  /\ UNCHANGED faults

\* 410 on the sync token: the Google connector restarts the listing in full.
FetchGone(r) ==
  /\ phase[r] = "fetch" /\ from[r] # NoCursor
  /\ Fault
  /\ Answer(r, TRUE)

\* No account could be read: no records and no next cursor.
FetchNothing(r) ==
  /\ phase[r] = "fetch"
  /\ Fault
  /\ from' = [from EXCEPT ![r] = NoCursor]
  /\ Goto(r, "save")
  /\ UNCHANGED <<clock, src, old, mirror, cursor, due, next, batch, cur, row, excuse>>

\* The connector raises StaleCursorError.
FetchStale(r) ==
  /\ phase[r] = "fetch"
  /\ Fault
  /\ from' = [from EXCEPT ![r] = NoCursor]
  /\ Goto(r, "clear")
  /\ UNCHANGED <<clock, src, old, mirror, cursor, due, next, batch, cur, row, excuse>>

ClearCursor(r) ==
  /\ phase[r] = "clear"
  /\ cursor' = NoCursor
  /\ Goto(r, "idle")
  /\ UNCHANGED <<clock, src, old, mirror, due, from, next, batch, cur, row, excuse, faults>>

\* Mutant: the position saved is one past the last edit listed.
SaveCursorPast(r) ==
  /\ phase[r] = "save"
  /\ cursor' = IF next[r] = NoCursor THEN cursor ELSE next[r] + 1
  /\ next' = [next EXCEPT ![r] = NoCursor]
  /\ Goto(r, "stamp")
  /\ UNCHANGED <<clock, src, old, mirror, due, from, batch, cur, row, excuse, faults>>

SaveCursor(r) ==
  /\ phase[r] = "save"
  /\ cursor' = IF next[r] = NoCursor THEN cursor ELSE next[r]
  /\ next' = [next EXCEPT ![r] = NoCursor]
  /\ Goto(r, "stamp")
  /\ UNCHANGED <<clock, src, old, mirror, due, from, batch, cur, row, excuse, faults>>

StampSynced(r) ==
  /\ phase[r] = "stamp"
  /\ due' = FALSE
  /\ Goto(r, "apply")
  /\ UNCHANGED <<clock, src, old, mirror, cursor, from, next, batch, cur, row, excuse, faults>>

-----------------------------------------------------------------------------
(* The Google write-back: the user's edit reaches the source, then its     *)
(* record goes to the applier.  Deleting what is gone is accepted.         *)

Submit(w, i, rec) ==
  /\ batch' = [batch EXCEPT ![w] = {rec}]
  /\ excuse' = IF OtherHolds(w, i) THEN [excuse EXCEPT ![i] = @ \cup {"raced"}] ELSE excuse
  /\ Goto(w, "apply")
  /\ UNCHANGED <<mirror, cursor, due, from, next, cur, row, faults>>

WriteThrough(w, i, k) ==
  /\ phase[w] = "idle"
  /\ k = "live" => src[i].rev = 0 \/ src[i].kind # "deleted"
  /\ k = "deleted" => src[i].kind # "deleted"
  /\ Publish(i, k)
  /\ Submit(w, i, [item |-> i, rev |-> clock + 1, kind |-> k])

DeleteGone(w, i) ==
  /\ phase[w] = "idle"
  /\ src[i].kind = "deleted" /\ src[i].rev > 0
  /\ Submit(w, i, Current(i))
  /\ UNCHANGED <<clock, src, old>>

-----------------------------------------------------------------------------
(* apply_external_records: one transaction per record, in batch order.     *)

\* The transaction opens and selects the mirror row.
SelectRow(a) ==
  /\ phase[a] = "apply"
  /\ \E rec \in batch[a] :
       /\ cur' = [cur EXCEPT ![a] = rec]
       /\ row' = [row EXCEPT ![a] = mirror[rec.item]]
  /\ Goto(a, "write")
  /\ UNCHANGED <<clock, src, old, mirror, cursor, due, from, next, batch, excuse, faults>>

\* INSERT against the unique index, or UPDATE of a row deleted meanwhile.
Conflict(a) ==
  /\ cur[a].kind = "live"
  /\ IF row[a] = NoRow THEN mirror[cur[a].item] # NoRow
     ELSE row[a] # cur[a].rev /\ mirror[cur[a].item] = NoRow

\* The transaction commits and leaves `value` in the item's row.
Commit(a, value) ==
  LET i == cur[a].item
  IN  /\ phase[a] = "write"
      /\ mirror' = [mirror EXCEPT ![i] = value]
      /\ excuse' = IF cur[a] = Current(i) /\ value = Target(cur[a]) /\ ~OtherHolds(a, i)
                   THEN [excuse EXCEPT ![i] = {}] ELSE excuse
      /\ batch' = [batch EXCEPT ![a] = @ \ {cur[a]}]
      /\ cur' = [cur EXCEPT ![a] = NoRecord]
      /\ row' = [row EXCEPT ![a] = NoRow]
      /\ Goto(a, "apply")
      /\ UNCHANGED <<clock, src, old, cursor, due, from, next, faults>>

RemoveMirror(a) ==
  /\ cur[a].kind = "deleted"
  /\ Commit(a, IF row[a] = NoRow THEN mirror[cur[a].item] ELSE NoRow)

\* The selected row still stands: insert it, or update it to the record.
UpsertMirror(a) ==
  /\ cur[a].kind = "live" /\ ~Conflict(a)
  /\ row[a] \in {NoRow, mirror[cur[a].item]}
  /\ Commit(a, cur[a].rev)

\* Another actor has changed the row since it was selected.  The UPDATE names
\* only the columns that differ from the selected row (none when the record
\* equals it), so it may leave a mixture of two revisions.
UpsertStale(a) ==
  /\ cur[a].kind = "live" /\ ~Conflict(a)
  /\ row[a] \notin {NoRow, mirror[cur[a].item]}
  /\ \E value \in {mirror[cur[a].item]}
                   \cup (IF row[a] = cur[a].rev THEN {} ELSE {cur[a].rev, Torn}) :
       Commit(a, value)

ConflictAbort(a) ==
  /\ phase[a] = "write"
  /\ Conflict(a)
  /\ Abandon(a)
  /\ UNCHANGED faults

Finish(a) ==
  /\ phase[a] = "apply"
  /\ batch[a] = {}
  /\ Goto(a, "idle")
  /\ UNCHANGED <<clock, src, old, mirror, cursor, due, from, next, batch, cur, row,
                 excuse, faults>>

\* An exception at any await, or the process dies.
Fail(a) ==
  /\ phase[a] # "idle"
  /\ Fault
  /\ Abandon(a)

-----------------------------------------------------------------------------
RunStep(r) ==
  \/ Dispatch(r) \/ ReadCursor(r) \/ Fetch(r) \/ ClearCursor(r)
  \/ SaveCursor(r) \/ StampSynced(r)

ApplyStep(a) ==
  \/ SelectRow(a) \/ Finish(a)
  \/ RemoveMirror(a) \/ UpsertMirror(a) \/ UpsertStale(a) \/ ConflictAbort(a)

SourceFault(r) == FetchGone(r) \/ FetchNothing(r) \/ FetchStale(r)

Next ==
  \/ \E i \in Item : Age(i) \/ \E k \in Kind : Change(i, k)
  \/ Elapse
  \/ \E r \in Run : RunStep(r) \/ SourceFault(r)
  \/ \E w \in Writer, i \in Item :
       DeleteGone(w, i) \/ \E k \in {"live", "deleted"} : WriteThrough(w, i, k)
  \/ \E a \in Actor : ApplyStep(a) \/ Fail(a)

Spec == Init /\ [][Next]_vars

\* The cron pass keeps coming and a started job keeps running; nothing obliges
\* the source to change or to fail.
FairSpec ==
  /\ Spec
  /\ WF_vars(Elapse)
  /\ \A r \in Run : WF_vars(RunStep(r))
  /\ \A a \in Actor : WF_vars(ApplyStep(a))

-----------------------------------------------------------------------------
Pending(i) == \E r \in Run : phase[r] \in Landing /\ Current(i) \in batch[r]
Settled(i) == Reflects(i) \/ excuse[i] # {} \/ Pending(i)

(***************************************************************************)
(* An edit the stored cursor has passed is in the mirror, or is in the     *)
(* batch a run is about to apply, unless the item met one of four events:  *)
(* two actors held it together, a run stopped after storing its cursor, or *)
(* a full listing took an incremental one's place while the mirror was     *)
(* behind an item deleted or over a year past.  The cursor is stored       *)
(* before the batch is applied (service.py 84-85 against tasks.py 106), so *)
(* nothing else would bring the edit back; a malformed item keeps it from  *)
(* being stored.                                                           *)
(***************************************************************************)
NoSilentLoss ==
  \A i \in Item : src[i].rev <= cursor => Settled(i)

(***************************************************************************)
(* Unless two actors held the item together, its mirror only moves to a    *)
(* newer revision, and is only removed once the source has moved past the  *)
(* revision it shows: a late answer never overwrites a newer one.          *)
(***************************************************************************)
MirrorMovesForward ==
  [][\A i \in Item :
       "raced" \notin excuse[i] /\ mirror'[i] # mirror[i] =>
         IF mirror'[i] = NoRow THEN mirror[i] < src[i].rev
                               ELSE mirror[i] < mirror'[i]]_vars

(***************************************************************************)
(* Once edits and failures stop, and the source holds nothing malformed,   *)
(* the hourly pass brings every item the four events spared into line with *)
(* the source, and keeps it there.  A malformed item ends each run in its  *)
(* listing and holds every other item back.                                *)
(***************************************************************************)
Converges ==
  <>[](\A i \in Item : src[i].kind # "malformed") =>
    <>[](\A i \in Item : Reflects(i) \/ excuse[i] # {})

-----------------------------------------------------------------------------
(* The inductive invariant behind NoSilentLoss and MirrorMovesForward.     *)

\* What an actor has in hand fits the place it has reached.
PhaseInv ==
  \A a \in Actor :
    /\ phase[a] \in {"idle", "queued", "fetch", "clear"} => batch[a] = {}
    /\ from[a] # NoCursor => phase[a] = "fetch"
    /\ next[a] # NoCursor => phase[a] = "save"
    /\ phase[a] = "write" => cur[a] \in batch[a]
    /\ a \notin Run => phase[a] \in {"idle", "apply", "write"}

\* Nobody knows a revision that has not been published.
ClockInv ==
  /\ cursor <= clock
  /\ \A a \in Actor : from[a] <= clock /\ next[a] <= clock
  /\ \A i \in Item : src[i].rev <= clock

\* A held record is one the source published, one per item and actor.
RecordInv ==
  \A a \in Actor : \A rec \in batch[a] :
    /\ rec.rev > 0 /\ rec.rev <= src[rec.item].rev
    /\ rec.rev = src[rec.item].rev => rec = Current(rec.item)
    /\ \A b \in Actor : \A other \in batch[b] :
         other.item = rec.item /\ (a = b \/ other.rev = rec.rev) => other = rec

\* A mirror shows a live revision; only published items are live.
MirrorInv ==
  /\ \A i \in Item :
       /\ src[i].rev = 0 => src[i].kind = "deleted"
       /\ mirror[i] <= src[i].rev
       /\ mirror[i] = src[i].rev => src[i].kind = "live" \/ src[i].rev = 0
  /\ \A a \in Actor : \A rec \in batch[a] :
       rec.kind # "live" => mirror[rec.item] # rec.rev

\* Whatever a cursor, stored or in hand, has passed is settled.
CoverInv ==
  \A i \in Item :
    /\ src[i].rev <= cursor => Settled(i)
    /\ \A a \in Actor :
         /\ src[i].rev <= from[a] => Settled(i)
         /\ src[i].rev <= next[a] => Settled(i) \/ Current(i) \in batch[a]

\* Two holders of one item are noted; a lone holder's transaction still sees
\* the row it selected, and its record is not older than the mirror.
HolderInv ==
  \A a \in Actor : \A rec \in batch[a] :
    "raced" \notin excuse[rec.item] =>
      /\ ~OtherHolds(a, rec.item)
      /\ phase[a] = "write" /\ cur[a] = rec => row[a] = mirror[rec.item]
      /\ mirror[rec.item] <= rec.rev

\* A record its source has outrun is held while no cursor covers the newer one.
OutrunInv ==
  \A a \in Actor : \A rec \in batch[a] :
    LET i == rec.item
    IN  rec # Current(i) /\ "raced" \notin excuse[i] =>
          /\ cursor < src[i].rev
          /\ \A b \in Actor : from[b] < src[i].rev /\ next[b] < src[i].rev

IInv ==
  /\ TypeOK /\ PhaseInv /\ ClockInv /\ RecordInv /\ MirrorInv /\ CoverInv
  /\ HolderInv /\ OutrunInv
=============================================================================
