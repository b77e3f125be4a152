----------------------------- MODULE CalDavSync -----------------------------
(***************************************************************************)
(* IcloudCalendarConnector.sync: per calendar a sync-collection REPORT,    *)
(* then a multiget of what changed, or a full query when the REPORT is     *)
(* refused.  The cursor carries, per calendar, the sync token and the      *)
(* href -> ids memory that turns a deleted href into tombstones.  The      *)
(* server is edited between any two of these calls.                        *)
(*                                                                         *)
(* A Uid stands for an external id (UID, or UID/RECURRENCE-ID).  iCloud    *)
(* keeps a UID in one resource at a time; a user may move it.  Only the    *)
(* presence of a mirrored row is modelled: MirrorSync has its content and  *)
(* the transactions of the applier.                                        *)
(***************************************************************************)
EXTENDS Integers, Sequences, SequencesExt, FiniteSetsExt

CONSTANTS
  NumCal,     \* calendars, in the order calendar_urls returns them
  Href,       \* resource names inside a calendar
  Uid,        \* external ids
  MaxRev,     \* bound: edits of the server
  MaxFaults   \* bound: refused calls and failures

ASSUME NumCalPositive == NumCal \in Nat \ {0}
ASSUME LimitsNat == MaxRev \in Nat /\ MaxFaults \in Nat

VARIABLES
  clock,           \* revision of the last edit, the server's sync token
  store,           \* the server: per calendar and href its last edit
  listed,          \* the calendars of the account
  cursor,          \* stored cursor: per calendar its token and items
  mirror,          \* external ids that have a row in events
  phase,           \* where the run is
  at, agenda,      \* the calendar the run is at, and all it has still to visit
  work,            \* the decoded cursor the run is updating
  token, changed,  \* the REPORT's new token and changed hrefs
  records,         \* records produced, in order, as groups
  missed,          \* history: why an id may be wrong in the mirror
  faults           \* history: failures so far

server == <<clock, store, listed>>
vars   == <<server, cursor, mirror, phase, at, agenda, work, token, changed,
            records, missed, faults>>

Cal      == 1 .. NumCal
Rev      == 0 .. MaxRev
NoToken  == -1
Resource == [rev : Rev, live : SUBSET Uid, cancelled : SUBSET Uid]
Entry    == [token : Rev \cup {NoToken}, items : [Href -> SUBSET Uid]]
Record   == [uid : Uid, deleted : BOOLEAN]
Cause    == {"moved", "blind", "trimmed", "reset", "abandoned"}
Fresh    == [c \in Cal |-> [token |-> NoToken, items |-> [h \in Href |-> {}]]]

TypeOK ==
  /\ clock \in Rev
  /\ store \in [Cal -> [Href -> Resource]]
  /\ cursor \in [Cal -> Entry] /\ work \in [Cal -> Entry]
  /\ mirror \subseteq Uid
  /\ phase \in {"idle", "report", "fetch", "query", "clear", "save", "apply"}
  /\ at \in Cal /\ agenda \subseteq Cal /\ listed \subseteq Cal
  /\ token \in Rev \cup {NoToken} /\ changed \subseteq Href
  /\ records \in Seq(SUBSET Record)
  /\ missed \in [Uid -> SUBSET Cause]
  /\ faults \in 0 .. MaxFaults

Init ==
  /\ clock = 0
  /\ store = [c \in Cal |-> [h \in Href |-> [rev |-> 0, live |-> {}, cancelled |-> {}]]]
  /\ cursor = Fresh /\ work = Fresh
  /\ mirror = {}
  /\ listed = Cal
  /\ phase = "idle" /\ at = 1 /\ agenda = {}
  /\ token = NoToken /\ changed = {}
  /\ records = <<>>
  /\ missed = [u \in Uid |-> {}]
  /\ faults = 0

-----------------------------------------------------------------------------
Events(c, h)  == store[c][h].live \cup store[c][h].cancelled
Stands(c, h)  == Events(c, h) # {}
Ids(group)    == {rec.uid : rec \in group}
\* Mutant: the deleted flag is left at its default.
TombsUnset(uids) == [uid : uids, deleted : {FALSE}]
Tombs(uids)   == [uid : uids, deleted : {TRUE}]
Upserts(uids) == [uid : uids, deleted : {FALSE}]

Remembered(entries, c) == UNION {entries[c].items[h] : h \in Href}

\* Ids the run's memory holds once this calendar's part of it is `items`.
Held(items) ==
  (UNION {items[h] : h \in Href}) \cup (UNION {Remembered(work, c) : c \in Cal \ {at}})

Fault == faults < MaxFaults /\ faults' = faults + 1

\* Note cause w for the ids in each set causes[w].
Miss(causes) ==
  missed' = [u \in Uid |-> missed[u] \cup {w \in DOMAIN causes : u \in causes[w]}]

-----------------------------------------------------------------------------
(* The server.                                                             *)

\* A member saves a resource; an id stays in one resource at a time.
Put(c, h, live, cancelled) ==
  /\ clock < MaxRev
  /\ live \cap cancelled = {} /\ live \cup cancelled # {}
  /\ \A d \in Cal, g \in Href : <<d, g>> # <<c, h>> =>
       Events(d, g) \cap (live \cup cancelled) = {}
  /\ clock' = clock + 1
  /\ store' = [store EXCEPT ![c][h] =
                 [rev |-> clock + 1, live |-> live, cancelled |-> cancelled]]
  /\ UNCHANGED <<listed, cursor, mirror, phase, at, agenda, work, token, changed, records, missed, faults>>

Withdraw(c, h) ==
  /\ clock < MaxRev /\ Stands(c, h)
  /\ clock' = clock + 1
  /\ store' = [store EXCEPT ![c][h] = [rev |-> clock + 1, live |-> {}, cancelled |-> {}]]
  /\ UNCHANGED <<listed, cursor, mirror, phase, at, agenda, work, token, changed, records, missed, faults>>

\* A calendar leaves the account or comes back to it; it keeps its content, and
\* still answers a run that has listed it.
Subscribe(calendars) ==
  /\ clock < MaxRev /\ calendars # listed
  /\ clock' = clock + 1
  /\ listed' = calendars
  /\ UNCHANGED <<store, cursor, mirror, phase, at, agenda, work, token, changed, records, missed, faults>>
Leave(c) == Subscribe(listed \ {c})
Join(c)  == Subscribe(listed \cup {c})

-----------------------------------------------------------------------------
(* IcloudCalendarConnector.sync                                            *)

\* The loop over the calendars `left` to visit.
Visit(left) ==
  /\ agenda' = left
  /\ IF left = {} THEN at' = 1 /\ phase' = "save" ELSE at' = Min(left) /\ phase' = "report"

\* The cursor is read and decoded, the calendars are listed.
Start ==
  /\ phase = "idle"
  /\ work' = cursor
  /\ Visit(listed)
  /\ UNCHANGED <<server, cursor, mirror, token, changed, records, missed, faults>>

\* The entry of this calendar is written; the next one, or the end of the run.
NextCalendar(entry, group) ==
  /\ work' = [work EXCEPT ![at] = entry]
  /\ records' = IF group = {} THEN records ELSE Append(records, group)
  /\ token' = NoToken /\ changed' = {}
  /\ Visit(agenda \ {at})

\* items.pop(href): a deleted href leaves the memory.
PopItems(items, gone) == [h \in Href |-> IF h \in gone THEN {} ELSE items[h]]

\* sync_changes: hrefs edited after the stored token; without a token every
\* href that stands.  A deleted href leaves the memory as tombstones; what the
\* memory still holds for hrefs an initial listing cannot report is blind.
Report ==
  /\ phase = "report"
  /\ LET since  == work[at].token
         items  == work[at].items
         known  == {h \in Href : store[at][h].rev > 0 /\ store[at][h].rev > since}
         stands == {h \in known : Stands(at, h)}
         gone   == IF since = NoToken THEN {} ELSE known \ stands
         dead   == UNION {items[h] : h \in gone}
         unseen == IF since = NoToken THEN {h \in Href : ~Stands(at, h)} ELSE {}
         left   == PopItems(items, gone)
     IN  /\ Miss([moved |-> dead \cap Held(left),
                  blind |-> UNION {items[h] : h \in unseen}])
         /\ IF stands = {}
            THEN NextCalendar([token |-> clock, items |-> left], Tombs(dead))
            ELSE /\ phase' = "fetch" /\ token' = clock /\ changed' = stands
                 /\ work' = [work EXCEPT ![at].items = left]
                 /\ records' = IF dead = {} THEN records ELSE Append(records, Tombs(dead))
                 /\ UNCHANGED <<at, agenda>>
  /\ UNCHANGED <<server, cursor, mirror, faults>>

\* Mutant: cancelled events are mirrored.
RelistCancelled(hrefs, newToken) ==
  LET found == {h \in hrefs : Stands(at, h)}
      items == [h \in Href |-> IF h \in found THEN store[at][h].live ELSE work[at].items[h]]
  IN  /\ Miss([moved   |-> (UNION {store[at][h].cancelled : h \in found}) \cap Held(items),
               trimmed |-> UNION {work[at].items[h] \ Events(at, h) : h \in found}])
      /\ NextCalendar([token |-> newToken, items |-> items],
                      Upserts(UNION {Events(at, h) : h \in found}))

\* _records_for_resource over `hrefs`, those of them that still stand: live
\* events are mirrored and remembered, cancelled ones become tombstones.
Relist(hrefs, newToken) ==
  LET found == {h \in hrefs : Stands(at, h)}
      items == [h \in Href |-> IF h \in found THEN store[at][h].live ELSE work[at].items[h]]
  IN  /\ Miss([moved   |-> (UNION {store[at][h].cancelled : h \in found}) \cap Held(items),
               trimmed |-> UNION {work[at].items[h] \ Events(at, h) : h \in found}])
      /\ NextCalendar([token |-> newToken, items |-> items],
                      Upserts(UNION {store[at][h].live : h \in found})
                        \cup Tombs(UNION {store[at][h].cancelled : h \in found}))

\* Mutant: the position is taken after the multiget.
FetchThenToken ==
  /\ phase = "fetch"
  /\ Relist(changed, clock)
  /\ UNCHANGED <<server, cursor, mirror, faults>>

\* Mutant: the position is one past the REPORT's.
FetchPastToken ==
  /\ phase = "fetch"
  /\ Relist(changed, token + 1)
  /\ UNCHANGED <<server, cursor, mirror, faults>>

\* calendar-multiget of the changed hrefs, with their content as it is now.
Fetch ==
  /\ phase = "fetch"
  /\ Relist(changed, token)
  /\ UNCHANGED <<server, cursor, mirror, faults>>

\* SyncUnsupportedError: the REPORT is refused, a calendar-query follows.
ReportUnsupported ==
  /\ phase = "report"
  /\ Fault
  /\ phase' = "query"
  /\ UNCHANGED <<server, cursor, mirror, at, agenda, work, token, changed, records, missed>>

Query ==
  /\ phase = "query"
  /\ Relist(Href, NoToken)
  /\ UNCHANGED <<server, cursor, mirror, faults>>

Discard ==
  /\ work' = Fresh /\ records' = <<>> /\ at' = 1 /\ agenda' = {}
  /\ token' = NoToken /\ changed' = {}

\* 401/403 on any call: StaleCursorError.
AuthRefused ==
  /\ phase \in {"report", "fetch", "query"}
  /\ Fault
  /\ Discard /\ phase' = "clear"
  /\ UNCHANGED <<server, cursor, mirror, missed>>

-----------------------------------------------------------------------------
(* ConnectorService.sync and the applier.                                  *)

ClearCursor ==
  /\ phase = "clear"
  /\ cursor' = Fresh
  /\ Miss([reset |-> mirror])
  /\ phase' = "idle"
  /\ UNCHANGED <<server, mirror, at, agenda, work, token, changed, records, faults>>

SaveCursor ==
  /\ phase = "save"
  /\ cursor' = work
  /\ work' = Fresh
  /\ phase' = "apply"
  /\ UNCHANGED <<server, mirror, at, agenda, token, changed, records, missed, faults>>

\* apply_external_records takes the next record.  A row written anew is
\* remembered again: it is no longer out of step for these three causes.
Apply ==
  /\ phase = "apply" /\ records # <<>>
  /\ \E rec \in Head(records) :
       /\ records' = IF Head(records) = {rec} THEN Tail(records)
                     ELSE <<Head(records) \ {rec}>> \o Tail(records)
       /\ IF rec.deleted
          THEN mirror' = mirror \ {rec.uid} /\ UNCHANGED missed
          ELSE /\ mirror' = mirror \cup {rec.uid}
               /\ missed' = [missed EXCEPT ![rec.uid] = @ \ {"trimmed", "reset", "abandoned"}]
  /\ UNCHANGED <<server, cursor, phase, at, agenda, work, token, changed, faults>>

Finish ==
  /\ phase = "apply" /\ records = <<>>
  /\ phase' = "idle"
  /\ UNCHANGED <<server, cursor, mirror, at, agenda, work, token, changed, records, missed, faults>>

\* An exception at an await, or the process dies.
Fail ==
  /\ phase # "idle"
  /\ Fault
  /\ Miss([abandoned |-> IF phase = "apply" THEN UNION {Ids(g) : g \in ToSet(records)} ELSE {}])
  /\ Discard /\ phase' = "idle"
  /\ UNCHANGED <<server, cursor, mirror>>

-----------------------------------------------------------------------------
RunStep ==
  \/ Start \/ Report \/ Fetch \/ Query \/ ClearCursor \/ SaveCursor \/ Apply \/ Finish

Next ==
  \/ \E c \in Cal, h \in Href :
       Withdraw(c, h) \/ \E live, cancelled \in SUBSET Uid : Put(c, h, live, cancelled)
  \/ \E c \in Cal : Leave(c) \/ Join(c)
  \/ RunStep \/ ReportUnsupported \/ AuthRefused \/ Fail

Spec == Init /\ [][Next]_vars

-----------------------------------------------------------------------------
(***************************************************************************)
(* What a stored token has passed is in the memory exactly: every later    *)
(* edit of a resource is still ahead of the token, however edits fall      *)
(* between the REPORT and the multiget.  Only hrefs deleted before an      *)
(* initial listing keep their ids.                                         *)
(***************************************************************************)
TokenCoversMemory ==
  \A c \in Cal, h \in Href :
    store[c][h].rev <= cursor[c].token =>
      \/ cursor[c].items[h] = store[c][h].live
      \/ ~Stands(c, h) /\ \A u \in cursor[c].items[h] : "blind" \in missed[u]

(***************************************************************************)
(* Between runs the memory and the mirror agree, but for ids that met one  *)
(* of the five noted events: a remembered id has its row, and a row is     *)
(* remembered, so that a later deletion of its href finds it.              *)
(***************************************************************************)
MemoryIsTheMirror ==
  phase = "idle" =>
    \A u \in Uid :
      missed[u] = {} => (u \in mirror <=> \E c \in Cal : u \in Remembered(cursor, c))

(***************************************************************************)
(* Once every edit is behind the tokens, an id that met none of the five   *)
(* events is shown exactly when some calendar of the account has it as a   *)
(* live event.  Of a calendar that has left the account the cursor keeps   *)
(* the memory and the mirror the rows: nothing is said of these.           *)
(***************************************************************************)
Departed == UNION {Remembered(cursor, c) : c \in Cal \ listed}

MirrorShowsTheServer ==
  phase = "idle" /\ (\A c \in listed, h \in Href : store[c][h].rev <= cursor[c].token) =>
    \A u \in Uid \ Departed :
      missed[u] = {} => (u \in mirror <=> \E c \in listed, h \in Href : u \in store[c][h].live)
=============================================================================
