# Verification of nidaro in TLA+

nidaro keeps a family's calendar, school data and messages in one Postgres
database and keeps them in step with outside sources (Google Calendar, iCloud,
Bakaláři, WhatsApp). The code that can lose or corrupt a family's data without
anybody noticing is the synchronisation: a job reads a stored position, asks a
source what is new, stores the next position, and applies what it got. This
project models that plane, the Chromium supervisor beside it, and what the web
process does with the data (calendar pages, meals, the assistant), checks it with
TLC and proves its main invariants with TLAPS.

All source paths below are relative to `src/src/nidaro/`.

## Inventory

| part | state it keeps | operations | interacts with | what is hard |
|---|---|---|---|---|
| connector runtime (`connectors/service.py`, `repository.py`) | `connector_cursors`, `last_synced_at` | `ConnectorService.sync`: get cursor, call the connector, save or clear the cursor, stamp | every connector; called by jobs and runner | each step is a transaction of its own; the cursor is stored before the caller applies anything |
| calendar mirror (`calendar/service.py`, `repository.py`) | `events` rows with an external identity | `apply_external_records`, `upsert_mirror`, `remove_mirror` | fed by Google, iCloud and the write-back | one transaction per record, no row lock, several writers |
| Google connector and write-back (`connectors/google_calendar/`) | a sync token per account inside the cursor | full, incremental and 410-restarted listing; create, update, delete on Google and landing of the result | applier, accounts | a listing is old by the time it is applied |
| Google accounts | `google_calendar_accounts`, one credential per account | OAuth callback with register, forget, `credentials_for_household` | connector, credential store | two tables, no common transaction; a callback asks Google between getting a token and storing it |
| WhatsApp staging (`connectors/whatsapp/`) | `whatsapp_events`, high-water id as cursor | `stage`, `unprocessed`, `sync` | webhook and bridge write, jobs read | ids are drawn before rows become visible |
| iCloud connector (`connectors/icloud_calendar.py`) | per calendar a sync token and the href to ids memory, in the cursor | REPORT, multiget, query fallback | runner, applier | the server changes between the calls; deletions are known only through the memory |
| job plane (`jobs/`) | Redis list, `connector_configs` | hourly label, `gather_due`, `connector_sync` | scheduler, broker, runtime | at-most-once delivery, failing neighbours, configs edited meanwhile |
| runner (`connectors/runner.py`) | none | credentials into the context, sync, apply by type | runtime, applier | errors of one config isolated from the next |
| Bakaláři connector, client, mapping (`connectors/bakalari*.py`) | tokens while a run lasts | `BakalariConnector.sync` per account: timetable, substitutions, marks, homework; token recovery | school domain; called by the job and the portal's refresh | one of several accounts fails; the answers change between two requests |
| school domain (`school/`) | subjects with their equipment, lessons of a day, grades, homework | upserts, `replace_day`, `set_equipment`, `pack_list` | fed by the connector, read by the pages | two syncs of one household overlap; no unique key on marks and homework |
| credential store, rotation (`crypto.py`, `rotate.py`) | encrypted secrets | set, get, delete, rotate | every connector | rotate reads all, then writes all |
| Chromium supervisor (`chromium/supervisor.py`) | one CDP client, a flag, a backoff | run, attach, watch, lose, stop | WhatsApp bridge, a browser run by somebody else | stop, cancellation, the browser's death or silence at any await |
| recurrence and calendar page (`calendar/recurrence.py`, `web/routes/calendar.py`) | `events` rows of the household | add form, month, week and day windows, expansion, repeat badge | calendar service, write-back | dates, instants and zones at the edges of days, windows and months; a row holds less than an iCalendar rule |
| meals (`meals/`, `web/routes/meals.py`, `dishes.py`) | `dishes`, `planned_meals` | create, edit, delete a dish; plan and remove a meal | pages | a dish edited twice at once, or deleted while it is planned |
| assistant, conversations (`assistant/`, `conversations/`) | message history; tasks, facts, commitments | load, context, tools, save | tasks, memory, commitments | the tools commit before the save, which raises |
| household, sources | own tables | single-row inserts and reads | web, assistant | none between calls |
| web UI, wiring, seed, deployment | none | rendering, construction | all | none of its own |

What makes each part correct, in the terms used below: an edit the stored
position has passed is in the mirror or accounted for (runtime and applier); a
row only moves forward and shows one revision of its item (mirror); a message is
read once it is visible (staging); the href memory and the mirror agree (iCloud);
a due config whose source answers is synced, a disabled one is left alone (jobs);
what a school answered is stored once and as answered, and the family's
equipment survives every sync (school); the consumer has one live client at a
time and hears of its loss (Chromium); a page shows an event on exactly the days
its author asked for (calendar); a dish is what one edit saved (meals); a message
knows what others have made (assistant).

## Modules

`MirrorSync` is the core. One (household, connector) pair is modelled down to the
transaction. Every edit of the source takes the next revision number; `mirror`
holds the revision a row shows, `Torn` for columns of two revisions; a cursor is
the revision up to which the source has been listed. A job (`Run`) walks through
`Dispatch`, `ReadCursor`, one of `Fetch`, `FetchGone` (the 410 restart),
`FetchNothing` (no account answered) and `FetchStale`, then `SaveCursor`,
`StampSynced` and the applier. Google's items are converted and validated inside
the fetch (`google_calendar/mapping.py` 140-149), so `Answer` has two outcomes: all
items listed are well formed and become the batch, or one is malformed and the run
ends before its cursor is stored. `Listed` is what Google lists: after a token every
later edit with its deletions, in full what is there now and at most a year past
(`timeMin`, `client.py` 102-103); `old` holds the items beyond it, which an event
joins by a change of its date or with time (`Age`). A user request (`Writer`) changes the source with
`WriteThrough` or `DeleteGone` and then uses the same applier. The applier opens
one transaction per record: `SelectRow`, then `UpsertMirror`, `UpsertStale` (the
row changed since it was selected; SQLAlchemy's UPDATE names only the columns
that differ from the selected values), `RemoveMirror` or `ConflictAbort` (the
unique index, or a row deleted meanwhile). The applier's own payload validation
has nothing to refuse, since Google's records are validated before and iCloud's
are well formed as built. `Fail` may strike at any await. Two fields are history:
`faults`, and `excuse`, which notes for an item that two actors held it together
(`raced`), that a run stopped with its batch unapplied after storing its cursor
(`abandoned`), or that a full listing passed over a deletion the mirror still shows
(`orphaned`) or an item beyond its window that the mirror does not show as it is
(`aged`). A transaction that commits the item's current content with no other
holder clears its notes.

`WhatsAppDrain` is the staging table with its producers and the overlapping jobs
that drain it. `Stage` draws an id and opens a transaction, `CommitStage` makes
the row visible, `AbortStage` loses it; `Select` reads the oldest rows beyond the
cursor, at most `Batch`; `SaveCursor` and `Return` follow `ConnectorService.sync`.
`overtaken` (history) holds ids that were uncommitted when a later one was read,
`dropped` those of a job that failed after storing the cursor and before its body
had the records.

`CalDavSync` is `IcloudCalendarConnector.sync`: `Report`, `Fetch`,
`ReportUnsupported` with `Query`, `AuthRefused` with `ClearCursor`, the saved
cursor and the applied records, with `Put` and `Withdraw` on the server, and
calendars that `Leave` and `Join` the account, between any two of them. Rows are
only present or absent here. `missed` (history) notes five events after which an
id may be out of step: `moved` (a tombstone for an id the run also holds
elsewhere), `blind` (a listing without a token cannot report a deletion),
`trimmed` (a resource lost an id and its memory was overwritten without a
tombstone), `reset` (the memory was cleared) and `abandoned` (a run stopped with
records unapplied). Writing a row anew clears the last three.

`JobSweep` is the plane above: the hourly message, the list the workers pop,
`ReadDue` and `Kiq` of `gather_due`, the routing of `connector_sync`
(`SyncRaises`, `SyncAnswered`, `StampSynced`), and an operator (`Enable`,
`DisableRead`, `DisableWrite`). What a sync does between its start and its
stamp is left to the other modules.

`GoogleAccounts` is a member's consent in its two tables, and the credential key.
An OAuth callback (`accounts.py` 106-156) gets a refresh token (`Mint`), asks
Google for the account, then stores the secret and the row (`RegisterSet`,
`RegisterRow`); callbacks of one account may overlap, and one may fail at either
call (`CallbackFails`). `ForgetSecret` and `ForgetRow` are the two transactions of
`forget`; `RotateRead`, `RotateWrite` and
`RotateReturn` are `ConnectorCredentialService.rotate`, which reads every secret
first; `ChangeKeys` is the pod restarted with the next key list of
docs/deployment.md, which also ends what was under way. Tokens are numbered as
Google issues them, and `callback` says where the callback of each is. `excuse`
(history) notes that a register or forget was interrupted or ran across the other
(`cut`), that consents were given while another callback had not stored its secret
(`crossed`), or that a rotation had read the secret before it changed (`rotated`).
One forget of an account runs at a time. No page calls `forget` yet: it is modelled
as the service offers it.

`GoogleSync` extends it with `GoogleCalendarConnector.sync`: `SyncStart` (cursor
and rows are read), `ReadSecret` per account or `MissingSecret`, then per account
`List`, `ListGone` (410), `SkipDead` (`invalid_grant`) or `Refused` (the access
token in the client's cache died with the grant), and `SaveCursor`, which writes
the positions of the accounts that were listed and drops the others. When no
account was listed the code keeps the old cursor. A position counts deletions
only, since a full listing carries the rest. `reported` and `gap` are history.

`SchoolGather` is the hourly job against the portal's refresh over the accounts
of a household. Each sync goes through the endpoints of `Requests` in order
(`Login`, `Get`); a request may find its token `Expired`, its refresh refused
(`RefreshRejected`, then `Relogin`), its account `Refused` or the connection
broken (`Breaks`). What was answered lands one transaction at a time, each a
SELECT (`Read`) and a commit (`CommitSubject`, `CommitItem`, `CommitDay`, or a
`Conflict`), so that two syncs and the family's `SetEquipment` interleave between
them, while the schools `Publish` other answers. `Failed` is the error
that is collected while later accounts go on; anything else ends the run.
`SchoolMapping` holds the pure part: lessons of a timetable (an hour without a
subject or without times is left out, a subject without an abbreviation is kept
as "?", a HourId is a position even when it is 0), the overlay of substitutions,
marks and homework without an id. `mixed` (history) notes a day or
an item last written while another sync was writing it. A day that was served
(`DayRows`) depends on three answers: the one that named the enabled modules, the
timetable and the substitutions, each at least as new as the one before.

`ChromiumSupervisor` is `run` with everything it awaits; `pc` names the await.
`Stop`, `Cancel`, `BrowserDies`, `BrowserStarts`, `BrowserHangs`, `BrowserRecovers`
and `ConnectionBreaks` may fall at any of them. A browser that hangs accepts and
does not answer; the supervisor sets no timeout, so that a ping, a connect, a close
or the consumer's call may then last until it recovers (`Waiting`). `cut`
(history) holds connections whose connect or close was cancelled. `Attachment`
is what the supervisor promises its consumer, without how: one working client at
a time, each a new one, news of every loss, as long as the browser answers. `ChromiumSupervisor` instantiates it
(`Promise`) with the consumer's view of its own state, and implements it.

`Dates` has the arithmetic of `datetime` the calendar uses: a date is a day
number, a month a month number, an instant a number of ticks, a zone a distance
from UTC. `Recurrence` is the range query and the expansion of series;
`EventMapping` turns iCalendar and Google events into rows and nidaro's writes
into Google's bodies; its VEVENT has FREQ, INTERVAL, BYDAY, an end by COUNT or
UNTIL, added and excluded dates, and an exception (RECURRENCE-ID), which becomes
an event of its own (source `moved`), as `external_id` makes it. `CalendarPage` puts them together: the add form with its
validation, the Google write-back and an iCloud sync as one step each, and the
month, week and day windows with their offsets. `asked` (history) is what the
author of an event wrote, and `Falls` what iCalendar means by it.

`Meals` is the dishes and the plan of a rolling week with several browsers: an
edit is a SELECT and the UPDATE of the columns that differ from it, planning
reads the dish in one transaction and inserts the meal in another. `torn`
(history) notes dishes last written by overlapping edits.

`Assistant` is a message from `Load` to `Save`: the conversation is created or
loaded, the context is read, the tools make and complete tasks, facts and
commitments, each in a transaction of its own, and the history is saved. That last
step raises (see below), so `Save` stores nothing and ends the request; what the
tools did stays.

`MCPortal` composes the last three, which share no state: an initial choice of
the part takes the place of their product. It also states what the proofs about
them assume of their constants. `MCMirrorSync` and `MCCalDavSync` add
symmetry sets for the safety runs, `MCSchoolGather` the answers of two schools.
Definitions whose comment begins "Mutant:" are defective variants of the
definition after them; the specification never uses them. Each property of a
passing run is violated when its mutant takes the definition's place.

## Runs

| run | question | bounds |
|---|---|---|
| `mirror_overlap` | is an edit behind the cursor ever lost, does a late answer ever win, with two jobs and a user write interleaved? | 2 items, 2 runs, 1 writer, 2 edits, 1 failure |
| `mirror_serial` | does the mirror converge with one job at a time once nothing malformed is left? | 2 items, 1 run, 1 writer, 3 edits, 1 failure |
| `whatsapp_drain` | which messages can be skipped or lost, is a backlog worked off? | 2 producers, 3 messages, 2 drains, batch of 2, 3 ids, 1 failure |
| `caldav` | do token, memory and mirror stay in step? | 2 calendars, 1 href each, 2 ids, 4 edits or changes of subscription, 1 refusal or failure |
| `job_sweep` | do healthy configs get their sync, does a disabled one go quiet? | 3 configs, 2 workers, cadence 1 or 2 h, 1 queued message before the next cron, 1 crash |
| `google_accounts` | is a secret ever out of reach, do row and secret part unnoticed, does an older consent stay? | 2 accounts, 2 consents each, 1 failure |
| `google_sync` | does a dead account hold back or lose anything of the others? | 2 accounts, 1 consent and 1 deletion each, 1 failure |
| `school` | is what a school answered stored, once, with the equipment kept, and every account served in the end? | 2 accounts of 3 and 2 payloads, 1 job, 1 refresh |
| `chromium` | one client at a time, an end after stop, the consumer's view? | backoff 2 to 5 s, 3 faults (deaths, hangs, breaks), 2 cancellations |
| `portal` | do pages show what was asked, are dishes and plans kept whole, does a message know what others made? | 3 days round a month's end, 3 zones, 14 VEVENTs, 2 events at a time; 1 dish, 2 browsers, 1 meal; 2 messages, 2 conversations, 2 rows, 1 recent fact |
| `assistant_history` | does an exchange reach its history? (no) | 2 messages, 1 conversation, 1 row |
| `job_icloud` | is an iCloud config ever synced by its job? (no) | 1 config, 1 worker |

Why the bounds suffice. A race needs two holders of one item and an edit between
their listings: two actors, one item, two revisions. The second item is there for
the order inside a batch and for an abort that leaves a rest. A third revision
lets a stale update meet a newer one. A full listing that passes over an item is
reached with one item and one failure (a 410) or a first sync. A batch of two against three ids is the
smallest backlog longer than a batch. Two calendars let an id move between them,
four edits let it be put, moved, trimmed and withdrawn. Two consents let a
rotation hold an older token than the stored one, and two callbacks store in the
other order. In `google_sync` one consent
per account suffices: what an account does after its second consent (a cursor
entry that is gone, a full listing) a first consent does too, and
the proofs cover any number. In `school` the first
account has a plain day, an empty one and one with substitutions, so that a day is
replaced, kept and overlaid; the second serves marks and fails beside the first.
The SELECTs of two syncs before either commits double a mark or mix a day, which
one refresh beside the job suffices for. In `chromium` three faults kill the browser,
break the connection of the one that comes back and have it hang or die again; two
cancellations interrupt a run and the close it is ended by. In `portal` the days 30 May to 1 June 2025 have a month
that begins on a Sunday, so that padding, week and month edges coincide; the
household (UTC+6) and Google (UTC+12) disagree on the date for half of the day;
month offsets reach 18, where 32-day steps leave the months; each field of a VEVENT
that a row cannot hold is set in one of them, and a series and its moved occurrence
are there together; two browsers hold one dish, and of two messages one makes what
the other must know. Age saturates at the
longest cadence, where nothing changes any more. `Hour` waits while the list
holds `MaxQueue` messages; jobs themselves are always appended, so that a list of
gathers and jobs still forms. `MaxFaults` bounds failures, and convergence is
claimed for finitely many of them.

Fairness. Weak fairness on a job's own steps and on the applier: a coroutine
that is ready is scheduled by the event loop, and a worker process is restarted
by its unit. Weak fairness on `Elapse` and `Hour`: the scheduler is a process
that fires its label every hour. No fairness on edits, failures, operators or
producers. In `MirrorSync` the fairness is needed for `Converges` only, in
`JobSweep` for both liveness properties, in `GoogleSync` (where a cached access
token also expires in the end) for `SiblingsKeepSyncing`, in `WhatsAppDrain` for
`StagedIsDrainedOrLost`, in `SchoolGather` (the hour, the worker's start, each sync's steps) for `Gathered`, in
`ChromiumSupervisor` (the task's steps only, and only while it does not wait for a
browser that hangs; neither the browser nor `stop()`) for `StopEnds` and
`KeepsAttached`. `StopEnds` says in its statement that the browser does not hang for
good. `CalDavSync`, `GoogleAccounts` and the portal have
safety properties only and assume no fairness. Deadlock checking is on in every
run.

## Properties

- `NoSilentLoss`: an edit the stored cursor has passed is mirrored, in the batch
  of a run that is about to apply it, or its item has a noted cause.
- `MirrorMovesForward`: unless two actors held the item together, its row moves
  only to newer revisions and is removed only when the source has moved on.
- `Converges`: with one job at a time, if the source stops changing and holds
  nothing malformed, every item is mirrored in the end or has a noted cause. The
  condition is needed: one malformed item fails every later run.
- `SkippedRowsAreNoted`: a committed row behind the high-water id was handed to a
  job, unless a drain overtook its open transaction or the job that had read it
  failed after storing the cursor.
- `StagedIsDrainedOrLost`: a backlog longer than a batch is worked off: each staged
  message reaches a job body, or is lost in one of those two ways.
- `HealthyIsSynced`, `DisabledGoesQuiet`: failing neighbours and lost messages do
  not starve a config; one disabled for good is left alone in the end.
- `SecretsReadable`: dropping the old key after a rotation has returned loses no
  stored secret, whatever was set, deleted or failed meanwhile.
- `RowAndSecretAgree`: an account has a row exactly when it has a secret, outside
  a request and the noted causes; a row alone would refuse the whole household.
- `LatestConsentIsStored`: no consent later than the stored one has been stored; a
  later one is still being looked up or its callback failed. Two exceptions are
  noted and real: a rotation reads every secret before it writes the first and may
  write an older one back, and callbacks that overlap may store in the other order.
- `DeletionsReported`: a deletion an account's position has passed was reported,
  unless the position was dropped (the account was skipped beside a live one, or
  disconnected) or reset by a 410.
- `SiblingsKeepSyncing`: an account that stays usable, in a household without a
  row that lacks its secret, is listed to its last deletion again and again.
- `TokenCoversMemory`: what a stored sync token has passed is in the memory
  exactly, however edits fall between REPORT and multiget.
- `MemoryIsTheMirror`, `MirrorShowsTheServer`: between runs memory and mirror
  agree, and a caught-up cursor means the mirror shows what the account's
  calendars have, outside the five noted events. Of a calendar that has left, the
  cursor keeps the memory and the mirror the rows.
- `DayIsServed`, `OneRowPerItem`: the stored day is one timetable the school
  served, with the substitutions of one later answer when the answer before both had
  them enabled; a mark or homework has one row, unless two syncs wrote it at the
  same time.
- `PackedAsSaved`: no gather, and no overlap of two, takes the equipment a family
  saved.
- `Gathered`: an account whose school answers is stored in the end, whatever
  collected errors the accounts before it meet in every run.
- `OneClient`, `AtMostOneLateCall`, `StopEnds`: no connection leaks but one whose
  connect or close was cancelled; stop() is followed by one callback at most, and
  by the end unless the browser hangs for good.
- `KeepsAttached`: the supervisor implements `Attachment`, with its liveness: the
  consumer hears of each loss and is handed a new client when the browser stays up
  and answers.
- `ShownAsAsked`: a page shows each event on exactly the visible days its author
  asked for, a form's at the hours typed. Of iCloud's events the days a row cannot
  hold are excepted one by one: a series shows too few when its frequency is not
  daily or weekly, or RDATE adds to it, and too many when COUNT, UNTIL, INTERVAL, a
  daily BYDAY, EXDATE or a moved occurrence takes from it; everything else must be
  exact. An event whose own zone puts it on another date is left out.
- `BadgeIsWeekly`: the repeat badge marks the weekly series and nothing else.
- `MonthIsWhole`, `NextMonthFollows`: a month page is the whole weeks of one
  month, and the next one is the next month up to offset 18.
- `ToggleKeepsDay`: switching an event between all-day and timed leaves it on its
  day, when Google's zone agrees on that day.
- `MealsOutliveDishes`, `DishIsOneEdit`: no planned meal dangles or loses its
  name, and a dish is what one edit saved unless two overlapped.
- `AssistantKnows`: with no history kept, a message still knows every row that
  other messages, failed ones included, had made when it read its context, but
  tasks done or due later and facts that newer ones have pushed out.

## What the code does that its texts deny

- `assistant_history`: `README.md` 3 names conversation persistence, and
  `docs/architecture.md` 15 has PostgreSQL own the conversations.
  `assistant/runtime.py` 33-37 casts `all_messages_json()` to a list; pydantic-ai
  (not in the repository) returns bytes there, which the serializer of the JSONB
  column refuses. The save raises after the tools have committed, and no exchange
  is ever stored.
- `job_icloud`: `jobs/tasks.py` 160 passes an un-awaited coroutine to `dict()`;
  the task raises on every pass. `CalDavSync` therefore describes the connector
  as `connectors/runner.py` runs it when `sync_connector` is awaited, one run at a
  time.

Without a run of their own, because a passing run's note already separates them, or
because the model has them by construction:

- `calendar/service.py` 63-66 tells callers to re-apply the whole batch after an
  abort. The abort it names, a record that fails validation, no registered
  connector can cause. Those that do happen (the unique index, a worker's death)
  come after the cursor is stored (`connectors/service.py` 84-85 before
  `jobs/tasks.py` 104-106), and nothing offers the batch again (`abandoned`).
- `connectors/google_calendar/connector.py` 9-11: a reset costs one extra full pass.
  Nothing clears the mirror before it, as
  docs/research/google-calendar-integration.md 74 has it, and a full listing names
  no deletion and nothing older than a year, so that such events stay as they were
  (`orphaned`, `aged`).

- `calendar/repository.py` 102-107 calls the upsert atomic under concurrent
  syncs. The index guards inserts; two updates from different selected rows leave
  a mixture (`raced` in `MirrorSync`).
- `connectors/whatsapp/models.py` 29-31 gives the sequence as the reason nothing
  is skipped. A row that commits after a later id was read is (`overtaken`).
- `connectors/google_calendar/connector.py` 13-17 says a dead account's cursor
  entry "simply drops out". It does beside a live account; when every account is
  dead the connector returns no cursor and `ConnectorService.sync` keeps the old
  one, entries included, which loses nothing.
- `connectors/bakalari.py` 16-17 calls fetching again safe. No unique key keeps a
  mark to one row when two syncs overlap (`mixed`), a day that has become empty is
  not applied, and marks that are gone stay. Line 91 promises that the accounts
  after a failing one still land; errors that are not collected (a broken
  connection, two lessons at one position) end the run.
- `chromium/supervisor.py` 40-41 promises silence after `stop()`; one callback
  under way may still follow. A `stop()` before `run()` has begun is lost, and a
  cancellation inside connect or close can leave that connection open. `stop()` has
  `run()` return within one loop iteration (line 92) only if the browser answers:
  no await has a timeout.
- `web/routes/calendar.py` 247 steps months by 32 days: "Previous month"
  (`calendar_main.html` 7) passes over a month at offset -1, and the steps forward
  leave the months after offset 18.
- `connectors/icloud_ics.py` 113-119 counts count-bounded rules among those it cannot
  represent and leaves to their first occurrence. A daily or weekly rule with COUNT or
  UNTIL is stored as an endless series, one with INTERVAL as one of every week, a
  daily one with BYDAY as one of every day, and EXDATE is not read
  (`Expressible`, `TakenOut`). Lines 25-28 admit that a moved occurrence shows in
  both slots. The weekdays of a series are those of its own zone.
- Events of several days are shown on their first date only; an update that turns
  an event into an all-day one takes the date in Google's zone and leaves out an
  end it was given; `build_event_body` sends a timed event without an end, which
  Google refuses.
- A meal whose dish is deleted while it is planned ends in an unhandled
  `IntegrityError`.

## Proofs

`MirrorSyncProofs` proves, for any sets of items, jobs and writers and any
bounds, `TypeCorrect`, `SyncLosesNothingSilently` and `LateAnswersNeverWin`.
The only assumptions are the two the module states: jobs and writers are disjoint,
the bounds are naturals.

`NoSilentLoss` is not inductive: it speaks of the stored cursor, while the value
stored next is in some run's hand. `IInv` adds, in this order of need,

- `PhaseInv`: what an actor holds fits where it is;
- `ClockInv`: nobody knows an unpublished revision;
- `RecordInv`: a held record was published by the source, and two holders of one
  revision hold the same record;
- `MirrorInv`: rows show revisions that were live, never a malformed one;
- `CoverInv`: what any cursor, stored, read or about to be stored, has passed is
  settled, or is in that run's own batch;
- `HolderInv`: two holders of an item are noted; a lone holder's transaction still
  sees the row it selected and its record is not older than the row;
- `OutrunInv`: while a lone holder's record is older than the source, no cursor
  covers the newer edit.

`OutrunInv` is what keeps a commit of old content from breaking `CoverInv`, and
`HolderInv` is what makes `MirrorMovesForward` a consequence of one step. There is
one lemma per action (`ChangeStep` to `CommitStep`), one step under it per conjunct
the action can disturb, and the action property follows from `Invariance` with
`ForwardStep`.

`WhatsAppDrainProofs` proves `DrainSkipsAreNoted` from the analogous
`PhaseInv`, `SequenceInv`, `CoverInv` and `InFlightInv`: an uncommitted row behind
any cursor is already noted as overtaken, so that its commit breaks nothing.

`GoogleProofs` proves all four invariants of `GoogleAccounts` for any
number of accounts and consents. `KeyInv` carries `SecretsReadable`: under both
keys a rotation still holds every secret that is under the old one, so none is
left when it returns, and from then on all secrets are sealed with the new key.
`PendingInv` (what a rotation holds is what is stored, or the change was noted) and
`MidwayInv` (a request in the middle has done its first statement) carry
`RowAndSecretAgree`. `CallbackInv` carries `LatestConsentIsStored`: only issued
tokens have a callback, and one that still looks its account up has the latest,
unless callbacks overlapped. Its second half, about `GoogleSync`, builds on that: `EntryInv` says that what
a run has listed continues what was reported unless it is a reset,
`FirstListingInv` that a position absent for no noted reason was never there;
`DeletionsReported` follows at `SaveCursor`.

`CalDavProofs` proves the type invariant and all three properties of `CalDavSync`.
None of the three is inductive. `TokenCoversMemory` speaks of the stored cursor
while the value stored next is in the run's hand and its token was taken before
the multiget. `IInv` adds

- `ClockInv` and `StoreInv`: no token is ahead of the server, an event is live or
  cancelled and in one resource;
- `CoverInv`, `FetchInv`: both cursors cover what their tokens have passed, and
  between REPORT and multiget everything up to the new token is in the memory or
  among the hrefs to fetch, which still stand. A later edit is ahead of it, so that an
  edit between the two calls breaks nothing;
- `IdleInv`, `RunInv`, `DoneInv`: until the cursor is stored the mirror agrees
  with the stored memory, and the records in the run's hand lead from the mirror
  to the run's memory: an id they name is remembered exactly when the last word on
  it is an upsert, an id they do not name is right already. The lemmas `Appended`
  and `TakenOff` say what a group appended, and a record applied, do to the last
  word.

`MemoryIsTheMirror` is then `IdleInv`, and `MirrorShowsTheServer` follows from
`CoverInv` and `IdleInv` together.

`SchoolProofs` proves the type invariant and the three safety properties of
`SchoolGather`, for any accounts, any answers of their schools and any number of
overlapping syncs. It assumes `NAssumption` (a household without accounts is
refused) and `ServedAssumption` (each school holds a list of payloads, and the
answers of a payload are lists). `IInv` adds to the stored rows what a sync holds
between two transactions:

- `PlanOK`: what is left to ask, and the timetable held while its substitutions
  are asked for, come from answers in the order they were asked;
- `DaysServed`: a day waiting in the work is one that was served;
- `SubjectsFirst`: the subject of each row to land is stored or comes before it in
  the work, so that no commit meets a missing subject. This is why the order of
  `DayOps` and `ItemOps` matters;
- `SeenOK`: a transaction no other has overtaken still sees what it selected, so
  that its insert doubles nothing and its replacement leaves nothing behind;
- `EquipInv`: a subject's equipment is the one saved for it, or none was.

The mapping uses folds. `FoldKeeps` says that a fold ends in any set that holds the
empty list and that each entry stays in, for a list of any length. It is shown by
induction over the naturals, which `Induct` derives from the library's facts on
strict subsets of a finite set without a theorem that takes an operator. With it,
`ItemsHaveIds` says which entries marks and homework come from, and
`TimetableInOrder` that the lessons have a subject and come by position. The latter
rests on `SortIsStable`: the place of a lesson, one more than the number of lessons
before it, numbers the lessons without repetition, so sorting is a permutation that
follows the order and keeps lessons of one position as they were given.

`PortalProofs` is about `MCPortal` and its three parts.

- *Dates.* The months of `Dates` follow each other without a gap and
  `MonthOf` finds the one a day lies in: the line of 48 months in 1461 days
  misses it by one month at most (the calendar is `datetime`'s from 1900 to 2099).
- *Calendar.* The properties of `CalendarPage` hold for any days, offsets,
  zones, forms, requests and VEVENTs (intervals, ends, added, excluded and replaced
  dates included) within the assumptions `DaysAssumption` and
  `InputAssumption` (what the form's parsing and the sources' formats can yield).
  `CalendarInv` is `Shown`, `RowsOK`, `GoogleOK` and `AsWritten`, which ties a row to
  what its author wrote; the page's properties are then facts of arithmetic: a
  padded window holds two occurrences of a series it shows and one of a single
  event (`SeriesFoundTwice`, `SingleFoundOnce`), and an event is fetched wherever
  one of its dates is visible (`FoundWhereItOccurs`). `FallingIsFalls` compares the
  weekdays a row keeps with what iCalendar means.
- *Meals.* `MealsOutliveDishes` and `DishIsOneEdit` for any dishes, browsers and
  weeks. Neither is inductive: a request holds a dish it read before. `MealsInv`
  adds `RequestsHeld`: what an edit has read is what is stored, unless another edit
  of the dish came between (then the request is marked) or the dish is gone, and a
  plan holds the dish's name. `DatesAssumption` says that the dates are integers in
  order.
- *Assistant.* `AssistantKnows` for any messages, conversations, rows and
  fact limit (`LimitAssumption`: a natural). It compares what a message holds with
  what became of the rows since. A context has every row that is in sight
  (`ContextKeeps`), and `StaysOutOfSight` shows that a row no context shows stays
  that way: a done task stays done, and newer facts stay newer.
- *Portal.* `PortalIsACalendar` is a refinement: the steps of meals and the
  assistant are stuttering steps of `CalendarPage`, so that its theorems hold of
  the portal. `PortalTypeCorrect` puts the three type invariants together.

`JobSweepProofs` proves the type invariant of `JobSweep`, for any configs, cadences,
workers and crashes: a cadence is one an operator chose even when a disable writes
back one it read before, and no job of an unregistered connector is listed, posted
or run.

`ChromiumProofs` proves the invariants of `ChromiumSupervisor` for any backoff,
faults and cancellations, from `Hands` (where the task stands says what it and the
consumer hold), `Connections` (what is open is held or was interrupted) and
`Calls`. `SupervisorKeepsItsPromise` is the refinement: connecting hands over, the
end of a close notifies, `run()` returning quits, everything else stutters or
is the browser's. It is the safety part, `Promise!Safety`; the liveness of
`KeepsAttached` is checked by TLC.

The type invariants of `GoogleAccounts`, `GoogleSync` and `WhatsAppDrain` are
conjuncts of their inductive invariants (`AccountsTypeCorrect`, `SyncTypeCorrect`,
`DrainTypeCorrect`). Every invariant and every action property that a run
checks, the runs that show a disagreement aside, is stated by a theorem.

Only model-checked: the liveness properties (`Converges`, `StagedIsDrainedOrLost`,
`HealthyIsSynced`, `DisabledGoesQuiet`, `SiblingsKeepSyncing`, `Gathered`,
`StopEnds` and the liveness part of `KeepsAttached`), since the prover handles
neither fairness nor ENABLED. Of the mapping, that no lesson, mark or homework the
payload holds is lost, and which position a lesson without an hour gets, is not
proved either: TLC evaluates it on the payloads of `school`.

## Not modelled

- Content of records in the synchronisation modules: fields, titles. A revision
  stands for all of it; times and zones are in `EventMapping`.
- In `MirrorSync`: where the year of a full listing ends, but for the fact that an
  event only leaves it with time; Google's token per account (`GoogleSync` has it) and paging; the
  etag conflict of `update_event`, which stops before anything changes.
- In `GoogleAccounts` and `GoogleSync`: an account's choice of another calendar,
  which no caller makes; several old keys in flight; overlapping runs
  (`MirrorSync` has those).
- In `WhatsAppDrain`: a cursor that is not a number (`StaleCursorError`), which
  only a foreign value in the table could cause.
- In `JobSweep`: the "household not found" answers, which the foreign keys rule
  out; the manual refresh, which `SchoolGather` has.
- In `CalDavSync`: discovery, chunks of the multiget, overlapping runs
  (`MirrorSync` has those).
- In `SchoolGather`: several gather days (a day is replaced by itself), the pages'
  choice of a child and a week. Its instance serves marks only; homework takes
  the same transactions. No payload of the instance has two lessons at one
  position, the error that keeps later accounts waiting.
- In `EventMapping`: rule parts beyond FREQ, INTERVAL, BYDAY, COUNT and UNTIL, which
  only thin out a daily or weekly rule further; a RECURRENCE-ID for all occurrences
  from one on; several exceptions of one series.
- In `CalendarPage`: summer time (a zone is a constant distance from UTC), members,
  colours and the layout of cells.
- In `Assistant`: the calendar and household tools, the deep agent itself, and the
  model, which may call any tool in any order. A result without
  `all_messages_json()`, for which `runtime.py` 35 saves an empty history, is not
  what the agent returns.
- Household, commitments' owners, sources: single-row inserts and reads. No
  state of one call is used by another.
- Web routes beyond those named above, `app.py`, `container.py`, `ui.py`, `seed.py`
  and the migrations: construction, rendering, fixed sample data. `seed.py` and
  `ui.py` are demo data without a protocol; what the schema guarantees (unique
  indexes, foreign keys) appears in the modules that rely on it.

## Plan

Done, in order of importance: `MirrorSync`, `WhatsAppDrain`, `JobSweep`,
`CalDavSync`, `GoogleAccounts` with `GoogleSync`, `CalendarPage` with its mapping
and dates, `ChromiumSupervisor` with `Attachment`, `SchoolGather`, `Meals`,
`Assistant`; the proofs of the safety properties of all of them.

1. Overlapping syncs in `CalDavSync`, over the transactions of `MirrorSync`.
2. That the folds of `SchoolMapping` lose no entry, with the induction of
   `SchoolProofs`.
3. A household with one live Google account as a refinement of a one-position
   cursor.
4. Zones with summer time in `Dates`.
