--------------------------- MODULE WhatsAppDrain ---------------------------
(***************************************************************************)
(* The WhatsApp staging table of one household: producers (webhook ingest, *)
(* web-bridge observer) stage events, WhatsAppConnector drains the rows    *)
(* beyond the stored high-water id, ConnectorService stores the new one.   *)
(*                                                                         *)
(* A row's id is taken when its INSERT executes and the row is visible     *)
(* when its transaction commits.  Jobs for one household may overlap.      *)
(***************************************************************************)
EXTENDS Integers, FiniteSets

CONSTANTS
  Producer,   \* connections that stage events
  Wamid,      \* WhatsApp message ids
  Drain,      \* sync jobs
  Batch,      \* DEFAULT_BATCH: rows one drain may read
  MaxId,      \* bound: ids the sequence hands out
  MaxFaults   \* bound: failures of a job

ASSUME BatchPositive == Batch \in Nat \ {0}
ASSUME LimitsNat == MaxId \in Nat /\ MaxFaults \in Nat

VARIABLES
  seq,        \* last id the identity column handed out
  open,       \* the row of each producer's open transaction, if any
  rows,       \* committed rows
  cursor,     \* stored high-water id, or NoCursor
  phase, from, next, batch,   \* each job: its place, cursor read, next_cursor, rows
  delivered,  \* history: ids whose records ConnectorService.sync returned
  dropped,    \* history: ids of a job that failed after storing its cursor
  overtaken,  \* history: ids not yet visible when a drain read a later one
  faults      \* history: failures so far

vars == <<seq, open, rows, cursor, phase, from, next, batch, delivered, dropped,
          overtaken, faults>>

NoCursor == 0           \* ids start at 1, so "everything" is "beyond 0"
Id    == 1 .. MaxId
Row   == [id : Id, wamid : Wamid]
Phase == {"idle", "select", "save", "return"}

TypeOK ==
  /\ seq \in 0 .. MaxId
  /\ open \in [Producer -> SUBSET Row]
  /\ rows \subseteq Row
  /\ cursor \in 0 .. MaxId
  /\ phase \in [Drain -> Phase]
  /\ from \in [Drain -> 0 .. MaxId]
  /\ next \in [Drain -> 0 .. MaxId]
  /\ batch \in [Drain -> SUBSET Row]
  /\ delivered \subseteq Id /\ dropped \subseteq Id /\ overtaken \subseteq Id
  /\ faults \in 0 .. MaxFaults

Init ==
  /\ seq = 0 /\ open = [p \in Producer |-> {}] /\ rows = {}
  /\ cursor = NoCursor
  /\ phase = [d \in Drain |-> "idle"]
  /\ from = [d \in Drain |-> NoCursor]
  /\ next = [d \in Drain |-> NoCursor]
  /\ batch = [d \in Drain |-> {}]
  /\ delivered = {} /\ dropped = {} /\ overtaken = {}
  /\ faults = 0

Ids(R) == {m.id : m \in R}
InFlight == UNION {open[p] : p \in Producer}

-----------------------------------------------------------------------------
(* WhatsAppEventRepository.stage                                           *)

\* INSERT ... ON CONFLICT DO NOTHING: the id is drawn first; a wamid already
\* committed adds no row, and one in another open transaction makes this wait.
Stage(p, w) ==
  /\ open[p] = {} /\ seq < MaxId
  /\ \A m \in InFlight : m.wamid # w
  /\ seq' = seq + 1
  /\ IF \E m \in rows : m.wamid = w
     THEN UNCHANGED open
     ELSE open' = [open EXCEPT ![p] = {[id |-> seq + 1, wamid |-> w]}]
  /\ UNCHANGED <<rows, cursor, phase, from, next, batch, delivered, dropped,
                 overtaken, faults>>

CommitStage(p) ==
  /\ open[p] # {}
  /\ rows' = rows \cup open[p]
  /\ open' = [open EXCEPT ![p] = {}]
  /\ UNCHANGED <<seq, cursor, phase, from, next, batch, delivered, dropped,
                 overtaken, faults>>

\* The producer dies; the webhook will be delivered again.
AbortStage(p) ==
  /\ open[p] # {}
  /\ open' = [open EXCEPT ![p] = {}]
  /\ UNCHANGED <<seq, rows, cursor, phase, from, next, batch, delivered, dropped,
                 overtaken, faults>>

-----------------------------------------------------------------------------
(* A connector_sync job: ConnectorService.sync around WhatsAppConnector.   *)

ReadCursor(d) ==
  /\ phase[d] = "idle"
  /\ from' = [from EXCEPT ![d] = cursor]
  /\ phase' = [phase EXCEPT ![d] = "select"]
  /\ UNCHANGED <<seq, open, rows, cursor, next, batch, delivered, dropped, overtaken, faults>>

Visible(d) == {m \in rows : m.id > from[d]}

\* Mutant: the newest visible rows are read, not the oldest.
SelectNewest(d) ==
  /\ phase[d] = "select"
  /\ \E low \in Ids(Visible(d)) :
       LET read == {m \in Visible(d) : m.id >= low}
           high == CHOOSE i \in Ids(read) : \A j \in Ids(read) : i >= j
       IN  /\ Cardinality(read) <= Batch
           /\ Cardinality(read) = Batch \/ read = Visible(d)
           /\ batch' = [batch EXCEPT ![d] = read]
           /\ next' = [next EXCEPT ![d] = high]
           /\ overtaken' = overtaken \cup {i \in Ids(InFlight) : i < high}
  /\ from' = [from EXCEPT ![d] = NoCursor]
  /\ phase' = [phase EXCEPT ![d] = "save"]
  /\ UNCHANGED <<seq, open, rows, cursor, delivered, dropped, faults>>

\* Mutant: next_cursor is the first id not read, while "beyond" stays strict.
SelectExclusive(d) ==
  /\ phase[d] = "select"
  /\ \E high \in Ids(Visible(d)) :
       LET read == {m \in Visible(d) : m.id <= high}
       IN  /\ Cardinality(read) <= Batch
           /\ Cardinality(read) = Batch \/ read = Visible(d)
           /\ batch' = [batch EXCEPT ![d] = read]
           /\ next' = [next EXCEPT ![d] = high + 1]
           /\ overtaken' = overtaken \cup {i \in Ids(InFlight) : i < high}
  /\ from' = [from EXCEPT ![d] = NoCursor]
  /\ phase' = [phase EXCEPT ![d] = "save"]
  /\ UNCHANGED <<seq, open, rows, cursor, delivered, dropped, faults>>

\* ORDER BY id LIMIT Batch: the oldest visible rows, up to `high`.
Select(d) ==
  /\ phase[d] = "select"
  /\ \E high \in Ids(Visible(d)) :
       LET read == {m \in Visible(d) : m.id <= high}
       IN  /\ Cardinality(read) <= Batch
           /\ Cardinality(read) = Batch \/ read = Visible(d)
           /\ batch' = [batch EXCEPT ![d] = read]
           /\ next' = [next EXCEPT ![d] = high]
           /\ overtaken' = overtaken \cup {i \in Ids(InFlight) : i < high}
  /\ from' = [from EXCEPT ![d] = NoCursor]
  /\ phase' = [phase EXCEPT ![d] = "save"]
  /\ UNCHANGED <<seq, open, rows, cursor, delivered, dropped, faults>>

\* Nothing new: no next_cursor, the stored one stays.
SelectNothing(d) ==
  /\ phase[d] = "select"
  /\ Visible(d) = {}
  /\ from' = [from EXCEPT ![d] = NoCursor]
  /\ phase' = [phase EXCEPT ![d] = "idle"]
  /\ UNCHANGED <<seq, open, rows, cursor, next, batch, delivered, dropped, overtaken, faults>>

\* Mutant: the cursor is never saved.
SaveCursorLost(d) ==
  /\ phase[d] = "save"
  /\ next' = [next EXCEPT ![d] = NoCursor]
  /\ phase' = [phase EXCEPT ![d] = "return"]
  /\ UNCHANGED <<seq, open, rows, cursor, from, batch, delivered, dropped, overtaken, faults>>

SaveCursor(d) ==
  /\ phase[d] = "save"
  /\ cursor' = next[d]
  /\ next' = [next EXCEPT ![d] = NoCursor]
  /\ phase' = [phase EXCEPT ![d] = "return"]
  /\ UNCHANGED <<seq, open, rows, from, batch, delivered, dropped, overtaken, faults>>

\* The config is stamped and the records go back to the job body.
Return(d) ==
  /\ phase[d] = "return"
  /\ delivered' = delivered \cup Ids(batch[d])
  /\ batch' = [batch EXCEPT ![d] = {}]
  /\ phase' = [phase EXCEPT ![d] = "idle"]
  /\ UNCHANGED <<seq, open, rows, cursor, from, next, dropped, overtaken, faults>>

\* An exception at an await, or the worker dies.
Fail(d) ==
  /\ phase[d] # "idle" /\ faults < MaxFaults
  /\ faults' = faults + 1
  /\ dropped' = IF phase[d] = "return" THEN dropped \cup Ids(batch[d]) ELSE dropped
  /\ from' = [from EXCEPT ![d] = NoCursor]
  /\ next' = [next EXCEPT ![d] = NoCursor]
  /\ batch' = [batch EXCEPT ![d] = {}]
  /\ phase' = [phase EXCEPT ![d] = "idle"]
  /\ UNCHANGED <<seq, open, rows, cursor, delivered, overtaken>>

DrainStep(d) ==
  ReadCursor(d) \/ Select(d) \/ SelectNothing(d) \/ SaveCursor(d) \/ Return(d)

Next ==
  \/ \E p \in Producer : CommitStage(p) \/ AbortStage(p) \/ \E w \in Wamid : Stage(p, w)
  \/ \E d \in Drain : DrainStep(d) \/ Fail(d)

\* The hourly pass keeps starting jobs and a started job keeps running.
Spec == Init /\ [][Next]_vars /\ \A d \in Drain : WF_vars(DrainStep(d))

-----------------------------------------------------------------------------
\* The row's record reached the job body, or is on its way there.
Carried(m) ==
  \/ m.id \in delivered
  \/ \E d \in Drain : phase[d] = "return" /\ m \in batch[d]

(***************************************************************************)
(* A committed row the cursor has passed was handed to a job, with two     *)
(* exceptions: it was still uncommitted when a drain read a row with a     *)
(* later id (overtaken), or its job failed after storing the cursor        *)
(* (dropped, service.py 84-88), and no job will see it.  Batch limits,     *)
(* overlapping drains and failures before the save lose nothing.           *)
(***************************************************************************)
SkippedRowsAreNoted ==
  \A m \in rows : m.id <= cursor => Carried(m) \/ m.id \in overtaken \cup dropped

(***************************************************************************)
(* A backlog longer than one batch is worked off: every staged message is  *)
(* eventually handed to a job, or is lost in one of the two ways above:    *)
(* a drain overtook it, or the job that had read it failed between storing *)
(* the cursor and returning its records.                                   *)
(***************************************************************************)
StagedIsDrainedOrLost ==
  \A w \in Wamid :
    (\E m \in rows : m.wamid = w)
      ~> (\E m \in rows : m.wamid = w /\ m.id \in delivered \cup overtaken \cup dropped)

-----------------------------------------------------------------------------
(* The inductive invariant behind SkippedRowsAreNoted.                *)

PhaseInv ==
  \A d \in Drain :
    /\ from[d] # NoCursor => phase[d] = "select"
    /\ next[d] # NoCursor => phase[d] = "save"
    /\ phase[d] \in {"idle", "select"} => batch[d] = {}

\* Ids are unique and drawn in order; nobody knows one that was not drawn.
SequenceInv ==
  /\ \A m \in rows \cup InFlight : m.id <= seq
  /\ \A p \in Producer : \A m \in open[p] :
       /\ \A n \in rows : n.id # m.id
       /\ \A q \in Producer \ {p} : \A n \in open[q] : n.id # m.id
  /\ cursor <= seq /\ \A d \in Drain : from[d] <= seq /\ next[d] <= seq

Accounted(m) == Carried(m) \/ m.id \in overtaken \cup dropped

\* What a cursor, stored or in hand, has passed is accounted for.
CoverInv ==
  \A m \in rows :
    /\ m.id <= cursor => Accounted(m)
    /\ \A d \in Drain :
         /\ m.id <= from[d] => Accounted(m)
         /\ m.id <= next[d] => Accounted(m) \/ m \in batch[d]

\* A row still in flight behind a cursor is already noted as overtaken.
InFlightInv ==
  \A m \in InFlight :
    m.id \notin overtaken => m.id > cursor /\ \A d \in Drain : m.id > from[d] /\ m.id > next[d]

IInv == TypeOK /\ PhaseInv /\ SequenceInv /\ CoverInv /\ InFlightInv
=============================================================================
