------------------------------ MODULE JobSweep ------------------------------
(***************************************************************************)
(* The job plane: the hourly cron message, the Redis list the workers pop  *)
(* at most once, gather_due posting one job per due and registered config, *)
(* connector_sync routing the job, ConnectorService.sync stamping the      *)
(* config, and an operator enabling and disabling configs meanwhile.       *)
(*                                                                         *)
(* A Pair is one (household, connector).  What a sync does between its     *)
(* start and its stamp is MirrorSync's and WhatsAppDrain's subject.        *)
(***************************************************************************)
EXTENDS Integers, Sequences

CONSTANTS
  Pair,       \* onboarded (household, connector) pairs
  Unbuilt,    \* pairs whose connector is not registered
  Icloud,     \* pairs routed to the credential-aware runner
  Broken,     \* pairs whose source refuses every sync
  Slot,       \* tasks the workers run at once
  Managed,    \* bound: pairs the operator edits
  Poll,       \* cadences in hours an operator may choose
  MaxAge,     \* bound: hours since the last sync saturate here
  MaxQueue,   \* bound: cron waits while this many messages are queued
  MaxFaults   \* bound: crashed tasks

ASSUME PairKinds == Unbuilt \cup Icloud \cup Broken \cup Managed \subseteq Pair
ASSUME PollInHours == Poll \subseteq 1 .. MaxAge /\ MaxAge \in Nat
ASSUME LimitsNat == MaxQueue \in Nat /\ MaxFaults \in Nat

VARIABLES
  enabled, poll,   \* connector_configs: the enabled flag and the intake's cadence
  age,             \* hours since last_synced_at, or Never
  disabling,       \* the cadence a disable call has read, 0 when none is open
  queue,           \* the broker's list: "gather" or a pair
  at, pair, todo,  \* each slot: where its task is, its pair, pairs left to post
  faults           \* history: failures so far

vars == <<enabled, poll, age, disabling, queue, at, pair, todo, faults>>

Never    == -1
Gather   == "gather"
NoPair   == "none"
Healthy  == Pair \ (Unbuilt \cup Icloud \cup Broken)

TypeOK ==
  /\ enabled \in [Pair -> BOOLEAN]
  /\ poll \in [Pair -> Poll]
  /\ age \in [Pair -> 0 .. MaxAge \cup {Never}]
  /\ disabling \in [Pair -> Poll \cup {0}]
  /\ queue \in Seq({Gather} \cup (Pair \ Unbuilt))
  /\ at \in [Slot -> {"idle", "gather", "post", "sync", "stamp"}]
  /\ pair \in [Slot -> (Pair \ Unbuilt) \cup {NoPair}]
  /\ todo \in [Slot -> SUBSET (Pair \ Unbuilt)]
  /\ faults \in 0 .. MaxFaults

Init ==
  /\ enabled = [p \in Pair |-> TRUE]
  /\ poll \in [Pair -> Poll]
  /\ age = [p \in Pair |-> Never]
  /\ disabling = [p \in Pair |-> 0]
  /\ queue = <<>>
  /\ at = [s \in Slot |-> "idle"]
  /\ pair = [s \in Slot |-> NoPair]
  /\ todo = [s \in Slot |-> {}]
  /\ faults = 0

Goto(s, place) == at' = [at EXCEPT ![s] = place]
Due(p) == enabled[p] /\ (age[p] = Never \/ age[p] >= poll[p])

-----------------------------------------------------------------------------
(* ConnectorConfigService: the operator.                                   *)

\* One upsert: the arguments are the full desired intake.
Enable(p, hours) ==
  /\ enabled' = [enabled EXCEPT ![p] = TRUE]
  /\ poll' = [poll EXCEPT ![p] = hours]
  /\ UNCHANGED <<age, disabling, queue, at, pair, todo, faults>>

\* disable reads the row in a session of its own ...
DisableRead(p) ==
  /\ enabled[p] /\ disabling[p] = 0
  /\ disabling' = [disabling EXCEPT ![p] = poll[p]]
  /\ UNCHANGED <<enabled, poll, age, queue, at, pair, todo, faults>>

\* ... and upserts the intake it read.
DisableWrite(p) ==
  /\ disabling[p] # 0
  /\ enabled' = [enabled EXCEPT ![p] = FALSE]
  /\ poll' = [poll EXCEPT ![p] = disabling[p]]
  /\ disabling' = [disabling EXCEPT ![p] = 0]
  /\ UNCHANGED <<age, queue, at, pair, todo, faults>>

-----------------------------------------------------------------------------
(* The scheduler and the broker.                                           *)

\* An hour passes and the cron label posts gather_due.
Hour ==
  /\ Len(queue) < MaxQueue
  /\ age' = [p \in Pair |-> IF age[p] \in {Never, MaxAge} THEN age[p] ELSE age[p] + 1]
  /\ queue' = Append(queue, Gather)
  /\ UNCHANGED <<enabled, poll, disabling, at, pair, todo, faults>>

\* BRPOP: the message leaves the list before its task runs.
Take(s) ==
  /\ at[s] = "idle" /\ queue # <<>>
  /\ queue' = Tail(queue)
  /\ IF Head(queue) = Gather
     THEN Goto(s, "gather") /\ UNCHANGED pair
     ELSE Goto(s, "sync") /\ pair' = [pair EXCEPT ![s] = Head(queue)]
  /\ UNCHANGED <<enabled, poll, age, disabling, todo, faults>>

-----------------------------------------------------------------------------
(* gather_due                                                              *)

\* Mutant: the pass forgets to ask which connectors are registered.
ReadDueUnbuilt(s) ==
  /\ at[s] = "gather"
  /\ todo' = [todo EXCEPT ![s] = {p \in Pair : Due(p)}]
  /\ Goto(s, "post")
  /\ UNCHANGED <<enabled, poll, age, disabling, queue, pair, faults>>

\* Mutant: every config is read, not only the enabled ones.
ReadDueDisabled(s) ==
  /\ at[s] = "gather"
  /\ todo' = [todo EXCEPT ![s] = {p \in Pair \ Unbuilt : age[p] = Never \/ age[p] >= poll[p]}]
  /\ Goto(s, "post")
  /\ UNCHANGED <<enabled, poll, age, disabling, queue, pair, faults>>

\* due_registered: one read of the enabled configs.
ReadDue(s) ==
  /\ at[s] = "gather"
  /\ todo' = [todo EXCEPT ![s] = {p \in Pair \ Unbuilt : Due(p)}]
  /\ Goto(s, "post")
  /\ UNCHANGED <<enabled, poll, age, disabling, queue, pair, faults>>

\* Mutant: the pass returns after its first job.
KiqFirst(s) ==
  /\ at[s] = "post"
  /\ \E p \in todo[s] : queue' = Append(queue, p)
  /\ todo' = [todo EXCEPT ![s] = {}]
  /\ UNCHANGED <<enabled, poll, age, disabling, at, pair, faults>>

\* connector_sync.kiq for the next config of the list read before.
Kiq(s) ==
  /\ at[s] = "post"
  /\ \E p \in todo[s] :
       /\ queue' = Append(queue, p)
       /\ todo' = [todo EXCEPT ![s] = @ \ {p}]
  /\ UNCHANGED <<enabled, poll, age, disabling, at, pair, faults>>

GatherDone(s) ==
  /\ at[s] = "post" /\ todo[s] = {}
  /\ Goto(s, "idle")
  /\ UNCHANGED <<enabled, poll, age, disabling, queue, pair, todo, faults>>

-----------------------------------------------------------------------------
(* connector_sync                                                          *)

Leave(s) ==
  /\ Goto(s, "idle")
  /\ pair' = [pair EXCEPT ![s] = NoPair]
  /\ todo' = [todo EXCEPT ![s] = {}]
  /\ UNCHANGED <<enabled, poll, age, disabling, queue>>

\* The task raises: the connector refuses, or, for iCloud, sync_connector is
\* called and never awaited and dict() refuses the coroutine.
SyncRaises(s) ==
  /\ at[s] = "sync" /\ pair[s] \in Icloud \cup Broken
  /\ Leave(s) /\ UNCHANGED faults

\* run_connector_sync and sync_household_now do not look at the enabled flag.
SyncAnswered(s) ==
  /\ at[s] = "sync" /\ pair[s] \notin Icloud \cup Broken
  /\ Goto(s, "stamp")
  /\ UNCHANGED <<enabled, poll, age, disabling, queue, pair, todo, faults>>

StampSynced(s) ==
  /\ at[s] = "stamp"
  /\ age' = [age EXCEPT ![pair[s]] = 0]
  /\ Goto(s, "idle")
  /\ pair' = [pair EXCEPT ![s] = NoPair]
  /\ UNCHANGED <<enabled, poll, disabling, queue, todo, faults>>

\* The worker dies, Redis or the database is away: the message is gone.
Crash(s) ==
  /\ at[s] # "idle" /\ faults < MaxFaults
  /\ faults' = faults + 1
  /\ Leave(s)

-----------------------------------------------------------------------------
SlotStep(s) ==
  \/ Take(s) \/ ReadDue(s) \/ Kiq(s) \/ GatherDone(s)
  \/ SyncRaises(s) \/ SyncAnswered(s) \/ StampSynced(s)

Next ==
  \/ \E p \in Managed : DisableRead(p) \/ DisableWrite(p) \/ \E h \in Poll : Enable(p, h)
  \/ Hour
  \/ \E s \in Slot : SlotStep(s) \/ Crash(s)

\* The scheduler process keeps its cron and the worker processes keep running.
Spec ==
  /\ Init /\ [][Next]_vars
  /\ WF_vars(Hour) /\ \A s \in Slot : WF_vars(SlotStep(s))

-----------------------------------------------------------------------------
(***************************************************************************)
(* A config whose source answers never stays due: pairs that fail on every *)
(* pass, and are due on every pass, do not keep the others from their sync *)
(* (tasks.py 116-130, "one household's failure must not block"), and       *)
(* neither does a message lost with its worker.                            *)
(***************************************************************************)
HealthyIsSynced == \A p \in Healthy : []<>~Due(p)

Backlog(p) == (\E k \in DOMAIN queue : queue[k] = p) \/ \E s \in Slot : pair[s] = p

(***************************************************************************)
(* A config disabled for good is left alone in the end: the jobs posted    *)
(* before run out and no later pass posts another.                         *)
(***************************************************************************)
DisabledGoesQuiet == \A p \in Pair : <>[]~enabled[p] => <>[]~Backlog(p)

(***************************************************************************)
(* The module docstring (tasks.py 12-14) says icloud_calendar "runs        *)
(* through the credential-aware runner": its configs do not stay due.      *)
(***************************************************************************)
IcloudIsSynced == \A p \in Icloud \ (Broken \cup Unbuilt) : []<>~Due(p)
=============================================================================
