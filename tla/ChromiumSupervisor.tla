------------------------- MODULE ChromiumSupervisor -------------------------
(***************************************************************************)
(* chromium/supervisor.py: one task keeps a CDP client attached to a       *)
(* browser that is run by somebody else, and tells a consumer of clients   *)
(* gained and lost.  stop() and a cancellation may come at any await.      *)
(*                                                                         *)
(* Clients are numbered as they are connected.  pc names the await that    *)
(* run() stands at: resolve, connect, retry (the backoff), attach          *)
(* (on_attach), sleep, ping, close and detach (both in _lose), bye (the    *)
(* close in run's finally), or idle and ended.                             *)
(***************************************************************************)
EXTENDS Naturals, FiniteSets

CONSTANTS
  Poll, MaxBackoff,   \* poll_seconds, max_backoff_seconds
  MaxFaults,          \* bound: deaths and hangs of the browser, broken connections
  MaxCancels          \* bound: cancellations

ASSUME BackoffAssumption == Poll \in Nat \ {0} /\ MaxBackoff \in Nat /\ Poll <= MaxBackoff
ASSUME BoundsAssumption == MaxFaults \in Nat /\ MaxCancels \in Nat

VARIABLES
  pc, running,   \* the task and its flag
  backoff,       \* of _attach
  client,        \* self._client, 0 for none
  serial,        \* clients connected so far
  open, live,    \* connected and not closed; of these the ones that answer
  browser, hung, \* the browser can be reached; it accepts but does not answer
  told,          \* the client the consumer holds, 0 for none
  late,          \* history: callbacks after stop()
  cut,           \* history: clients whose connect or close was cancelled
  faults, cancels

task  == <<pc, running, backoff, client, serial>>
world == <<browser, hung, faults, cancels>>
vars  == <<task, open, live, told, late, cut, world>>

Awaits == {"resolve", "connect", "retry", "attach", "sleep", "ping", "close", "detach", "bye"}

TypeOK ==
  /\ pc \in Awaits \cup {"idle", "ended"} /\ running \in BOOLEAN
  /\ backoff \in Poll .. MaxBackoff
  /\ serial \in Nat /\ client \in 0 .. serial /\ told \in 0 .. serial
  /\ open \subseteq 1 .. serial + 1 /\ live \subseteq open /\ cut \subseteq 1 .. serial + 1
  /\ browser \in BOOLEAN /\ hung \in BOOLEAN /\ late \in Nat
  /\ faults \in 0 .. MaxFaults /\ cancels \in 0 .. MaxCancels

Init ==
  /\ pc = "idle" /\ running = FALSE
  /\ backoff = Poll /\ client = 0 /\ serial = 0
  /\ open = {} /\ live = {} /\ browser \in BOOLEAN /\ hung = FALSE
  /\ told = 0 /\ late = 0 /\ cut = {}
  /\ faults = 0 /\ cancels = 0

-----------------------------------------------------------------------------
(* Where the loops of run, _attach and _watch lead after an await.         *)

\* Mutant: the finally leaves the client alone.
LeaveOpen == pc' = "ended" /\ running' = FALSE /\ UNCHANGED client
\* The finally of run: a client still held is taken and closed.
Leave ==
  /\ running' = FALSE /\ client' = 0
  /\ pc' = IF client = 0 THEN "ended" ELSE "bye"

\* Mutant: the loop does not look at the flag.
ContinueDeaf(next) == pc' = next /\ UNCHANGED <<running, client>>
\* `while self._running`: go on, or out through the finally.
Continue(next) ==
  \/ running /\ pc' = next /\ UNCHANGED <<running, client>>
  \/ ~running /\ Leave

Callback == late' = IF running THEN late ELSE late + 1

-----------------------------------------------------------------------------
(* The task.                                                               *)

Start ==
  /\ pc = "idle"
  /\ running' = TRUE /\ pc' = "resolve"
  /\ UNCHANGED <<backoff, client, serial, open, live, told, late, cut, world>>

Resolve ==
  /\ pc = "resolve" /\ browser /\ ~hung
  /\ pc' = "connect"
  /\ UNCHANGED <<running, backoff, client, serial, open, live, told, late, cut, world>>

Unreachable ==
  /\ pc \in {"resolve", "connect"} /\ (~browser \/ hung)
  /\ pc' = "retry"
  /\ UNCHANGED <<running, backoff, client, serial, open, live, told, late, cut, world>>

\* Mutant: the retry loop does not look at the flag.
RetryDeaf ==
  /\ pc = "retry"
  /\ backoff' = IF backoff * 2 < MaxBackoff THEN backoff * 2 ELSE MaxBackoff
  /\ pc' = "resolve"
  /\ UNCHANGED <<running, client, serial, open, live, told, late, cut, world>>
\* Mutant: the backoff is doubled without a cap.
RetryUncapped ==
  /\ pc = "retry"
  /\ backoff' = backoff * 2
  /\ Continue("resolve")
  /\ UNCHANGED <<serial, open, live, told, late, cut, world>>
Retry ==
  /\ pc = "retry"
  /\ backoff' = IF backoff * 2 < MaxBackoff THEN backoff * 2 ELSE MaxBackoff
  /\ Continue("resolve")
  /\ UNCHANGED <<serial, open, live, told, late, cut, world>>

\* The client is connected and stored, and on_attach is called with it.
Connect ==
  /\ pc = "connect" /\ browser /\ ~hung
  /\ serial' = serial + 1
  /\ open' = open \cup {serial'} /\ live' = live \cup {serial'}
  /\ client' = serial' /\ told' = serial' /\ Callback
  /\ pc' = "attach"
  /\ UNCHANGED <<running, backoff, cut, world>>

\* on_attach returns or raises; run resets its backoff and watches.
Attached ==
  /\ pc = "attach"
  /\ backoff' = Poll
  /\ Continue("sleep")
  /\ UNCHANGED <<serial, open, live, told, late, cut, world>>

Sleep ==
  /\ pc = "sleep"
  /\ pc' = "ping"
  /\ UNCHANGED <<running, backoff, client, serial, open, live, told, late, cut, world>>

PingAnswered ==
  /\ pc = "ping" /\ told \in live /\ ~hung
  /\ Continue("sleep")
  /\ UNCHANGED <<backoff, serial, open, live, told, late, cut, world>>

\* _lose gives the client up and closes it.
PingFailed ==
  /\ pc = "ping" /\ told \notin live
  /\ client' = 0
  /\ pc' = "close"
  /\ UNCHANGED <<running, backoff, serial, open, live, told, late, cut, world>>

\* Mutant: on_detach is not called.
CloseSilent ==
  /\ pc = "close"
  /\ open' = open \ {told} /\ live' = live \ {told}
  /\ pc' = "detach"
  /\ UNCHANGED <<told, late, running, backoff, client, serial, cut, world>>
\* The close is over, well or not, and on_detach is called.
Close ==
  /\ pc = "close"
  /\ open' = open \ {told} /\ live' = live \ {told}
  /\ told' = 0 /\ Callback
  /\ pc' = "detach"
  /\ UNCHANGED <<running, backoff, client, serial, cut, world>>

\* on_detach returns or raises.
Detached ==
  /\ pc = "detach"
  /\ Continue("resolve")
  /\ UNCHANGED <<backoff, serial, open, live, told, late, cut, world>>

Bye ==
  /\ pc = "bye"
  /\ open' = open \ {told} /\ live' = live \ {told}
  /\ pc' = "ended"
  /\ UNCHANGED <<running, backoff, client, serial, told, late, cut, world>>

TaskStep ==
  Start \/ Resolve \/ Unreachable \/ Retry \/ Connect \/ Attached \/ Sleep
    \/ PingAnswered \/ PingFailed \/ Close \/ Detached \/ Bye

\* No await has a timeout here: one that a hung browser has to answer may last.
Waiting ==
  hung /\ \/ pc \in {"resolve", "connect", "attach", "close", "bye"}
          \/ pc = "ping" /\ told \in live

-----------------------------------------------------------------------------
(* Its surroundings.                                                       *)

Stop ==
  /\ running' = FALSE
  /\ UNCHANGED <<pc, backoff, client, serial, open, live, told, late, cut, world>>

\* A cancelled connect may leave a connection that nobody knows of, a
\* cancelled close one that stays open.
Interrupted ==
  \/ pc \notin {"close", "bye"} /\ UNCHANGED <<open, live, cut>>
  \/ /\ pc = "connect"
     /\ browser
     /\ open' = open \cup {serial + 1} /\ live' = live \cup {serial + 1}
     /\ cut' = cut \cup {serial + 1}
  \/ /\ pc \in {"close", "bye"}
     /\ cut' = cut \cup {told}
     /\ \/ open' = open \ {told} /\ live' = live \ {told}
        \/ UNCHANGED <<open, live>>

Cancel ==
  /\ cancels < MaxCancels
  /\ cancels' = cancels + 1
  /\ pc \in Awaits \cup {"idle"}
  /\ Interrupted
  /\ IF pc \in {"idle", "bye"}
     THEN pc' = "ended" /\ UNCHANGED <<running, client>>
     ELSE Leave
  /\ UNCHANGED <<backoff, serial, told, late, browser, hung, faults>>

BrowserStarts ==
  /\ ~browser /\ browser' = TRUE
  /\ UNCHANGED <<task, open, live, told, late, cut, hung, faults, cancels>>

BrowserDies ==
  /\ browser /\ faults < MaxFaults
  /\ browser' = FALSE /\ hung' = FALSE /\ live' = {} /\ faults' = faults + 1
  /\ UNCHANGED <<task, open, told, late, cut, cancels>>

BrowserHangs ==
  /\ browser /\ ~hung /\ faults < MaxFaults
  /\ hung' = TRUE /\ faults' = faults + 1
  /\ UNCHANGED <<task, open, live, told, late, cut, browser, cancels>>

BrowserRecovers ==
  /\ hung /\ hung' = FALSE
  /\ UNCHANGED <<task, open, live, told, late, cut, browser, faults, cancels>>

ConnectionBreaks ==
  /\ live # {} /\ faults < MaxFaults
  /\ live' = {} /\ faults' = faults + 1
  /\ UNCHANGED <<task, open, told, late, cut, browser, hung, cancels>>

Finished == pc = "ended" /\ UNCHANGED vars

WorldStep ==
  BrowserStarts \/ BrowserDies \/ BrowserHangs \/ BrowserRecovers \/ ConnectionBreaks

Next == TaskStep \/ Stop \/ Cancel \/ WorldStep \/ Finished

\* The event loop runs a task that can go on, which one that waits for a hung
\* browser cannot.
Spec == Init /\ [][Next]_vars /\ WF_vars(TaskStep /\ ~Waiting)

-----------------------------------------------------------------------------
(* Properties.                                                             *)

\* At most one connection is open at a time, and none once run() has returned,
\* but for those a cancellation interrupted in connect() or close().
OneClient ==
  /\ Cardinality(open \ cut) <= 1
  /\ pc = "ended" => open \subseteq cut

\* After stop() the consumer hears at most one call more: the attach under way,
\* or the loss that the ping under way finds.  (The class docstring says none.)
AtMostOneLateCall == late <= 1

\* stop() ends a run that has begun, whether the browser lives, dies, or hangs
\* for a while; one that hangs for good can hold the run in an await for good.
\* (A stop() that comes before run() has begun is lost.)
StopEnds == <>[]~hung => ((pc # "idle" /\ ~running) ~> (pc = "ended"))

\* The consumer's view: clients one at a time, told of each loss, and handed a
\* new one whenever the browser comes back, answers and stays.
Promise == INSTANCE Attachment WITH
  up <- browser, mute <- hung, link <- IF pc = "ended" THEN 0 ELSE told,
  works <- pc # "ended" /\ told \in live,
  given <- serial, over <- pc = "ended"

KeepsAttached == Promise!Spec
=============================================================================
