--------------------------- MODULE ChromiumProofs ---------------------------
(***************************************************************************)
(* Proofs about ChromiumSupervisor for any backoff and any number of       *)
(* faults and cancellations: its types, its connections, its late calls,   *)
(* and that every step of it is a step of Attachment or none.              *)
(***************************************************************************)
EXTENDS ChromiumSupervisor, FiniteSetTheorems, TLAPS

(***************************************************************************)
(* The inductive invariant.                                                *)
(***************************************************************************)

Apart  == {"idle", "resolve", "connect", "retry", "detach"}
Joined == {"attach", "sleep", "ping"}

\* Where the task stands says what it and the consumer hold.
Hands ==
  /\ pc \in Apart => client = 0 /\ told = 0
  /\ pc \in Joined => client = told /\ told # 0 /\ told \in open
  /\ pc \in {"close", "bye"} => client = 0 /\ told # 0
  /\ pc = "ended" => client = 0

\* Open is what the consumer holds, and what a cancellation left.
Connections ==
  /\ open \subseteq cut \cup {told}
  /\ pc = "ended" => open \subseteq cut
  /\ pc = "close" => told \notin live

\* A call after stop() is the last one.
Calls == late = 0 \/ (late = 1 /\ ~running /\ pc \in {"attach", "detach", "bye", "ended"})

SupervisorInv == TypeOK /\ Hands /\ Connections /\ Calls

\* Out through the finally: from where nothing is held to the end, from where
\* a client is held to its close.
LEMMA LeaveLeads ==
  ASSUME SupervisorInv, Leave, pc \in Apart \cup Joined \cup {"close"}
  PROVE  /\ running' = FALSE /\ client' = 0
         /\ pc \in Apart \cup {"close"} => pc' = "ended"
         /\ pc \in Joined => pc' = "bye" /\ told # 0
  BY DEF SupervisorInv, TypeOK, Hands, Leave, Apart, Joined

\* The inductive invariant holds before run() begins.
LEMMA SupervisorInit == Init => SupervisorInv
  <1> SUFFICES ASSUME Init PROVE SupervisorInv
    OBVIOUS
  <1>1. Poll \in Poll .. MaxBackoff
    BY BackoffAssumption
  <1>2. TypeOK
    <2>1. /\ pc \in Awaits \cup {"idle", "ended"} /\ running \in BOOLEAN
          /\ browser \in BOOLEAN /\ hung = FALSE /\ backoff \in Poll .. MaxBackoff
      BY <1>1 DEF Init
    <2>2. /\ serial \in Nat /\ client \in 0 .. serial /\ told \in 0 .. serial
          /\ open \subseteq 1 .. serial + 1 /\ live \subseteq open /\ cut \subseteq 1 .. serial + 1
          /\ late \in Nat
      BY DEF Init
    <2>3. faults \in 0 .. MaxFaults /\ cancels \in 0 .. MaxCancels
      BY BoundsAssumption DEF Init
    <2> QED
      BY <2>1, <2>2, <2>3 DEF TypeOK
  <1>3. Hands
    BY DEF Init, Hands, Apart, Joined
  <1>4. Connections
    BY DEF Init, Connections
  <1>5. Calls
    BY DEF Init, Calls
  <1> QED
    BY <1>2, <1>3, <1>4, <1>5 DEF SupervisorInv

\* A step that ends an await and goes on, or out through the finally, and
\* changes no connection, keeps the invariant.
LEMMA ContinueKeeps ==
  ASSUME SupervisorInv, NEW next \in {"resolve", "sleep"}, Continue(next),
         backoff' \in Poll .. MaxBackoff,
         UNCHANGED <<serial, open, live, told, late, cut, world>>,
         \/ next = "resolve" /\ pc \in {"retry", "detach"}
         \/ next = "sleep" /\ pc \in Joined
  PROVE  SupervisorInv'
  <1>1. UNCHANGED <<serial, open, live, told, late, cut, browser, hung, faults, cancels>>
    BY DEF world
  <1>2. CASE running /\ pc' = next /\ UNCHANGED <<running, client>>
    <2>1. TypeOK'
      BY <1>1, <1>2 DEF SupervisorInv, TypeOK, Awaits
    <2>2. Hands'
      BY <1>1, <1>2 DEF SupervisorInv, Hands, Apart, Joined
    <2>3. Connections'
      BY <1>1, <1>2 DEF SupervisorInv, Connections
    <2>4. Calls'
      BY <1>1, <1>2 DEF SupervisorInv, Calls
    <2> QED
      BY <2>1, <2>2, <2>3, <2>4 DEF SupervisorInv
  <1>3. CASE ~running /\ Leave
    <2>1. /\ running' = FALSE /\ client' = 0
          /\ pc \in Apart => pc' = "ended" /\ told = 0
          /\ pc \in Joined => pc' = "bye" /\ told # 0
      BY <1>3, LeaveLeads DEF Apart, Joined, SupervisorInv, Hands
    <2>2. TypeOK'
      <3>1. pc' \in Awaits \cup {"idle", "ended"} /\ running' \in BOOLEAN
        BY <2>1 DEF Awaits, Apart, Joined
      <3>2. serial \in Nat /\ client' \in 0 .. serial
        BY <2>1 DEF SupervisorInv, TypeOK
      <3> QED
        BY <1>1, <3>1, <3>2 DEF SupervisorInv, TypeOK
    <2>3. Hands'
      BY <1>1, <2>1 DEF SupervisorInv, Hands, Apart, Joined
    <2>4. Connections'
      BY <1>1, <2>1 DEF SupervisorInv, TypeOK, Connections, Apart, Joined
    <2>5. Calls'
      BY <1>1, <2>1 DEF SupervisorInv, Calls, Apart, Joined
    <2> QED
      BY <2>2, <2>3, <2>4, <2>5 DEF SupervisorInv
  <1> QED
    BY <1>2, <1>3 DEF Continue

\* A new client is the consumer's, and the only one that no cancellation left.
LEMMA ConnectKeeps ==
  ASSUME SupervisorInv, Connect
  PROVE  SupervisorInv'
  <1>1. /\ pc = "connect" /\ pc' = "attach"
        /\ serial' = serial + 1 /\ client' = serial + 1 /\ told' = serial + 1
        /\ open' = open \cup {serial + 1} /\ live' = live \cup {serial + 1}
        /\ late' = IF running THEN late ELSE late + 1
        /\ UNCHANGED <<running, backoff, cut, browser, hung, faults, cancels>>
    BY DEF Connect, Callback, world
  <1>2. client = 0 /\ told = 0 /\ late = 0
    BY <1>1 DEF SupervisorInv, Hands, Calls, Apart
  <1>3. TypeOK'
    BY <1>1, <1>2 DEF SupervisorInv, TypeOK, Awaits
  <1>4. Hands'
    BY <1>1 DEF SupervisorInv, TypeOK, Hands, Apart, Joined
  <1>5. Connections'
    BY <1>1, <1>2 DEF SupervisorInv, TypeOK, Connections
  <1>6. Calls'
    BY <1>1, <1>2 DEF SupervisorInv, TypeOK, Calls
  <1> QED
    BY <1>3, <1>4, <1>5, <1>6 DEF SupervisorInv

\* Closing takes the consumer's client out of the open ones.
LEMMA CloseKeeps ==
  ASSUME SupervisorInv, Close \/ Bye
  PROVE  SupervisorInv'
  <1>1. /\ open' = open \ {told} /\ live' = live \ {told}
        /\ UNCHANGED <<running, backoff, client, serial, cut, browser, hung, faults, cancels>>
    BY DEF Close, Bye, world
  <1>2. CASE Close
    <2>1. /\ pc = "close" /\ pc' = "detach" /\ told' = 0
          /\ late' = IF running THEN late ELSE late + 1
      BY <1>2 DEF Close, Callback
    <2>2. client = 0 /\ late = 0
      BY <2>1 DEF SupervisorInv, Hands, Calls
    <2>3. TypeOK'
      BY <1>1, <2>1, <2>2 DEF SupervisorInv, TypeOK, Awaits
    <2>4. Hands' /\ Connections' /\ Calls'
      BY <1>1, <2>1, <2>2 DEF SupervisorInv, TypeOK, Hands, Connections, Calls, Apart, Joined
    <2> QED
      BY <2>3, <2>4 DEF SupervisorInv
  <1>3. CASE Bye
    <2>1. pc = "bye" /\ pc' = "ended" /\ UNCHANGED <<told, late>>
      BY <1>3 DEF Bye
    <2>2. TypeOK'
      BY <1>1, <2>1 DEF SupervisorInv, TypeOK, Awaits
    <2>3. Hands' /\ Connections' /\ Calls'
      BY <1>1, <2>1 DEF SupervisorInv, Hands, Connections, Calls, Apart, Joined
    <2> QED
      BY <2>2, <2>3 DEF SupervisorInv
  <1> QED
    BY <1>2, <1>3

\* What a cancellation interrupts is remembered in cut.
LEMMA CancelKeeps ==
  ASSUME SupervisorInv, Cancel
  PROVE  SupervisorInv'
  <1>1. /\ pc \in Awaits \cup {"idle"} /\ Interrupted
        /\ cancels' = cancels + 1 /\ cancels < MaxCancels
        /\ UNCHANGED <<backoff, serial, told, late, browser, hung, faults>>
    BY DEF Cancel
  <1>2. /\ open' \subseteq 1 .. serial + 1 /\ live' \subseteq open'
        /\ cut' \subseteq 1 .. serial + 1
        /\ open' \subseteq cut' \cup {told}
        /\ pc \in Joined => told # 0
        /\ pc \notin Joined => open' \subseteq cut'
    <2>1. CASE pc \notin {"close", "bye"} /\ UNCHANGED <<open, live, cut>>
      BY <1>1, <2>1 DEF SupervisorInv, TypeOK, Hands, Connections, Awaits, Apart, Joined
    <2>2. CASE /\ pc = "connect"
               /\ open' = open \cup {serial + 1} /\ live' = live \cup {serial + 1}
               /\ cut' = cut \cup {serial + 1}
      BY <2>2 DEF SupervisorInv, TypeOK, Hands, Connections, Apart, Joined
    <2>3. CASE /\ pc \in {"close", "bye"} /\ cut' = cut \cup {told}
               /\ \/ open' = open \ {told} /\ live' = live \ {told}
                  \/ UNCHANGED <<open, live>>
      <3>1. told \in 1 .. serial + 1
        BY <2>3 DEF SupervisorInv, TypeOK, Hands
      <3> QED
        BY <2>3, <3>1 DEF SupervisorInv, TypeOK, Connections, Joined
    <2> QED
      BY <1>1, <2>1, <2>2, <2>3 DEF Interrupted
  <1>3. /\ client' = 0
        /\ running' \in BOOLEAN /\ (~running => ~running')
        /\ pc \in Joined => pc' = "bye"
        /\ pc \notin Joined => pc' = "ended"
    <2>1. CASE pc \in {"idle", "bye"}
      <3>1. pc' = "ended" /\ UNCHANGED <<running, client>>
        BY <2>1 DEF Cancel
      <3> QED
        BY <2>1, <3>1 DEF SupervisorInv, TypeOK, Hands, Apart, Joined
    <2>2. CASE pc \notin {"idle", "bye"}
      <3>1. Leave
        BY <2>2 DEF Cancel
      <3>2. pc \in Apart \cup Joined \cup {"close"}
        BY <1>1, <2>2 DEF Awaits, Apart, Joined
      <3> QED
        BY <3>1, <3>2, LeaveLeads DEF Apart, Joined
    <2> QED
      BY <2>1, <2>2
  <1>4. TypeOK'
    <2>1. pc' \in Awaits \cup {"idle", "ended"} /\ running' \in BOOLEAN
      BY <1>3 DEF Awaits
    <2>2. serial \in Nat /\ client' \in 0 .. serial /\ cancels' \in 0 .. MaxCancels
      BY <1>1, <1>3, BoundsAssumption DEF SupervisorInv, TypeOK
    <2> QED
      BY <1>1, <1>2, <2>1, <2>2 DEF SupervisorInv, TypeOK
  <1>5. Hands'
    BY <1>1, <1>2, <1>3 DEF Hands, Apart, Joined
  <1>6. Connections'
    BY <1>1, <1>2, <1>3 DEF Connections
  <1>7. Calls'
    BY <1>1, <1>3 DEF SupervisorInv, Calls, Joined
  <1> QED
    BY <1>4, <1>5, <1>6, <1>7 DEF SupervisorInv

\* Every step keeps the invariant.
LEMMA SupervisorStep ==
  ASSUME SupervisorInv, [Next]_vars
  PROVE  SupervisorInv'
  <1>1. CASE Start
    BY <1>1 DEF Start, world, SupervisorInv, TypeOK, Hands, Connections, Calls, Awaits, Apart, Joined
  <1>2. CASE Resolve
    BY <1>2 DEF Resolve, world, SupervisorInv, TypeOK, Hands, Connections, Calls, Awaits, Apart, Joined
  <1>3. CASE Unreachable
    BY <1>3 DEF Unreachable, world, SupervisorInv, TypeOK, Hands, Connections, Calls, Awaits, Apart, Joined
  <1>4. CASE Retry
    <2>1. backoff' \in Poll .. MaxBackoff
      BY <1>4, BackoffAssumption DEF Retry, SupervisorInv, TypeOK
    <2> QED
      BY <1>4, <2>1, ContinueKeeps DEF Retry
  <1>5. CASE Connect
    BY <1>5, ConnectKeeps
  <1>6. CASE Attached
    <2>1. backoff' \in Poll .. MaxBackoff
      BY <1>6, BackoffAssumption DEF Attached
    <2> QED
      BY <1>6, <2>1, ContinueKeeps DEF Attached, Joined
  <1>7. CASE Sleep
    BY <1>7 DEF Sleep, world, SupervisorInv, TypeOK, Hands, Connections, Calls, Awaits, Apart, Joined
  <1>8. CASE PingAnswered
    <2>1. backoff' \in Poll .. MaxBackoff
      BY <1>8 DEF PingAnswered, SupervisorInv, TypeOK
    <2> QED
      BY <1>8, <2>1, ContinueKeeps DEF PingAnswered, Joined
  <1>9. CASE PingFailed
    BY <1>9 DEF PingFailed, world, SupervisorInv, TypeOK, Hands, Connections, Calls, Awaits, Apart, Joined
  <1>10. CASE Close \/ Bye
    BY <1>10, CloseKeeps
  <1>11. CASE Detached
    <2>1. backoff' \in Poll .. MaxBackoff
      BY <1>11 DEF Detached, SupervisorInv, TypeOK
    <2> QED
      BY <1>11, <2>1, ContinueKeeps DEF Detached
  <1>12. CASE Stop
    BY <1>12 DEF Stop, world, SupervisorInv, TypeOK, Hands, Connections, Calls
  <1>13. CASE Cancel
    BY <1>13, CancelKeeps
  <1>14. CASE WorldStep
    <2> USE DEF WorldStep, BrowserStarts, BrowserDies, BrowserHangs, BrowserRecovers, ConnectionBreaks
    <2>1. /\ UNCHANGED <<pc, running, backoff, client, serial, open, told, late, cut, cancels>>
          /\ live' = live \/ live' = {}
      BY <1>14 DEF task
    <2>2. browser' \in BOOLEAN /\ hung' \in BOOLEAN
      BY <1>14 DEF SupervisorInv, TypeOK
    <2>3. faults' \in 0 .. MaxFaults
      BY <1>14, BoundsAssumption DEF SupervisorInv, TypeOK
    <2>4. TypeOK'
      BY <2>1, <2>2, <2>3 DEF SupervisorInv, TypeOK
    <2>5. Hands' /\ Connections' /\ Calls'
      BY <2>1 DEF SupervisorInv, Hands, Connections, Calls
    <2> QED
      BY <2>4, <2>5 DEF SupervisorInv
  <1>15. CASE UNCHANGED vars
    BY <1>15 DEF vars, task, world, SupervisorInv, TypeOK, Hands, Connections, Calls
  <1> QED
    BY <1>1, <1>2, <1>3, <1>4, <1>5, <1>6, <1>7, <1>8, <1>9, <1>10, <1>11, <1>12,
       <1>13, <1>14, <1>15 DEF Next, TaskStep, Finished

\* The inductive invariant holds of every behaviour.
THEOREM SupervisorInvariance == Spec => []SupervisorInv
  BY SupervisorInit, SupervisorStep, PTL DEF Spec

\* The types of the supervisor's state, its backoff between the poll and the
\* cap included.
THEOREM SupervisorTypeCorrect == Spec => []TypeOK
  BY SupervisorInvariance, PTL DEF SupervisorInv

\* One connection at a time, and none after run(), but for the interrupted ones.
THEOREM SupervisorHoldsOneClient == Spec => []OneClient
  <1>1. ASSUME SupervisorInv PROVE OneClient
    <2>1. IsFiniteSet({told}) /\ Cardinality({told}) = 1
      BY FS_Singleton
    <2>2. open \ cut \subseteq {told}
      BY <1>1 DEF SupervisorInv, Connections
    <2>3. Cardinality(open \ cut) <= 1
      BY <2>1, <2>2, FS_Subset
    <2> QED
      BY <1>1, <2>3 DEF OneClient, SupervisorInv, Connections
  <1> QED
    BY <1>1, SupervisorInvariance, PTL

\* However stop() falls, it is followed by one call of the consumer at most.
THEOREM OneLateCallAtMost == Spec => []AtMostOneLateCall
  <1>1. ASSUME SupervisorInv PROVE AtMostOneLateCall
    BY <1>1 DEF SupervisorInv, Calls, AtMostOneLateCall
  <1> QED
    BY <1>1, SupervisorInvariance, PTL

-----------------------------------------------------------------------------
(***************************************************************************)
(* The supervisor implements the safety part of Attachment: connecting     *)
(* hands over, the end of a close notifies, and run() returning quits.     *)
(* The consumer's link, and whether it works, are the mapped values below. *)
(***************************************************************************)

Link  == IF pc = "ended" THEN 0 ELSE told
Works == pc # "ended" /\ told \in live

\* Nothing works for a consumer that holds nothing.
LEMMA NothingWorks ==
  ASSUME SupervisorInv, told = 0
  PROVE  ~Works
  BY DEF SupervisorInv, TypeOK, Works

\* A step that changes neither what the consumer holds nor whether it works
\* nor whether run() has returned is a stutter.
LEMMA Stutters ==
  ASSUME UNCHANGED <<browser, hung, serial, told>>,
         pc = "ended" <=> pc' = "ended",
         told \in live <=> told \in live'
  PROVE  UNCHANGED Promise!avars
  <1>1. Link' = Link
    BY DEF Link
  <1>2. Works' <=> Works
    BY DEF Works
  <1>3. (pc = "ended")' = (pc = "ended")
    BY Zenon
  <1>4. Works' = Works
    BY <1>2, Zenon DEF Works
  <1> QED
    BY <1>1, <1>3, <1>4 DEF Promise!avars, Link, Works

\* Returning quits.
LEMMA Quits ==
  ASSUME UNCHANGED <<browser, hung, serial>>, pc # "ended", pc' = "ended"
  PROVE  Promise!Quit
  <1>1. Link' = 0 /\ ~Works' /\ (pc' = "ended") = TRUE /\ ~(pc = "ended")
    BY DEF Link, Works
  <1>2. Works' = FALSE
    BY <1>1, Zenon DEF Works
  <1> QED
    BY <1>1, <1>2, Zenon DEF Promise!Quit, Link, Works

\* A loop that ends goes on with the same client, or returns.
LEMMA ContinueQuits ==
  ASSUME SupervisorInv, NEW next \in {"resolve", "sleep"}, Continue(next),
         UNCHANGED <<serial, open, live, told, late, cut, world>>,
         pc \in Apart \cup Joined
  PROVE  Promise!Quit \/ UNCHANGED Promise!avars
  <1>1. UNCHANGED <<browser, hung, serial, told, live>> /\ pc # "ended"
    BY DEF world, Apart, Joined
  <1>2. CASE pc' = "ended"
    BY <1>1, <1>2, Quits
  <1>3. CASE pc' # "ended"
    BY <1>1, <1>3, Stutters
  <1> QED
    BY <1>2, <1>3

\* A new client is handed over.
LEMMA ConnectHands ==
  ASSUME SupervisorInv, Connect
  PROVE  Promise!Hand
  <1>1. /\ pc = "connect" /\ pc' = "attach" /\ browser /\ ~hung
        /\ serial' = serial + 1 /\ told' = serial + 1 /\ live' = live \cup {serial + 1}
        /\ UNCHANGED <<browser, hung>>
    BY DEF Connect, world
  <1>2. Link = 0 /\ Link' = serial + 1
    BY <1>1 DEF SupervisorInv, Hands, Apart, Link
  <1>3. Works'
    BY <1>1 DEF Works
  <1>4. Works' = TRUE /\ (pc' = "ended") = (pc = "ended") /\ ~(pc = "ended")
    BY <1>1, <1>3, Zenon DEF Works
  <1> QED
    BY <1>1, <1>2, <1>4, Zenon DEF Promise!Hand, Link, Works

\* The end of a close tells of the loss.
LEMMA CloseNotifies ==
  ASSUME SupervisorInv, Close
  PROVE  Promise!Notify
  <1>1. /\ pc = "close" /\ pc' = "detach" /\ told' = 0 /\ live' = live \ {told}
        /\ UNCHANGED <<browser, hung, serial>>
    BY DEF Close, world
  <1>2. told # 0 /\ told \notin live /\ 0 \notin live
    BY <1>1 DEF SupervisorInv, TypeOK, Hands, Connections
  <1>3. Link # 0 /\ Link' = 0
    BY <1>1, <1>2 DEF Link
  <1>4. ~Works /\ ~Works'
    BY <1>1, <1>2 DEF Works
  <1>5. Works' = Works /\ (pc' = "ended") = (pc = "ended") /\ ~(pc = "ended")
    BY <1>1, <1>4, Zenon DEF Works
  <1> QED
    BY <1>1, <1>3, <1>4, <1>5, Zenon DEF Promise!Notify, Link, Works

\* What happens to the browser is the same for both.
LEMMA WorldMaps ==
  ASSUME SupervisorInv, WorldStep
  PROVE  Promise!Boot \/ Promise!Die \/ Promise!Hang \/ Promise!Recover \/ Promise!Break
  <1> USE DEF BrowserStarts, BrowserDies, BrowserHangs, BrowserRecovers, ConnectionBreaks
  <1>1. UNCHANGED <<pc, serial, told>>
    BY DEF WorldStep, task
  <1>2. Link' = Link /\ (pc' = "ended") = (pc = "ended")
    BY <1>1 DEF Link
  <1>3. CASE BrowserStarts \/ BrowserHangs \/ BrowserRecovers
    <2>1. Works' = Works
      BY <1>1, <1>3 DEF Works
    <2>2. \/ browser' = TRUE /\ hung' = hung
          \/ browser /\ hung' = TRUE /\ browser' = browser
          \/ hung' = FALSE /\ browser' = browser
      BY <1>3
    <2> QED
      BY <1>1, <1>2, <2>1, <2>2, Zenon
      DEF Promise!Boot, Promise!Hang, Promise!Recover, Link, Works
  <1>4. CASE BrowserDies \/ ConnectionBreaks
    <2>1. live' = {}
      BY <1>4
    <2>2. Works' = FALSE
      BY <2>1, Zenon DEF Works
    <2>3. (browser' = FALSE /\ hung' = FALSE) \/ (browser' = browser /\ hung' = hung)
      BY <1>4
    <2> QED
      BY <1>1, <1>2, <2>2, <2>3, Zenon DEF Promise!Die, Promise!Break, Link, Works
  <1> QED
    BY <1>3, <1>4 DEF WorldStep

\* Every step of the supervisor is one of the promise, or none.
LEMMA SupervisorSimulates ==
  ASSUME SupervisorInv, [Next]_vars
  PROVE  [Promise!Next]_(Promise!avars)
  <1>1. CASE Start
    BY <1>1, Stutters DEF Start, world
  <1>2. CASE Resolve \/ Unreachable \/ Sleep \/ PingFailed
    <2>1. /\ UNCHANGED <<browser, hung, serial, told, live>>
          /\ pc # "ended" /\ pc' # "ended"
      BY <1>2 DEF Resolve, Unreachable, Sleep, PingFailed, world
    <2> QED
      BY <2>1, Stutters
  <1>3. CASE Retry
    BY <1>3, ContinueQuits DEF Retry, Promise!Next, Apart
  <1>4. CASE Attached
    BY <1>4, ContinueQuits DEF Attached, Promise!Next, Joined
  <1>5. CASE PingAnswered
    BY <1>5, ContinueQuits DEF PingAnswered, Promise!Next, Joined
  <1>6. CASE Detached
    BY <1>6, ContinueQuits DEF Detached, Promise!Next, Apart
  <1>7. CASE Connect
    BY <1>7, ConnectHands DEF Promise!Next
  <1>8. CASE Close
    BY <1>8, CloseNotifies DEF Promise!Next
  <1>9. CASE Bye
    BY <1>9, Quits DEF Bye, world, Promise!Next
  <1>10. CASE Stop
    BY <1>10, Stutters DEF Stop, world
  <1>11. CASE Cancel
    <2>1. UNCHANGED <<browser, hung, serial, told>> /\ pc # "ended"
      BY <1>11 DEF Cancel, Awaits
    <2>2. CASE pc' = "ended"
      BY <2>1, <2>2, Quits DEF Promise!Next
    <2>3. CASE pc' # "ended"
      <3>1. pc \in Joined
        <4>1. SUFFICES ASSUME pc \notin Joined PROVE FALSE
          OBVIOUS
        <4>2. pc \notin {"idle", "bye"} /\ Leave /\ pc \in Awaits
          BY <1>11, <2>3 DEF Cancel
        <4>3. pc \in Apart \cup {"close"}
          BY <4>1, <4>2 DEF Awaits, Apart, Joined
        <4> QED
          BY <2>3, <4>2, <4>3, LeaveLeads
      <3>2. live' = live
        BY <1>11, <3>1 DEF Cancel, Interrupted, Joined
      <3> QED
        BY <2>1, <2>3, <3>2, Stutters
    <2> QED
      BY <2>2, <2>3
  <1>12. CASE WorldStep
    BY <1>12, WorldMaps DEF Promise!Next
  <1>13. CASE UNCHANGED vars
    BY <1>13, Stutters DEF vars, task, world
  <1> QED
    BY <1>1, <1>2, <1>3, <1>4, <1>5, <1>6, <1>7, <1>8, <1>9, <1>10, <1>11, <1>12,
       <1>13 DEF Next, TaskStep, Finished

\* The supervisor's first state is one of the promise.
LEMMA PromiseInit == Init => Promise!Init
  <1> SUFFICES ASSUME Init PROVE Promise!Init
    OBVIOUS
  <1>1. browser \in BOOLEAN /\ hung = FALSE /\ Link = 0 /\ serial = 0 /\ pc # "ended"
    BY DEF Init, Link
  <1>2. ~Works /\ ~(pc = "ended")
    BY <1>1 DEF Init, Works
  <1>3. Works = FALSE /\ (pc = "ended") = FALSE
    BY <1>2, Zenon DEF Works
  <1> QED
    BY <1>1, <1>3, Zenon DEF Promise!Init, Link, Works

\* The consumer is handed one working client at a time, each a new one, while
\* the browser can be reached and run() has not returned, and is told of a loss
\* only when the client in its hands has stopped working.
THEOREM SupervisorKeepsItsPromise == Spec => Promise!Safety
  BY PromiseInit, SupervisorSimulates, SupervisorInvariance, PTL DEF Spec, Promise!Safety
=============================================================================
