--------------------------- MODULE JobSweepProofs ---------------------------
(***************************************************************************)
(* Proofs about JobSweep, for any number of configs, workers and failures. *)
(***************************************************************************)
EXTENDS JobSweep, SequenceTheorems, TLAPS

Message == {Gather} \cup (Pair \ Unbuilt)

\* A slot that runs connector_sync has the config its message named, and it is
\* the config of a registered connector.
SlotInv == \A s \in Slot : at[s] \in {"sync", "stamp"} => pair[s] \in Pair \ Unbuilt

JobInv == TypeOK /\ SlotInv

\* Every config starts never synced, every slot idle.
LEMMA InitInv == Init => JobInv
  <1>1. Poll \subseteq Nat
    BY PollInHours
  <1> QED
    BY <1>1, PollInHours, LimitsNat DEF Init, JobInv, TypeOK, SlotInv, Never, Gather, NoPair

-----------------------------------------------------------------------------
(* The operator, the scheduler and the broker.                             *)

\* An operator's call touches the config alone, and writes a cadence it may choose.
LEMMA OperatorKeeps ==
  ASSUME JobInv, NEW p \in Pair, NEW h \in Poll,
         Enable(p, h) \/ DisableRead(p) \/ DisableWrite(p)
  PROVE  JobInv'
  <1>1. UNCHANGED <<age, queue, at, pair, todo, faults>>
    BY DEF Enable, DisableRead, DisableWrite
  <1>2. /\ enabled' \in [Pair -> BOOLEAN] /\ poll' \in [Pair -> Poll]
        /\ disabling' \in [Pair -> Poll \cup {0}]
    <2>1. /\ enabled \in [Pair -> BOOLEAN] /\ poll \in [Pair -> Poll]
          /\ disabling \in [Pair -> Poll \cup {0}]
      BY DEF JobInv, TypeOK
    <2>2. CASE Enable(p, h)
      BY <2>1, <2>2 DEF Enable
    <2>3. CASE DisableRead(p)
      BY <2>1, <2>3 DEF DisableRead
    <2>4. CASE DisableWrite(p)
      <3>1. disabling[p] \in Poll
        BY <2>1, <2>4 DEF DisableWrite
      <3> QED
        BY <2>1, <2>4, <3>1 DEF DisableWrite
    <2> QED
      BY <2>2, <2>3, <2>4
  <1> QED
    BY <1>1, <1>2 DEF JobInv, TypeOK, SlotInv

\* Hours saturate, and a message is queued.
LEMMA HourKeeps ==
  ASSUME JobInv, Hour
  PROVE  JobInv'
  <1>1. age \in [Pair -> 0 .. MaxAge \cup {Never}] /\ MaxAge \in Nat
    BY PollInHours DEF JobInv, TypeOK
  <1>2. ASSUME NEW p \in Pair
        PROVE  (IF age[p] \in {Never, MaxAge} THEN age[p] ELSE age[p] + 1) \in 0 .. MaxAge \cup {Never}
    <2>1. age[p] \in 0 .. MaxAge \cup {Never}
      BY <1>1
    <2> QED
      BY <1>1, <2>1 DEF Never
  <1>3. age' \in [Pair -> 0 .. MaxAge \cup {Never}]
    BY <1>2 DEF Hour
  <1>4. queue' \in Seq({Gather} \cup (Pair \ Unbuilt))
    BY DEF JobInv, TypeOK, Hour
  <1>5. UNCHANGED <<enabled, poll, disabling, at, pair, todo, faults>>
    BY DEF Hour
  <1> QED
    BY <1>3, <1>4, <1>5 DEF JobInv, TypeOK, SlotInv

\* What is popped is a message, and what is left is a queue of them.
LEMMA TakenIsMessage ==
  ASSUME NEW q \in Seq(Message), q # <<>>
  PROVE  Head(q) \in Message /\ Tail(q) \in Seq(Message)
  OBVIOUS

\* A slot that takes a message runs gather_due, or the sync of the config named.
LEMMA TakeKeeps ==
  ASSUME JobInv, NEW s \in Slot, Take(s)
  PROVE  JobInv'
  <1>1. Head(queue) \in Message /\ Tail(queue) \in Seq(Message)
    BY TakenIsMessage DEF JobInv, TypeOK, Take, Message
  <1>2. queue' \in Seq({Gather} \cup (Pair \ Unbuilt))
    BY <1>1 DEF Take, Message
  <1>3. UNCHANGED <<enabled, poll, age, disabling, todo, faults>>
    BY DEF Take
  <1>4. CASE Head(queue) = Gather
    BY <1>2, <1>3, <1>4 DEF JobInv, TypeOK, SlotInv, Take, Goto
  <1>5. CASE Head(queue) # Gather
    <2>1. Head(queue) \in Pair \ Unbuilt
      BY <1>1, <1>5 DEF Message
    <2> HIDE DEF Gather
    <2> QED
      BY <1>2, <1>3, <1>5, <2>1 DEF JobInv, TypeOK, SlotInv, Take, Goto
  <1> QED
    BY <1>4, <1>5

-----------------------------------------------------------------------------
(* gather_due and connector_sync.                                          *)

\* A pass lists and posts configs of registered connectors only.
LEMMA GatherKeeps ==
  ASSUME JobInv, NEW s \in Slot, ReadDue(s) \/ Kiq(s) \/ GatherDone(s)
  PROVE  JobInv'
  <1>1. CASE ReadDue(s)
    <2>1. {p \in Pair \ Unbuilt : Due(p)} \in SUBSET (Pair \ Unbuilt)
      OBVIOUS
    <2> QED
      BY <1>1, <2>1 DEF JobInv, TypeOK, SlotInv, ReadDue, Goto
  <1>2. CASE Kiq(s)
    <2>1. PICK p \in todo[s] : queue' = Append(queue, p) /\ todo' = [todo EXCEPT ![s] = @ \ {p}]
      BY <1>2 DEF Kiq
    <2>2. p \in Pair \ Unbuilt
      BY DEF JobInv, TypeOK
    <2>3. queue' \in Seq({Gather} \cup (Pair \ Unbuilt)) /\ todo' \in [Slot -> SUBSET (Pair \ Unbuilt)]
      BY <2>1, <2>2 DEF JobInv, TypeOK
    <2> QED
      BY <1>2, <2>3 DEF JobInv, TypeOK, SlotInv, Kiq
  <1>3. CASE GatherDone(s)
    BY <1>3 DEF JobInv, TypeOK, SlotInv, GatherDone, Goto
  <1> QED
    BY <1>1, <1>2, <1>3

\* A slot that leaves its task has no config.
LEMMA LeaveKeeps ==
  ASSUME JobInv, NEW s \in Slot, Leave(s), faults' \in 0 .. MaxFaults
  PROVE  JobInv'
  BY DEF JobInv, TypeOK, SlotInv, Leave, Goto

\* A sync goes on to its stamp, and the stamp is set on a config there is.
LEMMA SyncKeeps ==
  ASSUME JobInv, NEW s \in Slot,
         SyncRaises(s) \/ SyncAnswered(s) \/ StampSynced(s) \/ Crash(s)
  PROVE  JobInv'
  <1>1. CASE SyncRaises(s)
    <2>1. Leave(s) /\ faults' = faults
      BY <1>1 DEF SyncRaises
    <2> QED
      BY <2>1, LeaveKeeps DEF JobInv, TypeOK
  <1>2. CASE SyncAnswered(s)
    BY <1>2 DEF JobInv, TypeOK, SlotInv, SyncAnswered, Goto
  <1>3. CASE StampSynced(s)
    <2>1. pair[s] \in Pair /\ MaxAge \in Nat
      BY <1>3, PollInHours DEF JobInv, SlotInv, StampSynced
    <2>2. age' \in [Pair -> 0 .. MaxAge \cup {Never}]
      BY <1>3, <2>1 DEF JobInv, TypeOK, StampSynced
    <2> QED
      BY <1>3, <2>2 DEF JobInv, TypeOK, SlotInv, StampSynced, Goto
  <1>4. CASE Crash(s)
    <2>1. Leave(s) /\ faults' \in 0 .. MaxFaults
      BY <1>4, LimitsNat DEF Crash, JobInv, TypeOK
    <2> QED
      BY <2>1, LeaveKeeps
  <1> QED
    BY <1>1, <1>2, <1>3, <1>4

-----------------------------------------------------------------------------
(* The theorems.                                                           *)

\* The invariant holds in every state.
THEOREM JobInvariance == Spec => []JobInv
  <1>1. JobInv /\ [Next]_vars => JobInv'
    <2> SUFFICES ASSUME JobInv, [Next]_vars PROVE JobInv'
      OBVIOUS
    <2>1. ASSUME NEW p \in Managed, DisableRead(p) \/ DisableWrite(p) \/ \E h \in Poll : Enable(p, h)
          PROVE  JobInv'
      <3>1. p \in Pair
        BY PairKinds
      <3>2. poll[p] \in Poll
        BY <3>1 DEF JobInv, TypeOK
      <3> QED
        BY <2>1, <3>1, <3>2, OperatorKeeps
    <2>2. ASSUME NEW s \in Slot, SlotStep(s) \/ Crash(s)
          PROVE  JobInv'
      BY <2>2, TakeKeeps, GatherKeeps, SyncKeeps DEF SlotStep
    <2>3. CASE UNCHANGED vars
      BY <2>3 DEF vars, JobInv, TypeOK, SlotInv
    <2> QED
      BY <2>1, <2>2, <2>3, HourKeeps DEF Next
  <1> QED
    BY InitInv, <1>1, PTL DEF Spec

\* Every variable has its type in every state: a cadence is one an operator chose,
\* and no job of an unregistered connector is listed, posted or run.
THEOREM JobTypeCorrect == Spec => []TypeOK
  <1>1. JobInv => TypeOK
    BY DEF JobInv
  <1> QED
    BY <1>1, JobInvariance, PTL
=============================================================================
