------------------------ MODULE WhatsAppDrainProofs ------------------------
EXTENDS WhatsAppDrain, TLAPS

\* No row, no cursor.
LEMMA InitIInv == Init => IInv
<1> SUFFICES ASSUME Init PROVE IInv
  OBVIOUS
<1> USE BatchPositive, LimitsNat DEF Init, NoCursor
<1>1. TypeOK
  BY DEF TypeOK, Id, Row, Phase
<1>2. PhaseInv /\ SequenceInv /\ CoverInv /\ InFlightInv
  BY DEF PhaseInv, SequenceInv, CoverInv, InFlightInv, InFlight
<1>3. QED
  BY <1>1, <1>2 DEF IInv

\* A new id is beyond every cursor.
LEMMA StageStep ==
  ASSUME IInv, NEW p \in Producer, NEW w \in Wamid, Stage(p, w)
  PROVE  IInv'
<1> USE LimitsNat DEF IInv, TypeOK, Stage, Id, Row, Phase, NoCursor
<1> DEFINE new == [id |-> seq + 1, wamid |-> w]
<1>1. InFlight' \subseteq InFlight \cup {new}
  BY DEF InFlight
<1>2. /\ seq' = seq + 1 /\ seq \in Nat /\ new.id = seq + 1
      /\ UNCHANGED <<rows, cursor, phase, from, next, batch, delivered, dropped, overtaken>>
  OBVIOUS
<1>3. TypeOK' /\ PhaseInv'
  BY DEF PhaseInv
<1>4. SequenceInv'
  <2>1. \A m \in rows \cup InFlight : m.id \in Int /\ m.id <= seq
    BY DEF SequenceInv, InFlight
  <2>2. \A m \in (rows \cup InFlight)' : m.id <= seq + 1
    BY <1>1, <1>2, <2>1
  <2>3. \A q \in Producer : \A m \in open'[q] : m \in open[q] \/ (q = p /\ m = new)
    OBVIOUS
  <2>4. \A q \in Producer : open[q] \subseteq InFlight
    BY DEF InFlight
  <2>5. \A q \in Producer : \A m \in open'[q] :
          /\ \A n \in rows : n.id # m.id
          /\ \A o \in Producer \ {q} : \A n \in open'[o] : n.id # m.id
    BY <1>2, <2>1, <2>3, <2>4 DEF SequenceInv
  <2>6. QED
    BY <1>2, <2>2, <2>5 DEF SequenceInv
<1>5. CoverInv'
  BY <1>2 DEF CoverInv, Accounted, Carried
<1>6. InFlightInv'
  <2>1. new.id > cursor /\ \A d \in Drain : new.id > from[d] /\ new.id > next[d]
    BY <1>2 DEF SequenceInv
  <2>2. QED
    BY <1>1, <1>2, <2>1 DEF InFlightInv
<1>7. QED
  BY <1>3, <1>4, <1>5, <1>6

\* A row that appears behind a cursor was noted as overtaken.
LEMMA CommitStageStep ==
  ASSUME IInv, NEW p \in Producer, CommitStage(p)
  PROVE  IInv'
<1> USE LimitsNat DEF IInv, TypeOK, CommitStage, Id, Row, Phase, NoCursor
<1>1. /\ rows' = rows \cup open[p] /\ open[p] \subseteq InFlight /\ InFlight' \subseteq InFlight
      /\ UNCHANGED <<seq, cursor, phase, from, next, batch, delivered, dropped, overtaken>>
  BY DEF InFlight
<1>2. TypeOK' /\ PhaseInv'
  BY DEF PhaseInv
<1>3. SequenceInv'
  <2>1. open'[p] = {} /\ \A q \in Producer \ {p} : open'[q] = open[q]
    OBVIOUS
  <2>2. \A m \in (rows \cup InFlight)' : m.id <= seq'
    BY <1>1 DEF SequenceInv
  <2>3. \A q \in Producer : \A m \in open'[q] :
          /\ \A n \in rows' : n.id # m.id
          /\ \A o \in Producer \ {q} : \A n \in open'[o] : n.id # m.id
    BY <1>1, <2>1 DEF SequenceInv
  <2>4. QED
    BY <1>1, <2>2, <2>3 DEF SequenceInv
<1>4. CoverInv'
  <2>1. ASSUME NEW m \in open[p], m.id \notin overtaken
        PROVE  m.id > cursor /\ \A d \in Drain : m.id > from[d] /\ m.id > next[d]
    BY <1>1, <2>1 DEF InFlightInv
  <2>2. \A m \in rows' : m.id \in Int
    BY <1>1
  <2>3. \A m : Accounted(m)' <=> Accounted(m)
    BY <1>1 DEF Accounted, Carried
  <2>4. \A m : m.id \in overtaken => Accounted(m)'
    BY <1>1 DEF Accounted
  <2>5. QED
    BY <1>1, <2>1, <2>2, <2>3, <2>4 DEF CoverInv
<1>5. InFlightInv'
  BY <1>1 DEF InFlightInv
<1>6. QED
  BY <1>2, <1>3, <1>4, <1>5

\* A row that never appears needs no cover.
LEMMA AbortStageStep ==
  ASSUME IInv, NEW p \in Producer, AbortStage(p)
  PROVE  IInv'
<1> USE DEF IInv, TypeOK, AbortStage
<1>1. InFlight' \subseteq InFlight
  BY DEF InFlight
<1>2. TypeOK' /\ PhaseInv' /\ SequenceInv'
  BY <1>1 DEF PhaseInv, SequenceInv
<1>3. CoverInv' /\ InFlightInv'
  BY <1>1 DEF CoverInv, InFlightInv, Accounted, Carried
<1>4. QED
  BY <1>2, <1>3

\* The id a job reads covers what the stored one covers.
LEMMA ReadCursorStep ==
  ASSUME IInv, NEW d \in Drain, ReadCursor(d)
  PROVE  IInv'
<1> USE DEF IInv, TypeOK, ReadCursor, NoCursor
<1>1. TypeOK' /\ PhaseInv' /\ SequenceInv'
  BY DEF PhaseInv, SequenceInv, InFlight, Phase
<1>2. CoverInv'
  BY DEF CoverInv, Accounted, Carried, PhaseInv
<1>3. InFlightInv'
  BY DEF InFlightInv, InFlight
<1>4. QED
  BY <1>1, <1>2, <1>3

\* The rows up to `high` are in the batch or were covered before, and the
\* uncommitted ones below it are noted.
LEMMA SelectStep ==
  ASSUME IInv, NEW d \in Drain, Select(d)
  PROVE  IInv'
<1> USE LimitsNat DEF IInv, TypeOK, Id, Row, Phase, NoCursor
<1>1. PICK high \in Ids(Visible(d)) :
        /\ batch' = [batch EXCEPT ![d] = {m \in Visible(d) : m.id <= high}]
        /\ next' = [next EXCEPT ![d] = high]
        /\ overtaken' = overtaken \cup {i \in Ids(InFlight) : i < high}
  BY DEF Select
<1>2. /\ phase[d] = "select" /\ phase' = [phase EXCEPT ![d] = "save"]
      /\ from' = [from EXCEPT ![d] = NoCursor]
      /\ UNCHANGED <<seq, open, rows, cursor, delivered, dropped, faults>>
  BY DEF Select
<1>3. high \in Id /\ high <= seq /\ Visible(d) \subseteq rows
  BY DEF Ids, Visible, SequenceInv
<1>4. \A m \in InFlight : m \in Row
  BY DEF InFlight
<1>5. TypeOK'
  <2>1. {i \in Ids(InFlight) : i < high} \subseteq 1 .. MaxId
    BY <1>4 DEF Ids
  <2>2. {m \in Visible(d) : m.id <= high} \in SUBSET Row
    BY <1>3
  <2>3. QED
    <3>1. overtaken' \subseteq 1 .. MaxId
      BY <1>1, <2>1
    <3>2. batch' \in [Drain -> SUBSET Row]
      BY <1>1, <2>2
    <3>3. next' \in [Drain -> 0 .. MaxId] /\ from' \in [Drain -> 0 .. MaxId]
      BY <1>1, <1>2, <1>3
    <3>4. phase' \in [Drain -> Phase]
      BY <1>2
    <3>5. QED
      BY <1>2, <3>1, <3>2, <3>3, <3>4
<1>6. PhaseInv' /\ SequenceInv'
  BY <1>1, <1>2, <1>3 DEF PhaseInv, SequenceInv, InFlight
<1>7. CoverInv'
  <2> SUFFICES ASSUME NEW m \in rows
               PROVE  /\ m.id <= cursor => Accounted(m)'
                      /\ \A e \in Drain :
                           /\ m.id <= from'[e] => Accounted(m)'
                           /\ m.id <= next'[e] =>
                                Accounted(m)' \/ m \in batch'[e]
    BY <1>2 DEF CoverInv
  <2>1. Accounted(m) => Accounted(m)'
    BY <1>1, <1>2 DEF Accounted, Carried
  <2>2. m.id <= high => Accounted(m)' \/ m \in batch'[d]
    <3>1. CASE m.id <= from[d]
      BY <2>1, <3>1 DEF CoverInv
    <3>2. CASE m.id > from[d]
      BY <1>1, <3>2 DEF Visible
    <3>3. m.id \in Int /\ from[d] \in Int
      OBVIOUS
    <3>4. QED
      BY <3>1, <3>2, <3>3
  <2>3. ~(m.id <= NoCursor)
    OBVIOUS
  <2>4. \A e \in Drain \ {d} : next'[e] = next[e] /\ from'[e] = from[e] /\ batch'[e] = batch[e]
    BY <1>1, <1>2
  <2>5. next'[d] = high /\ from'[d] = NoCursor
    BY <1>1, <1>2
  <2>6. QED
    BY <2>1, <2>2, <2>3, <2>4, <2>5 DEF CoverInv
<1>8. InFlightInv'
  <2>1. ASSUME NEW m \in InFlight, m.id \notin overtaken'
        PROVE  m.id \notin overtaken /\ ~(m.id < high) /\ m.id \in Int
    BY <1>1, <1>4, <2>1 DEF Ids
  <2>2. PICK r \in rows : r.id = high
    BY DEF Ids, Visible
  <2>3. ASSUME NEW m \in InFlight, m.id \notin overtaken'
        PROVE  m.id # high
    BY <2>2, <2>3 DEF SequenceInv, InFlight
  <2>4. QED
    BY <1>1, <1>2, <1>3, <2>1, <2>3 DEF InFlightInv, InFlight
<1>9. QED
  BY <1>5, <1>6, <1>7, <1>8

\* Nothing to read takes no position.
LEMMA SelectNothingStep ==
  ASSUME IInv, NEW d \in Drain, SelectNothing(d)
  PROVE  IInv'
<1> USE LimitsNat DEF IInv, TypeOK, SelectNothing, Id, Row, Phase, NoCursor
<1>1. TypeOK' /\ SequenceInv' /\ InFlightInv'
  BY DEF SequenceInv, InFlightInv, InFlight
<1>2. PhaseInv'
  BY DEF PhaseInv
<1>3. CoverInv'
  BY DEF CoverInv, Accounted, Carried
<1>4. QED
  BY <1>1, <1>2, <1>3

\* The id in hand becomes the stored one while its rows are carried.
LEMMA SaveCursorStep ==
  ASSUME IInv, NEW d \in Drain, SaveCursor(d)
  PROVE  IInv'
<1> USE LimitsNat DEF IInv, TypeOK, SaveCursor, Id, Row, Phase, NoCursor
<1>1. TypeOK' /\ PhaseInv' /\ SequenceInv' /\ InFlightInv'
  BY DEF PhaseInv, SequenceInv, InFlightInv, InFlight
<1>2. CoverInv'
  BY DEF CoverInv, Accounted, Carried
<1>3. QED
  BY <1>1, <1>2

\* The rows a job carried are delivered.
LEMMA ReturnStep ==
  ASSUME IInv, NEW d \in Drain, Return(d)
  PROVE  IInv'
<1> USE LimitsNat DEF IInv, TypeOK, Return, Id, Row, Phase, NoCursor
<1>a. Ids(batch[d]) \subseteq 1 .. MaxId
  BY DEF Ids
<1>b. TypeOK'
  BY <1>a
<1>1. PhaseInv' /\ SequenceInv' /\ InFlightInv'
  BY DEF PhaseInv, SequenceInv, InFlightInv, InFlight
<1>2. \A m : Accounted(m) => Accounted(m)'
  BY DEF Accounted, Carried, Ids
<1>3. CoverInv'
  BY <1>2 DEF CoverInv, PhaseInv
<1>4. QED
  BY <1>b, <1>1, <1>3

\* The rows of a job that stops after its save are dropped, and noted so.
LEMMA FailStep ==
  ASSUME IInv, NEW d \in Drain, Fail(d)
  PROVE  IInv'
<1> USE LimitsNat DEF IInv, TypeOK, Fail, Id, Row, Phase, NoCursor
<1>a. Ids(batch[d]) \subseteq 1 .. MaxId
  BY DEF Ids
<1>b. TypeOK'
  <2>1. dropped' \subseteq 1 .. MaxId
    BY <1>a
  <2>2. faults' \in 0 .. MaxFaults
    OBVIOUS
  <2>3. QED
    BY <2>1, <2>2
<1>1. PhaseInv' /\ SequenceInv' /\ InFlightInv'
  BY DEF PhaseInv, SequenceInv, InFlightInv, InFlight
<1>2. \A m : Accounted(m) => Accounted(m)'
  BY DEF Accounted, Carried, Ids
<1>3. CoverInv'
  BY <1>2 DEF CoverInv
<1>4. QED
  BY <1>b, <1>1, <1>3

\* One case per action of Next.
LEMMA NextIInv == IInv /\ [Next]_vars => IInv'
<1> SUFFICES ASSUME IInv, [Next]_vars PROVE IInv'
  OBVIOUS
<1>1. CASE \E p \in Producer : CommitStage(p) \/ AbortStage(p) \/ \E w \in Wamid : Stage(p, w)
  BY <1>1, CommitStageStep, AbortStageStep, StageStep
<1>2. CASE \E d \in Drain : DrainStep(d) \/ Fail(d)
  BY <1>2, ReadCursorStep, SelectStep, SelectNothingStep, SaveCursorStep, ReturnStep,
     FailStep DEF DrainStep
<1>3. CASE UNCHANGED vars
  BY <1>3 DEF vars, IInv, TypeOK, PhaseInv, SequenceInv, CoverInv, InFlightInv, InFlight,
     Accounted, Carried
<1>4. QED
  BY <1>1, <1>2, <1>3 DEF Next

(* The drain keeps its inductive invariant, whatever the number of producers *)
(* and overlapping jobs and whatever the batch size.                         *)
THEOREM Invariance == Spec => []IInv
<1>1. QED
  BY InitIInv, NextIInv, PTL DEF Spec

(* Every variable of the drain keeps its type: the cursor never leaves the    *)
(* ids drawn, and a batch holds rows of the table only.                       *)
THEOREM DrainTypeCorrect == Spec => []TypeOK
<1>1. IInv => TypeOK
  BY DEF IInv
<1>2. QED
  BY <1>1, Invariance, PTL

(***************************************************************************)
(* The high-water cursor passes a committed row only when a job is handed  *)
(* its record, when the row committed out of id order, or when the job     *)
(* that read it failed after storing the cursor.                           *)
(***************************************************************************)
THEOREM DrainSkipsAreNoted == Spec => []SkippedRowsAreNoted
<1>1. IInv => SkippedRowsAreNoted
  BY DEF IInv, CoverInv, Accounted, SkippedRowsAreNoted
<1>2. QED
  BY <1>1, Invariance, PTL
=============================================================================
