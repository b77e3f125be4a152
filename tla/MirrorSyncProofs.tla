-------------------------- MODULE MirrorSyncProofs --------------------------
EXTENDS MirrorSync, TLAPS

\* The numbers of a typed state, for the arithmetic below.
LEMMA Numbers ==
  ASSUME TypeOK
  PROVE  /\ clock \in Int /\ cursor \in Int
         /\ \A i \in Item : src[i].rev \in Int /\ mirror[i] \in Int
         /\ \A a \in Actor :
              /\ from[a] \in Int /\ next[a] \in Int /\ row[a] \in Int
              /\ \A rec \in batch[a] : rec \in Record /\ rec.item \in Item /\ rec.rev \in Int
  BY BoundsNat DEF TypeOK, Rev, Torn, NoCursor, Record

\* An edit at the source is ahead of every cursor.
LEMMA ChangeStep ==
  ASSUME IInv, NEW i \in Item, NEW k \in Kind, Change(i, k)
  PROVE  IInv'
<1> USE ActorsDisjoint, BoundsNat DEF IInv, TypeOK, Actor, NoCursor, NoRow, Torn, Kind, Rev, Record, NoRecord, Cause, Landing, Phase
<1> USE DEF Change, Publish
<1>1. TypeOK'
  BY DEF Current
<1>2. PhaseInv'
  BY DEF PhaseInv
<1>3. ClockInv'
  <2>1. clock' = clock + 1 /\ cursor' = cursor /\ from' = from /\ next' = next
    OBVIOUS
  <2>2. ASSUME NEW j \in Item
        PROVE  src'[j].rev <= clock'
    <3>1. CASE j = i
      BY <2>1, <3>1, Numbers
    <3>2. CASE j # i
      BY <2>1, <3>2, Numbers DEF ClockInv
    <3>3. QED
      BY <3>1, <3>2
  <2>3. cursor <= clock + 1 /\ \A a \in Actor : from[a] <= clock + 1 /\ next[a] <= clock + 1
    BY Numbers DEF ClockInv
  <2>4. QED
    BY <2>1, <2>2, <2>3 DEF ClockInv
<1>4. RecordInv'
  BY DEF RecordInv, PhaseInv, ClockInv, Current
<1>5. MirrorInv'
  BY DEF MirrorInv, RecordInv, ClockInv, Current
<1>6. CoverInv'
  <2> SUFFICES ASSUME NEW j \in Item
               PROVE  /\ src'[j].rev <= cursor' => Settled(j)'
                      /\ \A a \in Actor :
                           /\ src'[j].rev <= from'[a] => Settled(j)'
                           /\ src'[j].rev <= next'[a] =>
                                Settled(j)' \/ Current(j)' \in batch'[a]
    BY DEF CoverInv
  <2>1. CASE j = i
    <3>1. src'[j].rev = clock + 1
      BY <2>1
    <3>2. cursor <= clock /\ \A a \in Actor : from[a] <= clock /\ next[a] <= clock
      BY DEF ClockInv
    <3>3. QED
      BY <3>1, <3>2, Numbers
  <2>2. CASE j # i
    <3>1. src'[j] = src[j]
      BY <2>2
    <3>2. Current(j)' = Current(j) /\ (Settled(j)' <=> Settled(j))
      BY <3>1 DEF Settled, Reflects, Pending, Current, Target
    <3>3. UNCHANGED <<cursor, from, next, batch>>
      OBVIOUS
    <3>4. QED
      BY <3>1, <3>2, <3>3 DEF CoverInv
  <2>3. QED
    BY <2>1, <2>2
<1>7. HolderInv'
  BY DEF HolderInv, PhaseInv, MirrorInv, OtherHolds, Holds, Current
<1>8. OutrunInv'
  <2>1. /\ UNCHANGED <<cursor, from, next, batch, excuse>>
        /\ src'[i].rev = clock + 1 /\ \A j \in Item \ {i} : src'[j] = src[j]
    OBVIOUS
  <2>2. ASSUME NEW a \in Actor, NEW rec \in batch[a],
               rec # Current(rec.item)', "raced" \notin excuse[rec.item]
        PROVE  /\ cursor < src'[rec.item].rev
               /\ \A b \in Actor : from[b] < src'[rec.item].rev /\ next[b] < src'[rec.item].rev
    <3>1. CASE rec.item = i
      <4>1. cursor <= clock /\ \A b \in Actor : from[b] <= clock /\ next[b] <= clock
        BY DEF ClockInv
      <4>2. QED
        BY <2>1, <3>1, <4>1, Numbers
    <3>2. CASE rec.item # i
      <4>1. rec.item \in Item /\ src'[rec.item] = src[rec.item] /\ rec # Current(rec.item)
        BY <2>1, <2>2, <3>2, Numbers DEF Current
      <4>2. QED
        BY <2>1, <2>2, <4>1 DEF OutrunInv
    <3>3. QED
      BY <3>1, <3>2
  <2>3. QED
    BY <2>1, <2>2 DEF OutrunInv
<1>9. QED
  BY <1>1, <1>2, <1>3, <1>4, <1>5, <1>6, <1>7, <1>8

\* The window of full listings is in no other conjunct.
LEMMA AgeStep ==
  ASSUME IInv, NEW i \in Item, Age(i)
  PROVE  IInv'
<1> USE ActorsDisjoint, BoundsNat DEF IInv, TypeOK, Actor, NoCursor, NoRow, Torn, Kind, Rev, Record, NoRecord, Cause, Landing, Phase
<1> USE DEF Age
<1>1. TypeOK'
  BY DEF Current
<1>2. PhaseInv'
  BY DEF PhaseInv
<1>3. ClockInv'
  BY DEF ClockInv
<1>4. RecordInv'
  BY DEF RecordInv, PhaseInv, ClockInv, Current
<1>5. MirrorInv'
  BY DEF MirrorInv, RecordInv, ClockInv, Current
<1>6. CoverInv'
  BY DEF CoverInv, ClockInv, PhaseInv, Settled, Reflects, Pending, Current, Target
<1>7. HolderInv'
  BY DEF HolderInv, PhaseInv, MirrorInv, OtherHolds, Holds, Current
<1>8. OutrunInv'
  BY DEF OutrunInv, RecordInv, ClockInv, PhaseInv, Current
<1>9. QED
  BY <1>1, <1>2, <1>3, <1>4, <1>5, <1>6, <1>7, <1>8

\* The due flag is in no other conjunct.
LEMMA ElapseStep ==
  ASSUME IInv, Elapse
  PROVE  IInv'
<1> USE ActorsDisjoint, BoundsNat DEF IInv, TypeOK, Actor, NoCursor, NoRow, Torn, Kind, Rev, Record, NoRecord, Cause, Landing, Phase
<1> USE DEF Elapse
<1>1. TypeOK'
  BY DEF Current
<1>2. PhaseInv'
  BY DEF PhaseInv
<1>3. ClockInv'
  BY DEF ClockInv
<1>4. RecordInv'
  BY DEF RecordInv, PhaseInv, ClockInv, Current
<1>5. MirrorInv'
  BY DEF MirrorInv, RecordInv, ClockInv, Current
<1>6. CoverInv'
  BY DEF CoverInv, ClockInv, PhaseInv, Settled, Reflects, Pending, Current, Target
<1>7. HolderInv'
  BY DEF HolderInv, PhaseInv, MirrorInv, OtherHolds, Holds, Current
<1>8. OutrunInv'
  BY DEF OutrunInv, RecordInv, ClockInv, PhaseInv, Current
<1>9. QED
  BY <1>1, <1>2, <1>3, <1>4, <1>5, <1>6, <1>7, <1>8

\* A queued run holds nothing yet.
LEMMA DispatchStep ==
  ASSUME IInv, NEW r \in Run, Dispatch(r)
  PROVE  IInv'
<1> USE ActorsDisjoint, BoundsNat DEF IInv, TypeOK, Actor, NoCursor, NoRow, Torn, Kind, Rev, Record, NoRecord, Cause, Landing, Phase
<1> USE DEF Dispatch, Goto
<1>1. TypeOK'
  BY DEF Current
<1>2. PhaseInv'
  BY DEF PhaseInv
<1>3. ClockInv'
  BY DEF ClockInv
<1>4. RecordInv'
  BY DEF RecordInv, PhaseInv, ClockInv, Current
<1>5. MirrorInv'
  BY DEF MirrorInv, RecordInv, ClockInv, Current
<1>6. CoverInv'
  BY DEF CoverInv, ClockInv, PhaseInv, Settled, Reflects, Pending, Current, Target
<1>7. HolderInv'
  BY DEF HolderInv, PhaseInv, MirrorInv, OtherHolds, Holds, Current
<1>8. OutrunInv'
  BY DEF OutrunInv, RecordInv, ClockInv, PhaseInv, Current
<1>9. QED
  BY <1>1, <1>2, <1>3, <1>4, <1>5, <1>6, <1>7, <1>8

\* The cursor a run reads covers what the stored one covers.
LEMMA ReadCursorStep ==
  ASSUME IInv, NEW r \in Run, ReadCursor(r)
  PROVE  IInv'
<1> USE ActorsDisjoint, BoundsNat DEF IInv, TypeOK, Actor, NoCursor, NoRow, Torn, Kind, Rev, Record, NoRecord, Cause, Landing, Phase
<1> USE DEF ReadCursor, Goto
<1>1. TypeOK'
  BY DEF Current
<1>2. PhaseInv'
  BY DEF PhaseInv
<1>3. ClockInv'
  BY DEF ClockInv
<1>4. RecordInv'
  BY DEF RecordInv, PhaseInv, ClockInv, Current
<1>5. MirrorInv'
  BY DEF MirrorInv, RecordInv, ClockInv, Current
<1>6. CoverInv'
  BY DEF CoverInv, ClockInv, PhaseInv, Settled, Reflects, Pending, Current, Target
<1>7. HolderInv'
  BY DEF HolderInv, PhaseInv, MirrorInv, OtherHolds, Holds, Current
<1>8. OutrunInv'
  BY DEF OutrunInv, RecordInv, ClockInv, PhaseInv, Current
<1>9. QED
  BY <1>1, <1>2, <1>3, <1>4, <1>5, <1>6, <1>7, <1>8

\* A listing: what it leaves out the cursor it started from had settled,
\* what it carries is the batch, and every second holder is noted.
LEMMA LandStep ==
  ASSUME IInv, NEW r \in Run, NEW full \in BOOLEAN, full \/ from[r] # NoCursor,
         phase[r] = "fetch", Land(r, full, Listed(full, from[r])), faults' \in 0 .. MaxFaults,
         \A rec \in Listed(full, from[r]) : rec.kind # "malformed"
  PROVE  IInv'
<1> USE ActorsDisjoint, BoundsNat DEF IInv, TypeOK, Actor, NoCursor, NoRow, Torn, Kind, Rev, Record, NoRecord, Cause, Landing, Phase
<1> USE DEF Land, PassedOver, Listed, Goto
<1>a. /\ batch[r] = {} /\ batch'[r] = Listed(full, from[r]) /\ next'[r] = clock
      /\ phase'[r] = "save" /\ from'[r] = NoCursor
      /\ \A a \in Actor \ {r} : /\ batch'[a] = batch[a] /\ phase'[a] = phase[a]
                              /\ next'[a] = next[a] /\ from'[a] = from[a]
      /\ UNCHANGED <<clock, src, mirror, cursor>>
      /\ \A j \in Item : excuse[j] \subseteq excuse'[j]
  BY DEF PhaseInv
<1>b. \A rec \in batch'[r] : rec.item \in Item /\ rec = Current(rec.item)
  BY <1>a DEF Current
<1>c. \A j \in Item : Current(j)' = Current(j) /\ Current(j).rev = src[j].rev
                      /\ Current(j).item = j /\ Current(j).kind = src[j].kind
  BY <1>a DEF Current
<1>d. \A j \in Item : (IF full THEN src[j].kind # "deleted" /\ j \notin old ELSE src[j].rev > from[r])
                      => Current(j) \in batch'[r]
  BY <1>a
<1>e. \A rec \in batch'[r] : rec.rev > 0
  BY BoundsNat, Numbers, <1>a DEF MirrorInv, Current
<1>1. TypeOK'
  BY DEF Current
<1>2. PhaseInv'
  BY DEF PhaseInv
<1>3. ClockInv'
  BY DEF ClockInv
<1>4. RecordInv'
  <2>1. ASSUME NEW a \in Actor, NEW rec \in batch'[a]
        PROVE  /\ rec.item \in Item /\ rec.rev > 0 /\ rec.rev <= src[rec.item].rev
               /\ rec.rev = src[rec.item].rev => rec = Current(rec.item)
    BY <1>a, <1>b, <1>c, <1>e, <2>1, Numbers DEF RecordInv
  <2>2. ASSUME NEW a \in Actor, NEW rec \in batch'[a],
               NEW b \in Actor, NEW other \in batch'[b],
               other.item = rec.item, a = b \/ other.rev = rec.rev
        PROVE  other = rec
    <3>1. CASE a = r /\ b = r
      BY <1>b, <2>2, <3>1
    <3>2. CASE a = r /\ b # r
      <4>1. other \in batch[b] /\ rec = Current(rec.item) /\ rec.item \in Item
        BY <1>a, <1>b, <3>2, <2>2
      <4>2. QED
        BY <4>1, <2>2, <3>2, <1>c DEF RecordInv
    <3>3. CASE a # r /\ b = r
      <4>1. rec \in batch[a] /\ other = Current(other.item) /\ other.item \in Item
        BY <1>a, <1>b, <3>3, <2>2
      <4>2. QED
        BY <4>1, <2>2, <3>3, <1>c DEF RecordInv
    <3>4. CASE a # r /\ b # r
      BY <1>a, <2>2, <3>4 DEF RecordInv
    <3>5. QED
      BY <3>1, <3>2, <3>3, <3>4
  <2>3. QED
    BY <1>a, <1>c, <2>1, <2>2 DEF RecordInv
<1>5. MirrorInv'
  <2>1. ASSUME NEW a \in Actor, NEW rec \in batch'[a], rec.kind # "live"
        PROVE  mirror[rec.item] # rec.rev
    <3>1. CASE a = r
      BY <1>b, <1>c, <1>e, <2>1, <3>1 DEF MirrorInv
    <3>2. CASE a # r
      BY <1>a, <2>1, <3>2 DEF MirrorInv
    <3>3. QED
      BY <3>1, <3>2
  <2>2. QED
    BY <1>a, <2>1 DEF MirrorInv
<1>6. CoverInv'
  <2> SUFFICES ASSUME NEW j \in Item
               PROVE  /\ src'[j].rev <= cursor' => Settled(j)'
                      /\ \A a \in Actor :
                           /\ src'[j].rev <= from'[a] => Settled(j)'
                           /\ src'[j].rev <= next'[a] =>
                                Settled(j)' \/ Current(j)' \in batch'[a]
    BY DEF CoverInv
  <2>1. Reflects(j)' <=> Reflects(j)
    BY <1>a, <1>c DEF Reflects, Target
  <2>2. Settled(j) => Settled(j)'
    BY <1>a, <1>c, <2>1 DEF Settled, Pending
  <2>3. Settled(j)' \/ Current(j) \in batch'[r]
    <3>1. CASE full
      <4>1. CASE src[j].kind # "deleted" /\ j \notin old
        BY <1>d, <3>1, <4>1
      <4>0. CASE j \in old
        BY <2>1, <3>1, <4>0 DEF Settled
      <4>2. CASE src[j].kind = "deleted" /\ mirror[j] = NoRow
        BY <2>1, <4>2 DEF Settled, Reflects, Target, Current
      <4>3. CASE src[j].kind = "deleted" /\ mirror[j] # NoRow
        BY <3>1, <4>3 DEF Settled
      <4>4. QED
        BY <4>0, <4>1, <4>2, <4>3
    <3>2. CASE ~full
      <4>1. src[j].rev > from[r] \/ src[j].rev <= from[r]
        BY Numbers
      <4>2. QED
        BY <1>d, <3>2, <4>1, <2>2 DEF CoverInv
    <3>3. QED
      BY <3>1, <3>2
  <2>4. ~(src[j].rev <= NoCursor)
    OBVIOUS
  <2>5. QED
    BY <1>a, <1>c, <2>2, <2>3, <2>4 DEF CoverInv
<1>7. HolderInv'
  BY DEF HolderInv, PhaseInv, MirrorInv, OtherHolds, Holds, Current
<1>8. OutrunInv'
  <2>1. ASSUME NEW a \in Actor, NEW rec \in batch'[a],
               rec # Current(rec.item)', "raced" \notin excuse'[rec.item]
        PROVE  /\ cursor' < src'[rec.item].rev
               /\ \A b \in Actor : from'[b] < src'[rec.item].rev /\ next'[b] < src'[rec.item].rev
    <3>0. rec.item \in Item /\ Current(rec.item)' = Current(rec.item)
      BY <1>a, <1>b, <1>c, <2>1, Numbers
    <3>1. a # r
      BY <1>b, <2>1, <3>0
    <3>2. rec \in batch[a] /\ rec.item \in Item /\ "raced" \notin excuse[rec.item]
      BY <1>a, <2>1, <3>1, Numbers
    <3>3. from[r] < src[rec.item].rev
      BY <2>1, <3>0, <3>2 DEF OutrunInv
    <3>4. OtherHolds(r, rec.item)
      BY <3>1, <3>2 DEF OtherHolds, Holds
    <3>5. full \/ Current(rec.item) \in Listed(full, from[r])
      BY <1>a, <1>d, <3>2, <3>3, Numbers
    <3>6. "raced" \in excuse'[rec.item]
      BY <3>2, <3>4, <3>5
    <3>7. QED
      BY <2>1, <3>6
  <2>2. QED
    BY <2>1 DEF OutrunInv
<1>9. QED
  BY <1>1, <1>2, <1>3, <1>4, <1>5, <1>6, <1>7, <1>8

\* An empty answer takes no position.
LEMMA FetchNothingStep ==
  ASSUME IInv, NEW r \in Run, FetchNothing(r)
  PROVE  IInv'
<1> USE ActorsDisjoint, BoundsNat DEF IInv, TypeOK, Actor, NoCursor, NoRow, Torn, Kind, Rev, Record, NoRecord, Cause, Landing, Phase
<1> USE DEF FetchNothing, Goto, Fault
<1>1. TypeOK'
  BY DEF Current
<1>2. PhaseInv'
  BY DEF PhaseInv
<1>3. ClockInv'
  BY DEF ClockInv
<1>4. RecordInv'
  BY DEF RecordInv, PhaseInv, ClockInv, Current
<1>5. MirrorInv'
  BY DEF MirrorInv, RecordInv, ClockInv, Current
<1>6. CoverInv'
  BY DEF CoverInv, ClockInv, PhaseInv, Settled, Reflects, Pending, Current, Target
<1>7. HolderInv'
  BY DEF HolderInv, PhaseInv, MirrorInv, OtherHolds, Holds, Current
<1>8. OutrunInv'
  BY DEF OutrunInv, RecordInv, ClockInv, PhaseInv, Current
<1>9. QED
  BY <1>1, <1>2, <1>3, <1>4, <1>5, <1>6, <1>7, <1>8

\* A refused cursor takes no position.
LEMMA FetchStaleStep ==
  ASSUME IInv, NEW r \in Run, FetchStale(r)
  PROVE  IInv'
<1> USE ActorsDisjoint, BoundsNat DEF IInv, TypeOK, Actor, NoCursor, NoRow, Torn, Kind, Rev, Record, NoRecord, Cause, Landing, Phase
<1> USE DEF FetchStale, Goto, Fault
<1>1. TypeOK'
  BY DEF Current
<1>2. PhaseInv'
  BY DEF PhaseInv
<1>3. ClockInv'
  BY DEF ClockInv
<1>4. RecordInv'
  BY DEF RecordInv, PhaseInv, ClockInv, Current
<1>5. MirrorInv'
  BY DEF MirrorInv, RecordInv, ClockInv, Current
<1>6. CoverInv'
  BY DEF CoverInv, ClockInv, PhaseInv, Settled, Reflects, Pending, Current, Target
<1>7. HolderInv'
  BY DEF HolderInv, PhaseInv, MirrorInv, OtherHolds, Holds, Current
<1>8. OutrunInv'
  BY DEF OutrunInv, RecordInv, ClockInv, PhaseInv, Current
<1>9. QED
  BY <1>1, <1>2, <1>3, <1>4, <1>5, <1>6, <1>7, <1>8

\* A cleared cursor covers nothing.
LEMMA ClearCursorStep ==
  ASSUME IInv, NEW r \in Run, ClearCursor(r)
  PROVE  IInv'
<1> USE ActorsDisjoint, BoundsNat DEF IInv, TypeOK, Actor, NoCursor, NoRow, Torn, Kind, Rev, Record, NoRecord, Cause, Landing, Phase
<1> USE DEF ClearCursor, Goto
<1>1. TypeOK'
  BY DEF Current
<1>2. PhaseInv'
  BY DEF PhaseInv
<1>3. ClockInv'
  BY DEF ClockInv
<1>4. RecordInv'
  BY DEF RecordInv, PhaseInv, ClockInv, Current
<1>5. MirrorInv'
  BY DEF MirrorInv, RecordInv, ClockInv, Current
<1>6. CoverInv'
  <2>1. \A j \in Item : Current(j)' = Current(j) /\ (Reflects(j)' <=> Reflects(j))
    BY DEF Reflects, Current, Target
  <2>2. \A j \in Item : Settled(j) => Settled(j)'
    BY <2>1 DEF Settled, Pending
  <2>3. \A j \in Item : ~(src[j].rev <= NoCursor)
    OBVIOUS
  <2>4. QED
    BY <2>1, <2>2, <2>3 DEF CoverInv
<1>7. HolderInv'
  BY DEF HolderInv, PhaseInv, MirrorInv, OtherHolds, Holds, Current
<1>8. OutrunInv'
  BY DEF OutrunInv, RecordInv, ClockInv, PhaseInv, Current
<1>9. QED
  BY <1>1, <1>2, <1>3, <1>4, <1>5, <1>6, <1>7, <1>8

\* The position in hand becomes the stored one while its batch is pending.
LEMMA SaveCursorStep ==
  ASSUME IInv, NEW r \in Run, SaveCursor(r)
  PROVE  IInv'
<1> USE ActorsDisjoint, BoundsNat DEF IInv, TypeOK, Actor, NoCursor, NoRow, Torn, Kind, Rev, Record, NoRecord, Cause, Landing, Phase
<1> USE DEF SaveCursor, Goto
<1>1. TypeOK'
  BY DEF Current
<1>2. PhaseInv'
  BY DEF PhaseInv
<1>3. ClockInv'
  BY DEF ClockInv
<1>4. RecordInv'
  BY DEF RecordInv, PhaseInv, ClockInv, Current
<1>5. MirrorInv'
  BY DEF MirrorInv, RecordInv, ClockInv, Current
<1>6. CoverInv'
  <2>1. \A j \in Item : Current(j)' = Current(j) /\ (Reflects(j)' <=> Reflects(j))
    BY DEF Reflects, Current, Target
  <2>2. \A j \in Item : Settled(j) => Settled(j)'
    BY <2>1 DEF Settled, Pending
  <2>3. \A j \in Item : Current(j) \in batch[r] => Settled(j)'
    BY <2>1 DEF Settled, Pending
  <2>4. \A j \in Item : ~(src[j].rev <= NoCursor)
    OBVIOUS
  <2>5. QED
    BY <2>1, <2>2, <2>3, <2>4 DEF CoverInv
<1>7. HolderInv'
  BY DEF HolderInv, PhaseInv, MirrorInv, OtherHolds, Holds, Current
<1>8. OutrunInv'
  BY DEF OutrunInv, RecordInv, ClockInv, PhaseInv, Current
<1>9. QED
  BY <1>1, <1>2, <1>3, <1>4, <1>5, <1>6, <1>7, <1>8

\* The stamp moves the run between two landing phases.
LEMMA StampSyncedStep ==
  ASSUME IInv, NEW r \in Run, StampSynced(r)
  PROVE  IInv'
<1> USE ActorsDisjoint, BoundsNat DEF IInv, TypeOK, Actor, NoCursor, NoRow, Torn, Kind, Rev, Record, NoRecord, Cause, Landing, Phase
<1> USE DEF StampSynced, Goto
<1>1. TypeOK'
  BY DEF Current
<1>2. PhaseInv'
  BY DEF PhaseInv
<1>3. ClockInv'
  BY DEF ClockInv
<1>4. RecordInv'
  BY DEF RecordInv, PhaseInv, ClockInv, Current
<1>5. MirrorInv'
  BY DEF MirrorInv, RecordInv, ClockInv, Current
<1>6. CoverInv'
  BY DEF CoverInv, ClockInv, PhaseInv, Settled, Reflects, Pending, Current, Target
<1>7. HolderInv'
  BY DEF HolderInv, PhaseInv, MirrorInv, OtherHolds, Holds, Current
<1>8. OutrunInv'
  BY DEF OutrunInv, RecordInv, ClockInv, PhaseInv, Current
<1>9. QED
  BY <1>1, <1>2, <1>3, <1>4, <1>5, <1>6, <1>7, <1>8

\* A user's edit takes a new revision and holds its record.
LEMMA WriteThroughStep ==
  ASSUME IInv, NEW w \in Writer, NEW i \in Item, NEW k \in {"live", "deleted"}, WriteThrough(w, i, k)
  PROVE  IInv'
<1> USE ActorsDisjoint, BoundsNat DEF IInv, TypeOK, Actor, NoCursor, NoRow, Torn, Kind, Rev, Record, NoRecord, Cause, Landing, Phase
<1> USE DEF WriteThrough, Publish, Submit, Goto
<1>1. TypeOK'
  BY DEF Current
<1>2. PhaseInv'
  BY DEF PhaseInv
<1>3. ClockInv'
  <2>1. clock' = clock + 1 /\ cursor' = cursor /\ from' = from /\ next' = next
    OBVIOUS
  <2>2. ASSUME NEW j \in Item
        PROVE  src'[j].rev <= clock'
    <3>1. CASE j = i
      BY <2>1, <3>1, Numbers
    <3>2. CASE j # i
      BY <2>1, <3>2, Numbers DEF ClockInv
    <3>3. QED
      BY <3>1, <3>2
  <2>3. cursor <= clock + 1 /\ \A a \in Actor : from[a] <= clock + 1 /\ next[a] <= clock + 1
    BY Numbers DEF ClockInv
  <2>4. QED
    BY <2>1, <2>2, <2>3 DEF ClockInv
<1>4. RecordInv'
  BY DEF RecordInv, PhaseInv, ClockInv, Current
<1>5. MirrorInv'
  BY DEF MirrorInv, RecordInv, ClockInv, Current
<1>6. CoverInv'
  <2> SUFFICES ASSUME NEW j \in Item
               PROVE  /\ src'[j].rev <= cursor' => Settled(j)'
                      /\ \A a \in Actor :
                           /\ src'[j].rev <= from'[a] => Settled(j)'
                           /\ src'[j].rev <= next'[a] =>
                                Settled(j)' \/ Current(j)' \in batch'[a]
    BY DEF CoverInv
  <2>1. CASE j = i
    <3>1. src'[j].rev = clock + 1
      BY <2>1
    <3>2. cursor <= clock /\ \A a \in Actor : from[a] <= clock /\ next[a] <= clock
      BY DEF ClockInv
    <3>3. QED
      BY <3>1, <3>2, Numbers
  <2>2. CASE j # i
    <3>1. src'[j] = src[j] /\ excuse'[j] = excuse[j]
      BY <2>2
    <3>2. Current(j)' = Current(j) /\ (Reflects(j)' <=> Reflects(j))
      BY <3>1 DEF Reflects, Current, Target
    <3>3. w \notin Run /\ \A a \in Actor \ {w} : batch'[a] = batch[a] /\ phase'[a] = phase[a]
      OBVIOUS
    <3>4. Pending(j)' <=> Pending(j)
      BY <3>2, <3>3 DEF Pending
    <3>5. next[w] = NoCursor /\ src[j].rev \in Nat
      BY DEF PhaseInv
    <3>6. QED
      BY <3>1, <3>2, <3>3, <3>4, <3>5 DEF CoverInv, Settled
  <2>3. QED
    BY <2>1, <2>2
<1>7. HolderInv'
  <2> DEFINE new == [item |-> i, rev |-> clock + 1, kind |-> k]
  <2>1. /\ batch[w] = {} /\ batch'[w] = {new} /\ phase'[w] = "apply"
        /\ \A a \in Actor \ {w} : batch'[a] = batch[a] /\ phase'[a] = phase[a]
        /\ UNCHANGED <<mirror, cur, row>>
        /\ \A j \in Item : excuse[j] \subseteq excuse'[j]
    BY DEF PhaseInv
  <2>2. \A a \in Actor, j \in Item : OtherHolds(a, j)' => OtherHolds(a, j) \/ (a # w /\ j = i)
    BY <2>1 DEF OtherHolds, Holds
  <2>3. OtherHolds(w, i) => "raced" \in excuse'[i]
    OBVIOUS
  <2>4. ASSUME NEW a \in Actor, NEW rec \in batch'[a], "raced" \notin excuse'[rec.item]
        PROVE  /\ ~OtherHolds(a, rec.item)'
               /\ phase'[a] = "write" /\ cur'[a] = rec => row'[a] = mirror'[rec.item]
               /\ mirror'[rec.item] <= rec.rev
    <3>1. CASE a = w
      <4>1. rec = new /\ rec.item = i /\ rec.rev = clock + 1
        BY <2>1, <3>1, <2>4
      <4>2. mirror[i] <= clock + 1
        BY Numbers DEF MirrorInv, ClockInv
      <4>3. QED
        BY <2>1, <2>2, <2>3, <2>4, <3>1, <4>1, <4>2
    <3>2. CASE a # w
      <4>1. rec \in batch[a] /\ rec.item \in Item /\ "raced" \notin excuse[rec.item]
        BY <2>1, <2>4, <3>2, Numbers
      <4>2. rec.item = i => OtherHolds(w, i)
        BY <3>2, <4>1 DEF OtherHolds, Holds
      <4>3. ~OtherHolds(a, rec.item)'
        BY <2>2, <2>3, <2>4, <4>1, <4>2 DEF HolderInv
      <4>4. QED
        BY <2>1, <3>2, <4>1, <4>3 DEF HolderInv
    <3>3. QED
      BY <3>1, <3>2
  <2>5. QED
    BY <2>4 DEF HolderInv
<1>8. OutrunInv'
  <2>1. /\ batch'[w] = {Current(i)'} /\ UNCHANGED <<cursor, from, next>>
        /\ \A a \in Actor \ {w} : batch'[a] = batch[a]
        /\ \A j \in Item : excuse[j] \subseteq excuse'[j]
        /\ src'[i].rev = clock + 1 /\ \A j \in Item \ {i} : src'[j] = src[j]
    BY DEF Current
  <2>2. ASSUME NEW a \in Actor, NEW rec \in batch'[a],
               rec # Current(rec.item)', "raced" \notin excuse'[rec.item]
        PROVE  /\ cursor' < src'[rec.item].rev
               /\ \A b \in Actor : from'[b] < src'[rec.item].rev /\ next'[b] < src'[rec.item].rev
    <3>1. a # w
      BY <2>1, <2>2 DEF Current
    <3>2. rec \in batch[a] /\ rec.item \in Item /\ "raced" \notin excuse[rec.item]
      BY <2>1, <2>2, <3>1, Numbers
    <3>3. CASE rec.item = i
      <4>1. cursor <= clock /\ \A b \in Actor : from[b] <= clock /\ next[b] <= clock
        BY DEF ClockInv
      <4>2. QED
        BY <2>1, <3>3, <4>1, Numbers
    <3>4. CASE rec.item # i
      <4>1. src'[rec.item] = src[rec.item] /\ rec # Current(rec.item)
        BY <2>1, <2>2, <3>2, <3>4 DEF Current
      <4>2. QED
        BY <2>1, <3>2, <4>1 DEF OutrunInv
    <3>5. QED
      BY <3>3, <3>4
  <2>3. QED
    BY <2>2 DEF OutrunInv
<1>9. QED
  BY <1>1, <1>2, <1>3, <1>4, <1>5, <1>6, <1>7, <1>8

\* Deleting what is gone holds the source's tombstone.
LEMMA DeleteGoneStep ==
  ASSUME IInv, NEW w \in Writer, NEW i \in Item, DeleteGone(w, i)
  PROVE  IInv'
<1> USE ActorsDisjoint, BoundsNat DEF IInv, TypeOK, Actor, NoCursor, NoRow, Torn, Kind, Rev, Record, NoRecord, Cause, Landing, Phase
<1> USE DEF DeleteGone, Submit, Goto
<1>1. TypeOK'
  BY DEF Current
<1>2. PhaseInv'
  BY DEF PhaseInv
<1>3. ClockInv'
  BY DEF ClockInv
<1>4. RecordInv'
  BY DEF RecordInv, PhaseInv, ClockInv, Current
<1>5. MirrorInv'
  BY DEF MirrorInv, RecordInv, ClockInv, Current
<1>6. CoverInv'
  <2>1. \A j \in Item : Current(j)' = Current(j) /\ (Reflects(j)' <=> Reflects(j))
    BY DEF Reflects, Current, Target
  <2>0. w \notin Run /\ next[w] = NoCursor
    BY DEF PhaseInv
  <2>2. \A j \in Item : Settled(j) => Settled(j)'
    BY <2>0, <2>1 DEF Settled, Pending
  <2>3. \A j \in Item : ~(src[j].rev <= NoCursor)
    OBVIOUS
  <2>4. QED
    BY <2>0, <2>1, <2>2, <2>3 DEF CoverInv
<1>7. HolderInv'
  BY DEF HolderInv, PhaseInv, MirrorInv, OtherHolds, Holds, Current
<1>8. OutrunInv'
  BY DEF OutrunInv, RecordInv, ClockInv, PhaseInv, Current
<1>9. QED
  BY <1>1, <1>2, <1>3, <1>4, <1>5, <1>6, <1>7, <1>8

\* A run that stops notes what its stored cursor had promised.
LEMMA AbandonStep ==
  ASSUME IInv, NEW a \in Actor, Abandon(a), faults' \in 0 .. MaxFaults
  PROVE  IInv'
<1> USE ActorsDisjoint, BoundsNat DEF IInv, TypeOK, Actor, NoCursor, NoRow, Torn, Kind, Rev, Record, NoRecord, Cause, Landing, Phase
<1> USE DEF Abandon, Goto
<1>1. TypeOK'
  BY DEF Current
<1>2. PhaseInv'
  BY DEF PhaseInv
<1>3. ClockInv'
  BY DEF ClockInv
<1>4. RecordInv'
  BY DEF RecordInv, PhaseInv, ClockInv, Current
<1>5. MirrorInv'
  BY DEF MirrorInv, RecordInv, ClockInv, Current
<1>6. CoverInv'
  <2> SUFFICES ASSUME NEW j \in Item
               PROVE  /\ src'[j].rev <= cursor' => Settled(j)'
                      /\ \A b \in Actor :
                           /\ src'[j].rev <= from'[b] => Settled(j)'
                           /\ src'[j].rev <= next'[b] =>
                                Settled(j)' \/ Current(j)' \in batch'[b]
    BY DEF CoverInv
  <2>1. /\ UNCHANGED <<src, mirror, cursor>> /\ next'[a] = NoCursor /\ from'[a] = NoCursor
        /\ \A b \in Actor \ {a} : /\ batch'[b] = batch[b] /\ phase'[b] = phase[b]
                                /\ next'[b] = next[b] /\ from'[b] = from[b]
        /\ excuse[j] \subseteq excuse'[j]
    OBVIOUS
  <2>2. a \in Run /\ phase[a] \in Landing /\ Current(j) \in batch[a] => excuse'[j] # {}
    BY DEF Holds, Current
  <2>3. Current(j)' = Current(j) /\ (Reflects(j)' <=> Reflects(j))
    BY <2>1 DEF Reflects, Current, Target
  <2>4. Settled(j) => Settled(j)'
    BY <2>1, <2>2, <2>3 DEF Settled, Pending
  <2>5. ~(src[j].rev <= NoCursor)
    OBVIOUS
  <2>6. QED
    BY <2>1, <2>3, <2>4, <2>5 DEF CoverInv
<1>7. HolderInv'
  BY DEF HolderInv, PhaseInv, MirrorInv, OtherHolds, Holds, Current
<1>8. OutrunInv'
  BY DEF OutrunInv, RecordInv, ClockInv, PhaseInv, Current
<1>9. QED
  BY <1>1, <1>2, <1>3, <1>4, <1>5, <1>6, <1>7, <1>8

\* An open transaction sees the row it selected.
LEMMA SelectRowStep ==
  ASSUME IInv, NEW a \in Actor, SelectRow(a)
  PROVE  IInv'
<1> USE ActorsDisjoint, BoundsNat DEF IInv, TypeOK, Actor, NoCursor, NoRow, Torn, Kind, Rev, Record, NoRecord, Cause, Landing, Phase
<1> USE DEF SelectRow, Goto
<1>1. TypeOK'
  BY DEF Current
<1>2. PhaseInv'
  BY DEF PhaseInv
<1>3. ClockInv'
  BY DEF ClockInv
<1>4. RecordInv'
  BY DEF RecordInv, PhaseInv, ClockInv, Current
<1>5. MirrorInv'
  BY DEF MirrorInv, RecordInv, ClockInv, Current
<1>6. CoverInv'
  BY DEF CoverInv, ClockInv, PhaseInv, Settled, Reflects, Pending, Current, Target
<1>7. HolderInv'
  BY DEF HolderInv, PhaseInv, MirrorInv, OtherHolds, Holds, Current
<1>8. OutrunInv'
  BY DEF OutrunInv, RecordInv, ClockInv, PhaseInv, Current
<1>9. QED
  BY <1>1, <1>2, <1>3, <1>4, <1>5, <1>6, <1>7, <1>8

\* An actor that finishes holds nothing.
LEMMA FinishStep ==
  ASSUME IInv, NEW a \in Actor, Finish(a)
  PROVE  IInv'
<1> USE ActorsDisjoint, BoundsNat DEF IInv, TypeOK, Actor, NoCursor, NoRow, Torn, Kind, Rev, Record, NoRecord, Cause, Landing, Phase
<1> USE DEF Finish, Goto
<1>1. TypeOK'
  BY DEF Current
<1>2. PhaseInv'
  BY DEF PhaseInv
<1>3. ClockInv'
  BY DEF ClockInv
<1>4. RecordInv'
  BY DEF RecordInv, PhaseInv, ClockInv, Current
<1>5. MirrorInv'
  BY DEF MirrorInv, RecordInv, ClockInv, Current
<1>6. CoverInv'
  BY DEF CoverInv, ClockInv, PhaseInv, Settled, Reflects, Pending, Current, Target
<1>7. HolderInv'
  BY DEF HolderInv, PhaseInv, MirrorInv, OtherHolds, Holds, Current
<1>8. OutrunInv'
  BY DEF OutrunInv, RecordInv, ClockInv, PhaseInv, Current
<1>9. QED
  BY <1>1, <1>2, <1>3, <1>4, <1>5, <1>6, <1>7, <1>8

\* The transaction of a record: whatever it leaves in the row, given that a
\* lone holder leaves exactly what its record asks for.
LEMMA CommitStep ==
  ASSUME IInv, NEW a \in Actor, NEW value \in Rev \cup {Torn}, Commit(a, value),
         "raced" \notin excuse[cur[a].item] => value = Target(cur[a]),
         value \in {mirror[cur[a].item], Torn, NoRow}
           \/ (cur[a].kind = "live" /\ value = cur[a].rev)
  PROVE  IInv'
<1> USE ActorsDisjoint, BoundsNat DEF IInv, TypeOK, Actor, NoCursor, NoRow, Torn, Kind, Rev, Record, NoRecord, Cause, Landing, Phase
<1> USE DEF Commit, Goto
<1> DEFINE i == cur[a].item
<1>a. /\ cur[a] \in batch[a] /\ i \in Item /\ cur[a] \in Record /\ phase[a] = "write"
      /\ mirror' = [mirror EXCEPT ![i] = value]
      /\ batch'[a] = batch[a] \ {cur[a]} /\ phase'[a] = "apply"
      /\ \A b \in Actor \ {a} : /\ batch'[b] = batch[b] /\ phase'[b] = phase[b]
                              /\ cur'[b] = cur[b] /\ row'[b] = row[b]
      /\ UNCHANGED <<clock, src, cursor, from, next>>
      /\ \A j \in Item \ {i} : excuse'[j] = excuse[j] /\ mirror'[j] = mirror[j]
  BY Numbers DEF PhaseInv
<1>b. \A b \in Actor : batch'[b] \subseteq batch[b]
  BY <1>a
<1>c. \A j \in Item : Current(j)' = Current(j)
  BY <1>a DEF Current
<1>d. excuse'[i] # excuse[i] =>
        /\ cur[a] = Current(i) /\ value = Target(cur[a])
        /\ excuse'[i] = {} /\ \A b \in Actor : \A rec \in batch'[b] : rec.item # i
  <2>1. excuse'[i] # excuse[i] =>
          cur[a] = Current(i) /\ value = Target(cur[a]) /\ excuse'[i] = {} /\ ~OtherHolds(a, i)
    BY <1>a
  <2>2. \A rec \in batch'[a] : rec.item # i
    BY <1>a DEF RecordInv
  <2>3. QED
    BY <1>a, <2>1, <2>2 DEF OtherHolds, Holds
<1>e. \A b \in Actor : \A rec \in batch'[b] :
        "raced" \notin excuse'[rec.item] => "raced" \notin excuse[rec.item] /\ rec.item # i
  BY <1>a, <1>b, <1>d, Numbers DEF HolderInv, OtherHolds, Holds, RecordInv
<1>1. TypeOK'
  BY <1>a
<1>2. PhaseInv'
  BY <1>a DEF PhaseInv
<1>3. ClockInv'
  BY <1>a DEF ClockInv
<1>4. RecordInv'
  BY <1>a, <1>b, <1>c, Numbers DEF RecordInv
<1>5. MirrorInv'
  BY <1>a, <1>b, Numbers DEF MirrorInv, RecordInv, Current
<1>6. CoverInv'
  <2> SUFFICES ASSUME NEW j \in Item
               PROVE  /\ src'[j].rev <= cursor' => Settled(j)'
                      /\ \A b \in Actor :
                           /\ src'[j].rev <= from'[b] => Settled(j)'
                           /\ src'[j].rev <= next'[b] =>
                                Settled(j)' \/ Current(j)' \in batch'[b]
    BY DEF CoverInv
  <2>1. CASE j # i
    <3>1. Current(j)' = Current(j) /\ (Reflects(j)' <=> Reflects(j)) /\ excuse'[j] = excuse[j]
      BY <1>a, <1>c, <2>1 DEF Reflects, Target
    <3>2. \A b \in Actor : Current(j) \in batch[b] => Current(j) \in batch'[b]
      BY <1>a, <2>1 DEF Current
    <3>3. Settled(j) => Settled(j)'
      BY <1>a, <3>1, <3>2 DEF Settled, Pending
    <3>4. QED
      BY <1>a, <3>1, <3>2, <3>3 DEF CoverInv
  <2>2. CASE j = i
    <3>1. CASE cur[a] = Current(i) /\ value = Target(cur[a])
      <4>1. src[i].kind # "malformed"
        BY <1>a, <3>1 DEF PhaseInv, Current
      <4>2. src'[j] = src[j] /\ mirror'[j] = value
        BY <1>a, <2>2
      <4>3. Reflects(j)'
        BY <2>2, <3>1, <4>1, <4>2 DEF Reflects, Target, Current
      <4>4. Settled(j)'
        BY <4>3 DEF Settled
      <4>5. QED
        BY <4>4
    <3>2. CASE "raced" \in excuse[i] /\ ~(cur[a] = Current(i) /\ value = Target(cur[a]))
      BY <1>d, <2>2, <3>2 DEF Settled
    <3>3. CASE "raced" \notin excuse[i] /\ cur[a] # Current(i)
      <4>1. cursor < src[j].rev /\ \A b \in Actor : from[b] < src[j].rev /\ next[b] < src[j].rev
        BY <1>a, <2>2, <3>3 DEF OutrunInv
      <4>2. UNCHANGED <<src, cursor, from, next>>
        BY <1>a
      <4>3. QED
        BY <4>1, <4>2, Numbers
    <3>4. QED
      BY <3>1, <3>2, <3>3
  <2>3. QED
    BY <2>1, <2>2
<1>7. HolderInv'
  BY <1>a, <1>b, <1>e, Numbers DEF HolderInv, OtherHolds, Holds
<1>8. OutrunInv'
  BY <1>a, <1>b, <1>c, <1>e, Numbers DEF OutrunInv
<1>9. QED
  BY <1>1, <1>2, <1>3, <1>4, <1>5, <1>6, <1>7, <1>8

\* Every step of the applier keeps the invariant.
LEMMA ApplyIInv ==
  ASSUME IInv, NEW a \in Actor, ApplyStep(a)
  PROVE  IInv'
<1>a. phase[a] = "write" =>
        /\ cur[a] \in batch[a]
        /\ "raced" \notin excuse[cur[a].item] => row[a] = mirror[cur[a].item]
  BY DEF IInv, PhaseInv, HolderInv
<1>b. phase[a] = "write" =>
        /\ cur[a] \in Record /\ cur[a].item \in Item /\ cur[a].rev \in Rev
        /\ mirror[cur[a].item] \in Rev \cup {Torn} /\ NoRow \in Rev
  BY <1>a, BoundsNat DEF IInv, TypeOK, Record, Rev, NoRow
<1>1. CASE SelectRow(a)
  BY <1>1, SelectRowStep
<1>2. CASE Finish(a)
  BY <1>2, FinishStep
<1>3. CASE RemoveMirror(a)
  BY <1>3, <1>a, <1>b, CommitStep DEF RemoveMirror, Commit, Target
<1>4. CASE UpsertMirror(a)
  BY <1>4, <1>a, <1>b, CommitStep DEF UpsertMirror, Commit, Target
<1>5. CASE UpsertStale(a)
  <2>1. PICK value \in {mirror[cur[a].item]}
                        \cup (IF row[a] = cur[a].rev THEN {} ELSE {cur[a].rev, Torn}) :
          Commit(a, value)
    BY <1>5 DEF UpsertStale
  <2>2. "raced" \in excuse[cur[a].item] /\ value \in Rev \cup {Torn}
    BY <1>5, <1>a, <1>b, <2>1 DEF UpsertStale, Commit
  <2>3. QED
    BY <1>5, <2>1, <2>2, CommitStep DEF UpsertStale
<1>6. CASE ConflictAbort(a)
  BY <1>6, AbandonStep DEF ConflictAbort, IInv, TypeOK
<1>7. QED
  BY <1>1, <1>2, <1>3, <1>4, <1>5, <1>6 DEF ApplyStep

\* Both listings are instances of LandStep, or end the run.
LEMMA AnswerStep ==
  ASSUME IInv, NEW r \in Run, NEW full \in BOOLEAN, full \/ from[r] # NoCursor,
         phase[r] = "fetch", Answer(r, full), faults' \in 0 .. MaxFaults
  PROVE  IInv'
<1>1. r \in Actor
  BY DEF Actor
<1>2. QED
  BY <1>1, AbandonStep, LandStep DEF Answer

LEMMA FetchIInv ==
  ASSUME IInv, NEW r \in Run, Fetch(r) \/ FetchGone(r)
  PROVE  IInv'
<1>1. CASE Fetch(r)
  <2>1. Answer(r, from[r] = NoCursor) /\ phase[r] = "fetch" /\ faults' \in 0 .. MaxFaults
    BY <1>1 DEF Fetch, IInv, TypeOK
  <2>2. QED
    BY <2>1, AnswerStep
<1>2. CASE FetchGone(r)
  <2>1. faults' \in 0 .. MaxFaults
    BY <1>2, BoundsNat DEF FetchGone, Fault, IInv, TypeOK
  <2>2. QED
    BY <1>2, <2>1, AnswerStep DEF FetchGone
<1>3. QED
  BY <1>1, <1>2

\* Nothing is published, held or covered at the start.
LEMMA InitIInv == Init => IInv
<1> SUFFICES ASSUME Init PROVE IInv
  OBVIOUS
<1> USE BoundsNat DEF Init, NoCursor, NoRow, Actor
<1>1. TypeOK
  BY DEF TypeOK, Rev, Kind, Phase, NoRecord
<1>2. PhaseInv /\ RecordInv /\ HolderInv /\ OutrunInv
  BY DEF PhaseInv, RecordInv, HolderInv, OutrunInv
<1>3. ClockInv /\ MirrorInv /\ CoverInv
  BY DEF ClockInv, MirrorInv, CoverInv
<1>4. QED
  BY <1>1, <1>2, <1>3 DEF IInv

\* One case per action of Next.
LEMMA NextIInv == IInv /\ [Next]_vars => IInv'
<1> SUFFICES ASSUME IInv, [Next]_vars PROVE IInv'
  OBVIOUS
<1>1. CASE \E i \in Item : Age(i) \/ \E k \in Kind : Change(i, k)
  BY <1>1, AgeStep, ChangeStep
<1>2. CASE Elapse
  BY <1>2, ElapseStep
<1>3. CASE \E r \in Run : RunStep(r) \/ SourceFault(r)
  BY <1>3, DispatchStep, ReadCursorStep, FetchIInv, ClearCursorStep, SaveCursorStep,
     StampSyncedStep, FetchNothingStep, FetchStaleStep DEF RunStep, SourceFault
<1>4. CASE \E w \in Writer, i \in Item :
             DeleteGone(w, i) \/ \E k \in {"live", "deleted"} : WriteThrough(w, i, k)
  BY <1>4, DeleteGoneStep, WriteThroughStep
<1>5. CASE \E a \in Actor : ApplyStep(a) \/ Fail(a)
  <2>1. PICK a \in Actor : ApplyStep(a) \/ Fail(a)
    BY <1>5
  <2>2. CASE ApplyStep(a)
    BY <2>2, ApplyIInv
  <2>3. CASE Fail(a)
    <3>1. Abandon(a) /\ faults' \in 0 .. MaxFaults
      BY <2>3, BoundsNat DEF Fail, Fault, IInv, TypeOK
    <3>2. QED
      BY <3>1, AbandonStep
  <2>4. QED
    BY <2>1, <2>2, <2>3
<1>6. CASE UNCHANGED vars
  BY <1>6 DEF vars, IInv, TypeOK, PhaseInv, ClockInv, RecordInv, MirrorInv, CoverInv,
     HolderInv, OutrunInv, Settled, Reflects, Pending, Current, OtherHolds, Holds, Target
<1>7. QED
  BY <1>1, <1>2, <1>3, <1>4, <1>5, <1>6 DEF Next

(***************************************************************************)
(* The bookkeeping of run_connector_sync and its appliers satisfies the    *)
(* inductive invariant, for any items, runs, writers and bounds.           *)
(***************************************************************************)
THEOREM Invariance == Spec => []IInv
<1>1. QED
  BY InitIInv, NextIInv, PTL DEF Spec

(* Every variable of the sync keeps its type.                              *)
THEOREM TypeCorrect == Spec => []TypeOK
<1>1. IInv => TypeOK
  BY DEF IInv
<1>2. QED
  BY <1>1, Invariance, PTL

(***************************************************************************)
(* An edit the stored cursor has passed is mirrored, about to be applied,  *)
(* or its item raced, was abandoned, orphaned or aged.                     *)
(***************************************************************************)
THEOREM SyncLosesNothingSilently == Spec => []NoSilentLoss
<1>1. IInv => NoSilentLoss
  BY DEF IInv, CoverInv, NoSilentLoss
<1>2. QED
  BY <1>1, Invariance, PTL

\* The order of revisions, one step at a time: only a commit writes a row,
\* and a lone holder's record is not older than the row.
LEMMA ForwardStep ==
  ASSUME IInv, [Next]_vars, NEW i \in Item,
         "raced" \notin excuse[i], mirror'[i] # mirror[i]
  PROVE  IF mirror'[i] = NoRow THEN mirror[i] < src[i].rev
                               ELSE mirror[i] < mirror'[i]
<1>1. PICK a \in Actor : RemoveMirror(a) \/ UpsertMirror(a) \/ UpsertStale(a)
  BY DEF Next, vars, Age, Change, Publish, Elapse, RunStep, SourceFault, Dispatch, ReadCursor, Fetch,
     FetchGone, Answer, FetchNothing, FetchStale, Land, ClearCursor, SaveCursor, StampSynced,
     DeleteGone, WriteThrough, Submit, ApplyStep, SelectRow, Finish, ConflictAbort,
     Fail, Abandon
<1>2. /\ phase[a] = "write" /\ i = cur[a].item
      /\ mirror \in [Item -> Rev \cup {Torn}]
  BY <1>1 DEF RemoveMirror, UpsertMirror, UpsertStale, Commit, IInv, TypeOK
<1>3. cur[a] \in batch[a]
  BY <1>2 DEF IInv, PhaseInv
<1>4. row[a] = mirror[i] /\ mirror[i] <= cur[a].rev
  BY <1>2, <1>3 DEF IInv, HolderInv
<1>5. cur[a].rev > 0 /\ cur[a].rev <= src[i].rev
  BY <1>2, <1>3 DEF IInv, RecordInv
<1>6. mirror[i] \in Int /\ cur[a].rev \in Int /\ src[i].rev \in Int
  BY <1>3, Numbers DEF IInv
<1>7. CASE RemoveMirror(a)
  <2>1. mirror'[i] = NoRow
    BY <1>2, <1>4, <1>7 DEF RemoveMirror, Commit
  <2>2. mirror[i] # cur[a].rev
    BY <1>2, <1>3, <1>7 DEF IInv, MirrorInv, RemoveMirror
  <2>3. QED
    BY <1>4, <1>5, <1>6, <2>1, <2>2
<1>8. CASE UpsertMirror(a)
  <2>1. mirror'[i] = cur[a].rev
    BY <1>2, <1>8 DEF UpsertMirror, Commit
  <2>2. QED
    BY <1>4, <1>5, <1>6, <2>1 DEF NoRow
<1>9. CASE UpsertStale(a)
  BY <1>2, <1>4, <1>9 DEF UpsertStale
<1>10. QED
  BY <1>1, <1>7, <1>8, <1>9

(***************************************************************************)
(* Unless two actors held the item together, its mirror only moves forward *)
(* in the order of the source's edits.                                     *)
(***************************************************************************)
THEOREM LateAnswersNeverWin == Spec => MirrorMovesForward
<1>1. IInv /\ [Next]_vars =>
        [\A i \in Item :
           "raced" \notin excuse[i] /\ mirror'[i] # mirror[i] =>
             IF mirror'[i] = NoRow THEN mirror[i] < src[i].rev
                                   ELSE mirror[i] < mirror'[i]]_vars
  BY ForwardStep
<1>2. QED
  BY <1>1, Invariance, PTL DEF Spec, MirrorMovesForward
=============================================================================
