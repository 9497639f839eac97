-------------------------- MODULE VramCacheProofs --------------------------
(***************************************************************************)
(* Proofs about VramCache: for every trace, every placing of frames, every *)
(* interval and every order of queries, an answer is the memory the writes *)
(* in front of the row leave, and no query that goes back replays more     *)
(* than an interval of rows. MemoryAt says which write decides a byte, so  *)
(* no induction over the trace is needed: one write moves it by one row.   *)
(***************************************************************************)
EXTENDS VramCache, FiniteSetTheorems, TLAPS

LEMMA LatestIs ==
  ASSUME NEW rows \in SUBSET Nat, NEW n \in rows, \A q \in rows : q <= n
  PROVE  Latest(rows) = n
  <1>1. \E r \in rows : \A q \in rows : q <= r
    OBVIOUS
  <1>2. Latest(rows) \in rows /\ \A q \in rows : q <= Latest(rows)
    BY <1>1, Zenon DEF Latest
  <1>3. Latest(rows) <= n /\ n <= Latest(rows) /\ Latest(rows) \in Nat /\ n \in Nat
    BY <1>2
  <1> QED
    BY <1>3, SMT

\* The write of a row, applied to the memory in front of it, leaves the memory
\* in front of the next row.
LEMMA OneWrite ==
  ASSUME store \in Traces, NEW n \in Nat, n < EntryCount
  PROVE  MemoryAt(n + 1) = Written(MemoryAt(n), store.writes[n + 1])
  <1> DEFINE w == store.writes[n + 1]
  <1>1. EntryCount \in Nat /\ n \in 0..EntryCount - 1
    BY VramAssumption, SMT DEF EntryCount
  <1>2. ASSUME NEW a \in Addresses, w = None \/ w.addr # a
        PROVE  ByteAt(a, n + 1) = ByteAt(a, n)
    <2>1. WritesTo(a, n + 1) = WritesTo(a, n)
      BY <1>1, <1>2, SMT DEF WritesTo
    <2> QED
      BY <2>1, Zenon DEF ByteAt
  <1>3. ASSUME NEW a \in Addresses, w # None, w.addr = a
        PROVE  ByteAt(a, n + 1) = w.data
    <2>1. n \in WritesTo(a, n + 1)
      BY <1>1, <1>3, SMT DEF WritesTo
    <2>2. \A q \in WritesTo(a, n + 1) : q \in Nat /\ q <= n
      BY <1>1, SMT DEF WritesTo
    <2>3. Latest(WritesTo(a, n + 1)) = n
      BY <2>1, <2>2, LatestIs
    <2> QED
      BY <2>1, <2>3, Zenon DEF ByteAt
  <1>4. CASE w = None
    <2>1. \A a \in Addresses : ByteAt(a, n + 1) = ByteAt(a, n)
      BY <1>2, <1>4
    <2>2. MemoryAt(n + 1) = MemoryAt(n)
      BY <2>1 DEF MemoryAt
    <2> QED
      BY <1>4, <2>2 DEF Written
  <1>5. CASE w # None
    <2>1. \A a \in Addresses : ByteAt(a, n + 1) = IF a = w.addr THEN w.data ELSE ByteAt(a, n)
      <3> SUFFICES ASSUME NEW a \in Addresses
                   PROVE  ByteAt(a, n + 1) = IF a = w.addr THEN w.data ELSE ByteAt(a, n)
        OBVIOUS
      <3>1. w.addr = a => ByteAt(a, n + 1) = w.data
        BY <1>3, <1>5
      <3>2. w.addr # a => ByteAt(a, n + 1) = ByteAt(a, n)
        BY <1>2
      <3> QED
        BY <3>1, <3>2
    <2>2. Written(MemoryAt(n), w) =
            [a \in Addresses |-> IF a = w.addr THEN w.data ELSE ByteAt(a, n)]
      <3>1. Written(MemoryAt(n), w) = [MemoryAt(n) EXCEPT ![w.addr] = w.data]
        BY <1>5 DEF Written
      <3>2. DOMAIN MemoryAt(n) = Addresses /\ \A a \in Addresses : MemoryAt(n)[a] = ByteAt(a, n)
        BY DEF MemoryAt
      <3>3. [MemoryAt(n) EXCEPT ![w.addr] = w.data] =
              [a \in DOMAIN MemoryAt(n) |-> IF a = w.addr THEN w.data ELSE MemoryAt(n)[a]]
        OBVIOUS
      <3> QED
        BY <3>1, <3>2, <3>3
    <2> QED
      BY <2>1, <2>2 DEF MemoryAt
  <1> QED
    BY <1>4, <1>5

\* Rows behind the end of the trace have the memory its last write left.
LEMMA BehindTheEnd ==
  ASSUME store \in Traces, NEW m \in Nat, NEW n \in Nat, m >= EntryCount, n >= EntryCount
  PROVE  MemoryAt(m) = MemoryAt(n)
  <1>1. EntryCount \in Nat
    BY VramAssumption, SMT DEF EntryCount
  <1>2. \A a \in Addresses : WritesTo(a, m) = WritesTo(a, n)
    BY <1>1, SMT DEF WritesTo
  <1>3. \A a \in Addresses : ByteAt(a, m) = ByteAt(a, n)
    BY <1>2, Zenon DEF ByteAt
  <1> QED
    BY <1>3 DEF MemoryAt

LEMMA BeforeTheFirst ==
  ASSUME store \in Traces
  PROVE  MemoryAt(0) = ZeroMemory
  <1>1. \A a \in Addresses : WritesTo(a, 0) = {}
    BY SMT DEF WritesTo
  <1>2. \A a \in Addresses : ByteAt(a, 0) = Zero
    BY <1>1, Zenon DEF ByteAt
  <1> QED
    BY <1>2 DEF MemoryAt, ZeroMemory

LEMMA MemoryUnchanged ==
  ASSUME store' = store
  PROVE  \A m : MemoryAt(m)' = MemoryAt(m)
  <1>1. \A a, m : WritesTo(a, m)' = WritesTo(a, m)
    BY DEF WritesTo, EntryCount
  <1>2. \A a, m : ByteAt(a, m)' = ByteAt(a, m)
    BY <1>1 DEF ByteAt
  <1> QED
    BY <1>2 DEF MemoryAt

LEMMA WrittenTyped ==
  ASSUME store \in Traces, NEW data \in Memory, NEW n \in Nat, n < EntryCount
  PROVE  Written(data, store.writes[n + 1]) \in Memory
  <1>1. n + 1 \in 1..Len(store.writes)
    BY VramAssumption, SMT DEF EntryCount
  <1>2. store.writes[n + 1] \in [addr : Addresses, data : Bytes] \cup {None}
    BY <1>1, VramAssumption, SMT
  <1> QED
    BY <1>2 DEF Written, Memory

\* The passed boundaries are finite in number.
LEMMA BoundariesCounted ==
  ASSUME TypeOK
  PROVE  next_boundary_idx + Cardinality(BoundariesHere) \in Nat
  <1>1. store.boundaries \in Seq(Nat)
    BY VramAssumption DEF TypeOK
  <1>2. IsFiniteSet(next_boundary_idx..Len(store.boundaries))
    BY <1>1, FS_Interval, SMT DEF TypeOK
  <1>3. BoundariesHere \subseteq next_boundary_idx..Len(store.boundaries)
    BY DEF BoundariesHere
  <1>4. Cardinality(BoundariesHere) \in Nat
    BY <1>2, <1>3, FS_Subset, FS_CardinalityType
  <1> QED
    BY <1>4 DEF TypeOK

LEMMA CacheInitially == Init => IInv
  <1> SUFFICES ASSUME Init PROVE IInv
    OBVIOUS
  <1> DEFINE first == [data |-> ZeroMemory, entry |-> 0]
  <1>1. ZeroMemory \in Memory /\ EntryCount \in Nat /\ Interval \in Nat /\ Interval > 0
    BY VramAssumption, SMT DEF ZeroMemory, Memory, Init, EntryCount
  <1>2. first \in Snapshots
    BY <1>1 DEF Snapshots
  <1>3. checkpoints \in Seq(Snapshots) /\ Len(checkpoints) = 1 /\ checkpoints[1] = first
    BY <1>2 DEF Init
  <1>4. TypeOK
    BY <1>1, <1>3 DEF Init, TypeOK
  <1>5. CheckpointsExact
    BY <1>3, BeforeTheFirst, SMT DEF Init, CheckpointsExact
  <1>6. AnswersExact /\ vram = MemoryAt(i) /\ ReplayAtItsRow
    BY BeforeTheFirst DEF Init, AnswersExact, ReplayAtItsRow
  <1>7. CheckpointsClose /\ PassAtItsRow
    BY <1>1, <1>3, SMT DEF Init, CheckpointsClose, PassAtItsRow
  <1>8. HasNearest
    BY <1>3, VramAssumption, SMT DEF HasNearest
  <1> QED
    BY <1>4, <1>5, <1>6, <1>7, <1>8 DEF IInv

\* What holds of the checkpoints holds of one more, taken further on.
LEMMA OneMoreCheckpoint ==
  ASSUME IInv, store' = store, NEW n \in Nat, NEW data \in Memory, data = MemoryAt(n),
         checkpoints[Len(checkpoints)].entry <= n,
         AddCheckpoint([data |-> data, entry |-> n])
  PROVE  /\ checkpoints' \in Seq(Snapshots)
         /\ CheckpointsExact' /\ HasNearest'
         /\ checkpoints'[Len(checkpoints')].entry = n
         /\ \A k \in 1..Len(checkpoints) :
              k \in 1..Len(checkpoints') /\ checkpoints'[k] = checkpoints[k]
  <1> DEFINE cp == [data |-> data, entry |-> n]
             L == Len(checkpoints)
  <1>1. checkpoints \in Seq(Snapshots) /\ L \in Nat /\ L > 0 /\ cp \in Snapshots
    BY DEF IInv, TypeOK, CheckpointsExact, Snapshots
  <1>2. \A m : MemoryAt(m)' = MemoryAt(m)
    BY MemoryUnchanged
  <1>3. \A k \in 1..L : checkpoints[k].entry \in Nat
    <2>1. \A k \in 1..L : checkpoints[k] \in Snapshots
      BY <1>1, SMT
    <2> QED
      BY <2>1 DEF Snapshots
  <1>4. CASE checkpoints[L].entry = n
    <2>1. checkpoints' = checkpoints
      BY <1>4 DEF AddCheckpoint
    <2>2. CheckpointsExact'
      BY <1>2, <2>1 DEF IInv, CheckpointsExact
    <2>3. HasNearest'
      BY <2>1 DEF IInv, HasNearest
    <2> QED
      BY <1>1, <1>4, <2>1, <2>2, <2>3
  <1>5. CASE checkpoints[L].entry # n
    <2>1. checkpoints' = Append(checkpoints, cp)
      BY <1>5 DEF AddCheckpoint
    <2>2. /\ checkpoints' \in Seq(Snapshots) /\ Len(checkpoints') = L + 1
          /\ checkpoints'[L + 1] = cp
          /\ \A k \in 1..L : checkpoints'[k] = checkpoints[k]
      BY <1>1, <2>1, SMT
    <2>3. \A k \in 1..L : checkpoints[k].entry < n
      BY <1>1, <1>3, <1>5, SMT DEF IInv, CheckpointsExact
    <2>4. CheckpointsExact'
      <3>1. Len(checkpoints') > 0 /\ checkpoints'[1].entry = 0
        BY <1>1, <2>2, SMT DEF IInv, CheckpointsExact
      <3>2. ASSUME NEW k \in 1..Len(checkpoints')
            PROVE  checkpoints'[k].data = MemoryAt(checkpoints'[k].entry)
        <4>1. CASE k \in 1..L
          BY <2>2, <4>1 DEF IInv, CheckpointsExact
        <4>2. CASE k = L + 1
          BY <2>2, <4>2
        <4> QED
          BY <1>1, <2>2, <4>1, <4>2, SMT
      <3>3. \A k, l \in 1..Len(checkpoints') : k < l => checkpoints'[k].entry < checkpoints'[l].entry
        BY <1>1, <2>2, <2>3, SMT DEF IInv, CheckpointsExact
      <3> QED
        BY <1>2, <3>1, <3>2, <3>3 DEF CheckpointsExact
    <2>5. ASSUME NEW entry \in 0..MaxEntry
          PROVE  \E k \in 1..Len(checkpoints') :
                   /\ checkpoints'[k].entry <= entry
                   /\ k < Len(checkpoints') => checkpoints'[k + 1].entry > entry
      <3>1. PICK k \in 1..L : /\ checkpoints[k].entry <= entry
                              /\ k < L => checkpoints[k + 1].entry > entry
        BY DEF IInv, HasNearest
      <3>2. CASE k < L
        BY <1>1, <2>2, <3>1, <3>2, SMT
      <3>3. CASE k = L /\ n > entry
        <4>1. k \in 1..Len(checkpoints') /\ checkpoints'[k].entry <= entry /\ checkpoints'[k + 1].entry > entry
          BY <1>1, <2>2, <3>1, <3>3, SMT
        <4> QED
          BY <4>1
      <3>4. CASE k = L /\ n <= entry
        <4>1. L + 1 \in 1..Len(checkpoints') /\ checkpoints'[L + 1].entry <= entry
              /\ ~(L + 1 < Len(checkpoints'))
          BY <1>1, <2>2, <3>4, SMT
        <4> QED
          BY <4>1
      <3>5. entry \in Nat
        BY VramAssumption, SMT
      <3> QED
        BY <1>1, <3>1, <3>2, <3>3, <3>4, <3>5, SMT
    <2>6. HasNearest'
      BY <2>5 DEF HasNearest
    <2> QED
      BY <1>1, <2>2, <2>4, <2>6, SMT
  <1> QED
    BY <1>4, <1>5

\* Steps that leave the trace and the checkpoints alone, after the pass.
LEMMA CheckpointsUnchanged ==
  ASSUME IInv, UNCHANGED <<store, checkpoints>>, phase # "building", phase' # "building"
  PROVE  CheckpointsExact' /\ CheckpointsClose' /\ HasNearest' /\ PassAtItsRow'
  <1>1. \A m : MemoryAt(m)' = MemoryAt(m)
    BY MemoryUnchanged
  <1>2. CheckpointsExact' /\ HasNearest'
    BY <1>1 DEF IInv, CheckpointsExact, HasNearest
  <1>3. CheckpointsClose'
    BY DEF IInv, CheckpointsClose, EntryCount
  <1> QED
    BY <1>2, <1>3 DEF PassAtItsRow

\* A row of the pass.
LEMMA PassKeepsInvariant == IInv /\ PassRow => IInv'
  <1> SUFFICES ASSUME IInv, PassRow PROVE IInv'
    OBVIOUS
  <1> DEFINE L == Len(checkpoints)
  <1>1. /\ phase = "building" /\ i < EntryCount /\ store \in Traces /\ store' = store
        /\ phase' = "building" /\ i' = i + 1 /\ last_result = None /\ last_result' = None
        /\ vram' = Written(vram, store.writes[i + 1]) /\ vram = MemoryAt(i) /\ vram \in Memory
        /\ wanted' = wanted
    BY DEF PassRow, AtRow, IInv, TypeOK, PassAtItsRow
  <1>2. EntryCount \in Nat /\ EntryCount' = EntryCount /\ Interval \in Nat /\ Interval > 0 /\ i \in Nat
    BY <1>1, VramAssumption, SMT DEF EntryCount, IInv, TypeOK
  <1>3. \A m : MemoryAt(m)' = MemoryAt(m)
    BY <1>1, MemoryUnchanged
  <1>4. vram' \in Memory /\ (vram = MemoryAt(i))'
    <2>1. vram' \in Memory /\ vram' = MemoryAt(i + 1)
      BY <1>1, <1>2, WrittenTyped, OneWrite
    <2> QED
      BY <1>1, <1>3, <2>1
  <1>5. next_boundary_idx' \in Nat
    BY BoundariesCounted DEF PassRow, IInv
  <1>6. /\ checkpoints \in Seq(Snapshots) /\ L \in Nat /\ L > 0
        /\ last_checkpoint_entry = checkpoints[L].entry /\ last_checkpoint_entry \in Nat
        /\ last_checkpoint_entry <= i /\ i - last_checkpoint_entry <= Interval
        /\ i > 0 => last_checkpoint_entry < i
    BY <1>1 DEF IInv, TypeOK, CheckpointsExact, PassAtItsRow
  <1>7. /\ checkpoints' \in Seq(Snapshots) /\ CheckpointsExact' /\ HasNearest'
        /\ checkpoints'[Len(checkpoints')].entry = last_checkpoint_entry'
        /\ last_checkpoint_entry' \in Nat /\ last_checkpoint_entry' < i + 1
        /\ (i + 1) - last_checkpoint_entry' <= Interval
        /\ (i + 1) - last_checkpoint_entry' \in 0..Interval
        /\ Len(checkpoints') > 0
        /\ \A k \in 1..L : k \in 1..Len(checkpoints') /\ checkpoints'[k] = checkpoints[k]
    <2>1. CASE CheckpointDue
      <3>1. AddCheckpoint([data |-> vram, entry |-> i]) /\ last_checkpoint_entry' = i
        BY <2>1 DEF PassRow, Checkpoint
      <3>2. checkpoints[L].entry <= i
        BY <1>6
      <3> QED
        <4>1. (i + 1) - i \in 0..Interval /\ i < i + 1 /\ (i + 1) - i <= Interval
          BY <1>2, SMT
        <4> QED
          BY <1>1, <1>2, <3>1, <3>2, <4>1, OneMoreCheckpoint, SMTT(40) DEF CheckpointsExact
    <2>2. CASE ~CheckpointDue
      <3>1. UNCHANGED <<checkpoints, last_checkpoint_entry>>
        BY <2>2 DEF PassRow
      <3>2. i = 0 \/ i - last_checkpoint_entry < Interval
        BY <1>2, <1>6, <2>2, SMT DEF CheckpointDue
      <3>3. /\ last_checkpoint_entry < i + 1 /\ (i + 1) - last_checkpoint_entry <= Interval
            /\ (i + 1) - last_checkpoint_entry \in 0..Interval
        BY <1>2, <1>6, <3>2, SMT
      <3>4. CheckpointsExact' /\ HasNearest'
        BY <1>3, <3>1 DEF IInv, CheckpointsExact, HasNearest
      <3> QED
        BY <1>6, <3>1, <3>3, <3>4 DEF CheckpointsExact
    <2> QED
      BY <2>1, <2>2
  <1>8. TypeOK'
    BY <1>1, <1>2, <1>4, <1>5, <1>7, SMT DEF IInv, TypeOK
  <1>9. CheckpointsClose'
    <2>1. SUFFICES ASSUME NEW r \in 0..i + 1
                   PROVE  \E k \in 1..Len(checkpoints') : r - checkpoints'[k].entry \in 0..Interval
      BY <1>1 DEF CheckpointsClose
    <2>2. CASE r \in 0..i
      <3>1. PICK k \in 1..L : r - checkpoints[k].entry \in 0..Interval
        BY <1>1, <2>2 DEF IInv, CheckpointsClose
      <3> QED
        BY <1>7, <3>1
    <2>3. CASE r = i + 1
      <3>1. r - last_checkpoint_entry' \in 0..Interval
        BY <1>7, <2>3
      <3>2. Len(checkpoints') \in 1..Len(checkpoints')
        BY <1>6, <1>7, SMT
      <3> QED
        BY <1>7, <3>1, <3>2
    <2> QED
      BY <1>2, <2>2, <2>3, SMT
  <1>10. PassAtItsRow'
    <2>1. i + 1 <= EntryCount' /\ last_checkpoint_entry' <= i + 1
      BY <1>1, <1>2, <1>7, SMT
    <2> QED
      BY <1>1, <1>7, <2>1 DEF PassAtItsRow
  <1>11. AnswersExact' /\ ReplayAtItsRow'
    BY <1>1 DEF AnswersExact, ReplayAtItsRow
  <1> QED
    BY <1>4, <1>7, <1>8, <1>9, <1>10, <1>11 DEF IInv

\* The checkpoint behind the last row.
LEMMA EndKeepsInvariant == IInv /\ PassEnds => IInv'
  <1> SUFFICES ASSUME IInv, PassEnds PROVE IInv'
    OBVIOUS
  <1> DEFINE L == Len(checkpoints)
  <1>1. /\ phase = "building" /\ i = EntryCount /\ phase' = "idle"
        /\ UNCHANGED <<store, i, vram, next_boundary_idx, last_checkpoint_entry, wanted, last_result>>
        /\ AddCheckpoint([data |-> vram, entry |-> i])
        /\ vram = MemoryAt(i) /\ vram \in Memory /\ i \in Nat /\ last_result = None
        /\ checkpoints[L].entry <= i
    BY DEF PassEnds, Checkpoint, IInv, TypeOK, PassAtItsRow
  <1>2. /\ checkpoints' \in Seq(Snapshots) /\ CheckpointsExact' /\ HasNearest'
        /\ \A k \in 1..L : k \in 1..Len(checkpoints') /\ checkpoints'[k] = checkpoints[k]
    BY <1>1, OneMoreCheckpoint
  <1>3. \A m : MemoryAt(m)' = MemoryAt(m)
    BY <1>1, MemoryUnchanged
  <1>4. TypeOK'
    BY <1>1, <1>2 DEF IInv, TypeOK
  <1>5. CheckpointsClose'
    <2>1. SUFFICES ASSUME NEW r \in 0..i
                   PROVE  \E k \in 1..Len(checkpoints') : r - checkpoints'[k].entry \in 0..Interval
      BY <1>1 DEF CheckpointsClose, EntryCount
    <2>2. PICK k \in 1..L : r - checkpoints[k].entry \in 0..Interval
      BY <1>1 DEF IInv, CheckpointsClose
    <2> QED
      BY <1>2, <2>2
  <1>6. AnswersExact' /\ ReplayAtItsRow' /\ PassAtItsRow' /\ (vram = MemoryAt(i))'
    BY <1>1, <1>3 DEF AnswersExact, ReplayAtItsRow, PassAtItsRow
  <1> QED
    BY <1>2, <1>4, <1>5, <1>6 DEF IInv

\* The starting point of a query holds the memory of its own row, which is at or
\* before the row asked about.
LEMMA GoodStart ==
  ASSUME IInv, NEW entry \in 0..MaxEntry
  PROVE  /\ StartingPoint(entry) \in Snapshots
         /\ StartingPoint(entry).data = MemoryAt(StartingPoint(entry).entry)
         /\ StartingPoint(entry).entry <= entry
  <1>1. CASE last_result # None /\ last_result.entry <= entry
    BY <1>1 DEF IInv, TypeOK, AnswersExact, StartingPoint
  <1>2. CASE ~(last_result # None /\ last_result.entry <= entry)
    <2> DEFINE Near(k) == /\ checkpoints[k].entry <= entry
                          /\ k < Len(checkpoints) => checkpoints[k + 1].entry > entry
               at == CHOOSE k \in 1..Len(checkpoints) : Near(k)
    <2>1. \E k \in 1..Len(checkpoints) : Near(k)
      BY DEF IInv, HasNearest
    <2>2. at \in 1..Len(checkpoints) /\ Near(at)
      BY <2>1, Zenon
    <2>3. StartingPoint(entry) = checkpoints[at]
      BY <1>2 DEF StartingPoint, NearestCheckpoint
    <2>4. checkpoints[at] \in Snapshots
      BY <2>2, SMT DEF IInv, TypeOK
    <2> QED
      BY <2>2, <2>3, <2>4 DEF IInv, CheckpointsExact
  <1> QED
    BY <1>1, <1>2

\* A query starts, is answered at once, goes on by a row, is answered.
LEMMA QueriesKeepInvariant ==
  ASSUME IInv,
         \/ \E entry \in 0..MaxEntry : AtEntry(entry) \/ AtLastEntry(entry)
         \/ Replay \/ Answer
  PROVE  IInv'
  <1>1. store' = store /\ checkpoints' = checkpoints /\ phase # "building" /\ phase' # "building"
    BY DEF AtEntry, AtLastEntry, Replay, Answer
  <1>2. CheckpointsExact' /\ CheckpointsClose' /\ HasNearest' /\ PassAtItsRow'
    BY <1>1, CheckpointsUnchanged
  <1>3. \A m : MemoryAt(m)' = MemoryAt(m)
    BY <1>1, MemoryUnchanged
  <1>4. EntryCount \in Nat /\ MaxEntry \in Nat
    BY VramAssumption, SMT DEF EntryCount, IInv, TypeOK
  <1>5. ASSUME NEW entry \in 0..MaxEntry, AtEntry(entry) PROVE IInv'
    <2>1. entry \in Nat
      BY <1>4, SMT
    <2>2. /\ vram' = StartingPoint(entry).data /\ i' = StartingPoint(entry).entry
          /\ wanted' = entry /\ phase' = "replaying"
          /\ UNCHANGED <<last_checkpoint_entry, next_boundary_idx, last_result>>
      BY <1>5 DEF AtEntry
    <2>3. vram' \in Memory /\ i' \in Nat /\ i' <= entry /\ vram' = MemoryAt(i')
      BY <2>2, GoodStart DEF Snapshots
    <2>4. TypeOK'
      BY <1>1, <2>1, <2>2, <2>3 DEF IInv, TypeOK
    <2>5. AnswersExact' /\ ReplayAtItsRow' /\ (vram = MemoryAt(i))'
      BY <1>3, <2>1, <2>2, <2>3 DEF IInv, AnswersExact, ReplayAtItsRow
    <2> QED
      BY <1>2, <2>4, <2>5 DEF IInv
  <1>6. ASSUME NEW entry \in 0..MaxEntry, AtLastEntry(entry) PROVE IInv'
    <2>1. entry \in Nat
      BY <1>4, SMT
    <2>2. /\ wanted' = entry /\ phase' = "idle"
          /\ UNCHANGED <<i, vram, last_checkpoint_entry, next_boundary_idx, last_result>>
      BY <1>6 DEF AtLastEntry
    <2>3. TypeOK'
      BY <1>1, <2>1, <2>2 DEF IInv, TypeOK
    <2>4. AnswersExact' /\ ReplayAtItsRow' /\ (vram = MemoryAt(i))'
      BY <1>3, <2>2 DEF IInv, AnswersExact, ReplayAtItsRow
    <2> QED
      BY <1>2, <2>3, <2>4 DEF IInv
  <1>7. ASSUME Replay PROVE IInv'
    <2>1. /\ phase = "replaying" /\ i < End /\ i' = i + 1
          /\ vram' = Written(vram, store.writes[i + 1])
          /\ UNCHANGED <<phase, last_checkpoint_entry, next_boundary_idx, wanted, last_result>>
      BY <1>7 DEF Replay
    <2>2. i \in Nat /\ wanted \in Nat /\ i < EntryCount /\ i < wanted
      BY <1>4, <2>1, SMT DEF End, IInv, TypeOK, ReplayAtItsRow
    <2>3. vram' \in Memory /\ vram' = MemoryAt(i + 1)
      BY <2>1, <2>2, WrittenTyped, OneWrite DEF IInv, TypeOK
    <2>4. i' \in Nat /\ i' <= wanted
      BY <2>1, <2>2, SMT
    <2>5. TypeOK'
      BY <1>1, <2>1, <2>3, <2>4 DEF IInv, TypeOK
    <2>6. AnswersExact' /\ ReplayAtItsRow' /\ (vram = MemoryAt(i))'
      BY <1>3, <2>1, <2>2, <2>3, <2>4 DEF IInv, AnswersExact, ReplayAtItsRow
    <2> QED
      BY <1>2, <2>5, <2>6 DEF IInv
  <1>8. ASSUME Answer PROVE IInv'
    <2>1. /\ phase = "replaying" /\ i >= End /\ phase' = "idle"
          /\ last_result' = [data |-> vram, entry |-> wanted]
          /\ UNCHANGED <<i, vram, last_checkpoint_entry, next_boundary_idx, wanted>>
      BY <1>8 DEF Answer
    <2>2. i \in Nat /\ wanted \in Nat /\ i <= wanted /\ vram = MemoryAt(i) /\ vram \in Memory
      BY <2>1 DEF IInv, TypeOK, ReplayAtItsRow
    <2>3. i = wanted \/ (i >= EntryCount /\ wanted >= EntryCount)
      BY <1>4, <2>1, <2>2, SMT DEF End
    <2>4. MemoryAt(i) = MemoryAt(wanted)
      BY <2>2, <2>3, BehindTheEnd DEF IInv, TypeOK
    <2>5. TypeOK'
      BY <1>1, <2>1, <2>2 DEF IInv, TypeOK, Snapshots
    <2>6. AnswersExact' /\ ReplayAtItsRow' /\ (vram = MemoryAt(i))'
      BY <1>3, <2>1, <2>2, <2>4 DEF AnswersExact, ReplayAtItsRow
    <2> QED
      BY <1>2, <2>5, <2>6 DEF IInv
  <1> QED
    BY <1>5, <1>6, <1>7, <1>8

\* A step that changes nothing.
LEMMA CacheStutters == IInv /\ UNCHANGED vars => IInv'
  <1> SUFFICES ASSUME IInv, UNCHANGED vars PROVE IInv'
    OBVIOUS
  <1>1. \A m : MemoryAt(m)' = MemoryAt(m)
    BY MemoryUnchanged DEF vars
  <1> QED
    BY <1>1 DEF vars, IInv, TypeOK, CheckpointsExact, AnswersExact, CheckpointsClose,
                PassAtItsRow, ReplayAtItsRow, HasNearest, EntryCount

\* The inductive invariant of the cache (vram.rs 61-168).
THEOREM CacheInvariant == Spec => []IInv
  <1>1. IInv /\ [Next]_vars => IInv'
    BY PassKeepsInvariant, EndKeepsInvariant, QueriesKeepInvariant, CacheStutters DEF Next
  <1> QED
    BY <1>1, CacheInitially, PTL DEF Spec

\* An answer is the memory the writes in front of its row leave, whatever was
\* asked before (at_entry, vram.rs 124-162).
THEOREM CacheAnswersExact == Spec => []AnswersExact
  <1>1. IInv => AnswersExact
    BY DEF IInv
  <1> QED
    BY <1>1, CacheInvariant, PTL

\* No row is more than an interval behind a checkpoint (build, vram.rs 90-96).
THEOREM CacheCheckpointsClose == Spec => []CheckpointsClose
  <1>1. IInv => CheckpointsClose
    BY DEF IInv
  <1> QED
    BY <1>1, CacheInvariant, PTL
=============================================================================
