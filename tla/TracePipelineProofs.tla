------------------------- MODULE TracePipelineProofs -------------------------
(***************************************************************************)
(* Proofs about TraceWriter, for all columns, groups, chunk sizes and      *)
(* bounds, and about the reader that opens its file (TracePipeline): the   *)
(* writer's invariants, the log it implements (TraceLog), and the archive  *)
(* that writer and reader implement together (TraceArchive).               *)
(***************************************************************************)
EXTENDS TracePipeline, FiniteSetTheorems, SequenceTheorems, WellFoundedInduction, TLAPS

(* What a step of the writer's own code stores has the right type. *)
LEMMA RecordsTyped ==
  ASSUME TypeOK, NEW n \in Nat
  PROVE  /\ ChunkRecord(n) \in RecordTypes
         /\ ChunkIndexEntry(n) \in ChunkEntries
BY DEF TypeOK, RecordTypes, ChunkEntries, ChunkRecord, ChunkIndexEntry, NextOffset

LEMMA TornTyped == Torn \in RecordTypes
BY DEF RecordTypes

LEMMA SnapshotsTyped ==
  ASSUME TypeOK, NEW tag \in Tags, NEW payload \in Payloads \cup {NoPayload}
  PROVE  /\ SnapshotRecord(tag, payload) \in RecordTypes
         /\ SnapshotIndexEntry(tag) \in SnapshotEntries
BY DEF TypeOK, RecordTypes, SnapshotEntries, SnapshotRecord, SnapshotIndexEntry,
       NextOffset

LEMMA FooterTyped ==
  ASSUME TypeOK, NEW chunks \in Seq(ChunkEntries)
  PROVE  FooterRecord(chunks, snapshot_index) \in RecordTypes
BY DEF TypeOK, RecordTypes, FooterRecord

LEMMA BuffersTyped ==
  ASSUME TypeOK, NEW last
  PROVE  /\ EmptyColumns \in [Columns -> Seq(Stored)]
         /\ DrainedTo(last) \in [Columns -> Seq(Stored)]
         /\ EmptyRow \in [Columns -> Stored \cup {Unset}]
BY DEF TypeOK, EmptyColumns, DrainedTo, EmptyRow

(* Whichever way a flush ends, the four variables it changes stay typed. *)
LEMMA FlushTyped ==
  ASSUME TypeOK, NEW n \in Nat, FlushOk(n) \/ FlushRejected(n) \/ FlushTorn(n) \/ FlushUnplaced(n)
  PROVE  /\ columns' \in [Columns -> Seq(Stored)]
         /\ entries_in_chunk' \in Nat
         /\ chunk_index' \in Seq(ChunkEntries)
         /\ file' \in Seq(RecordTypes)
<1>1. CASE FlushOk(n)
  <2>1. ChunkRecord(n) \in RecordTypes
    BY RecordsTyped
  <2>2. file' \in Seq(RecordTypes)
    BY <1>1, <2>1 DEF FlushOk, TypeOK
  <2>3. ChunkIndexEntry(n) \in ChunkEntries
    BY RecordsTyped
  <2>4. chunk_index' \in Seq(ChunkEntries)
    BY <1>1, <2>3 DEF FlushOk, TypeOK
  <2>5. QED  BY <1>1, <2>2, <2>4, BuffersTyped DEF FlushOk
<1>2. CASE FlushRejected(n)
  BY <1>2, BuffersTyped DEF FlushRejected, TypeOK
<1>3. CASE FlushTorn(n)
  BY <1>3, TornTyped, BuffersTyped DEF FlushTorn, TypeOK
<1>4. CASE FlushUnplaced(n)
  BY <1>4 DEF FlushUnplaced, TypeOK
<1>5. QED  BY <1>1, <1>2, <1>3, <1>4

LEMMA AppendCellTyped ==
  ASSUME TypeOK, NEW c \in Columns, NEW v \in Stored, AppendCell(c, v)
  PROVE  TypeOK'
BY DEF TypeOK, AppendCell, Stored

LEMMA NextTyped ==
  ASSUME TypeOK, [Next]_vars
  PROVE  TypeOK'
<1>1. ASSUME NEW c \in Columns, NEW v \in Cells, SetValue(c, v)
      PROVE  TypeOK'
  BY <1>1, AppendCellTyped DEF SetValue, Stored
<1>2. ASSUME NEW c \in Columns, SetMistyped(c) \/ SetNull(c)
      PROVE  TypeOK'
  BY <1>2, AppendCellTyped, CellsAssumption DEF SetMistyped, SetNull, Stored
<1>3. CASE FinishEntry
  <2>1. entries_in_chunk + 1 \in Nat
    BY DEF TypeOK
  <2>2. /\ columns' \in [Columns -> Seq(Stored)]
        /\ entries_in_chunk' \in Nat
        /\ chunk_index' \in Seq(ChunkEntries)
        /\ file' \in Seq(RecordTypes)
    BY <1>3, <2>1, FlushTyped DEF FinishEntry, TypeOK
  <2>3. row' \in [Columns -> Stored \cup {Unset}]
    BY <1>3, BuffersTyped DEF FinishEntry
  <2>4. faults' \in Nat
    BY <1>3, SMTT(40) DEF FinishEntry, TypeOK
  <2>5. /\ rows' \in Seq([Columns -> Stored \cup {Unset}])
        /\ total_entries' \in Nat
    BY <1>3 DEF FinishEntry, TypeOK
  <2>6. QED  BY <1>3, <2>2, <2>3, <2>4, <2>5 DEF FinishEntry, TypeOK
<1>4. ASSUME NEW payload \in Payloads \cup {NoPayload}, NEW tag \in Tags,
             WriteSnapshot(tag, payload)
      PROVE  TypeOK'
  <2>1. SnapshotRecord(tag, payload) \in RecordTypes
    BY SnapshotsTyped
  <2>2. file' \in Seq(RecordTypes)
    BY <1>4, <2>1 DEF WriteSnapshot, TypeOK
  <2>3. SnapshotIndexEntry(tag) \in SnapshotEntries
    BY SnapshotsTyped
  <2>4. snapshot_index' \in Seq(SnapshotEntries)
    BY <1>4, <2>3 DEF WriteSnapshot, TypeOK
  <2>5. QED  BY <1>4, <2>2, <2>4 DEF WriteSnapshot, TypeOK
<1>5. CASE WriteSnapshotTorn
  <2>1. file \in Seq(RecordTypes) /\ file' \in {file, Append(file, Torn)}
    BY <1>5 DEF WriteSnapshotTorn, TypeOK
  <2>2. file' \in Seq(RecordTypes)
    BY <2>1, TornTyped
  <2>3. QED  BY <1>5, <2>2 DEF WriteSnapshotTorn, TypeOK
<1>6. CASE FinishOk
  <2>1. CASE FinishFlushed
    <3>1. FooterRecord(chunk_index, snapshot_index) \in RecordTypes
      BY FooterTyped DEF TypeOK
    <3>2. file' \in Seq(RecordTypes)
      BY <2>1, <3>1 DEF FinishFlushed, TypeOK
    <3>3. QED  BY <1>6, <2>1, <3>2 DEF FinishOk, FinishFlushed, TypeOK
  <2>2. CASE FinishLastChunk
    <3>1. chunk_index' \in Seq(ChunkEntries)
      <4>1. ChunkIndexEntry(entries_in_chunk) \in ChunkEntries
        BY RecordsTyped DEF TypeOK
      <4>2. QED  BY <2>2, <4>1 DEF FinishLastChunk, TypeOK
    <3>2. <<ChunkRecord(entries_in_chunk),
            FooterRecord(chunk_index', snapshot_index)>> \in Seq(RecordTypes)
      <4>1. ChunkRecord(entries_in_chunk) \in RecordTypes
        BY RecordsTyped DEF TypeOK
      <4>2. FooterRecord(chunk_index', snapshot_index) \in RecordTypes
        BY <3>1, FooterTyped
      <4>3. QED  BY <4>1, <4>2
    <3>3. file' \in Seq(RecordTypes)
      BY <2>2, <3>2, ConcatProperties DEF FinishLastChunk, TypeOK
    <3>4. QED  BY <1>6, <2>2, <3>1, <3>3, BuffersTyped
                  DEF FinishOk, FinishLastChunk, TypeOK
  <2>3. QED  BY <1>6, <2>1, <2>2 DEF FinishOk
<1>7. CASE FinishRejected
  BY <1>7, FlushTyped DEF FinishRejected, TypeOK
<1>8. CASE Abandon
  <2>1. ASSUME NEW k \in 0..Len(file)
        PROVE  SubSeq(file, 1, k) \in Seq(RecordTypes)
    BY DEF TypeOK
  <2>2. QED  BY <1>8, <2>1 DEF Abandon, TypeOK
<1>9. CASE UNCHANGED vars
  BY <1>9 DEF vars, TypeOK
<1>10. QED
  BY <1>1, <1>2, <1>3, <1>4, <1>5, <1>6, <1>7, <1>8, <1>9, TagAssumption
     DEF Next, MarkFrame

\* The writer's state keeps its types whatever the producer and the disk do.
THEOREM WriterTyped == Spec => []TypeOK
<1>1. Init => TypeOK
  BY DEF Init, TypeOK, EmptyColumns, EmptyRow, RecordTypes, Header
<1>2. TypeOK /\ [Next]_vars => TypeOK'
  BY NextTyped
<1>3. QED  BY <1>1, <1>2, PTL DEF Spec

-----------------------------------------------------------------------------
(* Where the entries are. *)

LEMMA Monotone ==
  ASSUME NEW m \in Nat, NEW n \in Nat, NEW s \in Nat, m <= n
  PROVE  m * s <= n * s /\ m * s \in Nat /\ n * s \in Nat
<1>1. PICK d \in Nat : n = m + d
  BY n - m \in Nat
<1>2. n * s = m * s + d * s
  BY <1>1
<1>3. d * s \in Nat /\ m * s \in Nat
  OBVIOUS
<1>4. QED  BY <1>2, <1>3

LEMMA OpenTotal ==
  ASSUME IInv, Sound, phase = "open"
  PROVE  /\ Len(chunk_index) * ChunkSize \in Nat
         /\ EntriesInChunks = Len(chunk_index) * ChunkSize
         /\ total_entries = EntriesInChunks + entries_in_chunk
         /\ Len(rows) = total_entries
         /\ \A k \in 1..Len(chunk_index) : chunk_index[k].entry_count = ChunkSize
<1> DEFINE L == Len(chunk_index)
<1>1. L \in Nat /\ entries_in_chunk \in Nat
  BY DEF IInv, TypeOK
<1>2. \A k \in 1..L : chunk_index[k].entry_count = ChunkSize
  BY DEF IInv, ChunksFill
<1>3. CASE chunk_index = <<>>
  BY <1>1, <1>2, <1>3, ChunkSizeAssumption DEF IInv, ChunksFill, EntriesInChunks
<1>4. CASE chunk_index # <<>>
  <2>1. L \in 1..L
    BY <1>4, <1>1 DEF IInv, TypeOK
  <2>2. ChunkEnd(L) = (L - 1) * ChunkSize + ChunkSize
    BY <2>1, <1>2 DEF ChunkEnd, ChunkStart
  <2>3. ChunkEnd(L) = L * ChunkSize
    BY <2>2, <1>1, ChunkSizeAssumption
  <2>4. QED
    BY <2>3, <1>1, <1>2, <1>4, ChunkSizeAssumption DEF IInv, ChunksFill, EntriesInChunks
<1>5. QED  BY <1>3, <1>4

LEMMA RowsOfChunks ==
  ASSUME IInv, Sound, NEW k \in 1..Len(chunk_index)
  PROVE  /\ ChunkStart(k) \in Nat
         /\ chunk_index[k].entry_count \in Nat
         /\ ChunkEnd(k) <= Len(rows)
<1> DEFINE L == Len(chunk_index)
<1>1. L \in Nat \ {0} /\ k \in Nat \ {0} /\ k <= L /\ entries_in_chunk \in Nat
  BY DEF IInv, TypeOK
<1>2. chunk_index[k].entry_count \in Nat /\ chunk_index[L].entry_count \in Nat
  <2>1. chunk_index \in Seq(ChunkEntries)
    BY DEF IInv, TypeOK
  <2>2. /\ chunk_index[k] \in ChunkEntries
        /\ chunk_index[L] \in ChunkEntries
    BY <1>1, <2>1
  <2>3. QED  BY <2>2 DEF ChunkEntries
<1>3. ChunkStart(k) \in Nat /\ ChunkStart(L) \in Nat
  BY <1>1, Monotone, ChunkSizeAssumption DEF ChunkStart
<1>4. Len(rows) = ChunkEnd(L) + entries_in_chunk
  BY <1>1 DEF IInv, ChunksFill, EntriesInChunks
<1>5. CASE k = L
  BY <1>1, <1>2, <1>3, <1>4, <1>5 DEF ChunkEnd
<1>6. CASE k < L
  <2>1. ChunkEnd(k) = k * ChunkSize
    <3>1. chunk_index[k].entry_count = ChunkSize
      BY <1>6, <1>1 DEF IInv, ChunksFill
    <3>2. QED  BY <3>1, <1>1, ChunkSizeAssumption DEF ChunkEnd, ChunkStart
  <2>2. k * ChunkSize <= ChunkStart(L)
    BY <1>1, <1>6, Monotone, ChunkSizeAssumption DEF ChunkStart
  <2>3. k * ChunkSize \in Nat
    BY <1>1, Monotone, ChunkSizeAssumption
  <2>4. ChunkEnd(L) = ChunkStart(L) + chunk_index[L].entry_count
    BY DEF ChunkEnd
  <2>5. QED  BY <2>1, <2>2, <2>3, <2>4, <1>1, <1>2, <1>3, <1>4, SMTT(40)
<1>7. QED  BY <1>1, <1>2, <1>3, <1>5, <1>6

(* Records, index entries and rows that are only added to leave the chunks *)
(* that are there holding the rows they held.                              *)
LEMMA ChunksKept ==
  ASSUME IInv, Sound,
         \A p \in 1..Len(file) : file'[p] = file[p],
         \A k \in 1..Len(chunk_index) : chunk_index'[k] = chunk_index[k],
         \A r \in 1..Len(rows) : rows'[r] = rows[r],
         NEW k \in 1..Len(chunk_index), NEW c \in Columns
  PROVE  HoldsRows(CellsOnFile(k, c), c, chunk_index[k].entry_count, ChunkStart(k))'
<1>1. CellsOnFile(k, c)' = CellsOnFile(k, c)
  BY DEF CellsOnFile, IInv, Referenced
<1>2. HoldsRows(CellsOnFile(k, c), c, chunk_index[k].entry_count, ChunkStart(k))
  BY DEF IInv, RowsPlaced
<1>3. \A i \in 1..chunk_index[k].entry_count :
        rows'[ChunkStart(k) + i] = rows[ChunkStart(k) + i]
  <2>1. /\ ChunkStart(k) \in Nat
        /\ chunk_index[k].entry_count \in Nat
        /\ ChunkStart(k) + chunk_index[k].entry_count <= Len(rows)
    BY RowsOfChunks DEF ChunkEnd
  <2>2. Len(rows) \in Nat
    BY DEF IInv, TypeOK
  <2>3. QED  BY <2>1, <2>2
<1>4. QED  BY <1>1, <1>2, <1>3 DEF HoldsRows, ChunkStart

-----------------------------------------------------------------------------
(* A flush with n entries that succeeds: the buffers become chunk L + 1.   *)
LEMMA NewChunk ==
  ASSUME IInv, Sound, phase = "open", NEW n \in Nat,
         NEW new, new = Len(chunk_index) + 1,
         file' = Append(file, ChunkRecord(n))
           \/ file' = file \o <<ChunkRecord(n), FooterRecord(chunk_index', snapshot_index)>>,
         chunk_index' = Append(chunk_index, ChunkIndexEntry(n))
  PROVE  /\ \A p \in 1..Len(file) : file'[p] = file[p]
         /\ \A k \in 1..Len(chunk_index) : chunk_index'[k] = chunk_index[k]
         /\ Len(file') \in Nat /\ Len(file) < Len(file')
         /\ Len(chunk_index') = new
         /\ chunk_index'[new].offset \in 1..Len(file')
         /\ chunk_index'[new].entry_count = n
         /\ file'[chunk_index'[new].offset].data = columns
<1>1. /\ file \in Seq(RecordTypes)
      /\ chunk_index \in Seq(ChunkEntries)
  BY DEF IInv, TypeOK
<1>2. ChunkIndexEntry(n) \in ChunkEntries
  BY RecordsTyped DEF IInv
<1>3. /\ \A p \in 1..Len(file) : file'[p] = file[p]
      /\ Len(file') \in Nat /\ Len(file) < Len(file')
      /\ file'[Len(file) + 1] = ChunkRecord(n)
  <2>1. CASE file' = Append(file, ChunkRecord(n))
    BY <1>1, <2>1
  <2>2. CASE file' = file \o <<ChunkRecord(n), FooterRecord(chunk_index', snapshot_index)>>
    BY <1>1, <2>2
  <2>3. QED  BY <2>1, <2>2
<1>4. /\ \A k \in 1..Len(chunk_index) : chunk_index'[k] = chunk_index[k]
      /\ Len(chunk_index') = new
      /\ chunk_index'[new] = ChunkIndexEntry(n)
  BY <1>1, <1>2
<1>5. /\ ChunkIndexEntry(n).offset = Len(file) + 1
      /\ ChunkIndexEntry(n).entry_count = n
  BY DEF ChunkIndexEntry, NextOffset
<1>6. Len(file) + 1 \in 1..Len(file')
  BY <1>1, <1>3
<1>7. file'[chunk_index'[new].offset].data = columns
  BY <1>3, <1>4, <1>5 DEF ChunkRecord
<1>8. QED  BY <1>3, <1>4, <1>5, <1>6, <1>7

(* A disciplined producer's buffers are even and hold no forbidden null,   *)
(* between entries and when the last column of an entry has been set.      *)
LEMMA EvenBuffersAccepted ==
  ASSUME IInv, Sound, phase = "open",
         (\A c \in Columns : row[c] = Unset) \/ (\A c \in Columns : row[c] # Unset)
  PROVE  Rejected = {}
<1>1. PICK n \in Nat : \A c \in Columns : Len(columns[c]) = n
  <2>1. CASE \A c \in Columns : row[c] = Unset
    BY <2>1 DEF IInv, Buffered, TypeOK
  <2>2. CASE \A c \in Columns : row[c] # Unset
    BY <2>2, entries_in_chunk + 1 \in Nat DEF IInv, Buffered, TypeOK
  <2>3. QED  BY <2>1, <2>2
<1>2. ASSUME NEW g \in 1..Len(Groups)
      PROVE  BatchAccepted(Groups[g])
  <2>1. Groups[g] \subseteq Columns
    BY GroupsAssumption
  <2>2. QED  BY <1>1, <2>1 DEF BatchAccepted, IInv, Buffered
<1>3. QED  BY <1>2 DEF Rejected

(* That chunk holds the rows the buffers held, and the other chunks theirs. *)
LEMMA ChunkAdded ==
  ASSUME IInv, Sound, phase = "open", NEW n \in Nat,
         NEW L \in Nat, L = Len(chunk_index),
         file' = Append(file, ChunkRecord(n))
           \/ file' = file \o <<ChunkRecord(n), FooterRecord(chunk_index', snapshot_index)>>,
         chunk_index' = Append(chunk_index, ChunkIndexEntry(n)),
         \A r \in 1..Len(rows) : rows'[r] = rows[r],
         \A c \in Columns :
           /\ Len(columns[c]) >= n
           /\ \A i \in 1..n : columns[c][i] = rows'[L * ChunkSize + i][c]
  PROVE  /\ Len(chunk_index') = L + 1
         /\ \A k \in 1..L : chunk_index'[k].entry_count = ChunkSize
         /\ chunk_index'[L + 1].entry_count = n
         /\ EntriesInChunks' = L * ChunkSize + n
         /\ Referenced'
         /\ \A k \in 1..L + 1, c \in Columns :
              HoldsRows(CellsOnFile(k, c), c, chunk_index[k].entry_count, ChunkStart(k))'
<1>1. /\ \A p \in 1..Len(file) : file'[p] = file[p]
      /\ \A k \in 1..L : chunk_index'[k] = chunk_index[k]
      /\ Len(file') \in Nat /\ Len(file) < Len(file')
      /\ Len(chunk_index') = L + 1
      /\ chunk_index'[L + 1].offset \in 1..Len(file')
      /\ chunk_index'[L + 1].entry_count = n
      /\ file'[chunk_index'[L + 1].offset].data = columns
  BY NewChunk, SMTT(40)
<1>2. \A k \in 1..L : chunk_index'[k].entry_count = ChunkSize
  BY <1>1, OpenTotal
<1>3. EntriesInChunks' = L * ChunkSize + n
  <2>1. chunk_index' # <<>> /\ (L + 1) - 1 = L
    BY <1>1
  <2>2. QED  BY <1>1, <2>1 DEF EntriesInChunks, ChunkEnd, ChunkStart
<1>4. Referenced'
  <2>1. ASSUME NEW k \in 1..L + 1
        PROVE  chunk_index'[k].offset \in 1..Len(file')
    <3>1. CASE k = L + 1
      BY <3>1, <1>1
    <3>2. CASE k # L + 1
      <4>1. k \in 1..L
        BY <3>2
      <4>2. chunk_index[k].offset \in 1..Len(file) /\ Len(file) \in Nat
        BY <4>1 DEF IInv, Referenced, TypeOK
      <4>3. QED  BY <4>1, <4>2, <1>1
    <3>3. QED  BY <3>1, <3>2
  <2>2. QED  BY <2>1, <1>1 DEF Referenced
<1>5. ASSUME NEW k \in 1..L + 1, NEW c \in Columns
      PROVE  HoldsRows(CellsOnFile(k, c), c, chunk_index[k].entry_count, ChunkStart(k))'
  <2>1. CASE k \in 1..L
    BY <1>1, <2>1, ChunksKept
  <2>2. CASE k = L + 1
    <3>1. CellsOnFile(k, c)' = columns[c]
      BY <1>1, <2>2 DEF CellsOnFile
    <3>2. ChunkStart(k)' = L * ChunkSize /\ chunk_index'[k].entry_count = n
      <4>1. k - 1 = L
        BY <2>2
      <4>2. QED  BY <4>1, <1>1, <2>2 DEF ChunkStart
    <3>3. QED  BY <3>1, <3>2 DEF HoldsRows
  <2>3. QED  BY <2>1, <2>2
<1>6. QED  BY <1>1, <1>2, <1>3, <1>4, <1>5

(* Finishing an entry: what the buffers hold is the chunk's entries with   *)
(* the new one, and the rows before it are where they were.                *)
LEMMA EntryGained ==
  ASSUME IInv, Sound, phase = "open",
         \A c \in Columns : row[c] # Unset, rows' = Append(rows, row)
  PROVE  /\ Len(rows') = Len(rows) + 1
         /\ \A r \in 1..Len(rows) : rows'[r] = rows[r]
         /\ \A c \in Columns :
              /\ Len(columns[c]) = entries_in_chunk + 1
              /\ \A i \in 1..entries_in_chunk + 1 :
                   columns[c][i] = rows'[Len(chunk_index) * ChunkSize + i][c]
<1> DEFINE start == Len(chunk_index) * ChunkSize
<1>1. /\ entries_in_chunk \in Nat /\ start \in Nat
      /\ Len(rows) = start + entries_in_chunk
  BY OpenTotal DEF IInv, TypeOK
<1>2. /\ Len(rows') = Len(rows) + 1
      /\ \A r \in 1..Len(rows) : rows'[r] = rows[r]
      /\ rows'[Len(rows) + 1] = row
  BY DEF IInv, TypeOK
<1>3. ASSUME NEW c \in Columns, NEW i \in 1..entries_in_chunk + 1
      PROVE  columns[c][i] = rows'[start + i][c]
  <2>1. CASE i = entries_in_chunk + 1
    <3>1. start + i = Len(rows) + 1
      BY <1>1, <2>1
    <3>2. columns[c][i] = row[c]
      BY <2>1 DEF IInv, Buffered
    <3>3. QED  BY <1>2, <3>1, <3>2
  <2>2. CASE i # entries_in_chunk + 1
    <3>1. i \in 1..entries_in_chunk /\ start + i \in 1..Len(rows)
      BY <1>1, <2>2
    <3>2. columns[c][i] = rows[start + i][c]
      BY <3>1 DEF IInv, RowsPlaced, HoldsRows
    <3>3. QED  BY <1>2, <3>1, <3>2
  <2>3. QED  BY <2>1, <2>2
<1>4. ASSUME NEW c \in Columns
      PROVE  Len(columns[c]) = entries_in_chunk + 1
  BY DEF IInv, Buffered
<1>5. QED  BY <1>2, <1>3, <1>4

LEMMA AppendCellKeeps ==
  ASSUME IInv, Sound', NEW c \in Columns, NEW v \in Stored, AppendCell(c, v)
  PROVE  ChunksFill' /\ Buffered' /\ Referenced' /\ RowsPlaced'
<1>1. /\ Sound /\ phase = "open" /\ row[c] = Unset /\ v # Unset
      /\ c \notin Nullable => v # Null
  BY CellsAssumption DEF Sound, Intact, AppendCell, IInv, TypeOK, Stored
<1>2. /\ row' = [row EXCEPT ![c] = v]
      /\ columns' = [columns EXCEPT ![c] = Append(@, v)]
      /\ UNCHANGED <<phase, entries_in_chunk, total_entries, chunk_index, file, rows>>
  BY DEF AppendCell
<1>3. ChunksFill' /\ Referenced'
  <2>1. EntriesInChunks' = EntriesInChunks
    BY <1>2 DEF EntriesInChunks, ChunkEnd, ChunkStart
  <2>2. QED  BY <1>1, <1>2, <2>1 DEF IInv, ChunksFill, Referenced
<1>4. /\ columns \in [Columns -> Seq(Stored)] /\ entries_in_chunk \in Nat
      /\ row \in [Columns -> Stored \cup {Unset}]
  BY DEF IInv, TypeOK
<1>5. ASSUME NEW d \in Columns
      PROVE  /\ Len(columns'[d]) = entries_in_chunk + IF row'[d] = Unset THEN 0 ELSE 1
             /\ row'[d] # Unset => columns'[d][entries_in_chunk + 1] = row'[d]
             /\ d \notin Nullable => \A i \in 1..Len(columns'[d]) : columns'[d][i] # Null
             /\ Len(columns'[d]) >= Len(columns[d])
             /\ \A i \in 1..Len(columns[d]) : columns'[d][i] = columns[d][i]
  <2>1. /\ Len(columns[d]) = entries_in_chunk + IF row[d] = Unset THEN 0 ELSE 1
        /\ row[d] # Unset => columns[d][entries_in_chunk + 1] = row[d]
        /\ d \notin Nullable => \A i \in 1..Len(columns[d]) : columns[d][i] # Null
    BY <1>1 DEF IInv, Buffered
  <2>2. CASE d = c
    BY <1>1, <1>2, <1>4, <2>1, <2>2
  <2>3. CASE d # c
    BY <1>2, <1>4, <2>1, <2>3
  <2>4. QED  BY <2>2, <2>3
<1>6. Buffered'
  BY <1>2, <1>5 DEF Buffered
<1>7. ASSUME NEW d \in Columns
      PROVE  HoldsRows(columns[d], d, entries_in_chunk, Len(chunk_index) * ChunkSize)'
  <2>1. HoldsRows(columns[d], d, entries_in_chunk, Len(chunk_index) * ChunkSize)
    BY <1>1 DEF IInv, RowsPlaced
  <2>2. Len(columns[d]) \in Nat /\ Len(columns'[d]) \in Nat
    BY <1>4, <1>5
  <2>3. QED  BY <1>2, <1>4, <1>5, <2>1, <2>2 DEF HoldsRows
<1>8. ASSUME NEW k \in 1..Len(chunk_index), NEW d \in Columns
      PROVE  HoldsRows(CellsOnFile(k, d), d, chunk_index[k].entry_count, ChunkStart(k))'
  BY <1>1, <1>2, ChunksKept
<1>9. RowsPlaced'
  BY <1>2, <1>7, <1>8 DEF RowsPlaced
<1>10. QED  BY <1>3, <1>6, <1>9

LEMMA FinishEntryKeeps ==
  ASSUME IInv, Sound', FinishEntry
  PROVE  ChunksFill' /\ Buffered' /\ Referenced' /\ RowsPlaced'
<1> DEFINE n == entries_in_chunk + 1
<1>0. PICK L \in Nat : L = Len(chunk_index)
  BY DEF IInv, TypeOK
<1>1. /\ Sound /\ phase = "open" /\ phase' = "open"
      /\ rows' = Append(rows, row) /\ row' = EmptyRow
      /\ total_entries' = total_entries + 1
      /\ \A c \in Columns : row[c] # Unset
  BY DEF Sound, Intact, FinishEntry, IInv, TypeOK
<1>2. /\ Len(rows') = Len(rows) + 1
      /\ \A r \in 1..Len(rows) : rows'[r] = rows[r]
      /\ \A c \in Columns :
           /\ Len(columns[c]) = n
           /\ \A i \in 1..n : columns[c][i] = rows'[L * ChunkSize + i][c]
  BY <1>0, <1>1, EntryGained
<1>3. /\ entries_in_chunk \in Nat /\ L \in Nat /\ L * ChunkSize \in Nat
      /\ total_entries = L * ChunkSize + entries_in_chunk
      /\ Len(rows) = total_entries
      /\ \A k \in 1..L : chunk_index[k].entry_count = ChunkSize
  BY <1>0, <1>1, OpenTotal DEF IInv, TypeOK
<1>4. Rejected = {}
  BY <1>1, EvenBuffersAccepted
<1>5. \A c \in Columns : row'[c] = Unset
  BY <1>1 DEF EmptyRow
<1>6. CASE UNCHANGED <<columns, chunk_index, file>> /\ n < ChunkSize /\ entries_in_chunk' = n
  <2>1. ChunksFill'
    <3>1. EntriesInChunks' = EntriesInChunks
      BY <1>6 DEF EntriesInChunks, ChunkEnd, ChunkStart
    <3>2. EntriesInChunks = L * ChunkSize
      BY <1>0, <1>1, OpenTotal
    <3>3. \A k \in 1..Len(chunk_index') : chunk_index'[k].entry_count = ChunkSize
      BY <1>0, <1>3, <1>6
    <3>4. QED  BY <3>1, <3>2, <3>3, <1>1, <1>2, <1>3, <1>6 DEF ChunksFill
  <2>2. Buffered'
    BY <1>0, <1>1, <1>2, <1>3, <1>5, <1>6 DEF Buffered, IInv
  <2>3. Referenced'
    BY <1>1, <1>6 DEF Referenced, IInv
  <2>4. ASSUME NEW k \in 1..L, NEW c \in Columns
        PROVE  HoldsRows(CellsOnFile(k, c), c, chunk_index[k].entry_count, ChunkStart(k))'
    BY <1>0, <1>1, <1>2, <1>6, ChunksKept
  <2>5. ASSUME NEW c \in Columns
        PROVE  HoldsRows(columns[c], c, entries_in_chunk, Len(chunk_index) * ChunkSize)'
    BY <1>0, <1>2, <1>3, <1>6 DEF HoldsRows
  <2>6. RowsPlaced'
    BY <1>0, <1>6, <2>4, <2>5 DEF RowsPlaced
  <2>7. QED  BY <2>1, <2>2, <2>3, <2>6
<1>7. CASE FlushOk(n) /\ n >= ChunkSize
  <2>1. n = ChunkSize /\ n \in Nat
    BY <1>1, <1>3, <1>7, ChunkSizeAssumption DEF IInv, ChunksFill
  <2>2. /\ Len(chunk_index') = L + 1
        /\ \A k \in 1..L : chunk_index'[k].entry_count = ChunkSize
        /\ chunk_index'[L + 1].entry_count = n
        /\ EntriesInChunks' = L * ChunkSize + n
        /\ Referenced'
        /\ \A k \in 1..L + 1, c \in Columns :
             HoldsRows(CellsOnFile(k, c), c, chunk_index[k].entry_count, ChunkStart(k))'
    <3>1. \A c \in Columns :
            /\ Len(columns[c]) >= n
            /\ \A i \in 1..n : columns[c][i] = rows'[L * ChunkSize + i][c]
      BY <1>2, <2>1
    <3>2. /\ file' = Append(file, ChunkRecord(n))
          /\ chunk_index' = Append(chunk_index, ChunkIndexEntry(n))
      BY <1>7 DEF FlushOk
    <3>3. \A r \in 1..Len(rows) : rows'[r] = rows[r]
      BY <1>2
    <3> HIDE DEF n
    <3>4. QED  BY <1>0, <1>1, <2>1, <3>1, <3>2, <3>3, ChunkAdded, ZenonT(40)
  <2>3. \A c \in Columns : columns'[c] = <<>>
    BY <1>7 DEF FlushOk, EmptyColumns
  <2>4. entries_in_chunk' = 0
    BY <1>7 DEF FlushOk
  <2>5. ChunksFill'
    <3>1. \A k \in 1..Len(chunk_index') : chunk_index'[k].entry_count = ChunkSize
      <4>1. \A k \in 1..L + 1 : k \in 1..L \/ k = L + 1
        BY <1>3
      <4>2. QED  BY <4>1, <2>1, <2>2
    <3>2. total_entries' = EntriesInChunks' + entries_in_chunk'
      BY <1>1, <1>3, <2>2, <2>4
    <3>3. total_entries' = Len(rows')
      BY <1>1, <1>2, <1>3
    <3>4. entries_in_chunk' < ChunkSize
      BY <2>4, ChunkSizeAssumption
    <3>5. QED  BY <3>1, <3>2, <3>3, <3>4 DEF ChunksFill
  <2>6. Buffered'
    BY <1>5, <2>3, <2>4 DEF Buffered
  <2>7. ASSUME NEW c \in Columns
        PROVE  HoldsRows(columns[c], c, entries_in_chunk, Len(chunk_index) * ChunkSize)'
    BY <2>3, <2>4 DEF HoldsRows
  <2>8. RowsPlaced'
    BY <2>2, <2>7 DEF RowsPlaced
  <2>9. QED  BY <2>2, <2>5, <2>6, <2>8
<1>8. ~ FlushRejected(n)
  BY <1>4 DEF FlushRejected
<1>9. faults' = 0 /\ faults \in Nat
  BY DEF Sound, Intact, IInv, TypeOK
<1>10. QED
  BY <1>6, <1>7, <1>8, <1>9, <1>1 DEF FinishEntry

LEMMA SnapshotKeeps ==
  ASSUME IInv, Sound', NEW tag, NEW payload,
         WriteSnapshot(tag, payload) \/ WriteSnapshotTorn
  PROVE  ChunksFill' /\ Buffered' /\ Referenced' /\ RowsPlaced'
<1>1. WriteSnapshot(tag, payload) /\ Sound /\ phase = "open"
  BY DEF Sound, Intact, WriteSnapshot, WriteSnapshotTorn, IInv, TypeOK
<1>2. /\ UNCHANGED <<phase, columns, entries_in_chunk, total_entries, chunk_index, row, rows>>
      /\ file' = Append(file, SnapshotRecord(tag, payload))
  BY <1>1 DEF WriteSnapshot
<1>3. /\ \A p \in 1..Len(file) : file'[p] = file[p]
      /\ Len(file) \in Nat /\ Len(file') = Len(file) + 1
  BY <1>2 DEF IInv, TypeOK
<1>4. ChunksFill'
  <2>1. EntriesInChunks' = EntriesInChunks
    BY <1>2 DEF EntriesInChunks, ChunkEnd, ChunkStart
  <2>2. QED  BY <1>1, <1>2, <2>1 DEF IInv, ChunksFill
<1>5. Buffered'
  BY <1>1, <1>2 DEF IInv, Buffered
<1>6. Referenced'
  BY <1>1, <1>2, <1>3 DEF IInv, Referenced
<1>7. ASSUME NEW k \in 1..Len(chunk_index), NEW c \in Columns
      PROVE  HoldsRows(CellsOnFile(k, c), c, chunk_index[k].entry_count, ChunkStart(k))'
  BY <1>1, <1>2, <1>3, ChunksKept
<1>8. ASSUME NEW c \in Columns
      PROVE  HoldsRows(columns[c], c, entries_in_chunk, Len(chunk_index) * ChunkSize)'
  BY <1>1, <1>2 DEF IInv, RowsPlaced, HoldsRows
<1>9. RowsPlaced'
  BY <1>2, <1>7, <1>8 DEF RowsPlaced
<1>10. QED  BY <1>4, <1>5, <1>6, <1>9

(* finish: what is left in the buffers becomes the last, shorter chunk. *)
LEMMA FinishOkKeeps ==
  ASSUME IInv, Sound', FinishOk
  PROVE  ChunksFill' /\ Buffered' /\ Referenced' /\ RowsPlaced'
<1>0. PICK L \in Nat : L = Len(chunk_index)
  BY DEF IInv, TypeOK
<1>1. /\ Sound /\ phase = "open" /\ phase' = "finished"
      /\ UNCHANGED <<total_entries, rows>>
  BY DEF Sound, Intact, FinishOk
<1>2. /\ entries_in_chunk \in Nat /\ entries_in_chunk < ChunkSize
      /\ total_entries = L * ChunkSize + entries_in_chunk
      /\ L * ChunkSize \in Nat
      /\ Len(rows) = total_entries
      /\ \A k \in 1..L : chunk_index[k].entry_count = ChunkSize
      /\ EntriesInChunks = L * ChunkSize
  BY <1>0, <1>1, OpenTotal DEF IInv, TypeOK, ChunksFill
<1>3. Buffered'
  BY <1>1 DEF Buffered
<1>4. ASSUME NEW c \in Columns
      PROVE  Len(columns[c]) >= entries_in_chunk
             /\ \A i \in 1..entries_in_chunk : columns[c][i] = rows[L * ChunkSize + i][c]
  BY <1>0, <1>1 DEF IInv, RowsPlaced, HoldsRows
<1>5. CASE FinishFlushed
  <2>1. /\ entries_in_chunk = 0 /\ UNCHANGED <<columns, entries_in_chunk, chunk_index>>
        /\ file' = Append(file, FooterRecord(chunk_index, snapshot_index))
    BY <1>5 DEF FinishFlushed
  <2>2. /\ \A p \in 1..Len(file) : file'[p] = file[p]
        /\ Len(file) \in Nat /\ Len(file') = Len(file) + 1
    BY <2>1 DEF IInv, TypeOK
  <2>3. ChunksFill'
    <3>1. EntriesInChunks' = EntriesInChunks
      BY <2>1 DEF EntriesInChunks, ChunkEnd, ChunkStart
    <3>2. QED  BY <1>0, <1>1, <1>2, <2>1, <3>1 DEF ChunksFill
  <2>4. Referenced'
    BY <1>1, <2>1, <2>2 DEF IInv, Referenced
  <2>5. ASSUME NEW k \in 1..L, NEW c \in Columns
        PROVE  HoldsRows(CellsOnFile(k, c), c, chunk_index[k].entry_count, ChunkStart(k))'
    BY <1>0, <1>1, <2>1, <2>2, ChunksKept
  <2>6. ASSUME NEW c \in Columns
        PROVE  HoldsRows(columns[c], c, entries_in_chunk, Len(chunk_index) * ChunkSize)'
    BY <1>0, <1>1, <1>4, <2>1 DEF HoldsRows
  <2>7. RowsPlaced'
    BY <1>0, <2>1, <2>5, <2>6 DEF RowsPlaced
  <2>8. QED  BY <1>3, <2>3, <2>4, <2>7
<1>6. CASE FinishLastChunk
  <2>1. /\ Len(chunk_index') = L + 1
        /\ \A k \in 1..L : chunk_index'[k].entry_count = ChunkSize
        /\ chunk_index'[L + 1].entry_count = entries_in_chunk
        /\ EntriesInChunks' = L * ChunkSize + entries_in_chunk
        /\ Referenced'
        /\ \A k \in 1..L + 1, c \in Columns :
             HoldsRows(CellsOnFile(k, c), c, chunk_index[k].entry_count, ChunkStart(k))'
    <3>1. /\ file' = file \o <<ChunkRecord(entries_in_chunk),
                               FooterRecord(chunk_index', snapshot_index)>>
          /\ chunk_index' = Append(chunk_index, ChunkIndexEntry(entries_in_chunk))
      BY <1>6 DEF FinishLastChunk
    <3>2. \A c \in Columns :
            /\ Len(columns[c]) >= entries_in_chunk
            /\ \A i \in 1..entries_in_chunk : columns[c][i] = rows'[L * ChunkSize + i][c]
      BY <1>1, <1>4
    <3>3. \A r \in 1..Len(rows) : rows'[r] = rows[r]
      BY <1>1
    <3>4. QED  BY <1>0, <1>1, <1>2, <3>1, <3>2, <3>3, ChunkAdded, ZenonT(40)
  <2>2. /\ entries_in_chunk > 0 /\ entries_in_chunk' = 0
        /\ \A c \in Columns : columns'[c] = <<>>
    BY <1>6 DEF FinishLastChunk, EmptyColumns
  <2>3. ChunksFill'
    <3>1. \A k \in 1..Len(chunk_index') :
            \/ chunk_index'[k].entry_count = ChunkSize
            \/ k = Len(chunk_index') /\ chunk_index'[k].entry_count \in 1..ChunkSize
      <4>1. \A k \in 1..L + 1 : k \in 1..L \/ k = L + 1
        BY <1>0
      <4>2. entries_in_chunk \in 1..ChunkSize
        BY <1>2, <2>2, ChunkSizeAssumption
      <4>3. QED  BY <4>1, <4>2, <2>1
    <3>2. total_entries' = EntriesInChunks' + entries_in_chunk'
      BY <1>1, <1>2, <2>1, <2>2
    <3>3. QED  BY <1>1, <1>2, <2>2, <3>1, <3>2, ChunkSizeAssumption, SMTT(40) DEF ChunksFill
  <2>4. ASSUME NEW c \in Columns
        PROVE  HoldsRows(columns[c], c, entries_in_chunk, Len(chunk_index) * ChunkSize)'
    BY <2>2 DEF HoldsRows
  <2>5. RowsPlaced'
    BY <2>1, <2>4 DEF RowsPlaced
  <2>6. QED  BY <1>3, <2>1, <2>3, <2>5
<1>7. QED  BY <1>5, <1>6 DEF FinishOk

LEMMA StutterKeeps ==
  ASSUME IInv, UNCHANGED vars
  PROVE  ChunksFill' /\ Buffered' /\ Referenced' /\ RowsPlaced'
BY DEF vars, IInv, ChunksFill, Buffered, Referenced, RowsPlaced, Sound, Intact, HoldsRows,
       CellsOnFile, EntriesInChunks, ChunkEnd, ChunkStart

LEMMA NextKeeps ==
  ASSUME IInv, [Next]_vars
  PROVE  IInv'
<1> DEFINE Kept == ChunksFill' /\ Buffered' /\ Referenced' /\ RowsPlaced'
<1>1. TypeOK'
  BY NextTyped DEF IInv
<1>2. CASE ~Sound'
  BY <1>1, <1>2 DEF IInv, ChunksFill, Buffered, Referenced, RowsPlaced
<1>3. CASE Sound'
  <2>1. ASSUME NEW c \in Columns, NEW v \in Cells, SetValue(c, v)
        PROVE  Kept
    BY <1>3, <2>1, AppendCellKeeps DEF SetValue, Stored
  <2>2. ASSUME NEW c \in Columns, SetMistyped(c) \/ SetNull(c)
        PROVE  Kept
    BY <1>3, <2>2, AppendCellKeeps, CellsAssumption DEF SetMistyped, SetNull, Stored
  <2>3. ASSUME FinishEntry
        PROVE  Kept
    BY <1>3, <2>3, FinishEntryKeeps
  <2>4. ASSUME NEW payload, NEW tag, WriteSnapshot(tag, payload) \/ WriteSnapshotTorn
        PROVE  Kept
    BY <1>3, <2>4, SnapshotKeeps
  <2>5. ASSUME FinishOk
        PROVE  Kept
    BY <1>3, <2>5, FinishOkKeeps
  <2>6. ~FinishRejected /\ ~Abandon
    BY <1>3 DEF Sound, FinishRejected, Abandon
  <2>7. ASSUME UNCHANGED vars
        PROVE  Kept
    BY <2>7, StutterKeeps
  <2>8. Kept
    BY <2>1, <2>2, <2>3, <2>4, <2>5, <2>6, <2>7 DEF Next, MarkFrame
  <2>9. QED  BY <1>1, <2>8 DEF IInv
<1>4. QED  BY <1>2, <1>3

LEMMA InitHolds == Init => IInv
<1>1. Init => TypeOK
  BY DEF Init, TypeOK, EmptyColumns, EmptyRow, RecordTypes, Header
<1>2. Init => ChunksFill /\ Buffered /\ Referenced /\ RowsPlaced
  BY ChunkSizeAssumption
     DEF Init, ChunksFill, Buffered, Referenced, RowsPlaced, EntriesInChunks,
         HoldsRows, EmptyColumns, EmptyRow
<1>3. QED  BY <1>1, <1>2 DEF IInv

\* The inductive invariant of the writer: chunks fill in order, the buffers hold
\* the rest, and both hold the finished entries where their index says.
THEOREM WriterInvariant == Spec => []IInv
<1>1. Init => IInv
  BY InitHolds
<1>2. IInv /\ [Next]_vars => IInv'
  BY NextKeeps
<1>3. QED  BY <1>1, <1>2, PTL DEF Spec

\* While nothing has gone wrong every finished entry is where its index says,
\* in the chunk on file or in the buffers, for every chunk size, grouping of the
\* columns and order of the setters.
THEOREM WriterRowsPlaced == Spec => []RowsPlaced
<1>1. IInv => RowsPlaced
  BY DEF IInv
<1>2. QED  BY <1>1, WriterInvariant, PTL

\* A producer that sets every column once an entry, and nulls only the nullable
\* ones, never has a flush refused.
THEOREM WriterNeverRejects == Spec => []DisciplineNeverRejected
<1>1. IInv => DisciplineNeverRejected
  <2>1. SUFFICES ASSUME IInv, Intact, phase = "open", row = EmptyRow
                 PROVE  Rejected = {}
    BY DEF DisciplineNeverRejected
  <2>2. Sound /\ \A c \in Columns : row[c] = Unset
    BY <2>1 DEF Sound, EmptyRow
  <2>3. QED  BY <2>1, <2>2, EvenBuffersAccepted
<1>2. QED  BY <1>1, WriterInvariant, PTL

-----------------------------------------------------------------------------
(***************************************************************************)
(* The writer implements the log, for every chunk size, grouping and       *)
(* schema: what TLC checks of ImplementsLog on one instance. While nothing *)
(* has gone wrong the entries read off chunks and buffers are the rows     *)
(* finished so far, and the snapshots on file are the marks.               *)
(***************************************************************************)

\* What IInv leaves open: that a finished writer has nothing buffered, and that
\* the snapshots are indexed at records of the file.
LogInv ==
  /\ IInv
  /\ phase = "finished" => entries_in_chunk = 0
  /\ Sound => \A s \in 1..Len(snapshot_index) : snapshot_index[s].offset \in 1..Len(file)

MarkAt(s) ==
  [tag |-> file[snapshot_index[s].offset].tag,
   at |-> file[snapshot_index[s].offset].entry_index,
   payload |-> file[snapshot_index[s].offset].payload]

-----------------------------------------------------------------------------
(* Entries.                                                                *)

LEMMA PlaceInChunk ==
  ASSUME NEW i \in Nat \ {0}, NEW s \in Nat \ {0}
  PROVE  /\ (i - 1) \div s \in Nat /\ (i - 1) % s \in 0..s - 1
         /\ i = ((i - 1) \div s) * s + ((i - 1) % s) + 1
  OBVIOUS

LEMMA EntryIsRow ==
  ASSUME LogInv, Sound, NEW i \in 1..Len(rows)
  PROVE  EntryAt(i) = rows[i]
<1> DEFINE k == ((i - 1) \div ChunkSize) + 1
           local == ((i - 1) % ChunkSize) + 1
           L == Len(chunk_index)
<1>1. /\ i \in Nat \ {0} /\ i <= Len(rows) /\ Len(rows) \in Nat /\ L \in Nat
      /\ entries_in_chunk \in Nat /\ entries_in_chunk < ChunkSize
  BY DEF LogInv, IInv, TypeOK, ChunksFill
<1>2. k \in Nat \ {0} /\ k - 1 \in Nat /\ local \in 1..ChunkSize /\ i = (k - 1) * ChunkSize + local
  <2>1. /\ (i - 1) \div ChunkSize \in Nat /\ (i - 1) % ChunkSize \in 0..ChunkSize - 1
        /\ i = ((i - 1) \div ChunkSize) * ChunkSize + ((i - 1) % ChunkSize) + 1
    BY <1>1, PlaceInChunk, ChunkSizeAssumption, Zenon
  <2> QED  BY <2>1, ChunkSizeAssumption
<1>3. rows[i] \in [Columns -> Stored \cup {Unset}]
  BY <1>1 DEF LogInv, IInv, TypeOK
<1> HIDE DEF k, local
<1>4. ASSUME NEW c \in Columns
      PROVE  (IF k <= L THEN file[chunk_index[k].offset].data[c][local] ELSE columns[c][local]) = rows[i][c]
  <2>1. CASE k <= L
    <3>1. k \in 1..L
      BY <1>1, <1>2, <2>1
    <3>2. chunk_index[k].entry_count \in Nat
      BY <3>1, RowsOfChunks DEF LogInv
    <3>3. local <= chunk_index[k].entry_count
      <4>1. CASE chunk_index[k].entry_count = ChunkSize
        BY <1>2, <4>1
      <4>2. CASE chunk_index[k].entry_count # ChunkSize
        <5>1. k = L /\ entries_in_chunk = 0
          BY <3>1, <4>2 DEF LogInv, IInv, ChunksFill
        <5>2. Len(rows) = ChunkStart(L) + chunk_index[L].entry_count + entries_in_chunk
          BY <3>1, <1>1 DEF LogInv, IInv, ChunksFill, EntriesInChunks, ChunkEnd
        <5>3. ChunkStart(L) = (k - 1) * ChunkSize /\ ChunkStart(L) \in Nat
          BY <1>2, <5>1, Monotone, ChunkSizeAssumption DEF ChunkStart
        <5> QED  BY <1>1, <1>2, <3>2, <5>1, <5>2, <5>3
      <4> QED  BY <4>1, <4>2
    <3>4. HoldsRows(CellsOnFile(k, c), c, chunk_index[k].entry_count, ChunkStart(k))
      BY <3>1 DEF LogInv, IInv, RowsPlaced
    <3>5. local \in 1..chunk_index[k].entry_count
      BY <1>2, <3>2, <3>3
    <3>6. CellsOnFile(k, c)[local] = rows[ChunkStart(k) + local][c]
      BY <3>4, <3>5 DEF HoldsRows
    <3> QED  BY <1>2, <2>1, <3>6 DEF CellsOnFile, ChunkStart
  <2>2. CASE ~(k <= L)
    <3>1. L * ChunkSize \in Nat /\ L * ChunkSize <= (k - 1) * ChunkSize
      BY <1>1, <1>2, <2>2, Monotone, ChunkSizeAssumption
    <3>2. phase = "open"
      <4>0. phase \in {"open", "finished"}
        BY DEF LogInv, IInv, TypeOK, Sound
      <4>1. SUFFICES ASSUME phase = "finished" PROVE FALSE
        BY <4>0
      <4>2. entries_in_chunk = 0 /\ Len(rows) = EntriesInChunks + entries_in_chunk
        BY <4>1 DEF LogInv, IInv, ChunksFill
      <4>3. chunk_index # <<>>
        BY <1>1, <4>2 DEF EntriesInChunks
      <4>4. L \in 1..L
        BY <4>3 DEF LogInv, IInv, TypeOK
      <4>5. EntriesInChunks = ChunkStart(L) + chunk_index[L].entry_count
        BY <4>3 DEF EntriesInChunks, ChunkEnd
      <4>6. ChunkStart(L) \in Nat /\ chunk_index[L].entry_count \in Nat
        BY <4>4, RowsOfChunks DEF LogInv
      <4>7. chunk_index[L].entry_count <= ChunkSize
        BY <4>4, ChunkSizeAssumption DEF LogInv, IInv, ChunksFill
      <4>8. ChunkStart(L) + ChunkSize = L * ChunkSize
        BY <1>1, ChunkSizeAssumption DEF ChunkStart
      <4> QED
        BY <1>1, <1>2, <3>1, <4>2, <4>5, <4>6, <4>7, <4>8, ChunkSizeAssumption
    <3>3. Len(rows) = L * ChunkSize + entries_in_chunk
      BY <3>2, OpenTotal DEF LogInv
    <3>4. k = L + 1
      <4>1. SUFFICES ASSUME L + 1 <= k - 1 PROVE FALSE
        BY <1>1, <1>2, <2>2
      <4>2. (L + 1) * ChunkSize <= (k - 1) * ChunkSize
        BY <1>1, <1>2, <4>1, Monotone, ChunkSizeAssumption
      <4>3. (L + 1) * ChunkSize = L * ChunkSize + ChunkSize
        BY <1>1, ChunkSizeAssumption
      <4> QED
        BY <1>1, <1>2, <3>1, <3>3, <4>2, <4>3, ChunkSizeAssumption
    <3>5. local \in 1..entries_in_chunk
      BY <1>1, <1>2, <3>1, <3>3, <3>4
    <3>6. HoldsRows(columns[c], c, entries_in_chunk, L * ChunkSize)
      BY DEF LogInv, IInv, RowsPlaced
    <3> QED  BY <1>2, <2>2, <3>4, <3>5, <3>6 DEF HoldsRows
  <2> QED  BY <2>1, <2>2
<1>5. QED  BY <1>3, <1>4 DEF EntryAt, k, local

LEMMA EntriesAreRows == LogInv /\ Sound => WrittenEntries = rows
<1> SUFFICES ASSUME LogInv, Sound PROVE WrittenEntries = rows
  OBVIOUS
<1>1. total_entries = Len(rows) /\ rows \in Seq([Columns -> Stored \cup {Unset}])
  BY DEF LogInv, IInv, TypeOK, ChunksFill
<1>2. WrittenEntries = [i \in 1..Len(rows) |-> EntryAt(i)]
  BY <1>1 DEF WrittenEntries
<1>3. rows = [i \in 1..Len(rows) |-> rows[i]]
  BY <1>1
<1>4. QED  BY <1>2, <1>3, EntryIsRow, Zenon

-----------------------------------------------------------------------------
(* Marks.                                                                  *)

MarksOnFile == [s \in 1..Len(snapshot_index) |-> MarkAt(s)]

LEMMA MarksAreOnFile == Sound => WrittenMarks = MarksOnFile
  BY DEF WrittenMarks, MarksOnFile, MarkAt

\* Records that are only added leave the marks what they were.
LEMMA MarksKept ==
  ASSUME LogInv, Sound, \A p \in 1..Len(file) : file'[p] = file[p],
         snapshot_index' = snapshot_index
  PROVE  MarksOnFile' = MarksOnFile
<1>1. \A s \in 1..Len(snapshot_index) : MarkAt(s)' = MarkAt(s)
  BY DEF LogInv, MarkAt
<1>2. QED  BY <1>1 DEF MarksOnFile

LEMMA AppendOne ==
  ASSUME NEW T, NEW s \in Seq(T), NEW e \in T
  PROVE  Append(s, e) = [i \in 1..Len(s) + 1 |-> IF i <= Len(s) THEN s[i] ELSE e]
<1>1. /\ Append(s, e) \in Seq(T) /\ Len(Append(s, e)) = Len(s) + 1
      /\ \A i \in 1..Len(s) + 1 : Append(s, e)[i] = IF i <= Len(s) THEN s[i] ELSE e
  OBVIOUS
<1>2. \A q \in Seq(T) : q = [i \in 1..Len(q) |-> q[i]]
  OBVIOUS
<1>3. Append(s, e) = [i \in 1..Len(Append(s, e)) |-> Append(s, e)[i]]
  BY <1>1, <1>2, Zenon
<1>4. QED  BY <1>1, <1>3

LEMMA MarkAdded ==
  ASSUME LogInv, Sound, NEW tag \in Tags, NEW payload \in Payloads \cup {NoPayload},
         file' = Append(file, SnapshotRecord(tag, payload)),
         snapshot_index' = Append(snapshot_index, SnapshotIndexEntry(tag))
  PROVE  MarksOnFile' = Append(MarksOnFile, [tag |-> tag, at |-> total_entries, payload |-> payload])
<1>0. PICK S \in Nat : S = Len(snapshot_index)
  BY DEF LogInv, IInv, TypeOK
<1> DEFINE new == [tag |-> tag, at |-> total_entries, payload |-> payload]
           T == {MarkAt(s) : s \in 1..S} \cup {new}
<1>1. /\ Len(snapshot_index') = S + 1
      /\ \A s \in 1..S : snapshot_index'[s] = snapshot_index[s]
      /\ snapshot_index'[S + 1].offset = Len(file) + 1
  BY <1>0 DEF LogInv, IInv, TypeOK, SnapshotIndexEntry, NextOffset
<1>2. /\ \A p \in 1..Len(file) : file'[p] = file[p]
      /\ file'[Len(file) + 1] = SnapshotRecord(tag, payload)
  BY DEF LogInv, IInv, TypeOK
<1>3. ASSUME NEW s \in 1..S PROVE MarkAt(s)' = MarkAt(s)
  <2>1. snapshot_index[s].offset \in 1..Len(file) /\ snapshot_index'[s] = snapshot_index[s]
    BY <1>0, <1>1 DEF LogInv
  <2>2. file'[snapshot_index'[s].offset] = file[snapshot_index[s].offset]
    BY <1>2, <2>1
  <2> QED  BY <2>2 DEF MarkAt
<1>4. MarkAt(S + 1)' = new
  <2>1. file'[snapshot_index'[S + 1].offset] = SnapshotRecord(tag, payload)
    BY <1>1, <1>2
  <2>2. /\ SnapshotRecord(tag, payload).tag = tag
        /\ SnapshotRecord(tag, payload).entry_index = total_entries
        /\ SnapshotRecord(tag, payload).payload = payload
    BY DEF SnapshotRecord
  <2>3. MarkAt(S + 1)' = [tag |-> file'[snapshot_index'[S + 1].offset].tag,
                          at |-> file'[snapshot_index'[S + 1].offset].entry_index,
                          payload |-> file'[snapshot_index'[S + 1].offset].payload]
    BY Zenon DEF MarkAt
  <2> QED  BY <2>1, <2>2, <2>3, Zenon
<1>5. MarksOnFile' = [s \in 1..S + 1 |-> MarkAt(s)']
  BY <1>1 DEF MarksOnFile
<1>6. MarksOnFile \in Seq(T) /\ Len(MarksOnFile) = S /\ \A s \in 1..S : MarksOnFile[s] = MarkAt(s)
  BY <1>0 DEF MarksOnFile
<1> HIDE DEF T, new
<1>7. new \in T
  BY DEF T
<1>8. Append(MarksOnFile, new) = [s \in 1..S + 1 |-> IF s <= S THEN MarksOnFile[s] ELSE new]
  BY <1>6, <1>7, AppendOne
<1>9. ASSUME NEW s \in 1..S + 1
      PROVE  MarkAt(s)' = IF s <= S THEN MarksOnFile[s] ELSE new
  <2>1. CASE s <= S
    BY <1>1, <1>3, <1>6, <2>1
  <2>2. CASE ~(s <= S)
    <3>1. s = S + 1
      BY <1>1, <2>2
    <3> QED  BY <1>4, <2>2, <3>1
  <2> QED  BY <2>1, <2>2
<1>10. QED
  BY <1>5, <1>8, <1>9, Zenon DEF new

-----------------------------------------------------------------------------
(* Steps.                                                                  *)

\* Only an open writer steps, and what has gone wrong stays wrong.
LEMMA OpenSteps ==
  ASSUME TypeOK, Next
  PROVE  phase = "open" /\ (Sound' => Sound)
<1>1. ASSUME NEW c \in Columns, NEW v, AppendCell(c, v)
      PROVE  phase = "open" /\ (Sound' => Sound)
  BY <1>1 DEF AppendCell, TypeOK, Sound, Intact
<1>2. ASSUME NEW c \in Columns,
             (\E v \in Cells : SetValue(c, v)) \/ SetMistyped(c) \/ SetNull(c)
      PROVE  phase = "open" /\ (Sound' => Sound)
  BY <1>1, <1>2 DEF SetValue, SetMistyped, SetNull
<1>3. CASE FinishEntry
  BY <1>3 DEF FinishEntry, TypeOK, Sound, Intact
<1>4. ASSUME NEW tag, NEW payload, WriteSnapshot(tag, payload)
      PROVE  phase = "open" /\ (Sound' => Sound)
  BY <1>4 DEF WriteSnapshot, TypeOK, Sound, Intact
<1>5. CASE WriteSnapshotTorn
  BY <1>5 DEF WriteSnapshotTorn, TypeOK, Sound, Intact
<1>6. CASE FinishOk
  BY <1>6 DEF FinishOk, Sound, Intact
<1>7. CASE FinishRejected
  BY <1>7 DEF FinishRejected, Sound, Intact
<1>8. CASE Abandon
  BY <1>8 DEF Abandon, Sound, Intact
<1>9. QED
  BY <1>2, <1>3, <1>4, <1>5, <1>6, <1>7, <1>8 DEF Next, MarkFrame

\* A step after which nothing has gone wrong is one of four.
LEMMA SoundStep ==
  ASSUME TypeOK, Next, Sound'
  PROVE  \/ \E c \in Columns, v \in Stored : AppendCell(c, v)
         \/ FinishEntry
         \/ \E tag \in Tags, payload \in Payloads \cup {NoPayload} : WriteSnapshot(tag, payload)
         \/ FinishOk
<1>1. ~WriteSnapshotTorn
  BY DEF WriteSnapshotTorn, TypeOK, Sound, Intact
<1>2. ~FinishRejected /\ ~Abandon
  BY DEF FinishRejected, Abandon, Sound
<1>3. QED
  BY <1>1, <1>2, CellsAssumption, TagAssumption
  DEF Next, SetValue, SetMistyped, SetNull, MarkFrame, Stored

\* Such a step only adds records.
LEMMA FileGrows ==
  ASSUME TypeOK, Next, Sound'
  PROVE  /\ Len(file) \in Nat /\ Len(file') \in Nat /\ Len(file) <= Len(file')
         /\ \A p \in 1..Len(file) : file'[p] = file[p]
<1> DEFINE Grows == /\ Len(file) \in Nat /\ Len(file') \in Nat /\ Len(file) <= Len(file')
                    /\ \A p \in 1..Len(file) : file'[p] = file[p]
<1>1. file \in Seq(RecordTypes)
  BY DEF TypeOK
<1>2. file' = file => Grows
  BY <1>1
<1>3. ASSUME NEW r, file' = Append(file, r) PROVE Grows
  BY <1>1, <1>3
<1>4. ASSUME NEW r, NEW t, file' = file \o <<r, t>> PROVE Grows
  BY <1>1, <1>4
<1> SUFFICES Grows
  OBVIOUS
<1> HIDE DEF Grows
<1>5. CASE \E c \in Columns, v \in Stored : AppendCell(c, v)
  BY <1>2, <1>5 DEF AppendCell
<1>6. CASE FinishEntry
  BY <1>2, <1>3, <1>6 DEF FinishEntry, FlushOk, FlushRejected, FlushTorn, FlushUnplaced
<1>7. CASE \E tag \in Tags, payload \in Payloads \cup {NoPayload} : WriteSnapshot(tag, payload)
  BY <1>3, <1>7 DEF WriteSnapshot
<1>8. CASE FinishOk
  <2>1. CASE FinishFlushed
    BY <1>3, <2>1 DEF FinishFlushed
  <2>2. CASE FinishLastChunk
    <3>1. file' = file \o <<ChunkRecord(entries_in_chunk),
                           FooterRecord(chunk_index', snapshot_index)>>
      BY <2>2 DEF FinishLastChunk
    <3> QED  BY <1>4, <3>1
  <2> QED  BY <1>8, <2>1, <2>2 DEF FinishOk
<1>9. QED
  BY <1>5, <1>6, <1>7, <1>8, SoundStep, Zenon

LEMMA NextKeepsLog == LogInv /\ [Next]_vars => LogInv'
<1> SUFFICES ASSUME LogInv, [Next]_vars PROVE LogInv'
  OBVIOUS
<1>1. IInv'
  BY NextKeeps DEF LogInv
<1>2. CASE UNCHANGED vars
  BY <1>1, <1>2 DEF LogInv, vars, Sound, Intact
<1>3. CASE Next
  <2>1. TypeOK /\ phase = "open"
    BY <1>3, OpenSteps DEF LogInv, IInv
  <2>2. phase' = "finished" => entries_in_chunk' = 0
    <3>1. ASSUME phase' = "finished" PROVE FinishOk
      BY <1>3, <2>1, <3>1
      DEF Next, SetValue, SetMistyped, SetNull, AppendCell, FinishEntry, MarkFrame, WriteSnapshot,
          WriteSnapshotTorn, FinishRejected, Abandon
    <3> QED
      BY <3>1 DEF FinishOk, FinishFlushed, FinishLastChunk
  <2>3. ASSUME Sound', NEW s \in 1..Len(snapshot_index')
        PROVE  snapshot_index'[s].offset \in 1..Len(file')
    <3>1. Sound /\ Len(snapshot_index) \in Nat
      BY <1>3, <2>1, <2>3, OpenSteps DEF TypeOK
    <3>2. Len(file) \in Nat /\ Len(file') \in Nat /\ Len(file) <= Len(file')
      BY <1>3, <2>1, <2>3, FileGrows
    <3>3. \A t \in 1..Len(snapshot_index) : snapshot_index[t].offset \in 1..Len(file')
      BY <3>1, <3>2 DEF LogInv
    <3>4. CASE snapshot_index' = snapshot_index
      BY <2>3, <3>3, <3>4
    <3>5. CASE \E tag \in Tags, payload \in Payloads \cup {NoPayload} : WriteSnapshot(tag, payload)
      <4>1. PICK tag \in Tags, payload \in Payloads \cup {NoPayload} : WriteSnapshot(tag, payload)
        BY <3>5
      <4>2. /\ snapshot_index' = Append(snapshot_index, SnapshotIndexEntry(tag))
            /\ SnapshotIndexEntry(tag).offset = Len(file) + 1
            /\ Len(file') = Len(file) + 1
        BY <2>1, <4>1 DEF WriteSnapshot, SnapshotIndexEntry, NextOffset, TypeOK
      <4>3. \/ s \in 1..Len(snapshot_index) /\ snapshot_index'[s] = snapshot_index[s]
            \/ snapshot_index'[s] = SnapshotIndexEntry(tag)
        BY <2>1, <2>3, <4>2 DEF TypeOK
      <4> QED  BY <3>2, <3>3, <4>2, <4>3
    <3>6. QED
      BY <1>3, <2>1, <2>3, <3>4, <3>5, SoundStep DEF AppendCell, FinishEntry, FinishOk
  <2> QED  BY <1>1, <2>2, <2>3 DEF LogInv
<1>4. QED  BY <1>2, <1>3

LEMMA InitLog == Init => LogInv /\ Log!Init
<1> SUFFICES ASSUME Init PROVE LogInv /\ Log!Init
  OBVIOUS
<1>1. LogInv
  BY InitHolds DEF LogInv, Init
<1>2. Sound
  BY DEF Init, Sound, Intact
<1>3. WrittenEntries = <<>>
  BY <1>1, <1>2, EntriesAreRows DEF Init
<1>4. WrittenMarks = <<>>
  BY <1>2, MarksAreOnFile DEF Init, MarksOnFile
<1>5. QED
  BY <1>1, <1>3, <1>4 DEF Log!Init, LogState, Intact, Init

-----------------------------------------------------------------------------
(* The refinement.                                                         *)

LEMMA EntriesAreRowsNext == (LogInv /\ Sound => WrittenEntries = rows)'
  BY EntriesAreRows, PTL

LEMMA MarksAreOnFileNext == (Sound => WrittenMarks = MarksOnFile)'
  BY MarksAreOnFile, PTL

LEMMA StepImplements == LogInv /\ LogInv' /\ [Next]_vars => [Log!Next]_(Log!vars)
<1> SUFFICES ASSUME LogInv, LogInv', [Next]_vars PROVE [Log!Next]_(Log!vars)
  OBVIOUS
<1>1. CASE UNCHANGED vars
  BY <1>1 DEF vars, Log!vars, WrittenEntries, WrittenMarks, LogState, EntryAt, Sound, Intact
<1>2. ASSUME Next, ~Sound' PROVE [Log!Next]_(Log!vars)
  <2>1. WrittenEntries' = <<>> /\ WrittenMarks' = <<>> /\ LogState' = "abandoned"
    BY <1>2 DEF WrittenEntries, WrittenMarks, LogState, Sound
  <2>2. CASE Sound
    <3>1. LogState = "open"
      BY <1>2, <2>2, OpenSteps DEF LogInv, IInv, LogState, Sound
    <3> QED  BY <2>1, <3>1 DEF Log!Next, Log!Lose
  <2>3. CASE ~Sound
    BY <2>1, <2>3 DEF Log!vars, WrittenEntries, WrittenMarks, LogState, Sound
  <2> QED  BY <2>2, <2>3
<1>3. ASSUME Next, Sound' PROVE [Log!Next]_(Log!vars)
  <2>1. TypeOK /\ Sound /\ phase = "open"
    BY <1>3, OpenSteps DEF LogInv, IInv
  <2>2. /\ WrittenEntries = rows /\ WrittenEntries' = rows'
        /\ WrittenMarks = MarksOnFile /\ WrittenMarks' = MarksOnFile'
        /\ LogState = "open" /\ LogState' = phase'
    BY <1>3, <2>1, EntriesAreRows, EntriesAreRowsNext, MarksAreOnFile, MarksAreOnFileNext
    DEF LogState, Sound
  <2>3. snapshot_index' = snapshot_index => MarksOnFile' = MarksOnFile
    BY <1>3, <2>1, FileGrows, MarksKept
  <2>4. CASE \E c \in Columns, v \in Stored : AppendCell(c, v)
    BY <2>1, <2>2, <2>3, <2>4 DEF AppendCell, Log!vars
  <2>5. CASE FinishEntry
    <3>1. row \in [Columns -> Stored]
      <4>1. \A c \in Columns : row[c] # Unset
        BY <1>3, <2>1, <2>5 DEF FinishEntry, TypeOK, Sound, Intact
      <4> QED  BY <2>1, <4>1 DEF TypeOK
    <3>2. rows' = Append(rows, row) /\ phase' = phase /\ snapshot_index' = snapshot_index
      BY <2>5 DEF FinishEntry
    <3> QED
      BY <2>1, <2>2, <2>3, <3>1, <3>2 DEF Log!Next, Log!Add
  <2>6. CASE \E tag \in Tags, payload \in Payloads \cup {NoPayload} : WriteSnapshot(tag, payload)
    <3>1. PICK tag \in Tags, payload \in Payloads \cup {NoPayload} : WriteSnapshot(tag, payload)
      BY <2>6
    <3>2. MarksOnFile' = Append(MarksOnFile, [tag |-> tag, at |-> total_entries, payload |-> payload])
      BY <2>1, <3>1, MarkAdded DEF WriteSnapshot
    <3>3. total_entries = Len(rows)
      BY <2>1 DEF LogInv, IInv, ChunksFill
    <3>4. rows' = rows /\ phase' = phase
      BY <3>1 DEF WriteSnapshot
    <3> QED
      BY <2>1, <2>2, <3>2, <3>3, <3>4 DEF Log!Next, Log!Mark
  <2>7. CASE FinishOk
    BY <2>2, <2>3, <2>7 DEF FinishOk, Log!Next, Log!Finish
  <2> QED  BY <1>3, <2>1, <2>4, <2>5, <2>6, <2>7, SoundStep
<1>4. QED  BY <1>1, <1>2, <1>3

\* The strengthened invariant of the writer, which the refinement rests on.
THEOREM WriterLogInvariant == Spec => []LogInv
<1>1. Init => LogInv
  BY InitLog
<1>2. QED  BY <1>1, NextKeepsLog, PTL DEF Spec

\* MoreporkWriter is a log: every entry finished and every mark made is part of
\* the trace at once, in order and for good, in whatever buffer, chunk or short
\* last chunk it lies, until a mistake or a failed write loses the trace.
THEOREM WriterImplementsLog == Spec => ImplementsLog
<1>1. Init => Log!Init
  BY InitLog
<1>2. QED
  BY <1>1, StepImplements, NextKeepsLog, WriterLogInvariant, PTL DEF Spec, ImplementsLog, Log!Spec

-----------------------------------------------------------------------------
(***************************************************************************)
(* Induction, and the sum of the chunks' counts. A set of naturals that is *)
(* not empty has a least element, because they are well-founded; so a set  *)
(* with 0 that is closed under successor is all of them.                   *)
(***************************************************************************)

Below == {p \in Nat \X Nat : p[1] < p[2]}

LEMMA BelowWellFounded == IsWellFoundedOn(Below, Nat)
BY NatLessThanWellFounded DEF Below, OpToRel

LEMMA Induction ==
  ASSUME NEW S \in SUBSET Nat, 0 \in S, \A n \in S : n + 1 \in S
  PROVE  S = Nat
<1> SUFFICES ASSUME Nat \ S # {} PROVE FALSE
  OBVIOUS
<1>1. \E m \in Nat \ S : \A n \in Nat \ S : ~(<<n, m>> \in Below)
  <2> DEFINE T == Nat \ S
  <2>1. T \subseteq Nat /\ T # {}
    OBVIOUS
  <2> HIDE DEF T
  <2>2. \E m \in T : \A n \in T : ~(<<n, m>> \in Below)
    BY <2>1, BelowWellFounded, WFMin, Zenon
  <2> QED  BY <2>2 DEF T
<1>2. PICK m \in Nat \ S : \A n \in Nat \ S : ~(<<n, m>> \in Below)
  BY <1>1
<1>3. \A n \in Nat \ S : ~(n < m)
  BY <1>2 DEF Below
<1>4. m # 0 /\ m - 1 \in Nat /\ m - 1 < m /\ (m - 1) + 1 = m
  BY <1>2
<1>5. m - 1 \in S
  BY <1>3, <1>4
<1>6. QED  BY <1>4, <1>5

\* t holds the running totals of the counts of the first n chunks.
Totals(t, chunks, n) ==
  /\ t \in [0..n -> Nat] /\ t[0] = 0
  /\ \A k \in 1..n : t[k] = t[k - 1] + chunks[k].entry_count

LEMMA CountsTyped ==
  ASSUME NEW chunks \in Seq(ChunkEntries)
  PROVE  Len(chunks) \in Nat /\ \A k \in 1..Len(chunks) : chunks[k].entry_count \in Nat
<1>1. \A k \in 1..Len(chunks) : chunks[k] \in ChunkEntries
  OBVIOUS
<1>2. QED  BY <1>1 DEF ChunkEntries

LEMMA TotalsExist ==
  ASSUME NEW chunks \in Seq(ChunkEntries)
  PROVE  \E t : Totals(t, chunks, Len(chunks))
<1> DEFINE L == Len(chunks)
           S == {n \in Nat : n <= L => \E t : Totals(t, chunks, n)}
<1>1. 0 \in S
  <2>1. Totals([k \in 0..0 |-> 0], chunks, 0)
    BY DEF Totals
  <2> QED  BY <2>1
<1>2. ASSUME NEW n \in S PROVE n + 1 \in S
  <2>1. SUFFICES ASSUME n + 1 <= L PROVE \E t : Totals(t, chunks, n + 1)
    OBVIOUS
  <2>2. n \in Nat /\ n <= L /\ L \in Nat
    BY <2>1
  <2>3. PICK g : Totals(g, chunks, n)
    BY <2>2
  <2>4. chunks[n + 1].entry_count \in Nat
    BY <2>1, <2>2, CountsTyped
  <2> DEFINE t == [k \in 0..n + 1 |-> IF k = n + 1 THEN g[n] + chunks[n + 1].entry_count ELSE g[k]]
  <2>5. t \in [0..n + 1 -> Nat] /\ t[0] = 0
    <3>1. g \in [0..n -> Nat] /\ g[0] = 0 /\ n \in 0..n
      BY <2>2, <2>3 DEF Totals
    <3>2. ASSUME NEW k \in 0..n + 1 PROVE t[k] \in Nat
      <4>1. CASE k = n + 1
        BY <2>2, <2>4, <3>1, <4>1
      <4>2. CASE k # n + 1
        <5>1. k \in 0..n
          BY <2>2, <4>2
        <5> QED  BY <3>1, <4>2, <5>1
      <4> QED  BY <4>1, <4>2
    <3> QED  BY <2>2, <3>1, <3>2
  <2>6. ASSUME NEW k \in 1..n + 1 PROVE t[k] = t[k - 1] + chunks[k].entry_count
    <3>1. CASE k = n + 1
      BY <2>2, <3>1
    <3>2. CASE k # n + 1
      <4>1. k \in 1..n /\ k \in 0..n + 1 /\ k - 1 \in 0..n + 1 /\ k - 1 # n + 1
        BY <2>2, <3>2
      <4> QED  BY <2>3, <3>2, <4>1 DEF Totals
    <3> QED  BY <3>1, <3>2
  <2> HIDE DEF t
  <2>7. Totals(t, chunks, n + 1)
    BY <2>5, <2>6 DEF Totals
  <2> QED  BY <2>7
<1>3. S = Nat
  <2> HIDE DEF S
  <2>1. S \in SUBSET Nat
    BY DEF S
  <2> QED  BY <1>1, <1>2, <2>1, Induction
<1>4. L \in S /\ L <= L
  <2>1. L \in Nat
    OBVIOUS
  <2> HIDE DEF S, L
  <2> QED  BY <1>3, <2>1
<1>5. QED  BY <1>4

LEMMA TotalsUnique ==
  ASSUME NEW chunks, NEW more, NEW n \in Nat, NEW m \in Nat, n <= m,
         \A k \in 1..n : more[k] = chunks[k],
         NEW t, Totals(t, chunks, n), NEW u, Totals(u, more, m)
  PROVE  t[n] = u[n]
<1> DEFINE S == {k \in Nat : k <= n => t[k] = u[k]}
<1>1. 0 \in S
  BY DEF Totals
<1>2. ASSUME NEW k \in S PROVE k + 1 \in S
  <2>1. SUFFICES ASSUME k + 1 <= n PROVE t[k + 1] = u[k + 1]
    OBVIOUS
  <2>2. t[k] = u[k] /\ k + 1 \in 1..n /\ k + 1 \in 1..m /\ (k + 1) - 1 = k
    BY <2>1
  <2>3. t[k + 1] = t[k] + chunks[k + 1].entry_count /\ u[k + 1] = u[k] + more[k + 1].entry_count
    BY <2>2 DEF Totals
  <2> QED  BY <2>2, <2>3
<1>3. S = Nat
  <2> HIDE DEF S
  <2>1. S \in SUBSET Nat
    BY DEF S
  <2> QED  BY <1>1, <1>2, <2>1, Induction
<1>4. QED  BY <1>3

LEMMA EntriesInIs ==
  ASSUME NEW chunks \in Seq(ChunkEntries)
  PROVE  \E t : Totals(t, chunks, Len(chunks)) /\ EntriesIn(chunks) = t[Len(chunks)]
<1> DEFINE L == Len(chunks)
           upto[k \in 0..L] == IF k = 0 THEN 0 ELSE upto[k - 1] + chunks[k].entry_count
<1>1. PICK t : Totals(t, chunks, L)
  BY TotalsExist
<1>2. t = [k \in 0..L |-> IF k = 0 THEN 0 ELSE t[k - 1] + chunks[k].entry_count]
  BY <1>1 DEF Totals
<1>3. upto = [k \in 0..L |-> IF k = 0 THEN 0 ELSE upto[k - 1] + chunks[k].entry_count]
  BY <1>2
<1>4. L \in Nat /\ \A k \in 1..L : chunks[k].entry_count \in Nat
  BY CountsTyped
<1>5. upto[0] = 0 /\ DOMAIN upto = 0..L /\ \A k \in 1..L : upto[k] = upto[k - 1] + chunks[k].entry_count
  <2> HIDE DEF upto
  <2> QED  BY <1>3, <1>4
<1>6. upto \in [0..L -> Nat]
  <2> HIDE DEF upto
  <2> DEFINE S == {k \in Nat : k <= L => upto[k] \in Nat}
  <2>1. 0 \in S
    BY <1>5
  <2>2. ASSUME NEW k \in S PROVE k + 1 \in S
    <3>1. SUFFICES ASSUME k + 1 <= L PROVE upto[k + 1] \in Nat
      OBVIOUS
    <3>2. k + 1 \in 1..L /\ (k + 1) - 1 = k /\ upto[k] \in Nat
      BY <1>4, <3>1
    <3> QED  BY <1>4, <1>5, <3>2
  <2>3. S = Nat
    <3> HIDE DEF S
    <3>1. S \in SUBSET Nat
      BY DEF S
    <3> QED  BY <2>1, <2>2, <3>1, Induction
  <2>4. ASSUME NEW k \in 0..L PROVE upto[k] \in Nat
    <3>1. k \in Nat /\ k <= L
      BY <1>4
    <3> QED  BY <2>3, <3>1
  <2>5. upto = [k \in 0..L |-> upto[k]]
    BY <1>3
  <2> QED  BY <2>4, <2>5
<1>7. Totals(upto, chunks, L)
  BY <1>5, <1>6 DEF Totals
<1>8. EntriesIn(chunks) = upto[L]
  BY DEF EntriesIn
<1>9. QED  BY <1>7, <1>8

LEMMA EntriesInAdds ==
  ASSUME NEW chunks \in Seq(ChunkEntries), NEW e \in ChunkEntries
  PROVE  /\ EntriesIn(Append(chunks, e)) = EntriesIn(chunks) + e.entry_count
         /\ EntriesIn(chunks) \in Nat /\ EntriesIn(<<>>) = 0
<1> DEFINE more == Append(chunks, e)
           L == Len(chunks)
<1>1. more \in Seq(ChunkEntries) /\ Len(more) = L + 1 /\ more[L + 1] = e /\ L \in Nat
      /\ \A k \in 1..L : more[k] = chunks[k]
  OBVIOUS
<1> HIDE DEF more
<1>2. PICK t : Totals(t, chunks, L) /\ EntriesIn(chunks) = t[L]
  BY EntriesInIs
<1>3. PICK u : Totals(u, more, L + 1) /\ EntriesIn(more) = u[L + 1]
  BY <1>1, EntriesInIs
<1>4. t[L] = u[L]
  <2>1. L + 1 \in Nat /\ L <= L + 1
    BY <1>1
  <2>2. Totals(t, chunks, L) /\ Totals(u, more, L + 1)
    BY <1>2, <1>3
  <2> HIDE DEF L
  <2> QED  BY <1>1, <2>1, <2>2, TotalsUnique
<1>5. u[L + 1] = u[L] + e.entry_count
  <2>1. L + 1 \in 1..L + 1 /\ (L + 1) - 1 = L
    BY <1>1
  <2> QED  BY <1>1, <1>3, <2>1 DEF Totals
<1>6. t[L] \in Nat
  BY <1>1, <1>2 DEF Totals
<1>7. EntriesIn(<<>>) = 0
  <2>1. <<>> \in Seq(ChunkEntries) /\ Len(<<>>) = 0
    OBVIOUS
  <2>2. PICK z : Totals(z, <<>>, 0) /\ EntriesIn(<<>>) = z[0]
    BY <2>1, EntriesInIs
  <2> QED  BY <2>2 DEF Totals
<1>8. QED  BY <1>2, <1>3, <1>4, <1>5, <1>6, <1>7 DEF more

-----------------------------------------------------------------------------
(***************************************************************************)
(* The file describes itself, whatever fails. RecordsIndexed says nothing  *)
(* of how the writer got there, so it is taken apart by the records one    *)
(* adds: a chunk or a snapshot with its index entry, or one of no index.   *)
(***************************************************************************)

\* File f is indexed by ci and si (RecordsIndexed of any file and indexes).
Indexed(f, ci, si) ==
  /\ \A k \in 1..Len(ci) :
       /\ ci[k].offset \in 1..Len(f)
       /\ f[ci[k].offset].kind = "chunk"
       /\ f[ci[k].offset].entry_count = ci[k].entry_count
  /\ \A s \in 1..Len(si) :
       /\ si[s].offset \in 1..Len(f)
       /\ f[si[s].offset].kind = "snapshot"
       /\ f[si[s].offset].entry_index = si[s].entry_index
       /\ f[si[s].offset].tag = si[s].snapshot_type
  /\ \A p \in 1..Len(f) :
       /\ f[p].kind = "chunk" => \E k \in 1..Len(ci) : ci[k].offset = p
       /\ f[p].kind = "snapshot" => \E s \in 1..Len(si) : si[s].offset = p
  /\ \A j, k \in 1..Len(ci) : j < k => ci[j].offset < ci[k].offset
  /\ \A s, t \in 1..Len(si) :
       s < t => si[s].offset < si[t].offset /\ si[s].entry_index <= si[t].entry_index

LEMMA PlainAdded ==
  ASSUME NEW f \in Seq(RecordTypes), NEW ci, NEW si, Indexed(f, ci, si),
         NEW r \in RecordTypes, r.kind \notin {"chunk", "snapshot"}
  PROVE  Indexed(Append(f, r), ci, si)
<1> DEFINE g == Append(f, r)
<1>1. /\ Len(f) \in Nat /\ Len(g) = Len(f) + 1 /\ g[Len(f) + 1] = r
      /\ \A p \in 1..Len(f) : g[p] = f[p]
  OBVIOUS
<1> HIDE DEF g
<1>2. \A p \in 1..Len(g) : p \in 1..Len(f) \/ g[p] = r
  BY <1>1
<1>3. \A p \in 1..Len(f) : p \in 1..Len(g)
  BY <1>1
<1>4. QED  BY <1>1, <1>2, <1>3 DEF Indexed, g

LEMMA ChunkAddedIndexed ==
  ASSUME NEW f \in Seq(RecordTypes), NEW ci \in Seq(ChunkEntries), NEW si, Indexed(f, ci, si),
         NEW r \in RecordTypes, r.kind = "chunk",
         NEW e \in ChunkEntries, e.offset = Len(f) + 1, e.entry_count = r.entry_count
  PROVE  Indexed(Append(f, r), Append(ci, e), si)
<1> DEFINE g == Append(f, r)
           cj == Append(ci, e)
           L == Len(ci)
<1>1. /\ Len(f) \in Nat /\ Len(g) = Len(f) + 1 /\ g[Len(f) + 1] = r
      /\ \A p \in 1..Len(f) : g[p] = f[p]
  OBVIOUS
<1>2. /\ L \in Nat /\ Len(cj) = L + 1 /\ cj[L + 1] = e
      /\ \A k \in 1..L : cj[k] = ci[k]
  OBVIOUS
<1> HIDE DEF g, cj, L
<1>3. \A p \in 1..Len(g) : p \in 1..Len(f) \/ p = Len(f) + 1
  BY <1>1
<1>4. \A k \in 1..Len(cj) : k \in 1..L \/ k = L + 1
  BY <1>2
<1>5. /\ \A p \in 1..Len(f) : p \in 1..Len(g) /\ p < Len(f) + 1
      /\ Len(f) + 1 \in 1..Len(g)
      /\ \A k \in 1..L : k \in 1..Len(cj) /\ ~(L + 1 < k)
      /\ L + 1 \in 1..Len(cj) /\ ~(L + 1 < L + 1)
  BY <1>1, <1>2
<1>6. ASSUME NEW k \in 1..Len(cj)
      PROVE  /\ cj[k].offset \in 1..Len(g)
             /\ g[cj[k].offset].kind = "chunk"
             /\ g[cj[k].offset].entry_count = cj[k].entry_count
  <2>1. CASE k = L + 1
    BY <1>1, <1>2, <1>5, <2>1
  <2>2. CASE k \in 1..L
    <3>1. /\ ci[k].offset \in 1..Len(f) /\ f[ci[k].offset].kind = "chunk"
          /\ f[ci[k].offset].entry_count = ci[k].entry_count
      BY <2>2 DEF Indexed, L
    <3> QED  BY <1>1, <1>2, <1>5, <2>2, <3>1
  <2> QED  BY <1>4, <2>1, <2>2
<1>7. \A s \in 1..Len(si) :
        /\ si[s].offset \in 1..Len(g)
        /\ g[si[s].offset].kind = "snapshot"
        /\ g[si[s].offset].entry_index = si[s].entry_index
        /\ g[si[s].offset].tag = si[s].snapshot_type
  BY <1>1, <1>5 DEF Indexed
<1>8. ASSUME NEW p \in 1..Len(g)
      PROVE  /\ g[p].kind = "chunk" => \E k \in 1..Len(cj) : cj[k].offset = p
             /\ g[p].kind = "snapshot" => \E s \in 1..Len(si) : si[s].offset = p
  <2>1. CASE p = Len(f) + 1
    BY <1>1, <1>2, <1>5, <2>1
  <2>2. CASE p \in 1..Len(f)
    <3>1. g[p] = f[p]
      BY <1>1, <2>2
    <3>2. ASSUME f[p].kind = "chunk" PROVE \E k \in 1..Len(cj) : cj[k].offset = p
      <4>1. PICK k \in 1..L : ci[k].offset = p
        BY <2>2, <3>2 DEF Indexed, L
      <4> QED  BY <1>2, <1>5, <4>1
    <3>3. f[p].kind = "snapshot" => \E s \in 1..Len(si) : si[s].offset = p
      BY <2>2 DEF Indexed
    <3> QED  BY <3>1, <3>2, <3>3
  <2> QED  BY <1>3, <2>1, <2>2
<1>9. ASSUME NEW j \in 1..Len(cj), NEW k \in 1..Len(cj), j < k
      PROVE  cj[j].offset < cj[k].offset
  <2>1. j \in 1..L
    BY <1>2, <1>9
  <2>2. CASE k = L + 1
    BY <1>1, <1>2, <1>5, <2>1, <2>2 DEF Indexed, L
  <2>3. CASE k \in 1..L
    BY <1>2, <1>9, <2>1, <2>3 DEF Indexed, L
  <2> QED  BY <1>4, <2>2, <2>3
<1>10. QED  BY <1>6, <1>7, <1>8, <1>9 DEF Indexed, g, cj

LEMMA SnapshotAddedIndexed ==
  ASSUME NEW f \in Seq(RecordTypes), NEW ci, NEW si \in Seq(SnapshotEntries), Indexed(f, ci, si),
         NEW r \in RecordTypes, r.kind = "snapshot",
         NEW e \in SnapshotEntries, e.offset = Len(f) + 1, e.entry_index = r.entry_index,
         e.snapshot_type = r.tag,
         \A s \in 1..Len(si) : si[s].entry_index <= e.entry_index
  PROVE  Indexed(Append(f, r), ci, Append(si, e))
<1> DEFINE g == Append(f, r)
           sj == Append(si, e)
           L == Len(si)
<1>1. /\ Len(f) \in Nat /\ Len(g) = Len(f) + 1 /\ g[Len(f) + 1] = r
      /\ \A p \in 1..Len(f) : g[p] = f[p]
  OBVIOUS
<1>2. /\ L \in Nat /\ Len(sj) = L + 1 /\ sj[L + 1] = e
      /\ \A s \in 1..L : sj[s] = si[s]
  OBVIOUS
<1> HIDE DEF g, sj, L
<1>3. \A p \in 1..Len(g) : p \in 1..Len(f) \/ p = Len(f) + 1
  BY <1>1
<1>4. \A s \in 1..Len(sj) : s \in 1..L \/ s = L + 1
  BY <1>2
<1>5. /\ \A p \in 1..Len(f) : p \in 1..Len(g) /\ p < Len(f) + 1
      /\ Len(f) + 1 \in 1..Len(g)
      /\ \A s \in 1..L : s \in 1..Len(sj) /\ ~(L + 1 < s)
      /\ L + 1 \in 1..Len(sj) /\ ~(L + 1 < L + 1)
  BY <1>1, <1>2
<1>6. \A s \in 1..Len(sj) :
        /\ sj[s].offset \in 1..Len(g)
        /\ g[sj[s].offset].kind = "snapshot"
        /\ g[sj[s].offset].entry_index = sj[s].entry_index
        /\ g[sj[s].offset].tag = sj[s].snapshot_type
  BY <1>1, <1>2, <1>4, <1>5 DEF Indexed, L
<1>7. \A k \in 1..Len(ci) :
        /\ ci[k].offset \in 1..Len(g)
        /\ g[ci[k].offset].kind = "chunk"
        /\ g[ci[k].offset].entry_count = ci[k].entry_count
  BY <1>1, <1>5 DEF Indexed
<1>8. ASSUME NEW p \in 1..Len(g)
      PROVE  /\ g[p].kind = "chunk" => \E k \in 1..Len(ci) : ci[k].offset = p
             /\ g[p].kind = "snapshot" => \E s \in 1..Len(sj) : sj[s].offset = p
  <2>1. CASE p = Len(f) + 1
    BY <1>1, <1>2, <1>5, <2>1
  <2>2. CASE p \in 1..Len(f)
    <3>1. g[p] = f[p]
      BY <1>1, <2>2
    <3>2. ASSUME f[p].kind = "snapshot" PROVE \E s \in 1..Len(sj) : sj[s].offset = p
      <4>1. PICK s \in 1..L : si[s].offset = p
        BY <2>2, <3>2 DEF Indexed, L
      <4> QED  BY <1>2, <1>5, <4>1
    <3>3. f[p].kind = "chunk" => \E k \in 1..Len(ci) : ci[k].offset = p
      BY <2>2 DEF Indexed
    <3> QED  BY <3>1, <3>2, <3>3
  <2> QED  BY <1>3, <2>1, <2>2
<1>9. ASSUME NEW s \in 1..Len(sj), NEW t \in 1..Len(sj), s < t
      PROVE  sj[s].offset < sj[t].offset /\ sj[s].entry_index <= sj[t].entry_index
  <2>1. s \in 1..L
    BY <1>2, <1>9
  <2>2. CASE t = L + 1
    BY <1>1, <1>2, <1>5, <2>1, <2>2 DEF Indexed, L
  <2>3. CASE t \in 1..L
    BY <1>2, <1>9, <2>1, <2>3, SMTT(30) DEF Indexed, L
  <2> QED  BY <1>4, <2>2, <2>3
<1>10. \A j, k \in 1..Len(ci) : j < k => ci[j].offset < ci[k].offset
  BY DEF Indexed
<1>11. QED  BY <1>6, <1>7, <1>8, <1>9, <1>10 DEF Indexed, g, sj

\* What FileConsistent leaves open: no row is uncounted, and snapshots are of
\* entries finished.
FileInv ==
  /\ IInv /\ FileConsistent
  /\ total_entries = Len(rows)
  /\ \A s \in 1..Len(snapshot_index) : snapshot_index[s].entry_index <= total_entries

LEMMA IndexedIs ==
  RecordsIndexed <=> (phase # "abandoned" => Indexed(file, chunk_index, snapshot_index))
BY DEF RecordsIndexed, Indexed

LEMMA IndexedIsNext ==
  (RecordsIndexed <=> (phase # "abandoned" => Indexed(file, chunk_index, snapshot_index)))'
BY IndexedIs, PTL

LEMMA AppendTwo ==
  ASSUME NEW f \in Seq(RecordTypes), NEW r \in RecordTypes, NEW q \in RecordTypes
  PROVE  f \o <<r, q>> = Append(Append(f, r), q)
<1> DEFINE g == f \o <<r, q>>
           h == Append(Append(f, r), q)
<1>1. g \in Seq(RecordTypes) /\ h \in Seq(RecordTypes)
  OBVIOUS
<1>2. Len(g) = Len(h) /\ \A p \in 1..Len(g) : g[p] = h[p]
  OBVIOUS
<1>3. QED  BY <1>1, <1>2, SeqEqual

\* The records and index entries the writer makes, and that they match.
LEMMA RecordsMatch ==
  ASSUME TypeOK, NEW n \in Nat, NEW tag \in Tags, NEW payload \in Payloads \cup {NoPayload}
  PROVE  /\ ChunkRecord(n).kind = "chunk" /\ ChunkIndexEntry(n).offset = Len(file) + 1
         /\ ChunkRecord(n).entry_count = n /\ ChunkIndexEntry(n).entry_count = n
         /\ SnapshotRecord(tag, payload).kind = "snapshot" /\ SnapshotRecord(tag, payload).tag = tag
         /\ SnapshotRecord(tag, payload).entry_index = total_entries
         /\ SnapshotIndexEntry(tag).offset = Len(file) + 1
         /\ SnapshotIndexEntry(tag).entry_index = total_entries
         /\ SnapshotIndexEntry(tag).snapshot_type = tag
         /\ Torn.kind = "torn"
         /\ \A chunks : FooterRecord(chunks, snapshot_index).kind = "footer"
BY DEF ChunkRecord, ChunkIndexEntry, SnapshotRecord, SnapshotIndexEntry, Torn, FooterRecord, NextOffset

\* A flush, however it ends, leaves the file indexed and the counts whole.
LEMMA FlushConsistent ==
  ASSUME TypeOK, NEW n \in Nat, Indexed(file, chunk_index, snapshot_index),
         FlushOk(n) \/ FlushRejected(n) \/ FlushTorn(n) \/ FlushUnplaced(n), UNCHANGED snapshot_index
  PROVE  /\ Indexed(file', chunk_index', snapshot_index')
         /\ entries_in_chunk' + EntriesIn(chunk_index') = EntriesIn(chunk_index) + n
<1>1. file \in Seq(RecordTypes) /\ chunk_index \in Seq(ChunkEntries) /\ EntriesIn(chunk_index) \in Nat
  BY EntriesInAdds, RecordsTyped DEF TypeOK
<1>2. CASE FlushOk(n)
  <2>1. /\ file' = Append(file, ChunkRecord(n)) /\ chunk_index' = Append(chunk_index, ChunkIndexEntry(n))
        /\ entries_in_chunk' = 0
    BY <1>2 DEF FlushOk
  <2>2. /\ ChunkRecord(n) \in RecordTypes /\ ChunkIndexEntry(n) \in ChunkEntries
        /\ ChunkRecord(n).kind = "chunk" /\ ChunkIndexEntry(n).offset = Len(file) + 1
        /\ ChunkIndexEntry(n).entry_count = ChunkRecord(n).entry_count
        /\ ChunkIndexEntry(n).entry_count = n
    BY RecordsTyped, RecordsMatch
       DEF ChunkRecord, ChunkIndexEntry, NextOffset
  <2>3. Indexed(Append(file, ChunkRecord(n)), Append(chunk_index, ChunkIndexEntry(n)), snapshot_index)
    BY <1>1, <2>2, ChunkAddedIndexed
  <2>4. EntriesIn(Append(chunk_index, ChunkIndexEntry(n))) = EntriesIn(chunk_index) + n
    BY <1>1, <2>2, EntriesInAdds
  <2> QED  BY <1>1, <2>1, <2>3, <2>4
<1>3. CASE FlushRejected(n)
  BY <1>1, <1>3 DEF FlushRejected
<1>4. CASE FlushTorn(n)
  <2>1. Torn \in RecordTypes /\ Torn.kind \notin {"chunk", "snapshot"}
    BY TornTyped DEF Torn
  <2> QED  BY <1>1, <1>4, <2>1, PlainAdded DEF FlushTorn
<1>5. CASE FlushUnplaced(n)
  BY <1>1, <1>5 DEF FlushUnplaced
<1>6. QED  BY <1>2, <1>3, <1>4, <1>5

LEMMA OpenIndexed ==
  ASSUME FileInv, phase = "open"
  PROVE  /\ TypeOK /\ IInv /\ Indexed(file, chunk_index, snapshot_index)
         /\ entries_in_chunk + EntriesIn(chunk_index) = total_entries
         /\ total_entries = Len(rows) /\ total_entries \in Nat /\ entries_in_chunk \in Nat
         /\ EntriesIn(chunk_index) \in Nat
         /\ \A s \in 1..Len(snapshot_index) : snapshot_index[s].entry_index <= total_entries
         /\ file \in Seq(RecordTypes) /\ chunk_index \in Seq(ChunkEntries)
         /\ snapshot_index \in Seq(SnapshotEntries)
<1>1. TypeOK /\ IInv /\ RecordsIndexed /\ CountsAddUp /\ total_entries = Len(rows)
      /\ \A s \in 1..Len(snapshot_index) : snapshot_index[s].entry_index <= total_entries
  BY DEF FileInv, IInv, FileConsistent, IndexesMatchFile
<1>2. chunk_index \in Seq(ChunkEntries)
  BY <1>1 DEF TypeOK
<1>3. EntriesIn(chunk_index) \in Nat
  <2>1. ChunkIndexEntry(0) \in ChunkEntries
    BY <1>1, RecordsTyped
  <2> QED  BY <1>2, <2>1, EntriesInAdds
<1>4. QED  BY <1>1, <1>2, <1>3, IndexedIs DEF TypeOK, CountsAddUp

\* Behind a chunk that was added come no entries yet, and no snapshot.
LEMMA ChunkBetween ==
  ASSUME FileInv, phase = "open", Sound, IInv', Sound', NEW n \in Nat,
         chunk_index' = Append(chunk_index, ChunkIndexEntry(n)),
         entries_in_chunk' = 0, total_entries' \in Nat, total_entries <= total_entries',
         UNCHANGED snapshot_index
  PROVE  SnapshotsBetweenChunks'
<1>0. PICK L \in Nat : L = Len(chunk_index)
  <2>1. chunk_index \in Seq(ChunkEntries)
    BY OpenIndexed
  <2> QED  BY <2>1
<1>1. /\ file \in Seq(RecordTypes) /\ chunk_index \in Seq(ChunkEntries)
      /\ snapshot_index \in Seq(SnapshotEntries)
      /\ Indexed(file, chunk_index, snapshot_index) /\ total_entries \in Nat
      /\ \A s \in 1..Len(snapshot_index) : snapshot_index[s].entry_index <= total_entries
  BY OpenIndexed
<1>2. Len(chunk_index') = L + 1 /\ chunk_index'[L + 1] = ChunkIndexEntry(n)
      /\ (\A k \in 1..L : chunk_index'[k] = chunk_index[k]) /\ chunk_index' # <<>>
  BY <1>0, <1>1
<1>3. total_entries' = (EntriesInChunks + entries_in_chunk)'
  BY DEF IInv, ChunksFill
<1>4. EntriesInChunks' = (L + 1 - 1) * ChunkSize + n
  BY <1>0, <1>2 DEF EntriesInChunks, ChunkEnd, ChunkStart, ChunkIndexEntry
<1>5. /\ \A k \in Nat : k = L + 1 => ChunkEnd(k)' = (L + 1 - 1) * ChunkSize + n
      /\ \A k \in 1..L : ChunkEnd(k)' = ChunkEnd(k)
  <2>1. chunk_index'[L + 1].entry_count = n
    BY <1>2 DEF ChunkIndexEntry
  <2>2. ASSUME NEW k \in Nat, k = L + 1 PROVE ChunkEnd(k)' = (L + 1 - 1) * ChunkSize + n
    <3>1. ChunkEnd(k)' = (k - 1) * ChunkSize + chunk_index'[k].entry_count
      BY DEF ChunkEnd, ChunkStart
    <3>2. chunk_index'[k].entry_count = n
      BY <2>1, <2>2
    <3> QED  BY <2>2, <3>1, <3>2
  <2>3. \A k \in 1..L : ChunkEnd(k)' = ChunkEnd(k)
    BY <1>2 DEF ChunkEnd, ChunkStart
  <2> QED  BY <2>2, <2>3
<1>6. (L + 1 - 1) * ChunkSize + n \in Nat
  BY <1>2, ChunkSizeAssumption
<1>7. \A k \in Nat : k = L + 1 => ChunkEnd(k)' = total_entries'
  BY <1>3, <1>4, <1>5, <1>6
<1>8. ASSUME NEW s \in 1..Len(snapshot_index), NEW k \in 1..L + 1
      PROVE  IF chunk_index'[k].offset < snapshot_index[s].offset
             THEN ChunkEnd(k)' <= snapshot_index[s].entry_index
             ELSE snapshot_index[s].entry_index <= ChunkEnd(k)'
  <2>1. CASE k = L + 1
    <3>1. chunk_index'[k].offset = Len(file) + 1 /\ Len(file) \in Nat
      BY <1>0, <1>1, <1>2, <2>1 DEF ChunkIndexEntry, NextOffset
    <3>2. snapshot_index[s].offset \in 1..Len(file)
      BY <1>1 DEF Indexed
    <3>3. snapshot_index[s].entry_index \in Nat /\ snapshot_index[s].entry_index <= total_entries
      <4>1. snapshot_index[s] \in SnapshotEntries
        BY <1>1
      <4> QED  BY <1>1, <4>1 DEF SnapshotEntries
    <3>4. total_entries \in Nat /\ total_entries <= total_entries' /\ ChunkEnd(k)' = total_entries'
      BY <1>1, <1>7, <2>1
    <3>5. ~(chunk_index'[k].offset < snapshot_index[s].offset)
      BY <3>1, <3>2
    <3> QED  BY <3>3, <3>4, <3>5
  <2>2. CASE k \in 1..L
    <3>1. SnapshotsBetweenChunks
      BY DEF FileInv, FileConsistent, IndexesMatchFile
    <3> QED  BY <1>0, <1>2, <1>5, <2>2, <3>1 DEF SnapshotsBetweenChunks
  <2> QED  BY <1>2, <2>1, <2>2
<1>9. QED  BY <1>2, <1>8 DEF SnapshotsBetweenChunks

LEMMA SnapshotBetween ==
  ASSUME FileInv, phase = "open", Sound, NEW tag \in Tags, NEW payload \in Payloads \cup {NoPayload},
         WriteSnapshot(tag, payload)
  PROVE  SnapshotsBetweenChunks'
<1> DEFINE S == Len(snapshot_index)
<1>1. /\ file \in Seq(RecordTypes) /\ chunk_index \in Seq(ChunkEntries)
      /\ snapshot_index \in Seq(SnapshotEntries) /\ IInv
      /\ Indexed(file, chunk_index, snapshot_index) /\ total_entries \in Nat
      /\ total_entries = Len(rows)
  BY OpenIndexed
<1>2. /\ snapshot_index' = Append(snapshot_index, SnapshotIndexEntry(tag))
      /\ UNCHANGED chunk_index
  BY DEF WriteSnapshot
<1>3. S \in Nat /\ Len(snapshot_index') = S + 1 /\ snapshot_index'[S + 1] = SnapshotIndexEntry(tag)
      /\ (\A s \in 1..S : snapshot_index'[s] = snapshot_index[s])
  BY <1>1, <1>2
<1>4. \A k \in 1..Len(chunk_index) : ChunkEnd(k)' = ChunkEnd(k)
  BY <1>2 DEF ChunkEnd, ChunkStart
<1>5. ASSUME NEW s \in 1..S + 1, NEW k \in 1..Len(chunk_index)
      PROVE  IF chunk_index[k].offset < snapshot_index'[s].offset
             THEN ChunkEnd(k) <= snapshot_index'[s].entry_index
             ELSE snapshot_index'[s].entry_index <= ChunkEnd(k)
  <2>1. CASE s = S + 1
    <3>1. snapshot_index'[s].offset = Len(file) + 1 /\ snapshot_index'[s].entry_index = total_entries
          /\ Len(file) \in Nat
      BY <1>1, <1>3, <2>1 DEF SnapshotIndexEntry, NextOffset
    <3>2. chunk_index[k].offset \in 1..Len(file)
      BY <1>1 DEF Indexed
    <3>3. ChunkEnd(k) <= total_entries
      BY <1>1, RowsOfChunks
    <3> QED  BY <3>1, <3>2, <3>3
  <2>2. CASE s \in 1..S
    <3>1. SnapshotsBetweenChunks
      BY DEF FileInv, FileConsistent, IndexesMatchFile
    <3> QED  BY <1>3, <2>2, <3>1 DEF SnapshotsBetweenChunks
  <2> QED  BY <1>3, <2>1, <2>2
<1>6. QED  BY <1>2, <1>3, <1>4, <1>5 DEF SnapshotsBetweenChunks

\* Nothing of the file, its indexes and counts changes.
LEMMA SameFile ==
  ASSUME FileInv, IInv', phase' \in {phase, "abandoned"}, Sound' => Sound,
         UNCHANGED <<entries_in_chunk, total_entries, chunk_index, snapshot_index, rows>>,
         phase' # "abandoned" => UNCHANGED file
  PROVE  FileInv'
<1>1. /\ RecordsIndexed' /\ FooterComplete' /\ CountsAddUp'
  <2>1. CASE phase' = "abandoned"
    BY <2>1 DEF RecordsIndexed, FooterComplete, CountsAddUp
  <2>2. CASE phase' # "abandoned"
    <3>1. phase' = phase /\ UNCHANGED file /\ RecordsIndexed /\ FooterComplete /\ CountsAddUp
      BY <2>2 DEF FileInv, FileConsistent, IndexesMatchFile
    <3>2. RecordsIndexed'
      BY <2>2, <3>1 DEF RecordsIndexed
    <3>3. FooterComplete'
      BY <2>2, <3>1 DEF FooterComplete, FooterRecord
    <3>4. CountsAddUp'
      BY <2>2, <3>1 DEF CountsAddUp
    <3> QED  BY <3>2, <3>3, <3>4
  <2> QED  BY <2>1, <2>2
<1>2. SnapshotsBetweenChunks'
  <2>1. SnapshotsBetweenChunks
    BY DEF FileInv, FileConsistent, IndexesMatchFile
  <2> QED  BY <2>1 DEF SnapshotsBetweenChunks, ChunkEnd, ChunkStart
<1>3. QED  BY <1>1, <1>2 DEF FileInv, FileConsistent, IndexesMatchFile

LEMMA FinishEntryConsistent ==
  ASSUME FileInv, IInv', FinishEntry
  PROVE  FileInv'
<1>1. /\ phase = "open" /\ phase' = "open" /\ UNCHANGED snapshot_index
      /\ total_entries' = total_entries + 1 /\ rows' = Append(rows, row)
  BY DEF FinishEntry
<1>0. PICK n \in Nat : n = entries_in_chunk + 1
  <2>1. entries_in_chunk \in Nat
    BY <1>1, OpenIndexed
  <2> QED  BY <2>1
<1>2. /\ TypeOK /\ IInv /\ Indexed(file, chunk_index, snapshot_index)
      /\ entries_in_chunk + EntriesIn(chunk_index) = total_entries
      /\ total_entries = Len(rows) /\ total_entries \in Nat /\ entries_in_chunk \in Nat
      /\ EntriesIn(chunk_index) \in Nat
      /\ \A s \in 1..Len(snapshot_index) : snapshot_index[s].entry_index <= total_entries
      /\ snapshot_index \in Seq(SnapshotEntries)
  BY <1>1, OpenIndexed
<1>3. total_entries' = Len(rows)'
  BY <1>1, <1>2 DEF TypeOK
<1>4. \A s \in 1..Len(snapshot_index') : snapshot_index'[s].entry_index <= total_entries'
  <2>1. \A s \in 1..Len(snapshot_index) : snapshot_index[s].entry_index \in Nat
    <3>1. \A s \in 1..Len(snapshot_index) : snapshot_index[s] \in SnapshotEntries
      BY <1>2
    <3> QED  BY <3>1 DEF SnapshotEntries
  <2> QED  BY <1>1, <1>2, <2>1
<1>5. \/ entries_in_chunk' = n /\ UNCHANGED <<chunk_index, file>>
      \/ FlushOk(n) \/ FlushRejected(n) \/ FlushTorn(n) \/ FlushUnplaced(n)
  BY <1>0 DEF FinishEntry
<1>6. RecordsIndexed' /\ CountsAddUp'
  <2>1. CASE entries_in_chunk' = n /\ UNCHANGED <<chunk_index, file>>
    <3>1. Indexed(file, chunk_index, snapshot_index)'
      BY <1>1, <1>2, <2>1
    <3>2. EntriesIn(chunk_index)' = EntriesIn(chunk_index)
      BY <2>1
    <3>3. (entries_in_chunk + EntriesIn(chunk_index) = total_entries)'
      BY <1>0, <1>1, <1>2, <2>1, <3>2
    <3> QED  BY <3>1, <3>3, IndexedIsNext DEF CountsAddUp
  <2>2. CASE FlushOk(n) \/ FlushRejected(n) \/ FlushTorn(n) \/ FlushUnplaced(n)
    <3>0. TypeOK /\ Indexed(file, chunk_index, snapshot_index) /\ UNCHANGED snapshot_index
      BY <1>1, <1>2
    <3>1. /\ Indexed(file', chunk_index', snapshot_index')
          /\ entries_in_chunk' + EntriesIn(chunk_index') = EntriesIn(chunk_index) + n
      BY <2>2, <3>0, FlushConsistent, Zenon
    <3>2. Indexed(file, chunk_index, snapshot_index)'
      BY <3>1
    <3>3. RecordsIndexed'
      BY <3>2, IndexedIsNext
    <3>4. EntriesIn(chunk_index) + n = total_entries + 1
      <4>1. /\ entries_in_chunk + EntriesIn(chunk_index) = total_entries
            /\ entries_in_chunk \in Nat /\ EntriesIn(chunk_index) \in Nat /\ total_entries \in Nat
        BY <1>2
      <4> QED  BY <1>0, <4>1
    <3>5. (entries_in_chunk + EntriesIn(chunk_index) = total_entries)'
      BY <1>1, <3>1, <3>4, Zenon
    <3> QED  BY <3>3, <3>5 DEF CountsAddUp
  <2> QED  BY <1>5, <2>1, <2>2
<1>7. FooterComplete'
  BY <1>1 DEF FooterComplete
<1>8. ASSUME Sound' PROVE SnapshotsBetweenChunks'
  <2>1. Sound
    BY <1>8, <1>1, <1>2 DEF Sound, Intact, FinishEntry, TypeOK
  <2>2. SnapshotsBetweenChunks
    BY DEF FileInv, FileConsistent, IndexesMatchFile
  <2>3. CASE UNCHANGED chunk_index
    BY <1>1, <2>1, <2>2, <2>3 DEF SnapshotsBetweenChunks, ChunkEnd, ChunkStart
  <2>4. CASE FlushOk(n)
    <3>1. chunk_index' = Append(chunk_index, ChunkIndexEntry(n)) /\ entries_in_chunk' = 0
      BY <2>4 DEF FlushOk
    <3>2. total_entries' \in Nat /\ total_entries <= total_entries'
      BY <1>1, <1>2
    <3> QED  BY <1>1, <1>2, <1>8, <2>1, <3>1, <3>2, ChunkBetween
  <2> QED  BY <1>5, <2>3, <2>4 DEF FlushRejected, FlushTorn, FlushUnplaced
<1>9. SnapshotsBetweenChunks'
  BY <1>8 DEF SnapshotsBetweenChunks
<1>10. QED
  BY <1>3, <1>4, <1>6, <1>7, <1>9 DEF FileInv, FileConsistent, IndexesMatchFile

LEMMA SnapshotConsistent ==
  ASSUME FileInv, IInv', NEW tag \in Tags, NEW payload \in Payloads \cup {NoPayload},
         WriteSnapshot(tag, payload)
  PROVE  FileInv'
<1>1. /\ phase = "open"
      /\ file' = Append(file, SnapshotRecord(tag, payload))
      /\ snapshot_index' = Append(snapshot_index, SnapshotIndexEntry(tag))
      /\ UNCHANGED <<phase, entries_in_chunk, total_entries, chunk_index, rows, faults>>
  BY DEF WriteSnapshot
<1>2. /\ TypeOK /\ Indexed(file, chunk_index, snapshot_index)
      /\ total_entries = Len(rows) /\ total_entries \in Nat
      /\ \A s \in 1..Len(snapshot_index) : snapshot_index[s].entry_index <= total_entries
      /\ file \in Seq(RecordTypes) /\ snapshot_index \in Seq(SnapshotEntries)
      /\ entries_in_chunk + EntriesIn(chunk_index) = total_entries
  BY <1>1, OpenIndexed
<1> DEFINE r == SnapshotRecord(tag, payload)
           e == SnapshotIndexEntry(tag)
<1>3. /\ r \in RecordTypes /\ r.kind = "snapshot" /\ e \in SnapshotEntries
      /\ e.offset = Len(file) + 1 /\ e.entry_index = r.entry_index /\ e.snapshot_type = r.tag
      /\ e.entry_index = total_entries
  BY <1>2, SnapshotsTyped, RecordsMatch, 0 \in Nat
<1> HIDE DEF r, e
<1>4. Indexed(Append(file, r), chunk_index, Append(snapshot_index, e))
  BY <1>2, <1>3, SnapshotAddedIndexed
<1>5. RecordsIndexed'
  <2>1. Indexed(file, chunk_index, snapshot_index)'
    BY <1>1, <1>4 DEF r, e
  <2> QED  BY <2>1, IndexedIsNext
<1>6. \A s \in 1..Len(snapshot_index') : snapshot_index'[s].entry_index <= total_entries'
  <2>1. /\ snapshot_index' = Append(snapshot_index, e) /\ total_entries' = total_entries
    BY <1>1 DEF e
  <2>2. Len(snapshot_index) \in Nat
    BY <1>2
  <2>3. ASSUME NEW s \in 1..Len(snapshot_index) + 1 PROVE Append(snapshot_index, e)[s].entry_index <= total_entries
    <3>1. CASE s = Len(snapshot_index) + 1
      BY <1>2, <1>3, <2>2, <3>1
    <3>2. CASE s \in 1..Len(snapshot_index)
      BY <1>2, <3>2
    <3> QED  BY <2>2, <3>1, <3>2
  <2> QED  BY <1>2, <2>1, <2>3
<1>7. ASSUME Sound' PROVE SnapshotsBetweenChunks'
  <2>1. Sound
    BY <1>7, <1>1 DEF Sound, Intact
  <2> QED  BY <1>1, <2>1, SnapshotBetween
<1>8. SnapshotsBetweenChunks'
  BY <1>7 DEF SnapshotsBetweenChunks
<1>9. FooterComplete'
  BY <1>1 DEF FooterComplete
<1>10. CountsAddUp'
  BY <1>1, <1>2 DEF CountsAddUp
<1>11. QED
  BY <1>1, <1>2, <1>5, <1>6, <1>8, <1>9, <1>10 DEF FileInv, FileConsistent, IndexesMatchFile

LEMMA SnapshotTornConsistent ==
  ASSUME FileInv, IInv', WriteSnapshotTorn
  PROVE  FileInv'
<1>1. /\ phase = "open" /\ file' \in {file, Append(file, Torn)} /\ faults' = faults + 1
      /\ UNCHANGED <<phase, entries_in_chunk, total_entries, chunk_index, snapshot_index, rows>>
  BY DEF WriteSnapshotTorn
<1>2. /\ TypeOK /\ Indexed(file, chunk_index, snapshot_index) /\ file \in Seq(RecordTypes)
      /\ entries_in_chunk + EntriesIn(chunk_index) = total_entries
  BY <1>1, OpenIndexed
<1>3. Torn \in RecordTypes /\ Torn.kind \notin {"chunk", "snapshot"}
  BY TornTyped DEF Torn
<1>4. Indexed(file', chunk_index, snapshot_index)
  <2>1. Indexed(Append(file, Torn), chunk_index, snapshot_index)
    BY <1>2, <1>3, PlainAdded
  <2> QED  BY <1>1, <1>2, <2>1
<1>5. RecordsIndexed'
  <2>1. Indexed(file, chunk_index, snapshot_index)'
    BY <1>1, <1>4
  <2> QED  BY <2>1, IndexedIsNext
<1>6. ~Sound'
  BY <1>1, <1>2 DEF Sound, Intact, TypeOK
<1>7. SnapshotsBetweenChunks'
  BY <1>6 DEF SnapshotsBetweenChunks
<1>8. FooterComplete' /\ CountsAddUp'
  BY <1>1, <1>2 DEF FooterComplete, CountsAddUp
<1>9. QED
  BY <1>1, <1>5, <1>7, <1>8 DEF FileInv, FileConsistent, IndexesMatchFile

LEMMA FinishConsistent ==
  ASSUME FileInv, IInv', FinishOk
  PROVE  FileInv'
<1>1. /\ phase = "open" /\ phase' = "finished" /\ (FinishFlushed \/ FinishLastChunk)
      /\ UNCHANGED <<total_entries, snapshot_index, row, rows, faults>>
  BY DEF FinishOk
<1>2. /\ TypeOK /\ IInv /\ Indexed(file, chunk_index, snapshot_index)
      /\ entries_in_chunk + EntriesIn(chunk_index) = total_entries
      /\ total_entries = Len(rows) /\ total_entries \in Nat /\ entries_in_chunk \in Nat
      /\ EntriesIn(chunk_index) \in Nat
      /\ file \in Seq(RecordTypes) /\ chunk_index \in Seq(ChunkEntries)
  BY <1>1, OpenIndexed
<1> DEFINE n == entries_in_chunk
           last == FooterRecord(chunk_index', snapshot_index)
<1>3. chunk_index' \in Seq(ChunkEntries)
  BY DEF IInv, TypeOK
<1>4. /\ last \in RecordTypes /\ last.kind = "footer" /\ last.total = total_entries
      /\ last = FooterRecord(chunk_index, snapshot_index)'
  BY <1>1, <1>2, <1>3, FooterTyped DEF FooterRecord
<1>5. CASE FinishFlushed
  <2>1. entries_in_chunk = 0 /\ file' = Append(file, last) /\ UNCHANGED <<entries_in_chunk, chunk_index>>
    BY <1>5 DEF FinishFlushed
  <2> HIDE DEF last
  <2>2. Indexed(Append(file, last), chunk_index, snapshot_index)
    BY <1>2, <1>4, PlainAdded
  <2>3. RecordsIndexed'
    <3>1. Indexed(file, chunk_index, snapshot_index)'
      BY <1>1, <2>1, <2>2
    <3> QED  BY <3>1, IndexedIsNext
  <2>4. FooterComplete'
    <3>1. file'[Len(file')] = last
      BY <1>2, <2>1
    <3> QED  BY <1>1, <1>2, <1>4, <2>1, <3>1 DEF FooterComplete
  <2>5. CountsAddUp'
    BY <1>1, <1>2, <2>1 DEF CountsAddUp
  <2>6. SnapshotsBetweenChunks'
    <3>1. SnapshotsBetweenChunks
      BY DEF FileInv, FileConsistent, IndexesMatchFile
    <3>2. Sound' => Sound
      BY <1>1 DEF Sound, Intact
    <3> QED  BY <1>1, <2>1, <3>1, <3>2 DEF SnapshotsBetweenChunks, ChunkEnd, ChunkStart
  <2> QED
    BY <1>1, <2>3, <2>4, <2>5, <2>6 DEF FileInv, FileConsistent, IndexesMatchFile
<1>6. CASE FinishLastChunk
  <2>1. /\ chunk_index' = Append(chunk_index, ChunkIndexEntry(n)) /\ entries_in_chunk' = 0
        /\ file' = file \o <<ChunkRecord(n), last>>
    BY <1>6 DEF FinishLastChunk
  <2> HIDE DEF last
  <2>2. /\ ChunkRecord(n) \in RecordTypes /\ ChunkIndexEntry(n) \in ChunkEntries
        /\ ChunkRecord(n).kind = "chunk" /\ ChunkIndexEntry(n).offset = Len(file) + 1
        /\ ChunkIndexEntry(n).entry_count = ChunkRecord(n).entry_count
        /\ ChunkIndexEntry(n).entry_count = n
    BY <1>2, RecordsTyped DEF ChunkRecord, ChunkIndexEntry, NextOffset
  <2>3. file' = Append(Append(file, ChunkRecord(n)), last)
    BY <1>2, <1>4, <2>1, <2>2, AppendTwo
  <2>4. Indexed(Append(file, ChunkRecord(n)), Append(chunk_index, ChunkIndexEntry(n)), snapshot_index)
    BY <1>2, <2>2, ChunkAddedIndexed
  <2>5. Append(file, ChunkRecord(n)) \in Seq(RecordTypes)
    BY <1>2, <2>2
  <2>6. Indexed(Append(Append(file, ChunkRecord(n)), last), Append(chunk_index, ChunkIndexEntry(n)),
                snapshot_index)
    BY <1>4, <2>4, <2>5, PlainAdded
  <2>7. RecordsIndexed'
    <3>1. Indexed(file, chunk_index, snapshot_index)'
      BY <1>1, <2>1, <2>3, <2>6
    <3> QED  BY <3>1, IndexedIsNext
  <2>8. FooterComplete'
    <3>1. file'[Len(file')] = last
      BY <2>3, <2>5
    <3> QED  BY <1>1, <1>2, <1>4, <2>1, <3>1 DEF FooterComplete
  <2>9. EntriesIn(chunk_index') = EntriesIn(chunk_index) + n
    BY <1>2, <2>1, <2>2, EntriesInAdds
  <2>10. CountsAddUp'
    <3>1. (entries_in_chunk + EntriesIn(chunk_index) = total_entries)'
      BY <1>1, <1>2, <2>1, <2>9
    <3> QED  BY <3>1 DEF CountsAddUp
  <2>11. ASSUME Sound' PROVE SnapshotsBetweenChunks'
    <3>1. Sound
      BY <1>1, <2>11 DEF Sound, Intact
    <3> QED  BY <1>1, <1>2, <2>1, <2>11, <3>1, ChunkBetween
  <2>12. SnapshotsBetweenChunks'
    BY <2>11 DEF SnapshotsBetweenChunks
  <2> QED
    BY <1>1, <2>7, <2>8, <2>10, <2>12 DEF FileInv, FileConsistent, IndexesMatchFile
<1>7. QED  BY <1>1, <1>5, <1>6

LEMMA FileStep ==
  ASSUME FileInv, [Next]_vars
  PROVE  FileInv'
<1>0. IInv'
  BY NextKeeps DEF FileInv
<1>1. ASSUME NEW c \in Columns, NEW v \in Stored, AppendCell(c, v) PROVE FileInv'
  <2>1. Sound' => Sound
    BY <1>1 DEF AppendCell, Sound, Intact, FileInv, IInv, TypeOK
  <2> QED  BY <1>0, <1>1, <2>1, SameFile DEF AppendCell
<1>2. ASSUME NEW c \in Columns, NEW v \in Cells, SetValue(c, v) PROVE FileInv'
  BY <1>1, <1>2 DEF SetValue, Stored
<1>3. ASSUME NEW c \in Columns, SetMistyped(c) \/ SetNull(c) PROVE FileInv'
  BY <1>1, <1>3, CellsAssumption DEF SetMistyped, SetNull, Stored
<1>4. CASE FinishEntry
  BY <1>0, <1>4, FinishEntryConsistent
<1>5. ASSUME NEW payload \in Payloads \cup {NoPayload}, MarkFrame(payload) PROVE FileInv'
  BY <1>0, <1>5, SnapshotConsistent, TagAssumption DEF MarkFrame
<1>6. ASSUME NEW payload \in Payloads \cup {NoPayload}, NEW tag \in Tags, WriteSnapshot(tag, payload)
      PROVE  FileInv'
  BY <1>0, <1>6, SnapshotConsistent
<1>7. CASE WriteSnapshotTorn
  BY <1>0, <1>7, SnapshotTornConsistent
<1>8. CASE FinishOk
  BY <1>0, <1>8, FinishConsistent
<1>9. CASE FinishRejected
  BY <1>0, <1>9, SameFile DEF FinishRejected, FlushRejected, Sound
<1>10. CASE Abandon
  BY <1>0, <1>10, SameFile DEF Abandon, Sound
<1>11. CASE UNCHANGED vars
  <2>1. Sound' => Sound
    BY <1>11 DEF vars, Sound, Intact
  <2> QED  BY <1>0, <1>11, <2>1, SameFile DEF vars
<1>12. QED
  BY <1>2, <1>3, <1>4, <1>5, <1>6, <1>7, <1>8, <1>9, <1>10, <1>11 DEF Next

LEMMA FileInit == Init => FileInv
<1> SUFFICES ASSUME Init PROVE FileInv
  OBVIOUS
<1>1. IInv
  BY InitHolds
<1>2. RecordsIndexed
  BY DEF Init, RecordsIndexed, Header
<1>3. SnapshotsBetweenChunks /\ FooterComplete
  BY DEF Init, SnapshotsBetweenChunks, FooterComplete
<1>4. CountsAddUp
  <2>1. EntriesIn(<<>>) = 0
    <3>1. [offset |-> 0, entry_count |-> 0] \in ChunkEntries /\ <<>> \in Seq(ChunkEntries)
      BY DEF ChunkEntries
    <3> QED  BY <3>1, EntriesInAdds
  <2> QED  BY <2>1 DEF Init, CountsAddUp
<1>5. QED
  BY <1>1, <1>2, <1>3, <1>4 DEF Init, FileInv, FileConsistent, IndexesMatchFile

\* Whatever is refused or torn, the indexes name the records of the file and all of
\* them, file order is entry order, the footer is complete, and the chunks' counts
\* with those waiting sum to the entries finished, for every schema and chunk size.
THEOREM WriterFileConsistent == Spec => []FileConsistent
<1>1. FileInv /\ [Next]_vars => FileInv'
  BY FileStep
<1>2. FileInv => FileConsistent
  BY DEF FileInv
<1>3. QED  BY FileInit, <1>1, <1>2, PTL DEF Spec

-----------------------------------------------------------------------------
(* Where a reader finds a row: running totals that start from 0. *)
LEMMA TotalsClimb ==
  ASSUME NEW n \in Nat, NEW t \in [0..n -> Nat], \A k \in 1..n : t[k - 1] <= t[k],
         NEW j \in 0..n, NEW m \in 0..n, j <= m
  PROVE  t[j] <= t[m]
<1> DEFINE S == {d \in Nat : j + d <= n => t[j] <= t[j + d]}
<1>1. 0 \in S
  OBVIOUS
<1>2. ASSUME NEW d \in S PROVE d + 1 \in S
  <2>1. SUFFICES ASSUME j + (d + 1) <= n PROVE t[j] <= t[j + (d + 1)]
    OBVIOUS
  <2>2. d \in Nat /\ j + (d + 1) \in 1..n /\ (j + (d + 1)) - 1 = j + d /\ j + d \in 0..n
    BY <2>1
  <2>3. t[j] <= t[j + d] /\ t[j + d] <= t[j + (d + 1)]
    BY <2>2
  <2>4. t[j] \in Nat /\ t[j + d] \in Nat /\ t[j + (d + 1)] \in Nat
    BY <2>2
  <2> QED  BY <2>3, <2>4
<1>3. S = Nat
  <2> HIDE DEF S
  <2>1. S \in SUBSET Nat
    BY DEF S
  <2> QED  BY <1>1, <1>2, <2>1, Induction
<1>4. m - j \in Nat /\ j + (m - j) = m
  OBVIOUS
<1>5. m - j \in S /\ j + (m - j) <= n
  <2> HIDE DEF S
  <2> QED  BY <1>3, <1>4
<1>6. t[j] <= t[j + (m - j)]
  BY <1>5
<1>7. QED  BY <1>4, <1>6

EndedBy(t, n, x) == {k \in 1..n : t[k] <= x}

LEMMA EndedByAgrees ==
  ASSUME NEW t, NEW u, NEW n, NEW x, \A k \in 1..n : t[k] = u[k]
  PROVE  EndedBy(t, n, x) = EndedBy(u, n, x)
BY DEF EndedBy

LEMMA Located ==
  ASSUME NEW n \in Nat, NEW t \in [0..n -> Nat], t[0] = 0,
         \A k \in 1..n : t[k - 1] <= t[k], NEW x \in Nat, x < t[n]
  PROVE  \E j \in 1..n :
           /\ Cardinality(EndedBy(t, n, x)) + 1 = j
           /\ t[j - 1] <= x /\ x < t[j]
<1> DEFINE T == {k \in 1..n : x < t[k]}
<1>1. n \in T /\ T \subseteq Nat
  <2>1. n # 0 /\ n \in 0..n
    OBVIOUS
  <2> QED  BY <2>1
<1>2. PICK j \in T : \A k \in T : ~(<<k, j>> \in Below)
  <2> HIDE DEF T
  <2> QED  BY <1>1, BelowWellFounded, WFMin, Zenon
<1>3. \A k \in T : ~(k < j)
  BY <1>1, <1>2 DEF Below
<1>4. j \in 1..n /\ x < t[j]
  OBVIOUS
<1>5. \A k \in 1..j - 1 : k \in 1..n /\ t[k] <= x
  <2> TAKE k \in 1..j - 1
  <2>1. k \in 1..n /\ k < j /\ k \in 0..n
    BY <1>4
  <2>2. k \notin T
    BY <1>3, <2>1
  <2> QED  BY <2>1, <2>2
<1>6. \A k \in 1..n : t[k] <= x => k \in 1..j - 1
  <2> TAKE k \in 1..n
  <2> HAVE t[k] <= x
  <2>1. k \in 0..n /\ j \in 0..n
    BY <1>4
  <2>2. ~(j <= k)
    <3>1. j <= k => t[j] <= t[k]
      BY <2>1, TotalsClimb
    <3>2. t[j] \in Nat /\ t[k] \in Nat
      BY <2>1
    <3> QED  BY <1>4, <3>1, <3>2
  <2> QED  BY <1>4, <2>2
<1>7. EndedBy(t, n, x) = 1..j - 1
  <2> HIDE DEF T
  <2> QED  BY <1>5, <1>6 DEF EndedBy
<1>8. Cardinality(1..j - 1) + 1 = j
  <2>1. 1 \in Int /\ j - 1 \in Int
    BY <1>4
  <2>2. Cardinality(1..j - 1) = IF 1 > j - 1 THEN 0 ELSE (j - 1) - 1 + 1
    BY <2>1, FS_Interval
  <2> QED  BY <1>4, <2>2
<1>9. t[j - 1] <= x
  <2>1. CASE j = 1
    BY <2>1
  <2>2. CASE j # 1
    <3>1. j - 1 \in 1..j - 1
      BY <1>4, <2>2
    <3> QED  BY <1>5, <3>1
  <2> QED  BY <2>1, <2>2
<1>10. QED  BY <1>4, <1>7, <1>8, <1>9

\* The reader's totals are the running totals of the counts.
LEMMA ReaderTotals ==
  ASSUME NEW chunks \in Seq(ChunkEntries)
  PROVE  \E t : /\ Totals(t, chunks, Len(chunks)) /\ EntriesIn(chunks) = t[Len(chunks)]
                /\ Reader!Totals(chunks) = [k \in 1..Len(chunks) |-> t[k]]
<1> DEFINE L == Len(chunks)
           upto[k \in 0..L] == IF k = 0 THEN 0 ELSE upto[k - 1] + chunks[k].entry_count
<1>1. PICK t : Totals(t, chunks, L) /\ EntriesIn(chunks) = t[L]
  BY EntriesInIs
<1>2. t = [k \in 0..L |-> IF k = 0 THEN 0 ELSE t[k - 1] + chunks[k].entry_count]
  BY <1>1 DEF Totals
<1>3. upto = [k \in 0..L |-> IF k = 0 THEN 0 ELSE upto[k - 1] + chunks[k].entry_count]
  BY <1>2
<1>4. L \in Nat
  OBVIOUS
<1>5. Reader!Totals(chunks) = [k \in 1..L |-> upto[k]]
  BY DEF Reader!Totals
<1>6. \A k \in 0..L : upto[k] = t[k]
  <2> HIDE DEF upto
  <2> DEFINE S == {k \in Nat : k <= L => upto[k] = t[k]}
  <2>1. 0 \in S
    BY <1>3, <1>4, <1>1 DEF Totals
  <2>2. ASSUME NEW k \in S PROVE k + 1 \in S
    <3>1. SUFFICES ASSUME k + 1 <= L PROVE upto[k + 1] = t[k + 1]
      OBVIOUS
    <3>2. k + 1 \in 1..L /\ k + 1 \in 0..L /\ k + 1 # 0 /\ (k + 1) - 1 = k /\ upto[k] = t[k]
      BY <1>4, <3>1
    <3>3. upto[k + 1] = upto[k] + chunks[k + 1].entry_count
      BY <1>3, <3>2
    <3>4. t[k + 1] = t[k] + chunks[k + 1].entry_count
      BY <1>1, <3>2 DEF Totals
    <3> QED  BY <3>2, <3>3, <3>4
  <2>3. S = Nat
    <3> HIDE DEF S
    <3>1. S \in SUBSET Nat
      BY DEF S
    <3> QED  BY <2>1, <2>2, <3>1, Induction
  <2> QED  BY <1>4, <2>3
<1> HIDE DEF upto
<1>7. [k \in 1..L |-> upto[k]] = [k \in 1..L |-> t[k]]
  BY <1>4, <1>6
<1>8. QED  BY <1>1, <1>5, <1>7

-----------------------------------------------------------------------------
(***************************************************************************)
(* The pipeline: a file has a footer only when its writer has finished.    *)
(***************************************************************************)

\* A file without a footer is of a writer that has not finished; a reader that
\* opened one has the indexes of the writer.
Footed == phase # "finished" => \A p \in 1..Len(file) : file[p].kind # "footer"

OpenedWhole ==
  opened \in {"open", "panicked"} =>
    /\ phase = "finished"
    /\ index = chunk_index /\ cumulative = Reader!Totals(chunk_index)
    /\ snapshots = snapshot_index /\ read_total = Len(rows)

PipelineInv ==
  /\ FileInv /\ Footed /\ OpenedWhole
  /\ Intact => opened # "panicked"

LEMMA FileSteps ==
  ASSUME Next
  PROVE  /\ phase = "open"
         /\ \/ phase' = "finished"
            \/ file' = file
            \/ \E r : r.kind # "footer" /\ file' = Append(file, r)
            \/ \E k \in 0..Len(file) : file' = SubSeq(file, 1, k)
<1>1. /\ \A n : ChunkRecord(n).kind # "footer" /\ Torn.kind # "footer"
      /\ \A tag, payload : SnapshotRecord(tag, payload).kind # "footer"
  BY DEF ChunkRecord, Torn, SnapshotRecord
<1>2. ASSUME NEW n, FlushOk(n) \/ FlushRejected(n) \/ FlushTorn(n) \/ FlushUnplaced(n)
      PROVE  file' = file \/ \E r : r.kind # "footer" /\ file' = Append(file, r)
  BY <1>1, <1>2, Zenon DEF FlushOk, FlushRejected, FlushTorn, FlushUnplaced
<1>3. ASSUME NEW c \in Columns, (\E v \in Cells : SetValue(c, v)) \/ SetMistyped(c) \/ SetNull(c)
      PROVE  phase = "open" /\ file' = file
  BY <1>3, Zenon DEF SetValue, SetMistyped, SetNull, AppendCell
<1>4. ASSUME FinishEntry
      PROVE  /\ phase = "open"
             /\ file' = file \/ \E r : r.kind # "footer" /\ file' = Append(file, r)
  BY <1>2, <1>4, Zenon DEF FinishEntry
<1>5. ASSUME NEW payload, MarkFrame(payload) \/ \E tag \in Tags : WriteSnapshot(tag, payload)
      PROVE  phase = "open" /\ \E r : r.kind # "footer" /\ file' = Append(file, r)
  BY <1>1, <1>5, Zenon DEF MarkFrame, WriteSnapshot
<1>6. ASSUME WriteSnapshotTorn
      PROVE  /\ phase = "open"
             /\ file' = file \/ \E r : r.kind # "footer" /\ file' = Append(file, r)
  BY <1>1, <1>6, Zenon DEF WriteSnapshotTorn
<1>7. ASSUME FinishOk PROVE phase = "open" /\ phase' = "finished"
  BY <1>7 DEF FinishOk
<1>8. ASSUME FinishRejected PROVE phase = "open" /\ file' = file
  BY <1>8 DEF FinishRejected, FlushRejected
<1>9. ASSUME Abandon PROVE phase = "open" /\ \E k \in 0..Len(file) : file' = SubSeq(file, 1, k)
  BY <1>9 DEF Abandon
<1>10. QED
  BY <1>3, <1>4, <1>5, <1>6, <1>7, <1>8, <1>9, Zenon DEF Next

LEMMA FootedStep == FileInv /\ Footed /\ Next => Footed'
<1> SUFFICES ASSUME FileInv, Footed, Next, phase' # "finished" PROVE Footed'
  BY DEF Footed
<1>1. PICK f \in Seq(RecordTypes) : f = file
  BY DEF FileInv, IInv, TypeOK
<1>2. \A p \in 1..Len(f) : f[p].kind # "footer"
  BY <1>1, FileSteps DEF Footed
<1>3. ASSUME NEW r, r.kind # "footer", file' = Append(file, r)
      PROVE  \A p \in 1..Len(file') : file'[p].kind # "footer"
  <2>1. /\ Len(Append(f, r)) = Len(f) + 1 /\ Append(f, r)[Len(f) + 1] = r
        /\ \A p \in 1..Len(f) : Append(f, r)[p] = f[p]
        /\ \A p \in 1..Len(f) + 1 : p \in 1..Len(f) \/ p = Len(f) + 1
    BY AppendProperties
  <2> QED  BY <1>1, <1>2, <1>3, <2>1, Zenon
<1>4. ASSUME NEW k \in 0..Len(file), file' = SubSeq(file, 1, k)
      PROVE  \A p \in 1..Len(file') : file'[p].kind # "footer"
  <2>1. Len(SubSeq(f, 1, k)) = k /\ \A p \in 1..k : SubSeq(f, 1, k)[p] = f[p] /\ p \in 1..Len(f)
    BY <1>1
  <2> QED  BY <1>1, <1>2, <1>4, <2>1, Zenon
<1>5. QED
  BY <1>1, <1>2, <1>3, <1>4, FileSteps, Zenon DEF Footed

LEMMA SameCardinality ==
  ASSUME NEW S
  PROVE  Reader!Cardinality(S) = Cardinality(S)
BY Zenon DEF Reader!Cardinality, Cardinality, Reader!IsFiniteSet, IsFiniteSet

\* The chunk of a row of a finished file, and the row's place in it.
LEMMA RowFound ==
  ASSUME PipelineInv, opened = "open", NEW x \in 0..read_total - 1
  PROVE  LET k == Reader!LocateChunk(x)
         IN  /\ k \in 1..Len(chunk_index)
             /\ Reader!Local(x) \in Nat /\ Reader!Local(x) < chunk_index[k].entry_count
<1> DEFINE n == Len(chunk_index)
<1>1. chunk_index \in Seq(ChunkEntries) /\ n \in Nat /\ rows \in Seq([Columns -> Stored \cup {Unset}])
  BY DEF PipelineInv, FileInv, IInv, TypeOK
<1>2. PICK t : /\ Totals(t, chunk_index, n) /\ EntriesIn(chunk_index) = t[n]
               /\ Reader!Totals(chunk_index) = [k \in 1..n |-> t[k]]
  BY <1>1, ReaderTotals
<1>3. \A k \in 1..n : chunk_index[k].entry_count \in Nat
  BY <1>1, CountsTyped
<1> HIDE DEF n
<1>4. t \in [0..n -> Nat] /\ t[0] = 0 /\ \A k \in 1..n : t[k] = t[k - 1] + chunk_index[k].entry_count
  BY <1>2 DEF Totals
<1>5. \A k \in 1..n : k - 1 \in 0..n /\ t[k - 1] \in Nat /\ t[k - 1] <= t[k]
  <2> TAKE k \in 1..n
  <2>1. k - 1 \in 0..n /\ k \in 0..n
    BY <1>1
  <2>2. PICK a \in Nat, e \in Nat : t[k - 1] = a /\ chunk_index[k].entry_count = e
    BY <1>3, <1>4, <2>1
  <2>3. t[k] = a + e
    BY <1>4, <2>2
  <2> QED  BY <2>1, <2>2, <2>3
<1>6. cumulative = [k \in 1..n |-> t[k]] /\ read_total = Len(rows)
  BY <1>2 DEF PipelineInv, OpenedWhole
<1>7. t[n] = Len(rows)
  <2>1. phase = "finished" /\ total_entries = Len(rows)
    BY DEF PipelineInv, OpenedWhole, FileInv
  <2>2. entries_in_chunk = 0 /\ entries_in_chunk + t[n] = total_entries
    BY <1>2, <2>1 DEF PipelineInv, FileInv, FileConsistent, FooterComplete, CountsAddUp
  <2>3. t[n] \in Nat
    <3>1. n \in 0..n
      BY <1>1
    <3> QED  BY <1>4, <3>1
  <2> QED  BY <2>1, <2>2, <2>3
<1>8. x \in Nat /\ x < t[n]
  BY <1>1, <1>6, <1>7
<1>9. PICK j \in 1..n : /\ Cardinality(EndedBy(t, n, x)) + 1 = j
                        /\ t[j - 1] <= x /\ x < t[j]
  BY <1>1, <1>4, <1>5, <1>8, Located
<1>10. Len(cumulative) = n /\ \A k \in 1..n : cumulative[k] = t[k]
  BY <1>1, <1>6
<1>11. EndedBy(cumulative, Len(cumulative), x) = EndedBy(t, n, x)
  BY <1>10, EndedByAgrees
<1>12. Reader!LocateChunk(x) = j
  <2>1. Reader!LocateChunk(x) = Cardinality(EndedBy(cumulative, Len(cumulative), x)) + 1
    BY SameCardinality, Zenon DEF Reader!LocateChunk, EndedBy
  <2>2. Cardinality(EndedBy(cumulative, Len(cumulative), x)) + 1
          = Cardinality(EndedBy(t, n, x)) + 1
    BY <1>11, Zenon
  <2>3. Cardinality(EndedBy(t, n, x)) + 1 = j
    BY <1>9, Zenon
  <2> QED  BY <2>1, <2>2, <2>3, Zenon
<1>13. Reader!ChunkBegin(j) = t[j - 1]
  <2>1. CASE j = 1
    BY <1>4, <2>1 DEF Reader!ChunkBegin
  <2>2. CASE j # 1
    <3>1. j - 1 \in 1..n
      BY <1>1, <2>2
    <3> QED  BY <1>10, <2>2, <3>1 DEF Reader!ChunkBegin
  <2> QED  BY <2>1, <2>2
<1>14. Reader!Local(x) = x - t[j - 1]
  <2>1. Reader!Local(x) = x - Reader!ChunkBegin(Reader!LocateChunk(x))
    BY DEF Reader!Local
  <2> QED  BY <1>12, <1>13, <2>1, Zenon
<1>15. x - t[j - 1] \in Nat /\ x - t[j - 1] < chunk_index[j].entry_count
  BY <1>3, <1>4, <1>5, <1>8, <1>9
<1>16. QED  BY <1>12, <1>14, <1>15 DEF n

\* A chunk on file holds the rows it counts, when nothing went wrong.
LEMMA ChunksHold ==
  ASSUME FileInv, phase = "finished", Intact, NEW k \in 1..Len(chunk_index), NEW c \in Columns
  PROVE  /\ CellsOnFile(k, c) \in Seq(Stored) /\ Len(CellsOnFile(k, c)) \in Nat
         /\ Len(CellsOnFile(k, c)) >= chunk_index[k].entry_count
<1>1. Sound
  BY DEF Sound
<1>2. PICK f \in Seq(RecordTypes) : f = file
  BY DEF FileInv, IInv, TypeOK
<1>3. chunk_index[k].offset \in 1..Len(f) /\ f[chunk_index[k].offset].kind = "chunk"
  BY <1>2 DEF FileInv, FileConsistent, IndexesMatchFile, RecordsIndexed
<1>4. PICK r \in RecordTypes : r = f[chunk_index[k].offset] /\ r.kind = "chunk"
  BY <1>3
<1>5. r.data \in [Columns -> Seq(Stored)]
  BY <1>4 DEF RecordTypes, Header, Torn
<1>6. CellsOnFile(k, c) = r.data[c]
  BY <1>2, <1>4 DEF CellsOnFile
<1>7. CellsOnFile(k, c) \in Seq(Stored)
  BY <1>5, <1>6
<1>8. Len(CellsOnFile(k, c)) >= chunk_index[k].entry_count
  BY <1>1 DEF FileInv, IInv, RowsPlaced, HoldsRows
<1> QED  BY <1>7, <1>8

LEMMA NoPanic ==
  ASSUME PipelineInv, Intact, NEW c \in Columns, NEW x \in 0..read_total - 1,
         Reader!Get(c, x)
  PROVE  opened' # "panicked"
<1>1. opened = "open" /\ phase = "finished" /\ index = chunk_index
  BY DEF PipelineInv, OpenedWhole, Reader!Get
<1>2. PICK k : k = Reader!LocateChunk(x)
  OBVIOUS
<1>3. /\ k \in 1..Len(chunk_index)
      /\ Reader!Local(x) \in Nat /\ Reader!Local(x) < chunk_index[k].entry_count
  BY <1>1, <1>2, RowFound
<1>4. Reader!Stored(k, c) = CellsOnFile(k, c)
  BY <1>1 DEF Reader!Stored, CellsOnFile
<1>5. Len(Reader!Stored(k, c)) \in Nat /\ Len(Reader!Stored(k, c)) >= chunk_index[k].entry_count
  BY <1>1, <1>3, <1>4, ChunksHold DEF PipelineInv
<1>6. chunk_index[k].entry_count \in Nat
  BY <1>3, CountsTyped DEF PipelineInv, FileInv, IInv, TypeOK
<1>7. ~(Reader!Local(x) >= Len(Reader!Stored(Reader!LocateChunk(x), c)))
  BY <1>2, <1>3, <1>5, <1>6
<1>8. opened' = opened
  BY <1>7, Zenon DEF Reader!Get
<1> QED  BY <1>1, <1>8

\* A reader opens a file at its footer, and so after the writer's last step.
LEMMA OpensAtTheFooter ==
  ASSUME PipelineInv, Reader!Open
  PROVE  /\ phase = "finished" /\ opened' = "open"
         /\ index' = chunk_index /\ cumulative' = Reader!Totals(chunk_index)
         /\ snapshots' = snapshot_index /\ read_total' = Len(rows)
<1>1. PICK f \in Seq(RecordTypes) : f = file
  BY DEF PipelineInv, FileInv, IInv, TypeOK
<1>2. PICK footer : footer = f[Len(f)]
  OBVIOUS
<1>3. /\ f # <<>> /\ footer.kind = "footer"
      /\ opened' = "open"
      /\ index' = footer.chunks /\ cumulative' = Reader!Totals(footer.chunks)
      /\ snapshots' = footer.snapshots /\ read_total' = footer.total
  BY <1>1, <1>2 DEF Reader!Open, Reader!Finished, Reader!Last
<1>4. Len(f) \in 1..Len(f)
  BY <1>1, <1>3
<1>5. phase = "finished"
  BY <1>1, <1>2, <1>3, <1>4 DEF PipelineInv, Footed
<1>6. footer = FooterRecord(chunk_index, snapshot_index) /\ footer.total = Len(rows)
  BY <1>1, <1>2, <1>5 DEF PipelineInv, FileInv, FileConsistent, FooterComplete
<1>7. footer.chunks = chunk_index /\ footer.snapshots = snapshot_index
  BY <1>6 DEF FooterRecord
<1> QED  BY <1>3, <1>5, <1>6, <1>7, Zenon

LEMMA PipelineStep == PipelineInv /\ [PipelineNext]_<<vars, reading>> => PipelineInv'
<1> SUFFICES ASSUME PipelineInv, [PipelineNext]_<<vars, reading>> PROVE PipelineInv'
  OBVIOUS
<1>1. CASE Next /\ UNCHANGED reading
  <2>1. FileInv' /\ Footed'
    BY <1>1, FileStep, FootedStep DEF PipelineInv
  <2>2. phase # "finished"
    BY <1>1, FileSteps
  <2>3. opened \notin {"open", "panicked"} /\ opened' = opened
    BY <1>1, <2>2 DEF PipelineInv, OpenedWhole, reading
  <2> QED  BY <2>1, <2>3 DEF PipelineInv, OpenedWhole
<1>2. ASSUME UNCHANGED vars
      PROVE  FileInv' /\ Footed' /\ (Intact' <=> Intact)
  <2>1. FileInv'
    BY <1>2, FileStep DEF PipelineInv
  <2>2. Footed'
    BY <1>2 DEF PipelineInv, Footed, vars
  <2> QED  BY <1>2, <2>1, <2>2 DEF Intact, vars
<1>3. ASSUME UNCHANGED vars, UNCHANGED <<index, cumulative, snapshots, read_total>>,
             opened \notin {"open", "panicked"} => opened' \notin {"open", "panicked"},
             Intact => opened' # "panicked"
      PROVE  PipelineInv'
  <2>1. /\ phase' = phase /\ chunk_index' = chunk_index
        /\ snapshot_index' = snapshot_index /\ Len(rows)' = Len(rows)
    BY <1>3 DEF vars
  <2>2. Reader!Totals(chunk_index)' = Reader!Totals(chunk_index)
    BY <2>1 DEF Reader!Totals
  <2>3. OpenedWhole'
    BY <1>3, <2>1, <2>2, Zenon DEF PipelineInv, OpenedWhole
  <2> QED  BY <1>2, <1>3, <2>3 DEF PipelineInv
<1>4. CASE UNCHANGED <<vars, reading>>
  BY <1>3, <1>4 DEF reading, PipelineInv
<1>5. ASSUME UNCHANGED vars, Reader!Open PROVE PipelineInv'
  <2>1. /\ phase' = phase /\ chunk_index' = chunk_index
        /\ snapshot_index' = snapshot_index /\ Len(rows)' = Len(rows)
    BY <1>5 DEF vars
  <2>2. Reader!Totals(chunk_index)' = Reader!Totals(chunk_index)
    BY <2>1 DEF Reader!Totals
  <2>3. OpenedWhole'
    BY <1>5, <2>1, <2>2, OpensAtTheFooter, Zenon DEF OpenedWhole
  <2>4. opened' # "panicked"
    BY <1>5, OpensAtTheFooter
  <2> QED  BY <1>2, <1>5, <2>3, <2>4 DEF PipelineInv
<1>6. ASSUME UNCHANGED vars, Reader!OpenUnfinished PROVE PipelineInv'
  BY <1>3, <1>6 DEF Reader!OpenUnfinished
<1>7. ASSUME UNCHANGED vars, NEW c \in Columns, NEW x \in 0..read_total - 1, Reader!Get(c, x)
      PROVE  PipelineInv'
  <2>1. UNCHANGED <<index, cumulative, snapshots, read_total>> /\ opened = "open"
    BY <1>7 DEF Reader!Get
  <2>2. Intact => opened' # "panicked"
    BY <1>7, NoPanic
  <2> QED  BY <1>3, <1>7, <2>1, <2>2
<1>8. ASSUME UNCHANGED vars,
             \/ \E c \in Columns : \E start, end : Reader!GetColumnSegments(c, start, end)
             \/ Reader!FrameBoundaries
             \/ \E frame : Reader!Framebuffer(frame)
      PROVE  PipelineInv'
  <2>1. UNCHANGED <<opened, index, cumulative, snapshots, read_total>>
    BY <1>8 DEF Reader!GetColumnSegments, Reader!FrameBoundaries, Reader!Framebuffer
  <2> QED  BY <1>3, <1>8, <2>1 DEF PipelineInv
<1>9. CASE UNCHANGED vars /\ Reader!Next
  BY <1>5, <1>6, <1>7, <1>8, <1>9, Zenon DEF Reader!Next
<1> QED  BY <1>1, <1>4, <1>9 DEF PipelineNext

\* A reader opens only a trace whose writer has finished it, and then has every
\* entry the producer finished, whatever was refused or torn on the way; and of
\* a producer without mistakes and writes without errors no query panics.
THEOREM PipelineOpensWholeTraces == PipelineSpec => []OpensWholeTraces
<1>1. PipelineInit => PipelineInv
  <2>1. Init => FileInv
    BY FileInit
  <2>2. Init => Footed
    BY DEF Init, Footed, Header
  <2> QED  BY <2>1, <2>2 DEF PipelineInit, PipelineInv, OpenedWhole
<1>2. PipelineInv => OpensWholeTraces
  BY DEF PipelineInv, OpenedWhole, OpensWholeTraces
<1>3. QED  BY <1>1, <1>2, PipelineStep, PTL DEF PipelineSpec

-----------------------------------------------------------------------------
(***************************************************************************)
(* The pipeline implements the archive. What is proved of the reader by    *)
(* itself (TraceReaderProofs) holds of a reader of the writer's files:     *)
(* Proved is that module over the same variables, and its definitions are  *)
(* those of Reader.                                                        *)
(***************************************************************************)
Proved == INSTANCE TraceReaderProofs
  WITH disk <- [records |-> file, lost |-> {}, absent |-> {}, corrupt |-> {}],
       status <- opened, total_entries <- read_total, Disks <- {}

LEMMA ReaderSound ==
  /\ Proved!CapacityAssumption /\ Proved!ReaderGroupsAssumption
  /\ Proved!DisksAssumption /\ Proved!ReaderNoneAssumption
BY ReaderAssumption, GroupsAssumption, NoneAssumption
DEF Proved!CapacityAssumption, Proved!ReaderGroupsAssumption, Proved!DisksAssumption,
    Proved!ReaderNoneAssumption

\* What the proofs say of Reader's operators.
LEMMA SamePlace ==
  \A x_ : /\ Reader!LocateChunk(x_) = Proved!LocateChunk(x_)
          /\ Reader!Local(x_) = Proved!Local(x_)
BY SameCardinality, Zenon
DEF Reader!LocateChunk, Proved!LocateChunk, Reader!Local, Proved!Local,
    Reader!ChunkBegin, Proved!ChunkBegin, Reader!Cardinality, Proved!Cardinality,
    Reader!IsFiniteSet, Proved!IsFiniteSet

LEMMA SameMoves ==
  \A lru, k : /\ Reader!Touch(lru, k) = Proved!Touch(lru, k)
              /\ Reader!Others(lru, k) = Proved!Others(lru, k)
              /\ Reader!Cached(lru, k) <=> Proved!Cached(lru, k)
BY Zenon
DEF Reader!Touch, Proved!Touch, Reader!Cached, Proved!Cached, Reader!ToFront, Proved!ToFront,
    Reader!PlaceOf, Proved!PlaceOf, Reader!RemoveAt, Proved!RemoveAt, Reader!Others, Proved!Others

LEMMA SameInsert == \A lru, entry : Reader!Insert(lru, entry) = Proved!Insert(lru, entry)
BY SameMoves, Zenon DEF Reader!Insert, Proved!Insert, Reader!Front, Proved!Front

LEMMA SameLoaded ==
  \A k : /\ Reader!LoadChunk(k) = Proved!LoadChunk(k)
         /\ Reader!Loadable(k) <=> Proved!Loadable(k)
BY Zenon DEF Reader!LoadChunk, Proved!LoadChunk, Reader!Loadable, Proved!Loadable

LEMMA SameEnsured ==
  \A lru, k, g : Reader!EnsureGroupDecoded(lru, k, g) = Proved!EnsureGroupDecoded(lru, k, g)
<1>1. \A lru, k : Reader!EnsureChunkLoaded(lru, k) = Proved!EnsureChunkLoaded(lru, k)
  BY SameMoves, SameInsert, SameLoaded, Zenon
  DEF Reader!EnsureChunkLoaded, Proved!EnsureChunkLoaded
<1>2. \A entry, g : Reader!Decode(entry, g) = Proved!Decode(entry, g)
  BY Zenon DEF Reader!Decode, Proved!Decode, Reader!Decodable, Proved!Decodable
<1> QED
  BY <1>1, <1>2, SameMoves, Zenon DEF Reader!EnsureGroupDecoded, Proved!EnsureGroupDecoded

LEMMA SameAvailable == \A lru, k, g : Reader!Available(lru, k, g) <=> Proved!Available(lru, k, g)
BY Zenon DEF Reader!Available, Proved!Available

LEMMA SameCells ==
  /\ \A used, k : Reader!Used(used, k) = Proved!Used(used, k)
  /\ \A k, c : Reader!Stored(k, c) = Proved!Stored(k, c)
  /\ \A c : Reader!GroupOf(c) = Proved!GroupOf(c)
BY SameLoaded, Zenon
DEF Reader!Used, Proved!Used, Reader!Stored, Proved!Stored, Reader!GroupOf, Proved!GroupOf,
    Reader!ToFront, Proved!ToFront, Reader!RemoveAt, Proved!RemoveAt

LEMMA SameGet ==
  ASSUME NEW c, NEW x, Reader!Get(c, x)
  PROVE  Proved!Get(c, x)
BY SamePlace, SameEnsured, SameAvailable, SameCells, ZenonT(60) DEF Reader!Get, Proved!Get

LEMMA SameChunkWalked ==
  \A c, first, offset, w, k :
    Reader!WalkChunk(c, first, offset, w, k) = Proved!WalkChunk(c, first, offset, w, k)
<1> TAKE c, first, offset, w, k
<1>1. PICK g, lru, left, used, gone :
        /\ g = Reader!GroupOf(c) /\ g = Proved!GroupOf(c)
        /\ lru = Reader!EnsureGroupDecoded(w.lru, k, g)
        /\ lru = Proved!EnsureGroupDecoded(w.lru, k, g)
        /\ left = cumulative[k] - Reader!ChunkBegin(k)
        /\ left = cumulative[k] - Proved!ChunkBegin(k)
        /\ used = Reader!Used(w.used, k) /\ used = Proved!Used(w.used, k)
        /\ gone = ~Reader!Available(lru, k, g) /\ gone = ~Proved!Available(lru, k, g)
  <2>1. Reader!ChunkBegin(k) = Proved!ChunkBegin(k)
    BY Zenon DEF Reader!ChunkBegin, Proved!ChunkBegin
  <2>2. \A l, g : (~Reader!Available(l, k, g)) = (~Proved!Available(l, k, g))
    BY Zenon DEF Reader!Available, Proved!Available
  <2> QED  BY SameEnsured, SameCells, <2>1, <2>2, Zenon
<1> QED  BY <1>1, Zenon DEF Reader!WalkChunk, Proved!WalkChunk

IsWalk(f, c, start, end) ==
  f = [n \in 0..Reader!LocateChunk(end - 1) - Reader!LocateChunk(start) + 1 |->
        IF n = 0
        THEN [lru |-> cache, segments |-> <<>>, remaining |-> end - start,
              stopped |-> FALSE, used |-> recent]
        ELSE Reader!WalkChunk(c, Reader!LocateChunk(start), Reader!Local(start), f[n - 1],
                              Reader!LocateChunk(start) + n - 1)]

LEMMA SameWalk == \A c, s, e : Reader!Walk(c, s, e) = Proved!Walk(c, s, e)
<1> TAKE c, s, e
<1>1. Reader!Walk(c, s, e)
        = (CHOOSE f : IsWalk(f, c, s, e))[Reader!LocateChunk(e - 1) - Reader!LocateChunk(s) + 1]
  BY DEF Reader!Walk, IsWalk
<1>2. \A f :
        IsWalk(f, c, s, e) <=>
          f = [n \in 0..Proved!LocateChunk(e - 1) - Proved!LocateChunk(s) + 1 |->
                IF n = 0
                THEN [lru |-> cache, segments |-> <<>>, remaining |-> e - s,
                      stopped |-> FALSE, used |-> recent]
                ELSE Proved!WalkChunk(c, Proved!LocateChunk(s), Proved!Local(s), f[n - 1],
                                      Proved!LocateChunk(s) + n - 1)]
  BY SamePlace, SameChunkWalked, ZenonT(60) DEF IsWalk
<1>3. Proved!Walk(c, s, e)
        = (CHOOSE f : IsWalk(f, c, s, e))[Proved!LocateChunk(e - 1) - Proved!LocateChunk(s) + 1]
  BY <1>2, ZenonT(60) DEF Proved!Walk
<1>4. /\ Reader!LocateChunk(s) = Proved!LocateChunk(s)
      /\ Reader!LocateChunk(e - 1) = Proved!LocateChunk(e - 1)
  BY SamePlace, Zenon
<1> QED  BY <1>1, <1>3, <1>4, ZenonT(60)

LEMMA SameSegments ==
  ASSUME NEW c, NEW s, NEW e, Reader!GetColumnSegments(c, s, e)
  PROVE  Proved!GetColumnSegments(c, s, e)
<1>1. PICK end : end = IF e < read_total THEN e ELSE read_total
  OBVIOUS
<1>2. PICK walk : walk = Reader!Walk(c, s, end) /\ walk = Proved!Walk(c, s, end)
  BY SameWalk, Zenon
<1> QED  BY <1>1, <1>2, SMTT(40) DEF Reader!GetColumnSegments, Proved!GetColumnSegments

LEMMA SameJoined == \A c, s : Reader!Joined(c, s) = Proved!Joined(c, s)
BY SameCells, ZenonT(60) DEF Reader!Joined, Proved!Joined

LEMMA SameTotals == \A chunks : Reader!Totals(chunks) = Proved!Totals(chunks)
BY Zenon DEF Reader!Totals, Proved!Totals

-----------------------------------------------------------------------------
(* Frames: reader and archive each keep the frames' entries of a sequence, *)
(* and the two sequences agree entry by entry.                             *)

IsKept(f, s, K) ==
  f = [n \in 0..Len(s) |->
         IF n = 0 THEN <<>> ELSE IF n \in K THEN Append(f[n - 1], s[n]) ELSE f[n - 1]]

Kept(s, K) == (CHOOSE f : IsKept(f, s, K))[Len(s)]

Stepwise(g, s, K, T) ==
  /\ g \in [0..Len(s) -> Seq(T)] /\ g[0] = <<>> /\ Kept(s, K) = g[Len(s)]
  /\ \A n \in 1..Len(s) : g[n] = IF n \in K THEN Append(g[n - 1], s[n]) ELSE g[n - 1]

\* What is kept of a sequence, element by element.
LEMMA KeptStepwise ==
  ASSUME NEW T, NEW s \in Seq(T), NEW K
  PROVE  \E g : Stepwise(g, s, K, T)
<1> DEFINE L == Len(s)
           X == Seq(T)
           F == [n \in 1..L |-> [q \in X |-> IF n \in K THEN Append(q, s[n]) ELSE q]]
<1>1. L \in Nat /\ <<>> \in X /\ \A n \in 1..L : s[n] \in T
  OBVIOUS
<1>2. F \in [1..L -> [X -> X]]
  <2>1. ASSUME NEW n \in 1..L, NEW q \in X PROVE (IF n \in K THEN Append(q, s[n]) ELSE q) \in X
    BY <1>1
  <2> HIDE DEF X
  <2> QED  BY <2>1
<1>3. PICK g : Proved!Iterates(g, X, <<>>, L, F)
  <2> HIDE DEF F, X, L
  <2> QED  BY <1>1, <1>2, Proved!Iterated, ReaderSound, Zenon
<1>4. /\ g \in [0..L -> X] /\ g[0] = <<>>
      /\ \A n \in 1..L : g[n] = IF n \in K THEN Append(g[n - 1], s[n]) ELSE g[n - 1]
  <2>1. g \in [0..L -> X] /\ g[0] = <<>> /\ \A n \in 1..L : g[n] = F[n][g[n - 1]]
    <3> HIDE DEF F, X
    <3> QED  BY <1>3 DEF Proved!Iterates
  <2>2. \A n \in 1..L : n - 1 \in 0..L /\ g[n - 1] \in X
    BY <1>1, <2>1
  <2> HIDE DEF X, L
  <2> QED  BY <2>1, <2>2
<1>5. IsKept(g, s, K)
  <2>1. \A n \in 0..L : n # 0 => n \in 1..L
    BY <1>1
  <2> HIDE DEF X
  <2>2. \A n \in 0..L :
          g[n] = IF n = 0 THEN <<>> ELSE IF n \in K THEN Append(g[n - 1], s[n]) ELSE g[n - 1]
    BY <1>4, <2>1, Zenon
  <2> QED  BY <1>4, <2>2 DEF IsKept
<1>6. PICK f : IsKept(f, s, K) /\ Kept(s, K) = f[L]
  BY <1>5, Zenon DEF Kept
<1>7. \A n \in 0..L : f[n] = g[n]
  <2> DEFINE S == {n \in 0..L : f[n] = g[n]}
  <2>1. 0 \in S
    BY <1>1, <1>4, <1>6 DEF IsKept
  <2>2. ASSUME NEW n \in 0..L - 1, n \in S PROVE n + 1 \in S
    <3>1. n + 1 \in 1..L /\ n + 1 \in 0..L /\ n + 1 # 0 /\ (n + 1) - 1 = n
      BY <1>1
    <3>2. f[n + 1] = IF n + 1 \in K THEN Append(f[(n + 1) - 1], s[n + 1]) ELSE f[(n + 1) - 1]
      BY <1>6, <3>1, Zenon DEF IsKept
    <3>3. g[n + 1] = IF n + 1 \in K THEN Append(g[(n + 1) - 1], s[n + 1]) ELSE g[(n + 1) - 1]
      BY <1>4, <3>1, Zenon
    <3> QED  BY <2>2, <3>1, <3>2, <3>3
  <2> HIDE DEF S, L
  <2>3. \A n \in 0..L : n \in S
    BY <1>1, <2>1, <2>2, Proved!UpTo, ReaderSound
  <2> QED  BY <2>3 DEF S
<1>8. L \in 0..L
  BY <1>1
<1> HIDE DEF X
<1> QED  BY <1>4, <1>6, <1>7, <1>8 DEF X, Stepwise

\* The frames among all snapshots, and among all marks.
SnapshotsOfFrames == {n \in 1..Len(snapshots) : snapshots[n].snapshot_type = TagFrame}
MarksOfFrames == {n \in 1..Len(WrittenMarks) : WrittenMarks[n].tag = TagFrame}

LEMMA FramesAreKept ==
  /\ Reader!FrameSnapshots = Kept(snapshots, SnapshotsOfFrames)
  /\ Archive!FrameMarks = Kept(WrittenMarks, MarksOfFrames)
<1>1. Reader!FrameSnapshots = Kept(snapshots, SnapshotsOfFrames)
  <2>1. \A n \in 0..Len(snapshots) :
          n # 0 => (n \in SnapshotsOfFrames <=> snapshots[n].snapshot_type = TagFrame)
    BY DEF SnapshotsOfFrames
  <2>2. \A f :
          IsKept(f, snapshots, SnapshotsOfFrames)
            <=> f = [n \in 0..Len(snapshots) |->
                       IF n = 0 THEN <<>>
                       ELSE IF snapshots[n].snapshot_type = TagFrame
                       THEN Append(f[n - 1], snapshots[n])
                       ELSE f[n - 1]]
    BY <2>1, ZenonT(60) DEF IsKept
  <2>3. Reader!FrameSnapshots
          = (CHOOSE f : IsKept(f, snapshots, SnapshotsOfFrames))[Len(snapshots)]
    BY <2>2, ZenonT(60) DEF Reader!FrameSnapshots
  <2> QED  BY <2>3, Zenon DEF Kept
<1>2. Archive!FrameMarks = Kept(WrittenMarks, MarksOfFrames)
  <2>1. \A n \in 0..Len(WrittenMarks) :
          n # 0 => (n \in MarksOfFrames <=> WrittenMarks[n].tag = TagFrame)
    BY DEF MarksOfFrames
  <2>2. \A f :
          IsKept(f, WrittenMarks, MarksOfFrames)
            <=> f = [n \in 0..Len(WrittenMarks) |->
                       IF n = 0 THEN <<>>
                       ELSE IF WrittenMarks[n].tag = TagFrame
                       THEN Append(f[n - 1], WrittenMarks[n])
                       ELSE f[n - 1]]
    BY <2>1, ZenonT(60) DEF IsKept
  <2>3. Archive!FrameMarks
          = (CHOOSE f : IsKept(f, WrittenMarks, MarksOfFrames))[Len(WrittenMarks)]
    BY <2>2, ZenonT(60) DEF Archive!FrameMarks
  <2> QED  BY <2>3, Zenon DEF Kept
<1> QED  BY <1>1, <1>2

\* Of two sequences that agree place by place, what is kept of each agrees.
LEMMA KeptAlike ==
  ASSUME NEW S, NEW s \in Seq(S), NEW M, NEW m \in Seq(M), Len(m) = Len(s), NEW K,
         NEW Q, \A n \in 1..Len(s) : <<s[n], m[n]>> \in Q
  PROVE  /\ Kept(s, K) \in Seq(S) /\ Kept(m, K) \in Seq(M)
         /\ Len(Kept(m, K)) = Len(Kept(s, K))
         /\ \A f \in 1..Len(Kept(s, K)) : <<Kept(s, K)[f], Kept(m, K)[f]>> \in Q
<1>0. PICK L \in Nat : L = Len(s)
  OBVIOUS
<1>1. L = Len(s) /\ L = Len(m)
  BY <1>0
<1>2. PICK g : /\ g \in [0..L -> Seq(S)] /\ g[0] = <<>> /\ Kept(s, K) = g[L]
               /\ \A n \in 1..L : g[n] = IF n \in K THEN Append(g[n - 1], s[n]) ELSE g[n - 1]
  <2>1. PICK g : Stepwise(g, s, K, S)
    BY KeptStepwise
  <2> QED  BY <1>1, <2>1, Zenon DEF Stepwise
<1>3. PICK h : /\ h \in [0..L -> Seq(M)] /\ h[0] = <<>> /\ Kept(m, K) = h[L]
               /\ \A n \in 1..L : h[n] = IF n \in K THEN Append(h[n - 1], m[n]) ELSE h[n - 1]
  <2>1. PICK h : Stepwise(h, m, K, M)
    BY KeptStepwise
  <2> QED  BY <1>1, <2>1, Zenon DEF Stepwise
<1> DEFINE Alike(p, q) == Len(q) = Len(p) /\ \A f \in 1..Len(p) : <<p[f], q[f]>> \in Q
           T == {n \in 0..L : Alike(g[n], h[n])}
<1>4. 0 \in T
  BY <1>2, <1>3, SMTT(40)
<1>5. ASSUME NEW n \in 0..L - 1, n \in T PROVE n + 1 \in T
  <2>1. n + 1 \in 1..L /\ n + 1 \in 0..L /\ (n + 1) - 1 = n /\ n \in 0..L
    OBVIOUS
  <2>2. PICK p \in Seq(S), q \in Seq(M) : p = g[n] /\ q = h[n] /\ Alike(p, q)
    BY <1>2, <1>3, <1>5, <2>1
  <2>3. CASE n + 1 \in K
    <3>1. g[n + 1] = Append(p, s[n + 1]) /\ h[n + 1] = Append(q, m[n + 1])
      BY <1>2, <1>3, <2>1, <2>2, <2>3
    <3>2. s[n + 1] \in S /\ m[n + 1] \in M /\ <<s[n + 1], m[n + 1]>> \in Q
      BY <1>1, <2>1
    <3>3. Alike(Append(p, s[n + 1]), Append(q, m[n + 1]))
      <4>1. PICK l \in Nat : l = Len(p) /\ l = Len(q)
        BY <2>2
      <4>2. PICK x \in S, y \in M : x = s[n + 1] /\ y = m[n + 1] /\ <<x, y>> \in Q
        BY <3>2
      <4>3. Len(Append(p, x)) = l + 1 /\ Len(Append(q, y)) = l + 1
        BY <2>2, <4>1, <4>2, AppendProperties
      <4>4. /\ \A f \in 1..l : Append(p, x)[f] = p[f] /\ Append(q, y)[f] = q[f]
            /\ Append(p, x)[l + 1] = x /\ Append(q, y)[l + 1] = y
        BY <2>2, <4>1, <4>2, AppendProperties
      <4>5. \A f \in 1..l + 1 : <<Append(p, x)[f], Append(q, y)[f]>> \in Q
        <5> TAKE f \in 1..l + 1
        <5>1. f \in 1..l \/ f = l + 1
          BY <4>1
        <5>2. \A d \in 1..l : <<p[d], q[d]>> \in Q
          BY <2>2, <4>1
        <5> QED  BY <4>2, <4>4, <5>1, <5>2
      <4> QED  BY <4>2, <4>3, <4>5
    <3> HIDE DEF Alike
    <3> QED  BY <2>1, <3>1, <3>3
  <2>4. CASE n + 1 \notin K
    <3>1. g[n + 1] = p /\ h[n + 1] = q
      BY <1>2, <1>3, <2>1, <2>2, <2>4
    <3> HIDE DEF Alike
    <3> QED  BY <2>1, <2>2, <3>1
  <2> QED  BY <2>3, <2>4
<1>6. Alike(g[L], h[L]) /\ L \in 0..L
  <2> HIDE DEF T
  <2>1. \A n \in 0..L : n \in T
    BY <1>1, <1>4, <1>5, Proved!UpTo, ReaderSound
  <2> QED  BY <2>1 DEF T
<1> QED  BY <1>2, <1>3, <1>6

Snapshots == [tag : Tags, at : Nat, payload : Payloads \cup {NoPayload}]

\* The marks of a whole file, typed.
LEMMA MarksTyped ==
  ASSUME PipelineInv, Intact, opened = "open"
  PROVE  /\ snapshots \in Seq(SnapshotEntries) /\ WrittenMarks \in Seq(Snapshots)
         /\ Len(WrittenMarks) = Len(snapshots)
         /\ \A n \in 1..Len(snapshots) :
              /\ WrittenMarks[n].tag = snapshots[n].snapshot_type
              /\ WrittenMarks[n].at = snapshots[n].entry_index
              /\ WrittenMarks[n].payload = file[snapshots[n].offset].payload
<1>1. /\ phase = "finished" /\ snapshots = snapshot_index /\ Sound /\ TypeOK
      /\ snapshots \in Seq(SnapshotEntries) /\ file \in Seq(RecordTypes)
  BY DEF PipelineInv, OpenedWhole, Sound, FileInv, IInv, TypeOK
<1>2. WrittenMarks = [s \in 1..Len(snapshots) |-> MarkAt(s)]
  BY <1>1, MarksAreOnFile DEF MarksOnFile
<1>3. ASSUME NEW n \in 1..Len(snapshots)
      PROVE  /\ MarkAt(n) \in Snapshots
             /\ MarkAt(n).tag = snapshots[n].snapshot_type
             /\ MarkAt(n).at = snapshots[n].entry_index
             /\ MarkAt(n).payload = file[snapshots[n].offset].payload
  <2>1. PICK o : o = snapshots[n].offset
    OBVIOUS
  <2>2. /\ o \in 1..Len(file) /\ file[o].kind = "snapshot"
        /\ file[o].tag = snapshots[n].snapshot_type
        /\ file[o].entry_index = snapshots[n].entry_index
    BY <1>1, <2>1 DEF PipelineInv, FileInv, FileConsistent, IndexesMatchFile, RecordsIndexed
  <2>3. file[o] \in [kind : {"snapshot"}, tag : Tags, entry_index : Nat,
                     payload : Payloads \cup {NoPayload}]
    <3>1. file[o] \in RecordTypes
      BY <1>1, <2>2
    <3> QED  BY <2>2, <3>1 DEF RecordTypes, Header, Torn
  <2>4. MarkAt(n) = [tag |-> file[o].tag, at |-> file[o].entry_index, payload |-> file[o].payload]
    BY <1>1, <2>1 DEF MarkAt
  <2> QED  BY <2>1, <2>2, <2>3, <2>4 DEF Snapshots
<1> QED  BY <1>1, <1>2, <1>3, SMTT(40)

\* The frames a reader finds are the archive's, in number, place and payload.
LEMMA FramesAgree ==
  ASSUME PipelineInv, Intact, opened = "open"
  PROVE  /\ Len(Reader!FrameSnapshots) \in Nat
         /\ Len(Archive!FrameMarks) = Len(Reader!FrameSnapshots)
         /\ \A f \in 1..Len(Reader!FrameSnapshots) :
              /\ Archive!FrameMarks[f] \in Snapshots
              /\ Archive!FrameMarks[f].at = Reader!FrameSnapshots[f].entry_index
              /\ Archive!FrameMarks[f].payload = file[Reader!FrameSnapshots[f].offset].payload
<1> DEFINE Q == {q \in SnapshotEntries \X Snapshots :
                  q[2].at = q[1].entry_index /\ q[2].payload = file[q[1].offset].payload}
           K == SnapshotsOfFrames
<1>1. PICK m \in Seq(Snapshots), s \in Seq(SnapshotEntries) :
        m = WrittenMarks /\ s = snapshots /\ Len(m) = Len(s)
  BY MarksTyped
<1>2. \A n \in 1..Len(s) : /\ m[n].tag = s[n].snapshot_type
                           /\ m[n].at = s[n].entry_index /\ m[n].payload = file[s[n].offset].payload
  BY <1>1, MarksTyped
<1>3. \A n \in 1..Len(s) : <<s[n], m[n]>> \in Q
  <2> TAKE n \in 1..Len(s)
  <2>1. s[n] \in SnapshotEntries /\ m[n] \in Snapshots
    BY <1>1
  <2> QED  BY <1>2, <2>1
<1>4. MarksOfFrames = K
  BY <1>1, <1>2 DEF MarksOfFrames, SnapshotsOfFrames
<1>5. Reader!FrameSnapshots = Kept(s, K) /\ Archive!FrameMarks = Kept(m, K)
  BY <1>1, <1>4, FramesAreKept, Zenon
<1> HIDE DEF K, Q
<1>6. PICK p, q : p = Kept(s, K) /\ q = Kept(m, K)
  OBVIOUS
<1>7. /\ p \in Seq(SnapshotEntries) /\ Len(q) = Len(p)
      /\ \A f \in 1..Len(p) : <<p[f], q[f]>> \in Q
  BY <1>1, <1>3, <1>6, KeptAlike
<1>8. \A f \in 1..Len(p) : /\ q[f] \in Snapshots /\ q[f].at = p[f].entry_index
                           /\ q[f].payload = file[p[f].offset].payload
  BY <1>7 DEF Q
<1>9. Len(p) \in Nat
  BY <1>7
<1> QED  BY <1>5, <1>6, <1>7, <1>8, <1>9

-----------------------------------------------------------------------------
(* A whole file, opened: what it counts is the rows, and a column of it is   *)
(* that column of the rows.                                                *)

\* The writer's files are ones a reader is made for.
LEMMA WholeFileRead ==
  ASSUME PipelineInv, Intact, opened = "open"
  PROVE  /\ Proved!FileRead /\ index = chunk_index /\ read_total = Len(rows) /\ phase = "finished"
         /\ Sound /\ \A k, c : Proved!Stored(k, c) = CellsOnFile(k, c)
<1>1. /\ phase = "finished" /\ index = chunk_index /\ cumulative = Reader!Totals(chunk_index)
      /\ read_total = Len(rows) /\ Sound /\ FileInv /\ IInv
      /\ chunk_index \in Seq(ChunkEntries) /\ rows \in Seq([Columns -> Stored \cup {Unset}])
      /\ file \in Seq(RecordTypes)
  BY DEF PipelineInv, OpenedWhole, Sound, FileInv, IInv, TypeOK
<1>2. \A k \in 1..Len(chunk_index) : chunk_index[k] \in Proved!Chunks
  <2> TAKE k \in 1..Len(chunk_index)
  <2>1. chunk_index[k].offset \in 1..Len(file)
    BY <1>1 DEF FileInv, FileConsistent, IndexesMatchFile, RecordsIndexed
  <2>2. chunk_index[k].entry_count \in Nat \ {0}
    BY <1>1, ChunkSizeAssumption DEF IInv, ChunksFill
  <2>3. chunk_index[k] \in ChunkEntries
    BY <1>1
  <2> QED  BY <2>1, <2>2, <2>3 DEF ChunkEntries, Proved!Chunks
<1>3. index \in Seq(Proved!Chunks)
  <2>1. PICK C : C = Proved!Chunks
    OBVIOUS
  <2> QED  BY <1>1, <1>2, <2>1
<1>4. cumulative = Proved!Totals(index)
  BY <1>1, SameTotals
<1>5. read_total = Proved!EntriesIn(index)
  <2>1. PICK t : /\ Totals(t, chunk_index, Len(chunk_index))
                 /\ EntriesIn(chunk_index) = t[Len(chunk_index)]
                 /\ Reader!Totals(chunk_index) = [k \in 1..Len(chunk_index) |-> t[k]]
    BY <1>1, ReaderTotals
  <2>2. t[Len(chunk_index)] = Proved!EntriesIn(index)
    <3>1. CASE index = <<>>
      BY <1>1, <2>1, <3>1 DEF Proved!EntriesIn, Totals
    <3>2. CASE index # <<>>
      <4>1. Len(chunk_index) \in 1..Len(chunk_index)
        BY <1>1, <3>2
      <4>2. Proved!EntriesIn(index) = cumulative[Len(index)]
        BY <1>4, <3>2 DEF Proved!EntriesIn
      <4> QED  BY <1>1, <2>1, <4>1, <4>2
    <3> QED  BY <3>1, <3>2
  <2>3. t[Len(chunk_index)] \in Nat
    BY <1>1, <2>1 DEF Totals
  <2>4. entries_in_chunk = 0 /\ entries_in_chunk + EntriesIn(chunk_index) = total_entries
        /\ total_entries = Len(rows)
    BY <1>1 DEF FileInv, FileConsistent, FooterComplete, CountsAddUp
  <2> QED  BY <1>1, <2>1, <2>2, <2>3, <2>4
<1>6. \A k, c : Proved!Stored(k, c) = CellsOnFile(k, c)
  BY <1>1 DEF Proved!Stored, CellsOnFile
<1>7. ASSUME NEW k \in 1..Len(index), NEW c \in Columns
      PROVE  /\ Proved!Stored(k, c) \in Seq(Proved!Range(Proved!Stored(k, c)) \ {None})
             /\ Len(Proved!Stored(k, c)) >= index[k].entry_count
  <2>1. PICK s \in Seq(Stored) : s = Proved!Stored(k, c) /\ Len(s) >= index[k].entry_count
    BY <1>1, <1>6, <1>7, ChunksHold
  <2>2. s \in Seq(Proved!Range(s) \ {None})
    <3>1. \A i \in 1..Len(s) : s[i] \in Proved!Range(s) /\ s[i] # None
      BY <2>1, NoneAssumption DEF Proved!Range, Stored
    <3>2. PICK R : R = Proved!Range(s) \ {None}
      OBVIOUS
    <3> QED  BY <2>1, <3>1, <3>2
  <2> QED  BY <2>1, <2>2
<1>8. Proved!FileRead
  BY <1>3, <1>4, <1>5, <1>7 DEF Proved!FileRead
<1> QED  BY <1>1, <1>6, <1>8

LEMMA WholeFileReadNext ==
  (PipelineInv /\ Intact /\ opened = "open" =>
     /\ Proved!FileRead /\ index = chunk_index /\ read_total = Len(rows) /\ phase = "finished"
     /\ Sound /\ \A k, c : Proved!Stored(k, c) = CellsOnFile(k, c))'
<1>1. PipelineInv /\ Intact /\ opened = "open" =>
     /\ Proved!FileRead /\ index = chunk_index /\ read_total = Len(rows) /\ phase = "finished"
     /\ Sound /\ \A k, c : Proved!Stored(k, c) = CellsOnFile(k, c)
  BY WholeFileRead
<1> QED  BY <1>1, PTL

\* A column of such a file is that of the rows.
LEMMA WholeColumn ==
  ASSUME PipelineInv, Intact, opened = "open", NEW c \in Columns
  PROVE  /\ Proved!ColumnOf(c) \in Seq(Stored) /\ Len(Proved!ColumnOf(c)) = Len(rows)
         /\ Proved!ColumnOf(c) = Archive!Column(c)
         /\ Len(rows) \in Nat /\ WrittenEntries = rows
<1>1. /\ Proved!FileRead /\ index = chunk_index /\ read_total = Len(rows)
      /\ phase = "finished" /\ Sound
      /\ FileInv /\ IInv /\ \A k : Proved!Stored(k, c) = CellsOnFile(k, c)
      /\ rows \in Seq([Columns -> Stored \cup {Unset}])
      /\ chunk_index \in Seq(ChunkEntries)
  <2>1. FileInv /\ IInv
    BY DEF PipelineInv, FileInv
  <2>2. rows \in Seq([Columns -> Stored \cup {Unset}]) /\ chunk_index \in Seq(ChunkEntries)
    BY <2>1 DEF IInv, TypeOK
  <2> QED  BY <2>1, <2>2, WholeFileRead, Zenon
<1>2. PICK t : Proved!Counted(t)
  BY <1>1, Proved!FileCounted, ReaderSound
<1>3. Proved!ColumnOf(c) \in Seq(Proved!CellsRead(c)) /\ Len(Proved!ColumnOf(c)) = Len(rows)
  BY <1>1, <1>2, Proved!ColumnRead, ReaderSound
<1>4. PICK L \in Nat : L = Len(chunk_index)
  BY <1>1
<1>5. /\ t \in [0..L -> Nat] /\ t[0] = 0
      /\ \A k \in 1..L : /\ t[k] = t[k - 1] + chunk_index[k].entry_count /\ t[k - 1] \in Nat
                         /\ chunk_index[k].entry_count \in Nat \ {0}
  BY <1>1, <1>2, <1>4, Proved!CountsClimb, ReaderSound
<1>6. \A k \in 1..L : t[k - 1] = ChunkStart(k)
  <2> DEFINE S == {k \in 0..L : k < L => t[k] = k * ChunkSize}
  <2>1. 0 \in S
    BY <1>4, <1>5, ChunkSizeAssumption
  <2>2. ASSUME NEW k \in 0..L - 1, k \in S PROVE k + 1 \in S
    <3>1. SUFFICES ASSUME k + 1 < L PROVE t[k + 1] = (k + 1) * ChunkSize
      BY <1>4
    <3>2. k + 1 \in 1..L /\ (k + 1) - 1 = k /\ k + 1 # L /\ k < L
      BY <1>4, <3>1
    <3>3. chunk_index[k + 1].entry_count = ChunkSize
      BY <1>1, <1>4, <3>2 DEF IInv, ChunksFill
    <3>4. t[k + 1] = k * ChunkSize + ChunkSize
      BY <1>5, <2>2, <3>2, <3>3
    <3> QED  BY <1>4, <3>4, ChunkSizeAssumption
  <2>3. \A k \in 0..L : k \in S
    <3> HIDE DEF S
    <3> QED  BY <1>4, <2>1, <2>2, Proved!UpTo, ReaderSound
  <2> TAKE k \in 1..L
  <2>4. k - 1 \in 0..L /\ k - 1 < L
    BY <1>4
  <2>5. t[k - 1] = (k - 1) * ChunkSize
    BY <2>3, <2>4
  <2> QED  BY <2>5 DEF ChunkStart
<1>7. ASSUME NEW i \in 1..Len(rows)
      PROVE  Proved!ColumnOf(c)[i] = rows[i][c] /\ rows[i][c] \in Stored
  <2>1. PICK x \in Nat : x = i - 1 /\ x < read_total /\ x + 1 = i
    BY <1>1
  <2>2. PICK k, d : k = Proved!LocateChunk(x) /\ d = Proved!Local(x)
    OBVIOUS
  <2>3. /\ k \in 1..L /\ d \in Nat /\ d + 1 \in 1..chunk_index[k].entry_count
        /\ Proved!ColumnOf(c)[x + 1] = Proved!ReadableCell(k, c, d + 1)
    BY <1>1, <1>4, <2>1, <2>2, Proved!CellFound, ReaderSound
  <2>4. t[k - 1] <= x /\ d = x - t[k - 1]
    BY <1>1, <1>2, <1>4, <2>1, <2>2, Proved!RowLocated, ReaderSound
  <2>5. ChunkStart(k) + (d + 1) = i
    <3>1. PICK a \in Nat : a = t[k - 1]
      BY <1>5, <2>3
    <3>2. a = ChunkStart(k) /\ d = x - a /\ a <= x
      BY <1>6, <2>3, <2>4, <3>1
    <3> QED  BY <2>1, <3>2
  <2>6. Proved!ReadableCell(k, c, d + 1) = CellsOnFile(k, c)[d + 1]
    BY <1>1 DEF Proved!ReadableCell, Proved!Loadable
  <2>7. HoldsRows(CellsOnFile(k, c), c, chunk_index[k].entry_count, ChunkStart(k))
    BY <1>1, <1>4, <2>3 DEF IInv, RowsPlaced
  <2>8. CellsOnFile(k, c)[d + 1] = rows[i][c]
    BY <2>3, <2>5, <2>7 DEF HoldsRows
  <2>9. CellsOnFile(k, c)[d + 1] \in Stored
    <3>1. CellsOnFile(k, c) \in Seq(Stored) /\ Len(CellsOnFile(k, c)) >= chunk_index[k].entry_count
      BY <1>1, <1>4, <2>3, ChunksHold
    <3>2. PICK s \in Seq(Stored) : s = CellsOnFile(k, c)
      BY <3>1
    <3>3. PICK e \in Nat : e = chunk_index[k].entry_count
      BY <1>5, <2>3
    <3>4. d + 1 \in 1..Len(s)
      BY <2>3, <3>1, <3>2, <3>3
    <3> QED  BY <3>2, <3>4
  <2> QED  BY <2>1, <2>3, <2>6, <2>8, <2>9
<1>8. WrittenEntries = rows
  <2>1. LogInv
    BY <1>1 DEF LogInv, FileInv, FileConsistent, FooterComplete, IndexesMatchFile, RecordsIndexed
  <2> QED  BY <1>1, <2>1, EntriesAreRows
<1>9. Archive!Column(c) = [i \in 1..Len(rows) |-> rows[i][c]]
  BY <1>8 DEF Archive!Column
<1>10. PICK s, V : s = Proved!ColumnOf(c) /\ V = Proved!CellsRead(c)
  OBVIOUS
<1>11. PICK l \in Nat : l = Len(rows)
  BY <1>1
<1>12. s \in Seq(V) /\ Len(s) = l /\ \A i \in 1..l : s[i] = rows[i][c] /\ s[i] \in Stored
  BY <1>3, <1>7, <1>10, <1>11
<1>13. s \in Seq(Stored) /\ s = [i \in 1..l |-> rows[i][c]]
  BY <1>12
<1> QED  BY <1>8, <1>9, <1>10, <1>11, <1>12, <1>13

-----------------------------------------------------------------------------
(* The queries: each shows what the archive would.                         *)

\* What a query that answers `a` shows.
Shown(a) ==
  IF a = None \/ ~Intact THEN None
  ELSE IF "column" \in DOMAIN a
  THEN IF "row" \in DOMAIN a
       THEN [column |-> a.column, from |-> a.row, cells |-> <<IF a.null THEN Null ELSE a.value>>]
       ELSE [column |-> a.column, from |-> a.from, cells |-> Reader!Joined(a.column, a.segments)]
  ELSE IF "boundaries" \in DOMAIN a THEN a
  ELSE [frame |-> a.frame + 1,
        payload |-> IF a.frame < Len(Reader!FrameSnapshots) /\ a.pixels = None
                    THEN NoPayload ELSE a.pixels]

\* A query changes nothing that what was seen is read from.
LEMMA QuerySeen ==
  ASSUME UNCHANGED <<vars, index, snapshots>>, NEW a, a = answer'
  PROVE  Seen' = Shown(a)
<1>1. Seen' = Shown(a)'
  BY DEF Seen, SeenCells, Shown
<1>2. \A c, s : Reader!Joined(c, s)' = Reader!Joined(c, s)
  BY DEF Reader!Joined, Reader!Stored, vars
<1>3. Reader!FrameSnapshots' = Reader!FrameSnapshots
  BY DEF Reader!FrameSnapshots
<1>4. Intact' = Intact
  BY DEF Intact, vars
<1>5. Shown(a)' = Shown(a)
  BY <1>2, <1>3, <1>4, Zenon DEF Shown
<1> QED  BY <1>1, <1>5

LEMMA LogUnchanged ==
  ASSUME UNCHANGED vars
  PROVE  UNCHANGED <<WrittenEntries, WrittenMarks, LogState>>
BY DEF vars, WrittenEntries, WrittenMarks, LogState, EntryAt, Sound, Intact

Serves == PipelineInv /\ Intact /\ opened = "open" /\ Proved!Lru(cache, recent)

LEMMA ServesWhole ==
  ASSUME Serves
  PROVE  Proved!Serving /\ LogState = "finished"
<1>1. Proved!FileRead /\ phase = "finished"
  BY WholeFileRead DEF Serves
<1> QED  BY <1>1 DEF Serves, Proved!Serving, LogState

\* A query that shows cells, boundaries or a frame of the archive reads it.
LEMMA ReadIs ==
  ASSUME Serves, UNCHANGED <<vars, index, snapshots>>, NEW a, a = answer',
         \/ \E c \in Columns : \E from, to \in 0..Len(WrittenEntries) :
              Shown(a) = Archive!Slice(c, from, to)
         \/ Shown(a) = [boundaries |->
                          [f \in 1..Len(Archive!FrameMarks) |-> Archive!FrameMarks[f].at]]
         \/ \E f \in 1..Len(Archive!FrameMarks) :
              Shown(a) = [frame |-> f, payload |-> Archive!FrameMarks[f].payload]
         \/ \E f \in 1..Len(WrittenMarks) + 1 :
              f > Len(Archive!FrameMarks) /\ Shown(a) = [frame |-> f, payload |-> None]
  PROVE  Archive!Read
<1>1. Seen' = Shown(a)
  BY QuerySeen
<1>2. LogState = "finished"
  BY ServesWhole
<1>3. UNCHANGED <<WrittenEntries, WrittenMarks, LogState>>
  BY LogUnchanged
<1>4. Archive!ReadColumn \/ Archive!ReadBoundaries \/ Archive!ReadFrame
  BY <1>1, Zenon DEF Archive!ReadColumn, Archive!ReadBoundaries, Archive!ReadFrame
<1> QED  BY <1>2, <1>3, <1>4 DEF Archive!Read

\* A slice of a column is one of the archive's.
LEMMA SliceOf ==
  ASSUME PipelineInv, Intact, opened = "open", NEW c \in Columns,
         NEW from \in 0..Len(rows), NEW to \in 0..Len(rows)
  PROVE  /\ [column |-> c, from |-> from, cells |-> SubSeq(Proved!ColumnOf(c), from + 1, to)]
              = Archive!Slice(c, from, to)
         /\ from \in 0..Len(WrittenEntries) /\ to \in 0..Len(WrittenEntries)
<1>1. Proved!ColumnOf(c) = Archive!Column(c) /\ WrittenEntries = rows
  BY WholeColumn
<1> QED  BY <1>1, Zenon DEF Archive!Slice

\* A cell read is the archive's.
LEMMA GetShows ==
  ASSUME Serves, UNCHANGED vars, NEW c \in Columns, NEW x \in 0..read_total - 1, Reader!Get(c, x)
  PROVE  Archive!Read /\ Proved!Lru(cache', recent') /\ opened' = opened
<1>1. PICK s \in Seq(Stored) : s = Proved!ColumnOf(c) /\ Len(s) = Len(rows)
  BY WholeColumn DEF Serves
<1>2. read_total = Len(rows) /\ Len(rows) \in Nat
  BY WholeFileRead, WholeColumn DEF Serves
<1>3. PICK n \in Nat : n = x /\ n + 1 \in 1..Len(s) /\ n \in 0..Len(rows) /\ n + 1 \in 0..Len(rows)
  BY <1>1, <1>2
<1>4. PICK cell \in Stored : cell = s[n + 1]
  BY <1>1, <1>3
<1>5. Proved!Get(c, x)
  BY SameGet
<1>6. /\ Proved!Lru(cache', recent') /\ opened' = opened
      /\ LET d == Proved!ColumnOf(c)[x + 1]
         IN  answer' = [column |-> c, row |-> x,
                        value |-> IF d \in {Null, None} THEN Default ELSE d,
                        null |-> d \in {Null, None}]
  BY <1>5, Proved!GetAnswers, ReaderSound, ServesWhole
<1>7. cell # None
  BY <1>4, NoneAssumption DEF Stored
<1>8. PICK v \in Cells \cup {Null}, b \in BOOLEAN :
        /\ v = IF cell \in {Null, None} THEN Default ELSE cell
        /\ b = (cell \in {Null, None})
        /\ (IF b THEN Null ELSE v) = cell
  <2>1. CASE cell = Null
    <3>1. (cell \in {Null, None}) = TRUE
      BY <2>1
    <3> QED  BY <2>1, <3>1, CellsAssumption
  <2>2. CASE cell # Null
    <3>1. (cell \in {Null, None}) = FALSE
      BY <1>7, <2>2
    <3> QED  BY <1>4, <2>2, <3>1 DEF Stored
  <2> QED  BY <2>1, <2>2
<1>9. PICK a : a = answer' /\ a = [column |-> c, row |-> n, value |-> v, null |-> b]
  BY <1>1, <1>3, <1>4, <1>6, <1>8, Zenon
<1>10. a # None
  <2>1. a \in [column : Columns, row : Nat, value : Cells \cup {Null}, null : BOOLEAN]
    BY <1>3, <1>8, <1>9
  <2> QED  BY <2>1, NoneAssumption
<1>11. Shown(a) = [column |-> c, from |-> n, cells |-> <<cell>>]
  BY <1>8, <1>9, <1>10 DEF Shown, Serves
<1>12. <<cell>> = SubSeq(s, n + 1, n + 1)
  BY <1>1, <1>3, <1>4
<1>13. \E from, to \in 0..Len(WrittenEntries) : Shown(a) = Archive!Slice(c, from, to)
  <2>1. /\ [column |-> c, from |-> n, cells |-> SubSeq(s, n + 1, n + 1)]
             = Archive!Slice(c, n, n + 1)
        /\ n \in 0..Len(WrittenEntries) /\ n + 1 \in 0..Len(WrittenEntries)
    BY <1>1, <1>3, SliceOf DEF Serves
  <2> QED  BY <1>11, <1>12, <2>1, Zenon
<1>14. UNCHANGED <<index, snapshots>>
  BY DEF Reader!Get
<1> QED  BY <1>6, <1>9, <1>13, <1>14, ReadIs

\* The segments of a column, joined, are a slice of the archive's.
LEMMA SegmentsShow ==
  ASSUME Serves, UNCHANGED vars, NEW c \in Columns, NEW start \in 0..read_total,
         NEW requested \in start..read_total + 1, Reader!GetColumnSegments(c, start, requested)
  PROVE  Archive!Read /\ Proved!Lru(cache', recent') /\ opened' = opened
<1>1. PICK s \in Seq(Stored) : s = Proved!ColumnOf(c) /\ Len(s) = Len(rows)
  BY WholeColumn DEF Serves
<1>2. read_total = Len(rows) /\ Len(rows) \in Nat
  BY WholeFileRead, WholeColumn DEF Serves
<1>3. Proved!GetColumnSegments(c, start, requested)
  BY SameSegments
<1>4. PICK end \in Nat : end = IF requested < read_total THEN requested ELSE read_total
  BY <1>2
<1>5. end \in 0..Len(rows) /\ start \in 0..Len(rows) /\ start \in Nat /\ requested \in Nat
  BY <1>2, <1>4
<1>6. PICK part : part = SubSeq(s, start + 1, end)
  OBVIOUS
<1>7. /\ Proved!Lru(cache', recent')
      /\ LET e == IF requested < read_total THEN requested ELSE read_total
             p == SubSeq(Proved!ColumnOf(c), start + 1, e)
         IN  \E segments :
               /\ answer' = [column |-> c, from |-> start, to |-> requested, segments |-> segments]
               /\ segments = None \/ segments \in Seq([chunk : Nat, offset : Nat, len : Nat])
               /\ IF segments = None THEN \E i \in 1..Len(p) : p[i] = None
                  ELSE p = Proved!Joined(c, segments)
  BY <1>3, Proved!SegmentsAnswered, ReaderSound, ServesWhole
<1>8. PICK segments :
        /\ answer' = [column |-> c, from |-> start, to |-> requested, segments |-> segments]
        /\ segments = None \/ segments \in Seq([chunk : Nat, offset : Nat, len : Nat])
        /\ IF segments = None THEN \E i \in 1..Len(part) : part[i] = None
           ELSE part = Proved!Joined(c, segments)
  BY <1>1, <1>4, <1>6, <1>7, Zenon
<1>9. segments # None
  <2>1. \A i \in 1..Len(part) : part[i] \in Stored
    BY <1>1, <1>5, <1>6
  <2> QED  BY <1>8, <2>1, NoneAssumption DEF Stored
<1>10. PICK a : /\ a = answer'
                /\ a = [column |-> c, from |-> start, to |-> requested, segments |-> segments]
  BY <1>8
<1>11. a # None
  <2>1. a \in [column : Columns, from : Nat, to : Nat,
               segments : Seq([chunk : Nat, offset : Nat, len : Nat])]
    BY <1>5, <1>8, <1>9, <1>10
  <2> QED  BY <2>1, NoneAssumption
<1>12. Shown(a) = [column |-> c, from |-> start, cells |-> Reader!Joined(c, segments)]
  BY <1>10, <1>11 DEF Shown, Serves
<1>13. Reader!Joined(c, segments) = part
  BY <1>8, <1>9, SameJoined
<1>14. \E from, to \in 0..Len(WrittenEntries) : Shown(a) = Archive!Slice(c, from, to)
  <2>1. /\ [column |-> c, from |-> start, cells |-> SubSeq(s, start + 1, end)]
             = Archive!Slice(c, start, end)
        /\ start \in 0..Len(WrittenEntries) /\ end \in 0..Len(WrittenEntries)
    BY <1>1, <1>5, SliceOf DEF Serves
  <2> QED  BY <1>6, <1>12, <1>13, <2>1, Zenon
<1>15. UNCHANGED <<index, snapshots, opened>>
  BY DEF Reader!GetColumnSegments
<1> QED  BY <1>7, <1>10, <1>14, <1>15, ReadIs

LEMMA BoundariesShow ==
  ASSUME Serves, UNCHANGED vars, Reader!FrameBoundaries
  PROVE  Archive!Read
<1>1. PICK l \in Nat : l = Len(Reader!FrameSnapshots) /\ l = Len(Archive!FrameMarks)
  BY FramesAgree DEF Serves
<1>2. \A f \in 1..l : /\ Archive!FrameMarks[f].at = Reader!FrameSnapshots[f].entry_index
                      /\ Archive!FrameMarks[f].at \in Nat
  <2>1. \A f \in 1..l : Archive!FrameMarks[f] \in Snapshots
                        /\ Archive!FrameMarks[f].at = Reader!FrameSnapshots[f].entry_index
    BY <1>1, FramesAgree DEF Serves
  <2> QED  BY <2>1 DEF Snapshots
<1>3. PICK b : b = [f \in 1..l |-> Archive!FrameMarks[f].at]
  OBVIOUS
<1>4. PICK a : a = answer' /\ a = [boundaries |-> b]
  <2>1. b = [f \in 1..l |-> Reader!FrameSnapshots[f].entry_index]
    BY <1>2, <1>3
  <2> QED  BY <1>1, <2>1, Zenon DEF Reader!FrameBoundaries
<1>5. a # None
  <2>1. b \in Seq(Nat)
    BY <1>2, <1>3
  <2>2. a \in [boundaries : Seq(Nat)]
    BY <1>4, <2>1
  <2> QED  BY <2>2, NoneAssumption
<1>6. Shown(a) = a
  BY <1>4, <1>5 DEF Shown, Serves
<1>7. Shown(a) = [boundaries |-> [f \in 1..Len(Archive!FrameMarks) |-> Archive!FrameMarks[f].at]]
  BY <1>1, <1>3, <1>4, <1>6, Zenon
<1>8. UNCHANGED <<index, snapshots>>
  BY DEF Reader!FrameBoundaries
<1> QED  BY <1>4, <1>7, <1>8, ReadIs

LEMMA FrameShows ==
  ASSUME Serves, UNCHANGED vars, NEW frame \in 0..Len(snapshots), Reader!Framebuffer(frame)
  PROVE  Archive!Read
<1>1. PICK l \in Nat : l = Len(Reader!FrameSnapshots) /\ l = Len(Archive!FrameMarks)
  BY FramesAgree DEF Serves
<1>2. PICK n \in Nat : n = frame /\ n + 1 \in 1..Len(WrittenMarks) + 1
  BY MarksTyped DEF Serves
<1>3. PICK payload : payload = file[Reader!FrameSnapshots[n + 1].offset].payload
  OBVIOUS
<1>4. PICK pixels : pixels = IF n < l /\ payload # NoPayload THEN payload ELSE None
  OBVIOUS
<1>5. PICK a : a = answer' /\ a = [frame |-> n, pixels |-> pixels]
  BY <1>1, <1>2, <1>3, <1>4, Zenon DEF Reader!Framebuffer
<1>6. n < l => /\ n + 1 \in 1..l /\ payload = Archive!FrameMarks[n + 1].payload
               /\ payload \in Payloads \cup {NoPayload} /\ payload # None
  <2> HAVE n < l
  <2>1. n + 1 \in 1..l
    OBVIOUS
  <2>2. Archive!FrameMarks[n + 1] \in Snapshots /\ Archive!FrameMarks[n + 1].payload = payload
    BY <1>1, <1>3, <2>1, FramesAgree DEF Serves
  <2> QED  BY <2>1, <2>2, NoneAssumption DEF Snapshots
<1>7. a # None
  <2>1. a \in [frame : Nat, pixels : Payloads \cup {NoPayload, None}]
    BY <1>4, <1>5, <1>6
  <2> QED  BY <2>1, NoneAssumption
<1>8. Shown(a) = [frame |-> n + 1, payload |-> IF n < l /\ pixels = None THEN NoPayload ELSE pixels]
  BY <1>1, <1>5, <1>7 DEF Shown, Serves
<1>9. UNCHANGED <<index, snapshots>>
  BY DEF Reader!Framebuffer
<1>10. CASE n < l
  <2>1. Shown(a) = [frame |-> n + 1, payload |-> Archive!FrameMarks[n + 1].payload]
    BY <1>4, <1>6, <1>8, <1>10
  <2> QED  BY <1>1, <1>5, <1>6, <1>9, <1>10, <2>1, ReadIs
<1>11. CASE ~(n < l)
  <2>1. Shown(a) = [frame |-> n + 1, payload |-> None] /\ n + 1 > Len(Archive!FrameMarks)
    BY <1>1, <1>4, <1>8, <1>11
  <2> QED  BY <1>2, <1>5, <1>9, <2>1, ReadIs
<1> QED  BY <1>10, <1>11

-----------------------------------------------------------------------------
(* The steps, and the refinement.                                          *)

\* A reader has answered nothing and cached nothing before it has opened a file,
\* and caches what it has read last of a whole one (Lru).
ArchiveInv ==
  /\ PipelineInv
  /\ opened \notin {"open", "panicked"} => answer = None /\ cache = <<>> /\ recent = <<>>
  /\ (Intact /\ opened = "open") => Proved!Lru(cache, recent)

LEMMA FileInvLog == FileInv => LogInv
BY DEF LogInv, FileInv, FileConsistent, FooterComplete, IndexesMatchFile, RecordsIndexed, Sound

LEMMA FileInvLogNext == (FileInv => LogInv)'
BY FileInvLog, PTL

LEMMA LruKept ==
  ASSUME UNCHANGED <<vars, index>>, Proved!Lru(cache', recent')
  PROVE  Proved!Lru(cache, recent)'
BY Proved!CacheKept, ReaderSound DEF vars

LEMMA LruEmpty == Proved!Lru(<<>>, <<>>)'
<1>1. Proved!Lru(<<>>, <<>>)
  BY Proved!EmptyCache, ReaderSound
<1> QED  BY <1>1, PTL

\* While the writer works nothing is read, and the log grows as it should.
LEMMA WriterShows ==
  ASSUME ArchiveInv, Next, UNCHANGED reading
  PROVE  ArchiveInv' /\ [Archive!ArchiveNext]_(Archive!archiveVars)
<1>1. PipelineInv /\ PipelineInv'
  BY PipelineStep DEF PipelineNext, ArchiveInv
<1>2. opened \notin {"open", "panicked"} /\ answer = None /\ cache = <<>> /\ recent = <<>>
  <2>1. phase # "finished"
    BY FileSteps
  <2> QED  BY <1>1, <2>1 DEF PipelineInv, OpenedWhole, ArchiveInv
<1>3. opened' = opened /\ answer' = answer /\ cache' = cache /\ recent' = recent
  BY DEF reading
<1>4. ArchiveInv'
  BY <1>1, <1>2, <1>3 DEF ArchiveInv
<1>5. Seen = None /\ Seen' = None
  BY <1>2, <1>3 DEF Seen
<1>6. LogInv /\ LogInv'
  BY <1>1, FileInvLog, FileInvLogNext DEF PipelineInv
<1>7. [Log!Next]_(Log!vars)
  BY <1>6, StepImplements
<1>8. CASE UNCHANGED Log!vars
  BY <1>4, <1>5, <1>8 DEF Log!vars, Archive!archiveVars
<1>9. CASE Log!Next
  <2>1. Archive!Next
    BY <1>9, Zenon DEF Log!Next, Log!Add, Log!Mark, Log!Finish, Log!Lose,
                Archive!Next, Archive!Add, Archive!Mark, Archive!Finish, Archive!Lose
  <2> QED  BY <1>4, <1>5, <2>1 DEF Archive!ArchiveNext
<1> QED  BY <1>4, <1>7, <1>8, <1>9

\* Of a trace in which something went wrong nothing is claimed.
LEMMA BrokenShows ==
  ASSUME UNCHANGED vars, ~Intact
  PROVE  UNCHANGED Archive!archiveVars
<1>1. UNCHANGED <<WrittenEntries, WrittenMarks, LogState>>
  BY LogUnchanged
<1>2. Seen = None /\ Seen' = None
  BY DEF Seen, Intact, vars
<1> QED  BY <1>1, <1>2 DEF Archive!archiveVars

LEMMA ReaderShows ==
  ASSUME ArchiveInv, UNCHANGED vars, Reader!Next
  PROVE  ArchiveInv' /\ [Archive!ArchiveNext]_(Archive!archiveVars)
<1>1. PipelineInv /\ PipelineInv'
  BY PipelineStep DEF PipelineNext, ArchiveInv
<1>2. UNCHANGED <<WrittenEntries, WrittenMarks, LogState>> /\ Intact' = Intact
  BY LogUnchanged DEF vars, Intact
<1>3. CASE Reader!Open
  <2>1. opened = "closed" /\ opened' = "open" /\ UNCHANGED <<cache, recent, answer>>
    BY <1>3 DEF Reader!Open
  <2>2. answer = None /\ cache' = <<>> /\ recent' = <<>> /\ answer' = None
    BY <2>1 DEF ArchiveInv
  <2>3. Proved!Lru(cache, recent)'
    BY <2>2, LruEmpty, ZenonT(60)
    DEF Proved!Lru, Proved!Entries, Proved!EntryOK, Proved!Loadable, Proved!Distinct
  <2>4. Seen = None /\ Seen' = None
    BY <2>2 DEF Seen
  <2> QED  BY <1>1, <1>2, <2>1, <2>3, <2>4 DEF ArchiveInv, Archive!archiveVars
<1>4. CASE Reader!OpenUnfinished
  <2>1. opened = "closed" /\ opened' = "rejected" /\ UNCHANGED <<cache, recent, answer>>
    BY <1>4 DEF Reader!OpenUnfinished
  <2>2. answer = None /\ cache' = <<>> /\ recent' = <<>> /\ answer' = None
    BY <2>1 DEF ArchiveInv
  <2>4. Seen = None /\ Seen' = None
    BY <2>2 DEF Seen
  <2> QED  BY <1>1, <1>2, <2>1, <2>2, <2>4 DEF ArchiveInv, Archive!archiveVars
<1>5. ASSUME opened = "open", opened' \in {"open", "panicked"}, ~Intact
      PROVE  ArchiveInv' /\ [Archive!ArchiveNext]_(Archive!archiveVars)
  BY <1>1, <1>2, <1>5, BrokenShows DEF ArchiveInv
<1>6. ASSUME opened = "open", opened' = opened, index' = index,
             Proved!Lru(cache', recent'), Archive!Read
      PROVE  ArchiveInv' /\ [Archive!ArchiveNext]_(Archive!archiveVars)
  <2>1. Proved!Lru(cache, recent)'
    BY <1>6, LruKept
  <2> QED  BY <1>1, <1>6, <2>1 DEF ArchiveInv, Archive!ArchiveNext
<1>7. ASSUME NEW c \in Columns, NEW x \in 0..read_total - 1, Reader!Get(c, x)
      PROVE  ArchiveInv' /\ [Archive!ArchiveNext]_(Archive!archiveVars)
  <2>1. opened = "open" /\ index' = index /\ opened' \in {"open", "panicked"}
    BY <1>7 DEF Reader!Get
  <2>2. CASE Intact
    <3>1. Serves
      BY <2>1, <2>2 DEF ArchiveInv, Serves
    <3> QED  BY <1>6, <1>7, <2>1, <3>1, GetShows
  <2> QED  BY <1>5, <2>1, <2>2
<1>8. ASSUME NEW c \in Columns, NEW start \in 0..read_total,
             NEW requested \in start..read_total + 1,
             Reader!GetColumnSegments(c, start, requested)
      PROVE  ArchiveInv' /\ [Archive!ArchiveNext]_(Archive!archiveVars)
  <2>1. opened = "open" /\ index' = index /\ opened' = opened
    BY <1>8 DEF Reader!GetColumnSegments
  <2>2. CASE Intact
    <3>1. Serves
      BY <2>1, <2>2 DEF ArchiveInv, Serves
    <3> QED  BY <1>6, <1>8, <2>1, <3>1, SegmentsShow
  <2> QED  BY <1>5, <2>1, <2>2
<1>9. ASSUME Reader!FrameBoundaries \/ \E frame \in 0..Len(snapshots) : Reader!Framebuffer(frame)
      PROVE  ArchiveInv' /\ [Archive!ArchiveNext]_(Archive!archiveVars)
  <2>1. opened = "open" /\ index' = index /\ opened' = opened /\ cache' = cache /\ recent' = recent
    BY <1>9 DEF Reader!FrameBoundaries, Reader!Framebuffer
  <2>2. CASE Intact
    <3>1. Serves
      BY <2>1, <2>2 DEF ArchiveInv, Serves
    <3>2. Archive!Read
      BY <1>9, <3>1, BoundariesShow, FrameShows
    <3>3. Proved!Lru(cache', recent')
      BY <2>1, <3>1 DEF Serves
    <3> QED  BY <1>6, <2>1, <3>2, <3>3
  <2> QED  BY <1>5, <2>1, <2>2
<1> QED  BY <1>3, <1>4, <1>7, <1>8, <1>9, Zenon DEF Reader!Next

LEMMA ArchiveStep ==
  ArchiveInv /\ [PipelineNext]_<<vars, reading>>
    => ArchiveInv' /\ [Archive!ArchiveNext]_(Archive!archiveVars)
<1> SUFFICES ASSUME ArchiveInv, [PipelineNext]_<<vars, reading>>
             PROVE  ArchiveInv' /\ [Archive!ArchiveNext]_(Archive!archiveVars)
  OBVIOUS
<1>1. CASE UNCHANGED <<vars, reading>>
  <2>1. PipelineInv'
    BY <1>1, PipelineStep DEF ArchiveInv
  <2>2. UNCHANGED <<WrittenEntries, WrittenMarks, LogState>> /\ Intact' = Intact
    BY <1>1, LogUnchanged DEF vars, Intact
  <2>3. PICK a : a = answer /\ a = answer'
    BY <1>1 DEF reading
  <2>4. Seen' = Seen
    <3>1. Seen' = Shown(a)
      BY <1>1, <2>3, QuerySeen DEF reading
    <3>2. Seen = Shown(a)
      BY <2>3 DEF Seen, SeenCells, Shown
    <3> QED  BY <3>1, <3>2
  <2>5. UNCHANGED <<opened, answer, cache, recent, index, vars>>
    BY <1>1 DEF reading
  <2>6. ArchiveInv'
    <3>1. (Intact /\ opened = "open") => Proved!Lru(cache, recent)'
      <4>1. Proved!Lru(cache, recent) => Proved!Lru(cache', recent')
        BY <2>5
      <4> QED  BY <2>5, <4>1, LruKept DEF ArchiveInv
    <3> QED  BY <2>1, <2>2, <2>5, <3>1 DEF ArchiveInv
  <2> QED  BY <2>2, <2>4, <2>6 DEF Archive!archiveVars
<1> QED  BY <1>1, WriterShows, ReaderShows DEF PipelineNext

LEMMA ArchiveBegins == PipelineInit => ArchiveInv /\ Archive!ArchiveInit
<1> SUFFICES ASSUME PipelineInit PROVE ArchiveInv /\ Archive!ArchiveInit
  OBVIOUS
<1>1. PipelineInv
  BY FileInit DEF PipelineInit, PipelineInv, OpenedWhole, Init, Footed, Header
<1>2. ArchiveInv /\ Seen = None
  BY <1>1 DEF PipelineInit, ArchiveInv, Seen
<1>3. Log!Init
  BY InitLog DEF PipelineInit
<1>4. Archive!Init
  BY <1>3, Zenon DEF Log!Init, Archive!Init
<1> QED  BY <1>2, <1>4 DEF Archive!ArchiveInit

\* Writer, file and reader are an archive: for every chunk size, cache size and
\* schema, every order of calls and queries and every moment of opening, what is
\* read back of a trace without mistakes or failed writes is what was written. Of
\* any other the archive promises nothing.
THEOREM PipelineImplementsArchive == PipelineSpec => ImplementsArchive
BY ArchiveBegins, ArchiveStep, PTL DEF PipelineSpec, ImplementsArchive, Archive!ArchiveSpec
=============================================================================
