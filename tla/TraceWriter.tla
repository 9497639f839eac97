---------------------------- MODULE TraceWriter ----------------------------
(***************************************************************************)
(* MoreporkWriter (crates/morepork/src/format/write.rs): the producer's    *)
(* column setters fill one buffer per field; finish_entry counts an entry  *)
(* and, when a chunk is full, drains the buffers group by group into one   *)
(* chunk record; snapshots (frame marks, memory) are written inline at     *)
(* once; finish writes the last chunk and the footer.                      *)
(*                                                                         *)
(* The file is a sequence of records and an offset is a position in it.    *)
(* The setters are an open interface (morepork-ffi exposes them to C), so  *)
(* a producer may set a column twice, forget one or null a column that is  *)
(* not nullable, and it may go on after an error, as the adapters do.      *)
(* Every such mistake, and every failed write, counts in `faults`.         *)
(*                                                                         *)
(* This is the release build: append_mismatched's debug_assert is off.     *)
(***************************************************************************)
EXTENDS Integers, Sequences

CONSTANTS
  Columns,      \* the columns, header.fields
  Groups,       \* GroupMapping.col_indices: a sequence of sets of columns
  Nullable,     \* the columns whose field definition is nullable
  Cells,        \* values a setter may be given
  Default,      \* what append_mismatched stores: 0, false or ""
  Null,         \* a null cell
  Unset,        \* no value set for the column in the current entry
  Tags,         \* snapshot tags
  TagFrame,     \* TAG_FRAME
  Payloads,     \* snapshot payloads
  NoPayload,    \* the empty payload
  ChunkSize,    \* chunk_size (DEFAULT_CHUNK_SIZE = 65536 in the code)
  MaxEntries,   \* bound: entries finished
  MaxSnapshots, \* bound: snapshots written
  MaxFaults     \* bound: producer mistakes and failed writes

ASSUME ChunkSizeAssumption == ChunkSize \in Nat \ {0}
ASSUME BoundsAssumption ==
  MaxEntries \in Nat /\ MaxSnapshots \in Nat /\ MaxFaults \in Nat
ASSUME CellsAssumption ==
  Default \in Cells /\ Null \notin Cells /\ Unset \notin Cells \cup {Null}
ASSUME GroupsAssumption ==  \* groups_from_defs puts every field in one group
  /\ Groups \in Seq(SUBSET Columns)
  /\ \A c \in Columns : \E g \in 1..Len(Groups) : c \in Groups[g]
  /\ \A g, h \in 1..Len(Groups) : g # h => Groups[g] \cap Groups[h] = {}
ASSUME TagAssumption == TagFrame \in Tags

VARIABLES
  phase,            \* "open", "finished" (footer written) or "abandoned"
  columns,          \* the column buffers
  entries_in_chunk,
  total_entries,
  chunk_index,
  snapshot_index,
  file,             \* the records written so far
  row,              \* history: the entry the producer is setting
  rows,             \* history: the entries the producer has finished
  faults            \* history: producer mistakes and failed writes

vars == <<phase, columns, entries_in_chunk, total_entries, chunk_index,
          snapshot_index, file, row, rows, faults>>

-----------------------------------------------------------------------------
(* Records and indexes. *)

Stored == Cells \cup {Null}

ChunkRecord(n) == [kind |-> "chunk", entry_count |-> n, data |-> columns]

\* Mutant: a snapshot taken while entries are buffered counts only those.
SnapshotRecordInChunk(tag, payload) ==
  [kind |-> "snapshot", tag |-> tag, entry_index |-> entries_in_chunk,
   payload |-> payload]

SnapshotRecord(tag, payload) ==
  [kind |-> "snapshot", tag |-> tag, entry_index |-> total_entries,
   payload |-> payload]

\* Mutant: the footer counts the entries of the chunks flushed before finish.
FooterRecordFlushed(chunks, snapshots) ==
  [kind |-> "footer", chunks |-> chunks, snapshots |-> snapshots,
   total |-> total_entries - entries_in_chunk]

FooterRecord(chunks, snapshots) ==
  [kind |-> "footer", chunks |-> chunks, snapshots |-> snapshots,
   total |-> total_entries]

Header == [kind |-> "header"]
Torn == [kind |-> "torn"]  \* what a write that fails half-way leaves behind

NextOffset == Len(file) + 1  \* out.stream_position()

ChunkIndexEntry(n) == [offset |-> NextOffset, entry_count |-> n]

\* Mutant: the entry index counts from the start of the chunk.
SnapshotIndexEntryInChunk(tag) ==
  [snapshot_type |-> tag, offset |-> NextOffset, entry_index |-> entries_in_chunk]

SnapshotIndexEntry(tag) ==
  [snapshot_type |-> tag, offset |-> NextOffset, entry_index |-> total_entries]

EmptyColumns == [c \in Columns |-> <<>>]
EmptyRow == [c \in Columns |-> Unset]

(* RecordBatch::try_new: the group's columns have one length, and a column *)
(* that is not nullable holds no null.                                     *)
BatchAccepted(cols) ==
  /\ \A c, d \in cols : Len(columns[c]) = Len(columns[d])
  /\ \A c \in cols \ Nullable : \A i \in 1..Len(columns[c]) : columns[c][i] # Null

Rejected == {g \in 1..Len(Groups) : ~BatchAccepted(Groups[g])}

DrainedTo(last) ==  \* ColBuf::finish empties the buffers of groups 1..last
  [c \in Columns |->
     IF \E g \in 1..last : c \in Groups[g] THEN <<>> ELSE columns[c]]

-----------------------------------------------------------------------------
Init ==
  /\ phase = "open"
  /\ columns = EmptyColumns
  /\ entries_in_chunk = 0
  /\ total_entries = 0
  /\ chunk_index = <<>>
  /\ snapshot_index = <<>>
  /\ file = <<Header>>
  /\ row = EmptyRow
  /\ rows = <<>>
  /\ faults = 0

(* A setter appends one cell to its column. Setting a column twice in one  *)
(* entry, or nulling one that is not nullable, is the producer's mistake.  *)
AppendCell(c, v) ==
  LET mistake == row[c] # Unset \/ (v = Null /\ c \notin Nullable)
  IN /\ phase = "open"
     /\ mistake => faults < MaxFaults
     /\ columns' = [columns EXCEPT ![c] = Append(@, v)]
     /\ row' = [row EXCEPT ![c] = v]
     /\ faults' = IF mistake THEN faults + 1 ELSE faults
     /\ UNCHANGED <<phase, entries_in_chunk, total_entries, chunk_index,
                    snapshot_index, file, rows>>

SetValue(c, v) == v \in Cells /\ AppendCell(c, v)
\* Mutant: a mistyped value is dropped instead of recorded as the default.
SetMistypedDropped(c) ==
  /\ phase = "open"
  /\ row' = [row EXCEPT ![c] = Default]
  /\ UNCHANGED <<phase, columns, entries_in_chunk, total_entries, chunk_index,
                 snapshot_index, file, rows, faults>>

SetMistyped(c) == AppendCell(c, Default)  \* append_mismatched
SetNull(c) == AppendCell(c, Null)

-----------------------------------------------------------------------------
(* flush_chunk with n entries in the chunk. An error returns before the    *)
(* index and the entry counter are touched, but perhaps after some or all  *)
(* of the buffers were drained.                                            *)

\* Mutant: the entry counter is not reset after a flush.
FlushOkNoReset(n) ==
  /\ Rejected = {}
  /\ file' = Append(file, ChunkRecord(n))
  /\ chunk_index' = Append(chunk_index, ChunkIndexEntry(n))
  /\ columns' = EmptyColumns
  /\ entries_in_chunk' = n

FlushOk(n) ==
  /\ Rejected = {}
  /\ file' = Append(file, ChunkRecord(n))
  /\ chunk_index' = Append(chunk_index, ChunkIndexEntry(n))
  /\ columns' = EmptyColumns
  /\ entries_in_chunk' = 0

FlushRejected(n) ==
  /\ \E g \in Rejected :
       /\ \A h \in Rejected : g <= h
       /\ columns' = DrainedTo(g)
  /\ entries_in_chunk' = n
  /\ UNCHANGED <<file, chunk_index>>

\* Mutant: the chunk enters the index before it is written.
FlushTornIndexed(n) ==
  /\ Rejected = {}
  /\ columns' = DrainedTo(Len(Groups))
  /\ file' = Append(file, Torn)
  /\ chunk_index' = Append(chunk_index, ChunkIndexEntry(n))
  /\ entries_in_chunk' = n

FlushTorn(n) ==
  /\ Rejected = {}
  /\ columns' = DrainedTo(Len(Groups))
  /\ file' = Append(file, Torn)
  /\ entries_in_chunk' = n
  /\ UNCHANGED chunk_index

\* stream_position, which flushes what the file's buffer holds, comes first: where
\* it fails the chunk waits, one entry longer at the next attempt.
FlushUnplaced(n) ==
  /\ entries_in_chunk' = n
  /\ UNCHANGED <<columns, file, chunk_index>>

FinishEntry ==
  LET n == entries_in_chunk + 1
      forgot == \E c \in Columns : row[c] = Unset
      blame(k) == IF forgot THEN k + 1 ELSE k
  IN /\ phase = "open"
     /\ total_entries < MaxEntries
     /\ forgot => faults < MaxFaults
     /\ total_entries' = total_entries + 1
     /\ rows' = Append(rows, row)
     /\ row' = EmptyRow
     /\ \/ /\ n < ChunkSize
           /\ entries_in_chunk' = n
           /\ faults' = blame(faults)
           /\ UNCHANGED <<columns, chunk_index, file>>
        \/ /\ n >= ChunkSize
           /\ FlushOk(n) \/ FlushRejected(n)
           /\ faults' = blame(faults)
        \/ /\ n >= ChunkSize
           /\ blame(faults) < MaxFaults
           /\ FlushTorn(n) \/ FlushUnplaced(n)
           /\ faults' = blame(faults) + 1
     /\ UNCHANGED <<phase, snapshot_index>>

-----------------------------------------------------------------------------
WriteSnapshot(tag, payload) ==
  /\ phase = "open"
  /\ Len(snapshot_index) < MaxSnapshots
  /\ file' = Append(file, SnapshotRecord(tag, payload))
  /\ snapshot_index' = Append(snapshot_index, SnapshotIndexEntry(tag))
  /\ UNCHANGED <<phase, columns, entries_in_chunk, total_entries, chunk_index,
                 row, rows, faults>>

MarkFrame(payload) == WriteSnapshot(TagFrame, payload)

\* A write fails half-way, or stream_position before it.
WriteSnapshotTorn ==
  /\ phase = "open"
  /\ faults < MaxFaults
  /\ file' \in {file, Append(file, Torn)}
  /\ faults' = faults + 1
  /\ UNCHANGED <<phase, columns, entries_in_chunk, total_entries, chunk_index,
                 snapshot_index, row, rows>>

(* finish consumes the writer: it flushes what is left and writes the      *)
(* footer, or it fails and leaves a file without one.                      *)
FinishFlushed ==
  /\ entries_in_chunk = 0
  /\ file' = Append(file, FooterRecord(chunk_index, snapshot_index))
  /\ UNCHANGED <<columns, entries_in_chunk, chunk_index>>

FinishLastChunk ==
  /\ entries_in_chunk > 0
  /\ Rejected = {}
  /\ chunk_index' = Append(chunk_index, ChunkIndexEntry(entries_in_chunk))
  /\ file' = file \o <<ChunkRecord(entries_in_chunk),
                       FooterRecord(chunk_index', snapshot_index)>>
  /\ columns' = EmptyColumns
  /\ entries_in_chunk' = 0

FinishOk ==
  /\ phase = "open"
  /\ FinishFlushed \/ FinishLastChunk
  /\ phase' = "finished"
  /\ UNCHANGED <<total_entries, snapshot_index, row, rows, faults>>

FinishRejected ==
  /\ phase = "open"
  /\ entries_in_chunk > 0
  /\ FlushRejected(entries_in_chunk)
  /\ phase' = "abandoned"
  /\ UNCHANGED <<total_entries, snapshot_index, row, rows, faults>>

(* The process dies, finish fails to write or the writer is dropped: a     *)
(* prefix of the records reaches the disk.                                 *)
Abandon ==
  /\ phase = "open"
  /\ \E k \in 0..Len(file) : file' = SubSeq(file, 1, k)
  /\ phase' = "abandoned"
  /\ UNCHANGED <<columns, entries_in_chunk, total_entries, chunk_index,
                 snapshot_index, row, rows, faults>>

Next ==
  \/ \E c \in Columns :
       \/ \E v \in Cells : SetValue(c, v)
       \/ SetMistyped(c)
       \/ SetNull(c)
  \/ FinishEntry
  \/ \E payload \in Payloads \cup {NoPayload} :
       \/ MarkFrame(payload)
       \/ \E tag \in Tags : WriteSnapshot(tag, payload)
  \/ WriteSnapshotTorn
  \/ FinishOk
  \/ FinishRejected
  \/ Abandon

Spec == Init /\ [][Next]_vars

-----------------------------------------------------------------------------
(* What the properties speak about. *)

Intact == faults = 0  \* every entry was set properly and no write failed
Sound == Intact /\ phase # "abandoned"

\* How many entries come before chunk k when all the chunks before it are full,
\* which is where the reader's running totals put it.
ChunkStart(k) == (k - 1) * ChunkSize
ChunkEnd(k) == ChunkStart(k) + chunk_index[k].entry_count

EntriesInChunks ==
  IF chunk_index = <<>> THEN 0 ELSE ChunkEnd(Len(chunk_index))

CellsOnFile(k, c) == file[chunk_index[k].offset].data[c]

\* The first n cells are those of column c in the n entries after `start`.
HoldsRows(cells, c, n, start) ==
  Len(cells) >= n /\ \A i \in 1..n : cells[i] = rows[start + i][c]

ChunkEntries == [offset : Nat, entry_count : Nat]
SnapshotEntries == [snapshot_type : Tags, offset : Nat, entry_index : Nat]

RecordTypes ==
  {Header, Torn}
    \cup [kind : {"chunk"}, entry_count : Nat, data : [Columns -> Seq(Stored)]]
    \cup [kind : {"snapshot"}, tag : Tags, entry_index : Nat,
          payload : Payloads \cup {NoPayload}]
    \cup [kind : {"footer"},
          chunks : Seq(ChunkEntries),
          snapshots : Seq(SnapshotEntries),
          total : Nat]

\* The writer's state has the types of the struct's fields (write.rs 166-178).
TypeOK ==
  /\ phase \in {"open", "finished", "abandoned"}
  /\ columns \in [Columns -> Seq(Stored)]
  /\ entries_in_chunk \in Nat
  /\ total_entries \in Nat
  /\ chunk_index \in Seq(ChunkEntries)
  /\ snapshot_index \in Seq(SnapshotEntries)
  /\ file \in Seq(RecordTypes)
  /\ row \in [Columns -> Stored \cup {Unset}]
  /\ rows \in Seq([Columns -> Stored \cup {Unset}])
  /\ faults \in Nat

\* Chunks fill in order: while nothing went wrong every chunk but the last one
\* of a finished file holds exactly ChunkSize entries, so that a row's chunk is
\* its index divided by ChunkSize, and no finished entry is uncounted.
ChunksFill ==
  Sound =>
    /\ \A k \in 1..Len(chunk_index) :
         \/ chunk_index[k].entry_count = ChunkSize
         \/ /\ phase = "finished" /\ k = Len(chunk_index)
            /\ chunk_index[k].entry_count \in 1..ChunkSize
    /\ entries_in_chunk < ChunkSize
    /\ total_entries = Len(rows)
    /\ total_entries = EntriesInChunks + entries_in_chunk

\* Every finished entry is in the file, or in the buffers, at the place its
\* index says and with the cells its setters gave, whatever order the columns
\* were set in and however the flushes cut the trace into chunks.
RowsPlaced ==
  Sound =>
    /\ \A k \in 1..Len(chunk_index), c \in Columns :
         HoldsRows(CellsOnFile(k, c), c, chunk_index[k].entry_count, ChunkStart(k))
    /\ \A c \in Columns :
         HoldsRows(columns[c], c, entries_in_chunk, Len(chunk_index) * ChunkSize)

\* The buffers hold the chunk's entries and the cells set so far for the next
\* one, and no null where the schema allows none.
Buffered ==
  (Sound /\ phase = "open") =>
    \A c \in Columns :
      /\ Len(columns[c]) = entries_in_chunk + IF row[c] = Unset THEN 0 ELSE 1
      /\ row[c] # Unset => columns[c][entries_in_chunk + 1] = row[c]
      /\ c \notin Nullable => \A i \in 1..Len(columns[c]) : columns[c][i] # Null

Referenced ==
  Sound => \A k \in 1..Len(chunk_index) : chunk_index[k].offset \in 1..Len(file)

\* The inductive invariant behind RowsPlaced and DisciplineNeverRejected.
IInv == TypeOK /\ ChunksFill /\ Buffered /\ Referenced /\ RowsPlaced

\* A producer that sets every column once an entry never has a flush refused
\* for ragged or null-holding buffers, so its finish_entry and finish can fail
\* only in a write.
DisciplineNeverRejected ==
  (Intact /\ phase = "open" /\ row = EmptyRow) => Rejected = {}

\* Each index entry points at the record it describes, every whole chunk and
\* snapshot record is indexed, and both are in file order.
RecordsIndexed ==
  phase # "abandoned" =>
    /\ \A k \in 1..Len(chunk_index) :
         /\ chunk_index[k].offset \in 1..Len(file)
         /\ file[chunk_index[k].offset].kind = "chunk"
         /\ file[chunk_index[k].offset].entry_count = chunk_index[k].entry_count
    /\ \A s \in 1..Len(snapshot_index) :
         /\ snapshot_index[s].offset \in 1..Len(file)
         /\ file[snapshot_index[s].offset].kind = "snapshot"
         /\ file[snapshot_index[s].offset].entry_index = snapshot_index[s].entry_index
         /\ file[snapshot_index[s].offset].tag = snapshot_index[s].snapshot_type
    /\ \A p \in 1..Len(file) :
         /\ file[p].kind = "chunk" =>
              \E k \in 1..Len(chunk_index) : chunk_index[k].offset = p
         /\ file[p].kind = "snapshot" =>
              \E s \in 1..Len(snapshot_index) : snapshot_index[s].offset = p
    /\ \A j, k \in 1..Len(chunk_index) :
         j < k => chunk_index[j].offset < chunk_index[k].offset
    /\ \A s, t \in 1..Len(snapshot_index) :
         s < t => /\ snapshot_index[s].offset < snapshot_index[t].offset
                  /\ snapshot_index[s].entry_index <= snapshot_index[t].entry_index

\* A snapshot is written at once while the entries around it wait in the
\* buffers. Still the file keeps their order: a chunk before the snapshot holds
\* only entries before its entry_index, and one after it reaches that index.
SnapshotsBetweenChunks ==
  Sound =>
    \A s \in 1..Len(snapshot_index), k \in 1..Len(chunk_index) :
      IF chunk_index[k].offset < snapshot_index[s].offset
      THEN ChunkEnd(k) <= snapshot_index[s].entry_index
      ELSE snapshot_index[s].entry_index <= ChunkEnd(k)

\* The indexes and the file agree, even after failed flushes and torn writes, and
\* file order is entry order.
IndexesMatchFile == RecordsIndexed /\ SnapshotsBetweenChunks

\* The footer of a finished file is its last record and carries the complete
\* indexes and the count of every entry finished, buffered or not at the time.
FooterComplete ==
  phase = "finished" =>
    /\ file[Len(file)] = FooterRecord(chunk_index, snapshot_index)
    /\ entries_in_chunk = 0
    /\ file[Len(file)].total = Len(rows)

\* The entries of these chunks, by their counts.
EntriesIn(chunks) ==
  LET upto[k \in 0..Len(chunks)] == IF k = 0 THEN 0 ELSE upto[k - 1] + chunks[k].entry_count
  IN  upto[Len(chunks)]

\* No finished entry drops out of the counts, whatever fails: a flush that
\* returns an error keeps its entries counted for the next one, so the chunks'
\* entry counts and the open chunk always add up to the total in the footer.
CountsAddUp ==
  phase # "abandoned" => entries_in_chunk + EntriesIn(chunk_index) = total_entries

\* Whatever is refused or torn, the file a writer leaves describes itself: its
\* indexes point at what they describe, nothing whole is left out of them, file
\* order is entry order, and the footer's counts are the producer's.
FileConsistent == IndexesMatchFile /\ FooterComplete /\ CountsAddUp

-----------------------------------------------------------------------------
(* The trace the writer has so far, read off the file and the buffers with *)
(* the arithmetic the reader uses, and the log it promises (TraceLog).     *)

EntryAt(i) ==
  LET k == ((i - 1) \div ChunkSize) + 1
      local == ((i - 1) % ChunkSize) + 1
  IN  [c \in Columns |-> IF k <= Len(chunk_index)
                         THEN file[chunk_index[k].offset].data[c][local]
                         ELSE columns[c][local]]

(* A trace in which something went wrong, a producer's mistake or a failed  *)
(* write, is one the log gives up: it promises nothing about its entries.  *)
LogState == IF Intact THEN phase ELSE "abandoned"

WrittenEntries ==
  IF Sound THEN [i \in 1..total_entries |-> EntryAt(i)] ELSE <<>>

WrittenMarks ==
  IF ~Sound THEN <<>>
  ELSE [s \in 1..Len(snapshot_index) |->
          LET record == file[snapshot_index[s].offset]
          IN  [tag |-> record.tag, at |-> record.entry_index,
               payload |-> record.payload]]

Log == INSTANCE TraceLog
  WITH Entry <- [Columns -> Stored], Tag <- Tags,
       Payload <- Payloads \cup {NoPayload},
       entries <- WrittenEntries, marks <- WrittenMarks, state <- LogState

\* The writer is a log until something goes wrong, and then for good none: an
\* entry, once finished, is part of the trace and never changes, whether it is
\* in the buffers, in a full chunk or in the short one finish writes.
ImplementsLog == Log!Spec
=============================================================================
