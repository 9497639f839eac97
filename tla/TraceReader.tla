---------------------------- MODULE TraceReader ----------------------------
(***************************************************************************)
(* MoreporkStore (crates/morepork/src/format/read.rs): opening a trace     *)
(* file and answering queries about it. A chunk is loaded when a query     *)
(* first needs it and its field groups are decoded one by one when a       *)
(* column of theirs is asked for; an LRU cache keeps the last Capacity     *)
(* chunks with what has been decoded of them.                              *)
(*                                                                         *)
(* Rows and frames are numbered from 0 as in the code, chunks from 1. An   *)
(* offset is a position in disk.records, a sequence of the records that    *)
(* TraceWriter writes; the parts of the file that do not decode are        *)
(* disk.lost (chunks whose group table cannot be read), disk.absent        *)
(* (groups whose blob runs past the end of the file) and disk.corrupt      *)
(* (groups whose blob does not decompress).                                *)
(***************************************************************************)
EXTENDS Integers, FiniteSets, Sequences, SequencesExt

CONSTANTS
  Columns,   \* header.fields
  Groups,    \* header.field_groups: a sequence of sets of columns
  Default,   \* what a getter returns for a null or an unavailable cell
  Null,      \* a null cell
  None,      \* no value: Option::None
  NoPayload, \* a snapshot's empty payload
  TagFrame,  \* TAG_FRAME
  Capacity,  \* chunks the cache holds (8 in the code)
  Disks      \* the files there are

ASSUME CapacityAssumption == Capacity \in Nat \ {0}
ASSUME ReaderGroupsAssumption ==  \* the writer's header puts every field in one group
  /\ Groups \in Seq(SUBSET Columns)
  /\ \A c \in Columns : \E g \in 1..Len(Groups) : c \in Groups[g]
  /\ \A g, h \in 1..Len(Groups) : g # h => Groups[g] \cap Groups[h] = {}

\* The rows of chunks, counted up to and including each.
Totals(chunks) ==
  LET upto[k \in 0..Len(chunks)] == IF k = 0 THEN 0 ELSE upto[k - 1] + chunks[k].entry_count
  IN  [k \in 1..Len(chunks) |-> upto[k]]

EntriesIn(chunks) == IF chunks = <<>> THEN 0 ELSE Totals(chunks)[Len(chunks)]

\* A file with a footer is one a writer has finished for a producer that sets every
\* column: no chunk is flushed empty, every chunk holds the entries it counts, every
\* cell is a cell, and the footer counts the entries of all chunks.
IsWhole(records) ==
  LET footer == Last(records)
      cells(k, c) == records[footer.chunks[k].offset].data[c]
  IN  /\ footer.chunks \in Seq([offset : 1..Len(records), entry_count : Nat \ {0}])
      /\ footer.total = EntriesIn(footer.chunks)
      /\ \A k \in 1..Len(footer.chunks), c \in Columns :
           /\ cells(k, c) \in Seq(Range(cells(k, c)) \ {None})
           /\ Len(cells(k, c)) >= footer.chunks[k].entry_count

ASSUME DisksAssumption ==
  \A d \in Disks : (d.records # <<>> /\ Last(d.records).kind = "footer") => IsWhole(d.records)
ASSUME ReaderNoneAssumption == None \notin Seq([chunk : Nat, offset : Nat, len : Nat])

VARIABLES
  disk,            \* the file: [records, lost, absent, corrupt]
  status,          \* "closed", "open", "rejected" (from_bytes failed) or "panicked"
  index,           \* chunk_index
  cumulative,      \* entries up to and including each chunk
  snapshots,       \* snapshot_index
  total_entries,
  cache,           \* ChunkCache.entries, the most recently used first
  recent,          \* history: the chunks loaded or touched, the last one first
  answer           \* what the last query returned

readerVars == <<disk, status, index, cumulative, snapshots, total_entries, cache,
                recent, answer>>

-----------------------------------------------------------------------------
(* The file as it is read, without the cache. *)

Finished == disk.records # <<>> /\ Last(disk.records).kind = "footer"

\* build_field_to_group
GroupOf(c) == CHOOSE g \in 1..Len(Groups) : c \in Groups[g]

\* The chunk that holds a row and the row's place in it: the chunks that end at
\* or before the row are skipped (partition_point), empty ones with them.
LocateChunk(row) == Cardinality({k \in 1..Len(cumulative) : cumulative[k] <= row}) + 1

ChunkBegin(k) == IF k = 1 THEN 0 ELSE cumulative[k - 1]
Local(row) == row - ChunkBegin(LocateChunk(row))

Loadable(k) == index[k].offset \notin disk.lost
Decodable(k, g) == <<index[k].offset, g>> \notin disk.corrupt
Stored(k, c) == disk.records[index[k].offset].data[c]

-----------------------------------------------------------------------------
(* The cache. An entry is a chunk with its decoded groups and its raw ones. *)

Cached(lru, k) == \E pos \in 1..Len(lru) : lru[pos].chunk = k

PlaceOf(lru, k) == CHOOSE pos \in 1..Len(lru) : lru[pos].chunk = k

ToFront(seq, pos) == <<seq[pos]>> \o RemoveAt(seq, pos)

\* Mutant: a hit leaves the entry where it is.
TouchInPlace(lru, k) == lru

\* ChunkCache::get moves the entry it finds to the front.
Touch(lru, k) == IF Cached(lru, k) THEN ToFront(lru, PlaceOf(lru, k)) ELSE lru

\* What retain leaves: no chunk is cached twice (CacheKeepsTheMostRecent).
Others(lru, k) == IF Cached(lru, k) THEN RemoveAt(lru, PlaceOf(lru, k)) ELSE lru

Insert(lru, entry) ==
  LET others == Others(lru, entry.chunk)
  IN  <<entry>> \o (IF Len(others) >= Capacity THEN Front(others) ELSE others)

LoadChunk(k) ==
  [chunk |-> k, groups |-> {},
   raw |-> {g \in 1..Len(Groups) : <<index[k].offset, g>> \notin disk.absent}]

EnsureChunkLoaded(lru, k) ==
  IF Cached(lru, k) THEN Touch(lru, k)
  ELSE IF Loadable(k) THEN Insert(lru, LoadChunk(k)) ELSE lru

\* Mutant: a group counts as decoded whether its blob decompressed or not.
DecodeUnchecked(entry, g) ==
  IF g \in entry.raw THEN [entry EXCEPT !.raw = @ \ {g}, !.groups = @ \cup {g}]
  ELSE entry

\* The raw blob is taken out before it is decompressed: one that does not
\* decompress is gone, and the group stays without value while the chunk is cached.
Decode(entry, g) ==
  IF g \in entry.raw
  THEN [entry EXCEPT !.raw = @ \ {g},
                     !.groups = IF Decodable(entry.chunk, g) THEN @ \cup {g} ELSE @]
  ELSE entry

EnsureGroupDecoded(lru, k, g) ==
  LET loaded == EnsureChunkLoaded(lru, k)
  IN  IF Cached(loaded, k) THEN [loaded EXCEPT ![1] = Decode(loaded[1], g)] ELSE loaded

\* The group's RecordBatch is there to read: what follows ensure_group_decoded.
Available(lru, k, g) ==
  \E pos \in 1..Len(lru) : lru[pos].chunk = k /\ g \in lru[pos].groups

\* The history, when a query has asked for chunk k.
Used(used, k) ==
  IF ~Loadable(k) THEN used
  ELSE IF \E pos \in 1..Len(used) : used[pos] = k
       THEN ToFront(used, CHOOSE pos \in 1..Len(used) : used[pos] = k)
       ELSE <<k>> \o used

-----------------------------------------------------------------------------
Init ==
  /\ disk \in Disks
  /\ status = "closed"
  /\ index = <<>> /\ cumulative = <<>> /\ snapshots = <<>> /\ total_entries = 0
  /\ cache = <<>> /\ recent = <<>>
  /\ answer = None

(* from_bytes. A file without a footer is refused: the last eight bytes of *)
(* an unfinished file are taken to lead to no footer that parses.          *)
Open ==
  /\ status = "closed"
  /\ Finished
  /\ LET footer == Last(disk.records)
     IN  /\ index' = footer.chunks
         /\ cumulative' = Totals(footer.chunks)
         /\ snapshots' = footer.snapshots
         /\ total_entries' = footer.total
  /\ status' = "open"
  /\ UNCHANGED <<disk, cache, recent, answer>>

OpenUnfinished ==
  /\ status = "closed"
  /\ ~Finished
  /\ status' = "rejected"
  /\ UNCHANGED <<disk, index, cumulative, snapshots, total_entries, cache, recent,
                 answer>>

(* read_group_value for one of the trace's rows, and what get_numeric,     *)
(* get_bool, get_str and is_null make of it. Arrow panics on a row the     *)
(* batch does not have.                                                    *)
Get(c, row) ==
  LET k == LocateChunk(row)
      g == GroupOf(c)
      lru == EnsureGroupDecoded(cache, k, g)
      has == Available(lru, k, g)
      cell == Stored(k, c)[Local(row) + 1]
  IN /\ status = "open"
     /\ cache' = lru
     /\ recent' = Used(recent, k)
     /\ IF has /\ Local(row) >= Len(Stored(k, c))
        THEN status' = "panicked" /\ UNCHANGED answer
        ELSE /\ answer' = [column |-> c, row |-> row,
                           value |-> IF has /\ cell # Null THEN cell ELSE Default,
                           null |-> ~has \/ cell = Null]
             /\ UNCHANGED status
     /\ UNCHANGED <<disk, index, cumulative, snapshots, total_entries>>

(* get_column_segments walks the chunks that hold rows start..end-1 and    *)
(* gives up at the first whose group is not available.                     *)

\* One chunk of the walk, from the walk so far.
WalkChunk(c, first, offset, walk, k) ==
  LET g == GroupOf(c)
      lru == EnsureGroupDecoded(walk.lru, k, g)
      local == IF k = first THEN offset ELSE 0
      rows == cumulative[k] - ChunkBegin(k)
      len == IF rows - local < walk.remaining THEN rows - local ELSE walk.remaining
  IN  IF walk.stopped THEN walk
      ELSE [lru |-> lru,
            segments |-> Append(walk.segments, [chunk |-> k, offset |-> local, len |-> len]),
            remaining |-> walk.remaining - len,
            stopped |-> ~Available(lru, k, g),
            used |-> Used(walk.used, k)]

Walk(c, start, end) ==
  LET first == LocateChunk(start)
      chunks == LocateChunk(end - 1) - first + 1
      upto[n \in 0..chunks] ==
        IF n = 0
        THEN [lru |-> cache, segments |-> <<>>, remaining |-> end - start,
              stopped |-> FALSE, used |-> recent]
        ELSE WalkChunk(c, first, Local(start), upto[n - 1], first + n - 1)
  IN  upto[chunks]

GetColumnSegments(c, start, requested) ==
  LET end == IF requested < total_entries THEN requested ELSE total_entries
      walk == Walk(c, start, end)
  IN /\ status = "open"
     /\ IF start >= end
        THEN /\ answer' = [column |-> c, from |-> start, to |-> requested,
                           segments |-> <<>>]
             /\ UNCHANGED <<cache, recent>>
        ELSE /\ cache' = walk.lru
             /\ recent' = walk.used
             /\ answer' = [column |-> c, from |-> start, to |-> requested,
                           segments |-> IF walk.stopped THEN None ELSE walk.segments]
     /\ UNCHANGED <<disk, status, index, cumulative, snapshots, total_entries>>

\* The frames' snapshots, in file order.
FrameSnapshots ==
  LET upto[n \in 0..Len(snapshots)] ==
        IF n = 0 THEN <<>>
        ELSE IF snapshots[n].snapshot_type = TagFrame THEN Append(upto[n - 1], snapshots[n])
        ELSE upto[n - 1]
  IN  upto[Len(snapshots)]

FrameBoundaries ==
  /\ status = "open"
  /\ answer' = [boundaries |-> [f \in 1..Len(FrameSnapshots) |->
                                  FrameSnapshots[f].entry_index]]
  /\ UNCHANGED <<disk, status, index, cumulative, snapshots, total_entries, cache,
                 recent>>

\* framebuffer and read_snapshot_payload
Framebuffer(frame) ==
  LET payload == disk.records[FrameSnapshots[frame + 1].offset].payload
  IN /\ status = "open"
     /\ answer' = [frame |-> frame,
                   pixels |-> IF frame < Len(FrameSnapshots) /\ payload # NoPayload
                              THEN payload ELSE None]
     /\ UNCHANGED <<disk, status, index, cumulative, snapshots, total_entries, cache,
                    recent>>

Next ==
  \/ Open
  \/ OpenUnfinished
  \/ \E c \in Columns :
       \/ \E row \in 0..total_entries - 1 : Get(c, row)
       \/ \E start \in 0..total_entries : \E end \in start..total_entries + 1 :
            GetColumnSegments(c, start, end)
  \/ FrameBoundaries
  \/ \E frame \in 0..Len(snapshots) : Framebuffer(frame)

Spec == Init /\ [][Next]_readerVars

-----------------------------------------------------------------------------
TypeOK ==
  /\ disk \in Disks
  /\ status \in {"closed", "open", "rejected", "panicked"}
  /\ index \in Seq([offset : 1..Len(disk.records), entry_count : Nat])
  /\ cumulative \in Seq(Nat)
  /\ total_entries \in Nat
  /\ cache \in Seq([chunk : 1..Len(index), groups : SUBSET (1..Len(Groups)),
                    raw : SUBSET (1..Len(Groups))])
  /\ recent \in Seq(1..Len(index))

\* The rows of column c as the file alone gives them: chunk after chunk, each
\* cell of a part of the file that cannot be read being None.
ReadableCell(k, c, i) ==
  IF \/ ~Loadable(k)
     \/ <<index[k].offset, GroupOf(c)>> \in disk.absent \cup disk.corrupt
  THEN None
  ELSE Stored(k, c)[i]

ColumnOf(c) ==
  LET upto[k \in 0..Len(index)] ==
        IF k = 0 THEN <<>>
        ELSE upto[k - 1] \o [i \in 1..index[k].entry_count |-> ReadableCell(k, c, i)]
  IN  upto[Len(index)]

\* The cells of column c in these segments, put end to end.
Joined(c, segments) ==
  LET upto[n \in 0..Len(segments)] ==
        IF n = 0 THEN <<>>
        ELSE upto[n - 1] \o SubSeq(Stored(segments[n].chunk, c), segments[n].offset + 1,
                                   segments[n].offset + segments[n].len)
  IN  upto[Len(segments)]

\* A cell is read as the file has it, at every row, whatever was read before it
\* and whatever the cache kept, dropped or failed to decode: a damaged group is
\* null in its own chunk and nowhere else.
GetReadsTheFile ==
  (answer # None /\ "row" \in DOMAIN answer) =>
    LET cell == ColumnOf(answer.column)[answer.row + 1]
    IN  /\ answer.null = (cell \in {Null, None})
        /\ answer.value = IF cell \in {Null, None} THEN Default ELSE cell

\* The segments of a column, put end to end, are the rows asked for, cut at the
\* end of the trace, and are refused only when one of those rows is unreadable.
SegmentsReadTheFile ==
  (answer # None /\ "segments" \in DOMAIN answer) =>
    LET column == ColumnOf(answer.column)
        end == IF answer.to < total_entries THEN answer.to ELSE total_entries
        rows == SubSeq(column, answer.from + 1, end)
    IN  IF answer.segments = None
        THEN \E i \in 1..Len(rows) : rows[i] = None
        ELSE rows = Joined(answer.column, answer.segments)

\* Whatever is asked, in whatever order, the answer is the file's.
AnswersReadTheFile == GetReadsTheFile /\ SegmentsReadTheFile

\* The cache holds exactly the chunks used last, the last one first, each once
\* and at most Capacity of them.
CacheKeepsTheMostRecent ==
  [pos \in 1..Len(cache) |-> cache[pos].chunk]
    = SubSeq(recent, 1, IF Len(recent) < Capacity THEN Len(recent) ELSE Capacity)

\* No readable group is ever lost in a cached chunk: it is either decoded or
\* still raw, never both; only a blob that does not decompress may be neither.
GroupsRawOrDecoded ==
  \A pos \in 1..Len(cache) :
    LET entry == cache[pos]
        offset == index[entry.chunk].offset
    IN  /\ entry.groups \cap entry.raw = {}
        /\ \A g \in 1..Len(Groups) :
             <<offset, g>> \notin disk.absent \cup disk.corrupt
               => g \in entry.groups \cup entry.raw
        /\ \A g \in entry.groups : <<offset, g>> \notin disk.absent \cup disk.corrupt

\* Whatever was asked in between, the cache holds what was used last, and all
\* of it that can be read; and no query panics on a file whose chunks hold the
\* entries they count.
CacheSound ==
  /\ TypeOK
  /\ CacheKeepsTheMostRecent
  /\ GroupsRawOrDecoded
  /\ status # "panicked"
=============================================================================
