# Morepork in TLA+

Morepork records what a console emulator does, one entry per instruction, cycle
or phase, in a columnar trace file, and reads, samples, compares and draws such
traces. This directory models the parts of it that keep state or decide which
row is which, checks them with TLC on small instances, and proves the central
ones for every size with TLAPS. Paths below are relative to `src/`; `lib/` is
`crates/morepork/src/`.

## 1. The system

A producer (an adapter around an emulator, the C interface, or a command that
converts or samples) drives a `MoreporkWriter`; the file it leaves is opened by a
`MoreporkStore`, of which everything else is a client: queries, the
one-row-per-instruction view, the comparison, and the Game Boy's pictures and
video memory. A trace may also be JSONL, one entry a line; whoever opens it
copies it to a native one first.

    emulator -> adapter -> [C interface] -> trace writer -> file -> trace reader
                                                                      |
    JSONL -> convert -> trace writer
                     downsample command <-----------------------------+
                     instruction view -> comparison, pictures <-------+
                     video memory, queries <--------------------------+

The library has no threads; the adapters of two emulators drive a child process
that runs on while they wait. What makes it hard is order and failure: buffers,
counters and indexes that must move together while writes fail between them;
producers that call the setters in the wrong order; files that were never
finished; lazily decoded and evicted chunks; walks over two columns cut in
different places; boundaries that fall between, before and after the rows kept;
emulators whose vertical blanks, stop conditions and budgets come in any order;
verdicts, timeouts and the end of a child process that race.

| Part | Source | State | Operations | Correct means |
|---|---|---|---|---|
| trace writer | `lib/format/write.rs` | column buffers, two counters, chunk and snapshot index, the file | `create`, `set_*`, `finish_entry`, `mark_frame`, `write_snapshot`, `finish` | counters, indexes and file agree whatever fails; every entry is where its index says |
| trace reader | `lib/format/read.rs` | the footer's indexes, an LRU cache of partly decoded chunks | `from_bytes`, `get_*`, `get_column_segments`, `frame_boundaries`, `framebuffer` | an answer is what the file holds, whatever was asked before; only finished files open |
| instruction view | `lib/downsample.rs` | an index map | `new`, the store's queries, `downsampled_index`, `frame_boundaries` | one row per instruction, each in its frame |
| downsample command | `crates/morepork-cli/src/main.rs` 534-678 | a cursor in the boundaries, the output | one pass | no frame is lost or doubled |
| comparison | `lib/comparison.rs` 1-290, 610-745 | two index maps, cached statistics | `align`, `stats`, `diff_indices` | the rows paired are those meant; the statistics count the pairs |
| bulk comparison | `lib/comparison.rs` 300-605 | two iterators over segments | `compare_segments`, `diff_indices_from_segments` | each differing row once, however the columns are cut |
| Game Boy video memory | `lib/system/gb/vram.rs` | checkpoints, the last answer | `build`, `at_entry` | the memory is that of the row asked about |
| Game Boy pictures | `lib/system/gb/framebuffer.rs` | none between calls; a cursor and a screen within | `reconstruct_*`, `build_*_map*` | the pixels are the last ones pushed; the maps agree with the picture |
| Game Boy capture loops | `adapters/{sameboy,gambatte,mgba,docboy,gateboy,missingno}` | frame, cycle and extra-frame counters, latched conditions, a pending picture | the main loop, callbacks, the loop after a match | pictures belong to their frames; a stop takes the extra frames; the run ends |
| JSONL reader, conversion | `lib/reader.rs`, `lib/format/convert.rs`, `crates/morepork-cli/src/main.rs` 377-527 | a line iterator with a pending first entry; the writer | `from_reader`, `next_entry`, `reader_to_store`, `convert_to_morepork` | every data line is one row, in order; marks between the entries they were between |
| store trait, queries | `lib/store.rs`, `lib/query.rs`, `cmd_query*` | none; the row before | conditions, `query_range`, `field_summary` | a change is seen once, at the row where it happens; a summary shows the rows of its range |
| header, profile, snapshot, registry | `lib/header.rs`, `lib/profile.rs`, `crates/morepork-systems` | none | validation, look-up | tables |
| C interface | `crates/morepork-ffi` | the writer behind a pointer | `morepork_writer_*` | each call is one writer operation, or an error code |
| BGB adapter | `adapters/bgb` | a named pipe, a child process, half an entry | lines gathered into entries | entries whole, the child gone |
| test-suite adapters | `adapters/{mame,openmsx,ares,gearsystem,gearcoleco,gopher2600,stella}`, missingno's other systems | a verdict, a budget, a child process, its log | run until a verdict or the budget, then a picture | the verdict in the trace is the program's, the trace reaches it, the waits suffice and end |

`PROJECT.json` lists these, the ones left out with the reason, and the hazards,
each at its line.

## 2. The modules

| Module | Models | Notes |
|---|---|---|
| `TraceLog` | what a writer promises: an append-only list of entries and marks, closed once | abstract |
| `TraceWriter` | `write.rs` | implements `TraceLog` (`ImplementsLog`) while nothing has gone wrong |
| `TraceReader` | `read.rs` | over the records of a file, whole or damaged |
| `TraceArchive` | what a file promises a reader: nothing until it is closed, then the log | abstract |
| `TracePipeline` | `TraceWriter` and `TraceReader` over one file | implements `TraceArchive` (`ImplementsArchive`) |
| `InstructionView` | `downsample.rs` | |
| `FrameViews` | `framebuffer.rs` on top of the view | extends `InstructionView`: one reader asks both |
| `DownsampleCommand` | `cmd_downsample` | |
| `TraceConversion` | the JSONL reader, the typing of its header, the copy to a native trace | for `convert` and for `open_trace_store` |
| `TraceQuery` | conditions, their parser, `query_range`, `field_summary`, what is printed of a match | operators only |
| `TraceCommands` | the commands on one trace | composes the three above |
| `ColumnTypes` | what a column's Arrow type makes of its cells, for accessors and for value buffers | operators only |
| `TraceComparison` | alignment and statistics | collapses rows as the view does |
| `SegmentWalk` | the bulk comparison's walk over two columns | |
| `BulkComparison` | the walks the statistics and the standalone functions start | composes the two above over the stores' segments |
| `VramCache` | `vram.rs` | |
| `GameBoyCapture` | seven capture loops, one constant per adapter | SameBoy counts twice, by instruction and by cycle |
| `VerdictCapture` | four test-suite adapters, two of them with a child process | missingno's 2600 (`vcs`), its SG-1000 and ColecoVision (`tivdp`), MAME, openMSX |
| `*Proofs` | theorems about the writer and its log, the view and its pictures, the comparison, the walk, the video memory, the commands, and both captures | one module for each component |
| `MC*` | instances for TLC | |

How state and actions correspond to the code:

* **TraceWriter.** `columns`, `entries_in_chunk`, `total_entries`, `chunk_index`
  and `snapshot_index` are the fields of `MoreporkWriter`; `file` is the sequence
  of records written (header, chunks, snapshots, footer, and `Torn` for a write
  that failed part way). A record's offset is its place in the sequence. A flush
  is not an action of its own: `FinishEntry` and `FinishLastChunk` contain it, in
  its outcomes (`FlushOk`, `FlushRejected` for ragged columns or nulls
  where none are allowed, `FlushTorn` for a failed write, `FlushUnplaced` where
  the position in the file cannot be had and nothing has been drained yet). `row`, `rows` and
  `faults` are history: what the producer meant, and what has gone wrong.
  `Abandon` is the crash, or the drop without `finish`.
* **TraceReader.** `Open` is `from_bytes`; `Get`, the segment walk and the frame
  queries go through one cache whose groups are raw, decoded or neither, as in
  `ChunkCache`. A lookup that panics in the code (a row past the
  end of its chunk's cells) sets `status` to "panicked", and nothing follows. Damage is a parameter of the file: records that cannot
  be read, groups absent from a chunk, groups whose blob does not decode.
* **InstructionView, FrameViews.** The constructor's pass is one row per step;
  queries follow in any order. A picture, and each of the maps, is drawn row by
  row as its loop does, with its own cursor; the range asked about is any.
* **TraceComparison.** A pair of traces is an initial state; collapsing,
  aligning and the statistics calls are steps, so a call may follow another with
  a different field filter. The columns have types, nulls and chunks. A count is
  taken row by row through the accessors (`ScalarDiffs`, `RangeDiffs`), or in bulk
  off the value buffers (`BulkDiffs`): where the type is not one of
  `count_diffs_typed`'s, or not the same in both, every row counts as different,
  and a null of a dictionary column reads the first value of its chunk's
  dictionary, or panics if that has none (`ComputeStatsPanics`).
* **SegmentWalk, BulkComparison.** One step is one batch: as many rows as both
  iterators have left in their segments. `BulkComparison` starts a walk over the
  segments `get_column_segments` hands out for the ranges the maps are, or for the
  range a standalone call asks about.
* **VramCache.** The build is one row per step, a query replays one row per
  step; the cursor and the memory stay for the next query.
* **GameBoyCapture.** Each adapter's loop body is one action; the emulator is
  external and chooses vertical blanks (regular while the LCD is on, anything
  once it has been off), conditions and matches. `regions` are the parts of the
  trace between frame marks, with the pictures their entries carry: the first
  entry's and the others'.
* **TraceConversion, TraceCommands.** A file is a sequence of lines of a few
  kinds; reading the header, reading ahead, creating the writer and copying an
  entry are a step each, with their failures. `rows_from` is history: the line an
  entry came from. `convert` types a header through the registry, a load does
  not; the flag `mode` says which. Once a trace is open a command takes it:
  sampling goes on row by row in `DownsampleCommand`, the others answer at once
  with `TraceQuery`'s operators. A condition is a record of the class its text
  falls in.
* **VerdictCapture.** Adapter and emulator take steps of their own. MAME is
  driven through a socket (`asked`, `wire`): each command is followed by a read
  that takes whatever answer is next, or gives up (`ReadTimeout`). The four
  commands in front of that are steps too (`MameHandshake`); their reads have no
  timeout, and MAME may hang in any of them. openMSX is
  polled through its console for a verdict, its time and a deadline. `log` and
  `flushed` are the child's log and the part of it sure to be in the file when
  the child is killed. Time passes in emulated seconds, each `pace` seconds of
  the wall clock; the budgets and timeouts are the code's own numbers.

## 3. The runs

All within five minutes on two workers. "S" are distinct states, approximately.

| Run | Bounds | S | Shows |
|---|---|---|---|
| `writer` | three columns in groups of two and one, one nullable; chunks of 2, 3 entries, 1 snapshot, 2 faults | 3.6M | counters, indexes and footer agree with the file after any producer mistake, refusal, torn write or crash; while nothing went wrong, rows are placed, no flush is refused, and `TraceLog` is implemented |
| `reader_files` | an empty, a three-chunk, an unfinished and a damaged file; two groups; cache of 2 | 3.7k | answers read as the file does in every order of queries; the cache keeps the most recent chunks; a group is raw or decoded except after a failed decode |
| `pipeline` | one column, chunks of 2, 3 entries, 1 fault, cache of 1; one query (`UnsoundReadOnce`) of a file with a fault | 36k | a file opens only when whole; a sound one never panics; what is read was written |
| `frame_views` | every trace of up to 5 rows, 2 boundaries; and 3 rows of pixels on a 2x2 screen | 780k | view: one row per instruction, `downsampled_index` contains its row, frames keep their instructions. Pictures: the last pixel pushed at a place is shown, the maps name the row that pushed it, and the two agree |
| `trace_commands` | JSONL files of up to 3 lines without header, 2 behind one of seven headers, and runs of up to 4 values; native traces of up to 4 rows and 3 boundaries with every set of rows kept; 15 queries; reads and writes that fail | 147k | a conversion has the data lines in order, each value in its row and column, each flag as one mark next to its entry; sampling marks every boundary up to the last row copied once, next to the first row kept from it on; changes and transitions alternate, a summary covers its range, matches are shown in their context |
| `bulk_comparison` | up to 4 by 2 rows of addresses and 3 by 2 of values and nulls; `u8`, `u16`, `u64` and dictionary columns; chunks of 1 or 2; every sync mode; one walk a behaviour, from row 0 or 1 when asked for alone | 320k | the maps ascend, pair instruction with instruction, start where the mode says; statistics count the pairs where they can; a walk gives the count they take, counts or lists each differing row once, and ends |
| `vram_cache` | up to 4 rows, interval 2, boundaries before, on and behind the rows | 87k | answers are exact in every order of queries; checkpoints are no further apart than the interval |
| `game_boy_capture` | frames of 2 steps, 2 or 4 frames, up to 2 extra, a budget of 5 or none, single and double speed | 170k | see below |
| `verdict_capture` | linked: 0 to 2 frames of 2 steps, a limit of 4 instructions; MAME: 30 and 179 frames at 50 and 60 Hz; openMSX: 30 and 1300 frames; 3 instructions in a child; an emulated second takes 1, 4, 11, 13 or 25 | 96k | see below |
| `bulk_u64`, `query_and`, `extra_frames` | columns of up to 3 rows; pairs of conditions over up to 3 rows; SameBoy without a budget | | three statements of the sources the code does not keep (section 6) |

Why the bounds are enough. The writer's code distinguishes a chunk that fills, one that
does not, and the first from the later ones: three entries in chunks of two give all of
these, a snapshot in between, and a fault before or after each. The reader distinguishes
hit, miss, and eviction, first and last row of a chunk: three chunks in a cache of two.
The walk's batches end at the end of either segment or of both: chunks of one and two
from either offset, and rows of both kinds in a chunk, nulls in front of the first value
and behind it. What section 4 lists is proved for every bound. `Colours`, `Cells` and
`Bytes` are as many as tell a kept value from a replaced one. `CycleBound` in
`GameBoyCapture` is above every budget of its options, so no guard that compares cycles
is changed by it; `RunOnBound` bounds the frames counted after a match. `MaxEntries`,
`MaxSnapshots`, `MaxFaults` and `MaxEntry` bound what a producer or a client does, never
what the code does. Three lines hold every pair of neighbours among nine kinds of line,
behind every way a header is found or made up; the loop keeps nothing but the pending
entry from one line to the next. `VerdictCapture` has paces on either side of the
factors the adapters allow (12 and 5), a number of frames that is no whole number of
seconds (179), and one whose budget is beyond openMSX's least deadline (1300); `MaxRan`
bounds the program, which may latch its verdict with any instruction or never, not the
adapters.

The properties of `writer` are, beside `IInv`: `RowsPlaced`; `FileConsistent` (the
indexes name the records of the file, the footer is complete, the counts add up);
`DisciplineNeverRejected`; `ImplementsLog`. Of the readers: `AnswersReadTheFile` and
`CacheSound`; over one file with the writer, `OpensWholeTraces` and
`ImplementsArchive`. Of the view and the pictures: `SplitsAtChanges`,
`AnswerContainsRow`, `InstructionsStayInTheirFrame`, `ViewsInvariant`,
`PictureShowsLastPixels`, `MapsAgree`. Of the comparison: `MapsInOrder`,
`StartsWhereAsked`, `StatsCountPairs` (in bulk a column of a known type is counted
as row by row unless a dictionary null is among the rows, of another type no
difference is missed, and no count is for other fields than it says),
`WalksGiveTheCounts`, `CountsEachDifference`, `ListsTheDifferences`.

`game_boy_capture` checks: a picture is in the region it was taken for, once
(`PicturesInTheirFrames`); a stop misses none of the extra frames asked for and takes at
most one more, gateboy aside, and a countdown under way is not begun again
(`StopTakesExtraFrames`; that the number announced is not the number run is the run
`extra_frames`; in missingno the frame that ends with the step that notices the
condition is one of them); the limit on cycles ends no run at single speed whose LCD
stayed on (`BudgetNeverTruncates`); loops that count cycles end (`RunIsBounded`).

`verdict_capture` checks: a verdict in a closed trace is the one the program
latched, and one the adapter was told of is there (`VerdictIsThePrograms`); such a
trace has every instruction up to the verdict (`VerdictTraceWhole`), but for openMSX
when the verdict comes after the log was torn down; the clock ends no run of an
emulator within the factor the adapter allows, and a budget used up covers the
frames asked for (`BudgetSuffices`); every run ends and leaves no child, but for
one whose MAME hangs during the handshake, which waits there for ever
(`CaptureEnds`).

Fairness. The walk of `BulkComparison` and `GameBoyCapture` have weak fairness of their
next step: a loop in one thread that waits for nothing takes its next step.
`VerdictCapture` has weak fairness of the adapter, of emulated time while the emulator
runs, and of MAME's answers while it has not hung; hanging, executing and latching a
verdict are never owed. The adapter's fairness asks nothing of a read that has neither
answer nor timeout: the step is disabled. That is the handshake with MAME (mame main.rs
449-462, the first timeout is set at 469); all later reads and polls have a timeout or a
deadline. What it takes for granted of the emulators: a stopped MAME answers, and may
hang but not crash; after its verdict a program stays where it is; the TI VDP's frame
after the loop always comes. No other specification has liveness; the writer and the
reader do nothing unless called, and no caller need call. Deadlock is not checked where
a program ends (`CHECK_DEADLOCK FALSE`); it is checked for the video memory cache, which
always takes another query.

## 4. What is proved

The proofs hold for every value of the constants under the named assumptions of
the modules (which TLC evaluates on the instances).

* **TracePipelineProofs** (`ChunkSizeAssumption`, `CellsAssumption`,
  `GroupsAssumption`, `BoundsAssumption`, `TagAssumption`, and for the reader
  `ReaderAssumption` and `NoneAssumption`: `None` is no cell, payload or answer): `WriterTyped`,
  `WriterInvariant`, `WriterRowsPlaced`, `WriterNeverRejects`. `RowsPlaced`, that
  an entry is found at the chunk and offset its number gives, is not
  inductive: a flush must know that the buffers are even and hold exactly the
  entries since the last chunk. `IInv` adds that every indexed chunk is full or
  last (`ChunksFill`), that buffers hold the current entries plus, for columns
  already set, one cell (`Buffered`), and that index entries point at chunk
  records (`Referenced`), all as long as the producer made no mistake and no
  write failed (`Intact`). Types are kept under every fault.
  `WriterLogInvariant` and `WriterImplementsLog` are the refinement of `TraceLog`
  by the writer, for every schema, grouping and chunk size. `LogInv` adds to
  `IInv` that a finished writer has nothing buffered and that snapshots are
  indexed at records of the file; with it the entries read off file and buffers
  by quotient and remainder of the chunk size are `rows` (`EntriesAreRows`), so a
  step that adds a row is `Add`, one that adds a snapshot `Mark` behind as many
  entries, and one that goes wrong `Lose`. `WriterFileConsistent` holds under
  every fault: `FileInv` says that each index names its record, that a running
  total over the chunks is the number of entries in them, and that a footer, if
  there is one, is the last record and says what the indexes say.
  `PipelineOpensWholeTraces`, of the writer and a reader over one file: a file that
  ends in a footer is a finished writer's (`Footed`), so what a reader has opened is
  the writer's index with its running totals, which end at the writer's count
  (`OpenedWhole`); a row it can be asked for is then in a chunk that holds it
  (`RowFound`), and no query panics, whatever the cache holds.
  `PipelineImplementsArchive` joins writer and reader: what is read back of a trace
  without mistakes or failed writes is the log. `ArchiveInv` adds that before a
  file is opened nothing is answered or cached, and that afterwards the cache is
  `Lru`. The file such a writer finishes is one TraceReaderProofs speaks of
  (`WholeFileRead`; its lemmas are used through the instance `Proved`), and a column of
  it is that column of `rows` (`WholeColumn`). Frames are counted alike on both sides
  (`FramesAgree`, by induction over the boundaries). So every query shows a slice of
  a column, the boundaries or a frame of the archive (`GetShows`, `SegmentsShow`,
  `BoundariesShow`, `FrameShows`), and every writer step is the log's.
* **TraceReaderProofs** (`CapacityAssumption`, `ReaderGroupsAssumption`,
  `DisksAssumption`: a file with a footer counts its entries and holds in each chunk
  as many cells as it counts, which is what `WriterRowsPlaced` says of a producer
  that sets every column; a file may be damaged in any of its parts;
  `ReaderNoneAssumption`: `None` is no list of segments): `ReaderCacheSound`,
  `ReaderAnswersReadTheFile`. `ReaderInv` says that position by position the cache is
  the beginning of the history of chunks asked for, which are distinct (`Lru`), and that of
  an entry each readable group is raw or decoded and no other decoded (`EntryOK`).
  Asking for a chunk keeps this and makes its group available exactly if it can be
  read (`Ensured`). A row is in the chunk whose running totals enclose it
  (`RowLocated`), where its cell of the column is (`ColumnRead`, an induction over the
  chunks). The walk over a column cuts the rows asked for where chunks end (`Cut`);
  by induction over its chunks it has those pieces or has met a row that cannot be
  read (`WalkReads`), though the walk itself evicts and reloads entries, and the pieces
  end to end are the rows (`SegmentsJoined`).
* **FrameViewsProofs** (`TracesAssumption`, `LcdAssumption`, `PixelsAssumption`):
  `ViewInvariant`, `ViewSplitsAtChanges`, `ViewAnswerContainsRow`,
  `ViewKeepsFrames`, `ViewsInvariantHolds`, `ViewsShowLastPixels`, `ViewsMapsAgree`,
  `ScansLeaveTheView`. For the view the
  strengthening says what the half-built map covers (`Covering`) and what
  `prev_addr` is (`Passing`); the answer's theorem rests on the search returning
  the greatest first row not after the row asked about, and frames keep their
  instructions because the first rows before a boundary are an initial segment
  of the map (`InitialSegment`). For the scans, what the pictures and maps should
  hold is said of the rows, without a cursor; `CursorCounts` ties the two: the
  cursor is the number of pixels pushed so far, or in its line since the line began,
  cut off where the screen or the line ends, which is all a cell's number needs.
  `NotedSoFar` then says of each scan that what it has noted is what the rows read
  so far say, and one row more adds just that row to the painters of a cell
  (`PaintersMore`, `SourcesMore`). That each scan reads exactly the rows asked for,
  of an instruction all its rows, is `RowsOfRange`. The last
  theorem says that drawing never disturbs the view underneath.
* **VramCacheProofs** (`VramAssumption`): `CacheInvariant`, `CacheAnswersExact`,
  `CacheCheckpointsClose`. The memory after `i` rows is defined by the last write
  to each address, not by replaying; the invariant says the buffer is that memory
  at every step of pass and replay, and so is every checkpoint.
* **TraceCommandsProofs**, conversion (`ConversionAssumption`): `ConversionInvariantHolds`,
  `ConversionCopiesTheEntries`, `ConversionMarksFrames`. The strengthening says
  which lines have been consumed: the data lines among them are the entries
  copied and the one read ahead, which is the first and waits only before any was
  copied; the marks count the flagged lines among those copied, each behind its entry
  (`MarkedBehind`); `FlagsMarkTheirEntries` asks only that they be next to it.
* **TraceCommandsProofs**, sampling (`InputsAssumption`: the boundaries ascend, as the
  snapshots of a file do): `SamplingInvariantHolds`, `SamplingMarksEveryFrameOnce`,
  `SamplingMarksWithinOneRow`. The boundaries already marked are a prefix: those
  marked lie on either side of a mark's rows, those left lie behind every row
  copied. The boundaries due at a row are then an interval, whose size the
  loop's cursor counts. They hold for traces that were converted first as well,
  whose boundaries ascend by the conversion's invariant.
* **TraceCommandsProofs**, answers (`QueryAssumption`; `ConversionAssumption`, whose
  second part says that cells of numeric columns hold numbers or, misspelt, `Odd`):
  `ChangesSeenOnce`, `MatchesInContext`, `ChartOfTheRange`. Every row copied has the
  columns of the header, numbers in the numeric ones (`RowsTyped`), so that a
  comparison and a mask read one number. Edges alternate because the first row after an edge
  that lacks the bit's value is one of the other kind (`RunsEnd`); a run of rows has
  one beginning (`OneBeginning`). The k-th row of a set exists (`PlacesFilled`), and the
  rows printed are joined by induction over the matches (`ContextsElements`). For
  charts, the bounds `b * R \div B` ascend from 0 to `R`, strictly where there are
  no more buckets than rows (`BucketsOfRange`).
* **VerdictCaptureProofs** (`OptionsAssumption`): `CaptureInvariantHolds`,
  `VerdictsAreThePrograms`, `VerdictTracesAreWhole`, `VerdictBudgetsSuffice`, each for all four adapters and any pace,
  number of frames and extra time. For the linked loops the invariant says on which
  side of the instruction an entry is written. For MAME: once the stop has
  been read, commands and answers are in step (`InStep`), and a stop not yet read
  stands in front of every verdict on the wire, so that no late answer is taken
  for one. For openMSX: the log is what ran until it was closed, and is
  flushed if the watchpoint ended it. The budgets rest on `BudgetInvariant`: time
  waited is `pace` times the emulated seconds of the phase, which the budget
  bounds, so that a clock runs out within the factor only when the frames asked
  for have passed. None needs fairness.
* **GameBoyCaptureProofs** (`CaptureAssumption`, `CycleBoundAssumption`):
  `CaptureInvariant`, `CapturePicturesInTheirFrames`, `CaptureStopTakesExtraFrames`,
  `CaptureBudgetNeverTruncates`, for all seven loops and every number of frames,
  extra frames, steps to a frame and speed. What a step does to the trace is one
  of a few things (`TraceSteps`), from which `Framed` follows: a picture waiting is that of
  the region about to open. `CountInv` relates the counters of frames, of cycles
  and of steps since the last blank, so a budget of cycles lasts for its frames;
  `StopInv` relates the countdown to the marks set since the stop: for each loop they
  add up to the extra frames asked for, or that and one (`PhaseStopInv` for gateboy).
* **TraceComparisonProofs** (`TracesAssumption`, `NoneAssumption`,
  `HeadRowsAssumption`): `ComparisonAligned`, `ComparisonMapsInOrder`,
  `ComparisonStartsWhereAsked`, `ComparisonCountsPairs`. That the collapsing
  loop keeps the first row of each run of equal addresses is an
  induction over its steps; `AlignInv` says which rows the maps may start from.
  Maps climb by at least one row from place to place (`MapClimbs`), so a map whose ends are as far
  apart as it is long has no gap, and the rows the bulk statistics compare are the
  pairs the scalar ones do (a bijection between the ranges of the two). Where a type
  is known and no dictionary null is among them the two see the same values, so
  counts agree; of other types the scalar's differences are among the bulk's.
  For the bulk comparison (`WalksAssumption`): `WalkInvariant`,
  `WalkCountsEachDifference`, `WalkListsTheDifferences`. The invariant is that
  both iterators stand at the same row, neither at the end of a segment
  (`InLockstep`); with it a batch is exactly the next rows of both columns.

Induction over the naturals is derived where it is used (`Induction`, from the
well-foundedness of `<`), and so is that a recursively defined function
satisfies its equation; the two give running totals, collapsed rows and filters,
the columns of a file and the walk over one.
The operators `SelectSeq` and `FoldLeft` are opaque to the prover: definitions it
must see into are written as recursive functions (`Valid`, `PixelCount` in `FrameViews`,
`CollapseIndices` in `TraceComparison`, `Totals`, `ColumnOf`, `Walk` and `FrameSnapshots`
in `TraceReader`, `FrameMarks` in `TraceArchive`).

Only model-checked: liveness (`WalkTerminates`, `RunIsBounded`, `CaptureEnds`), which
is beyond the prover, and `WalksGiveTheCounts`. Every other invariant, refinement and
action property of a passing run is stated by a theorem.

## 5. What is abstracted, and what is left out

A file is a sequence of records, not bytes: compression, Arrow encoding and JSON
are what they do to a record (a null of a column that is never null is stored as
its default, a column with a null where none may be is refused). Values are small sets. Snapshot payloads are
opaque. Colours, PNGs, tile rendering and printed text are left out. In
`GameBoyCapture` a frame is a number of steps and an emulator's choices are free;
option parsing, field tables, boot ROMs, hashes and audio are left out. In
`TraceConversion` JSON is the keys and values of an object; in `TraceQuery` a text is
the class `parse_condition` finds for it, and numbers keep the width of their column.
In `VerdictCapture` a trace line and its parsing are one entry; MAME's second pass,
which starts over to draw the picture, is one step.

Not modelled: the C interface, whose calls are each one operation of the writer
behind a pointer or a look-up that changes nothing; BGB (lines of a named pipe
gathered into entries, a child process), planned; the adapters of ares,
Gearsystem, Gearcoleco, Gopher2600 and Stella, whose loop is the linked one of
`VerdictCapture` over another core; profiles and the registry's tables (data);
`info`, `frames`, `render` and the printing of `diff`, which show what a store
answers; the disassembler (another crate's decoder); palettes.

## 6. Where code and text differ

Three have a run whose counterexample shows them:

* `query_and`. `crates/morepork-cli/src/main.rs:693` says "Use the store's
  query_range for the first condition, then filter"; the conditions are joined
  with " AND " into one text (694) that `parse_condition` takes for a single
  condition: an unknown one, or one no row meets.
* `bulk_u64`. `lib/comparison.rs:497-498` says the bulk count falls back to the scalar
  one; a 64-bit column is counted as different in every row (388). So is one of
  two types; the listing knows `u8` and `u16` only (569-605), and lists every row of
  any other column.
* `extra_frames`. `morepork-sameboy.cpp:774` announces "running %d extra frame%s"; the
  countdown (760-768) ends one frame after it has reached zero, so that `E >= 1`
  extra frames are `E + 1`. The same in gambatte, mGBA and DocBoy. gateboy announces
  as many (982) and stops at the next vertical sync (1045).

Others were met while modelling, follow from the modules and have no run of their own:

* `lib/format/mod.rs:71` says `entry_count` is the "Number of entries in this
  chunk". A flush that fails has drained the buffers but keeps
  `entries_in_chunk`; a producer that goes on writes a chunk that counts rows it
  has not.
* In openMSX a verdict latched between the deadline and the reading of the RESULT
  bytes is put on the last entry of a log that was torn down before it (the case
  `VerdictTraceWhole` leaves out).
* `_frame` "marks a frame boundary at the current entry" (main.rs 500): the mark is
  set when that entry is finished (506), so the entry is the last of the frame
  before. If "at" is in front of it, the code is a row late;
  `FlagsMarkTheirEntries` takes either side.
* The help of `downsample` and main.rs 570 speak of phase 0x00 for T-cycle traces; the
  condition is phase 0x0e (584).
* A summary with more buckets than rows says 0 for the buckets in front of row 0
  (store.rs 263-265), and the value at the row where the empty bucket would begin
  for others: `SummaryOfTheRange` allows the first.
* `open_trace_store` does not type a JSONL header through the registry as `convert`
  does: one that lists fields alone can be converted, but not opened.
* A boolean column reads as 0 to masks and summaries (read.rs 415-432).
* `cmd_downsample` is to mark a boundary "at the first kept entry on/after that
  index" (main.rs 615-616); it marks after that entry is finished (653-665), behind
  it. `MarksWithinOneRow` takes either side.
* Statistics cached by a call with a field filter are returned to a later call
  for all of them (comparison.rs 195-197, 237): `StatsCountPairs` says of which
  fields they are.
* A condition sync that only one side meets moves that side alone (713-718).
* `is_contiguous` looks at three places of a map (253).
* A null in a dictionary column is compared in bulk as key 0, the first value of
  its chunk's dictionary, and panics if there is none (371-385); the scalar
  comparison takes it for 0. `WalksGiveTheCounts` says when either happens,
  `StatsCountPairs` leaves such columns out.
* missingno's limit on cycles is to cut no run bounded by frames (main.rs
  214-216) but counts a frame as its single-speed cycles, while 222-227 say that
  in double speed it has twice as many: without `opt.speed = 1` TLC finds
  `BudgetNeverTruncates` violated with the LCD on throughout.
* In the loops that decide at vertical blank the picture of the frame they stop at
  is captured and never written, but after a reference match.
* A hang of MAME before line 469 of its adapter, where the reads get a timeout,
  is a capture that never ends (449-462).
* `lib/system/gb/vram.rs:16` calls a snapshot valid at its entry "(inclusive)"; the
  memory is that in front of the entry's own write (80-103, 150-157), which is what
  `AnswersExact` says.
* In the two loops after a match DocBoy does not catch the exception of an
  undefined opcode: no footer (`RunOnThrows`).
* `morepork.h:111` says that a frame mark flushes the row group; it does not
  (write.rs 282-321). A blank line ends a JSONL trace (reader.rs 137), where 124
  speaks of the end of the file.
* A picture of a range of instructions includes its last instruction, the maps of
  the same range do not (`PictureEnd`, `MapsEnd`).

## 7. Plan

Done, in order: writer with its log; reader; both over one file; view; downsample
command; bulk comparison; alignment; video memory; pictures; Game Boy capture;
verdict capture; conversion; queries, and the commands that join them.

1. BGB's pipe, whose lines may be lost or come in an order the reassembly does
   not expect; the C interface as the producer that ignores error codes.
2. Proofs: `WalksGiveTheCounts`, for which the walk's invariant must speak of stored
   values and of the segments' dictionaries; those of what item 1 adds.
