--------------------------- MODULE TracePipeline ---------------------------
(***************************************************************************)
(* A capture and its analysis: TraceWriter writes the file, TraceReader    *)
(* opens it, at any time, and answers queries about what it found. The two *)
(* share nothing but the file.                                             *)
(***************************************************************************)
EXTENDS TraceWriter, SequencesExt

CONSTANTS Capacity, None

ASSUME ReaderAssumption == Capacity \in Nat \ {0}

\* Option::None is no cell, no payload and no answer of a query.
ASSUME NoneAssumption ==
  /\ None \notin Cells \cup {Null} /\ None \notin Payloads \cup {NoPayload}
  /\ None \notin Seq([chunk : Nat, offset : Nat, len : Nat])
  /\ None \notin [column : Columns, row : Nat, value : Cells \cup {Null}, null : BOOLEAN]
  /\ None \notin [column : Columns, from : Nat, to : Nat,
                  segments : Seq([chunk : Nat, offset : Nat, len : Nat])]
  /\ None \notin [boundaries : Seq(Nat)]
  /\ None \notin [frame : Nat, pixels : Payloads \cup {NoPayload, None}]

VARIABLES opened, index, cumulative, snapshots, read_total, cache, recent, answer

reading == <<opened, index, cumulative, snapshots, read_total, cache, recent, answer>>

Reader == INSTANCE TraceReader
  WITH disk <- [records |-> file, lost |-> {}, absent |-> {}, corrupt |-> {}],
       status <- opened, total_entries <- read_total, Disks <- {}

PipelineInit ==
  /\ Init
  /\ opened = "closed"
  /\ index = <<>> /\ cumulative = <<>> /\ snapshots = <<>> /\ read_total = 0
  /\ cache = <<>> /\ recent = <<>>
  /\ answer = None

PipelineNext ==
  \/ Next /\ UNCHANGED reading
  \/ UNCHANGED vars /\ Reader!Next

PipelineSpec == PipelineInit /\ [][PipelineNext]_<<vars, reading>>

-----------------------------------------------------------------------------
\* A reader gets the whole trace or none of it: no file opens before the writer
\* has finished it, and then the reader's entry count is the producer's, even
\* if flushes were refused or writes failed on the way. If the producer kept to
\* the rules and its writes succeeded, no query panics.
OpensWholeTraces ==
  /\ opened = "open" => phase = "finished" /\ read_total = Len(rows)
  /\ Intact => opened # "panicked"

\* A query's answer as cells and payloads of the log.
SeenCells ==
  IF "row" \in DOMAIN answer
  THEN [column |-> answer.column, from |-> answer.row,
        cells |-> <<IF answer.null THEN Null ELSE answer.value>>]
  ELSE [column |-> answer.column, from |-> answer.from,
        cells |-> Reader!Joined(answer.column, answer.segments)]

Seen ==
  IF answer = None \/ ~Intact THEN None
  ELSE IF "column" \in DOMAIN answer THEN SeenCells
  ELSE IF "boundaries" \in DOMAIN answer THEN answer
  ELSE [frame |-> answer.frame + 1,
        payload |-> IF answer.frame < Len(Reader!FrameSnapshots) /\ answer.pixels = None
                    THEN NoPayload ELSE answer.pixels]

Archive == INSTANCE TraceArchive
  WITH Entry <- [Columns -> Stored], Tag <- Tags,
       Payload <- Payloads \cup {NoPayload},
       FrameTag <- TagFrame, Nothing <- None,
       entries <- WrittenEntries, marks <- WrittenMarks, state <- LogState,
       seen <- Seen

\* Unless the producer makes a mistake or a write fails, writer, file and reader
\* are an archive: whatever is read back, in whatever order and through whatever
\* the cache keeps, is what was written.
ImplementsArchive == Archive!ArchiveSpec
=============================================================================
