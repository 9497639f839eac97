--------------------------- MODULE TraceConversion ---------------------------
(***************************************************************************)
(* From JSONL to a native trace: the line reader (reader.rs), the typing   *)
(* of its header, and the loop that copies its entries to a writer. The    *)
(* loop exists twice, as `morepork convert` and behind open_trace_store,   *)
(* which converts to a temporary file and loads that. A line is            *)
(*   [kind: "noise" (no JSON), "blank", "broken" (a brace and no JSON),    *)
(*          "other" (JSON, but no object)]                                 *)
(*   [kind: "header", fields, defs, ext: sets of columns, conflict, known] *)
(*   [kind: "entry", cells: values of some columns, flag: its _frame]      *)
(* Rows are numbered from 0 in the trace, from 1 in its sequences.         *)
(***************************************************************************)
EXTENDS Integers, Sequences, FiniteSets

CONSTANTS
  JsonlFiles,    \* the inputs, sequences of lines
  Columns,       \* every name a field may have
  Vocabulary,    \* those the system registry knows
  NullableCols,  \* those whose definition says nullable
  Types,         \* the type of each, wherever it is defined
  Odd,           \* a value of another type than its column's
  Null,          \* the null of a nullable column
  WriterMayFail

ASSUME ConversionAssumption ==
  /\ \A f \in JsonlFiles : f \in Seq({f[l] : l \in 1..Len(f)})
  /\ \A f \in JsonlFiles : \A l \in 1..Len(f) : f[l].kind = "entry" =>
       /\ DOMAIN f[l].cells \subseteq Columns
       /\ \A c \in DOMAIN f[l].cells : Types[c] # "Str" => f[l].cells[c] \in Nat \cup {Odd}
  /\ Vocabulary \subseteq Columns /\ NullableCols \subseteq Columns
  /\ Types \in [Columns -> {"UInt8", "UInt16", "UInt64", "Bool", "Str"}]
  /\ Odd \notin Nat /\ Null \notin Nat
  /\ WriterMayFail \in BOOLEAN

VARIABLES
  jsonl, mode,  \* the lines, and whether they are "convert"ed or "load"ed
  stage,        \* start, peek, create, body, done, failed
  at,           \* lines consumed
  header,       \* the header read or synthesised: [fields, defs, ext, conflict, known]
  pending,      \* the line of pending_first_entry, 0 for none
  rows, marks_at,  \* the writer's entries, and its marks as entries before them
  rows_from,    \* history: the line of each entry
  outfile       \* "none", "open" (without footer) or "closed"

conversion == <<jsonl, mode, stage, at, header, pending, rows, marks_at, rows_from, outfile>>

NoHeader == [fields |-> {}, defs |-> {}, ext |-> {}, conflict |-> FALSE, known |-> TRUE]

InitConversion ==
  /\ jsonl \in JsonlFiles /\ mode \in {"convert", "load"}
  /\ stage = "start" /\ at = 0 /\ header = NoHeader /\ pending = 0
  /\ rows = <<>> /\ marks_at = <<>> /\ rows_from = <<>> /\ outfile = "none"

AtEnd == at = Len(jsonl)
Ahead == jsonl[at + 1]
IsAhead(kinds) == ~AtEnd /\ Ahead.kind \in kinds

OutputUnchanged == UNCHANGED <<jsonl, mode, rows, marks_at, rows_from, outfile>>

\* A conversion that fails leaves the file without footer; a load's temporary
\* file is removed.
Fail ==
  /\ stage' = "failed"
  /\ outfile' = IF mode = "load" THEN "none" ELSE outfile

-----------------------------------------------------------------------------
(* JsonlReader::from_reader                                                *)

SkipNoise ==  \* anything that does not begin with a brace
  /\ stage = "start" /\ IsAhead({"noise", "blank", "other"})
  /\ at' = at + 1
  /\ OutputUnchanged /\ UNCHANGED <<stage, header, pending>>

NoStart ==  \* MissingHeader, or the first object does not parse
  /\ stage = "start" /\ (AtEnd \/ IsAhead({"broken"}))
  /\ Fail
  /\ UNCHANGED <<jsonl, mode, at, header, pending, rows, marks_at, rows_from>>

\* A header without fields has them inferred from the first data line.
ReadHeader ==
  /\ stage = "start" /\ IsAhead({"header"})
  /\ header' = [f \in DOMAIN NoHeader |-> Ahead[f]]
  /\ stage' = IF Ahead.fields = {} THEN "peek" ELSE "create"
  /\ at' = at + 1
  /\ OutputUnchanged /\ UNCHANGED pending

\* Without a header line the first entry has its fields inferred and waits.
ReadHeaderless ==
  /\ stage = "start" /\ IsAhead({"entry"})
  /\ header' = [NoHeader EXCEPT !.fields = DOMAIN Ahead.cells]
  /\ pending' = at + 1
  /\ stage' = "create"
  /\ at' = at + 1
  /\ OutputUnchanged

PeekBlank ==
  /\ stage = "peek" /\ IsAhead({"blank"})
  /\ at' = at + 1
  /\ OutputUnchanged /\ UNCHANGED <<stage, header, pending>>

\* Mutant: the line that was peeked at is gone.
PeekAndDrop ==
  /\ stage = "peek" /\ IsAhead({"entry"})
  /\ header' = [header EXCEPT !.fields = DOMAIN Ahead.cells]
  /\ stage' = "create"
  /\ at' = at + 1
  /\ OutputUnchanged /\ UNCHANGED pending

PeekEntry ==
  /\ stage = "peek" /\ IsAhead({"entry"})
  /\ header' = [header EXCEPT !.fields = DOMAIN Ahead.cells]
  /\ pending' = at + 1
  /\ stage' = "create"
  /\ at' = at + 1
  /\ OutputUnchanged

\* No data line, or JSON that is no object: no fields, and nothing pending.
PeekNothing ==
  /\ stage = "peek" /\ (AtEnd \/ IsAhead({"other"}))
  /\ at' = IF AtEnd THEN at ELSE at + 1
  /\ stage' = "create"
  /\ OutputUnchanged /\ UNCHANGED <<header, pending>>

PeekFails ==
  /\ stage = "peek" /\ IsAhead({"noise", "broken"})
  /\ Fail
  /\ UNCHANGED <<jsonl, mode, at, header, pending, rows, marks_at, rows_from>>

-----------------------------------------------------------------------------
(* Typing the header (validate, describe, ensure_self_describing), and the *)
(* writer's creation.                                                      *)

\* `convert` types what has no definitions through the registry; the extension
\* fields must not shadow its columns.
Described ==
  IF mode = "load" THEN header.defs
  ELSE IF header.defs # {} THEN header.defs ELSE header.fields

Describable ==
  mode = "convert" =>
    /\ header.known
    /\ header.ext \cap Vocabulary = {}
    /\ header.defs = {} => header.fields \subseteq header.ext \cup Vocabulary

Complete == header.fields \subseteq Described \cup header.ext

CreateWriter ==
  /\ stage = "create"
  /\ ~header.conflict /\ Describable /\ Complete
  /\ stage' = "body" /\ outfile' = "open"
  /\ UNCHANGED <<jsonl, mode, at, header, pending, rows, marks_at, rows_from>>

\* A header the writer refuses is found after the file was made.
CreateFails ==
  /\ stage = "create"
  /\ \/ header.conflict \/ ~Describable
     \/ WriterMayFail
     \/ ~Complete
  /\ stage' = "failed"
  /\ outfile' \in IF mode = "load" \/ header.conflict \/ ~Describable THEN {"none"}
                  ELSE IF Complete THEN {"none", "open"} ELSE {"open"}
  /\ UNCHANGED <<jsonl, mode, at, header, pending, rows, marks_at, rows_from>>

-----------------------------------------------------------------------------
(* The loop: next_entry, and a cell for each column.                       *)

Modulus == [UInt8 |-> 256, UInt16 |-> 65536]

\* A value as its column's type holds it; one of another type, and none, as zero,
\* false or the empty string.
As(type, v) ==
  IF v = Odd THEN 0 ELSE IF type \in DOMAIN Modulus THEN v % Modulus[type] ELSE v

\* Zero and the empty string are taken for null where there may be nulls.
Cell(cells, c) ==
  LET v == IF c \in DOMAIN cells THEN As(Types[c], cells[c]) ELSE 0
  IN  IF /\ c \in NullableCols
         /\ c \notin DOMAIN cells \/ (v = 0 /\ Types[c] \in {"UInt8", "UInt16", "Str"})
      THEN Null ELSE v

\* What next_entry takes: the pending entry, else the line ahead.
Taken == IF pending # 0 THEN pending ELSE at + 1
More == pending # 0 \/ IsAhead({"entry"})

\* Mutant: the entry read ahead has lost its control fields.
MarkedUnlessPending(line) ==
  IF jsonl[line].flag /\ pending = 0 THEN Append(marks_at, Len(rows) + 1) ELSE marks_at

\* The mark follows the entry that carries it.
Marked(line) == IF jsonl[line].flag THEN Append(marks_at, Len(rows) + 1) ELSE marks_at

CopyEntry ==
  /\ stage = "body" /\ More
  /\ rows' = Append(rows, [c \in header.fields |-> Cell(jsonl[Taken].cells, c)])
  /\ rows_from' = Append(rows_from, Taken)
  /\ marks_at' = Marked(Taken)
  /\ pending' = 0
  /\ at' = IF pending # 0 THEN at ELSE at + 1
  /\ UNCHANGED <<jsonl, mode, stage, header, outfile>>

\* finish_entry or mark_frame fails.
CopyFails ==
  /\ WriterMayFail
  /\ stage = "body" /\ More
  /\ Fail
  /\ UNCHANGED <<jsonl, mode, at, header, pending, rows, marks_at, rows_from>>

\* The end of the file, or a blank line: the footer is written.
EndOfTrace ==
  /\ stage = "body" /\ pending = 0 /\ (AtEnd \/ IsAhead({"blank"}))
  /\ stage' = "done" /\ outfile' = "closed"
  /\ UNCHANGED <<jsonl, mode, at, header, pending, rows, marks_at, rows_from>>

\* A line that is no object ends the conversion with an error.
ReadFails ==
  /\ stage = "body" /\ pending = 0 /\ IsAhead({"noise", "broken", "other"})
  /\ Fail
  /\ UNCHANGED <<jsonl, mode, at, header, pending, rows, marks_at, rows_from>>

FinishFails ==
  /\ WriterMayFail
  /\ stage = "body" /\ pending = 0 /\ (AtEnd \/ IsAhead({"blank"}))
  /\ Fail
  /\ UNCHANGED <<jsonl, mode, at, header, pending, rows, marks_at, rows_from>>

NextConversion ==
  \/ SkipNoise \/ NoStart \/ ReadHeader \/ ReadHeaderless
  \/ PeekBlank \/ PeekEntry \/ PeekNothing \/ PeekFails
  \/ CreateWriter \/ CreateFails
  \/ CopyEntry \/ CopyFails \/ EndOfTrace \/ ReadFails \/ FinishFails

-----------------------------------------------------------------------------
EntryLines(lines) == {l \in lines : jsonl[l].kind = "entry"}

\* Entry k is the k-th data line, with its own values: the lines read ahead to
\* infer the fields (reader.rs 71-104) are neither lost nor read twice, whatever
\* noise and blanks surround them, a trace that closes has every data line up to
\* the first blank behind it, and no value wanders to another row or column.
RowsAreTheEntries ==
  /\ \A k \in 1..Len(rows_from) :
       /\ k > 1 => rows_from[k - 1] < rows_from[k]
       /\ \A c \in DOMAIN rows[k] :
            LET said == jsonl[rows_from[k]].cells
            IN  IF c \notin DOMAIN said THEN rows[k][c] = IF c \in NullableCols THEN Null ELSE 0
                ELSE rows[k][c] \in {As(Types[c], said[c])} \cup
                       (IF As(Types[c], said[c]) = 0 THEN {Null} ELSE {})
  /\ EntryLines(1..at) =
       {rows_from[k] : k \in 1..Len(rows_from)} \cup (IF pending # 0 THEN {pending} ELSE {})
  /\ outfile = "closed" => AtEnd \/ Ahead.kind = "blank"

\* Each line that says `_frame` gives the trace one mark, next to its own entry:
\* in front of it (as main.rs 500 says) or behind it (as the loops do), and no
\* line in front of the entry, read ahead or skipped, loses or adds a mark. So
\* the marks in front of entry k are those of the flagged lines before its own,
\* and at most its own besides.
FlagsMarkTheirEntries ==
  LET flagged(lines) == {l \in lines : jsonl[l].flag}
  IN  /\ Len(marks_at) = Cardinality(flagged({rows_from[k] : k \in 1..Len(rows_from)}))
      /\ \A k \in 1..Len(rows_from) :
           Cardinality({f \in 1..Len(marks_at) : marks_at[f] < k}) \in
             Cardinality(flagged(EntryLines(1..rows_from[k] - 1)))
               ..Cardinality(flagged(EntryLines(1..rows_from[k])))
=============================================================================
