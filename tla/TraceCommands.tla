---------------------------- MODULE TraceCommands ----------------------------
(***************************************************************************)
(* The command line over one trace: a JSONL file is converted, or loaded   *)
(* by the command that wants it, and then sampled or queried; or a native  *)
(* trace is sampled. A command of which a text is no condition, or whose   *)
(* trace states no system, ends with an error.                             *)
(***************************************************************************)
EXTENDS DownsampleCommand, TraceConversion

CONSTANTS
  None, Flags, Exact, Numbered,
  Queries,   \* sequences of the texts of conditions
  Contexts   \* values of --context, of --last, and of the ends of a --range

\* Numbers on the command line are unsigned, a text without one has None.
ASSUME QueryAssumption == None \notin Nat /\ Contexts \subseteq Nat

INSTANCE TraceQuery WITH ColumnTypes <- Types, Absent <- Null

VARIABLES
  command,  \* none, downsample, query, range, last, error
  texts,    \* the conditions the command was given
  around,   \* its --context
  matches,  \* the rows query_range found
  shown     \* the rows printed

answers == <<command, texts, around, matches, shown>>
everything == <<vars, conversion, answers>>

Idle ==
  /\ input = [total |-> 0, keeps |-> {}, boundaries |-> <<>>]
  /\ i = 0 /\ copied = <<>> /\ marks = <<>> /\ frame_cursor = 0 /\ status = "idle"

Native ==
  /\ jsonl = <<>> /\ mode = "load" /\ stage = "native"
  /\ at = 0 /\ header = NoHeader /\ pending = 0
  /\ rows = <<>> /\ marks_at = <<>> /\ rows_from = <<>> /\ outfile = "none"

InitCommands ==
  /\ (InitConversion /\ Idle) \/ (Native /\ Init)
  /\ command = "none" /\ texts = <<>> /\ around = 0 /\ matches = {} /\ shown = <<>>

Total == Len(rows)

\* A store to ask, and a header whose system_def is one.
Ready == stage = "done" /\ command = "none"
Understood == (header.fields # {} \/ header.defs # {}) /\ header.known

Refused(with) == ~Understood \/ Parse(with) = Bad

CommandFails(with) ==
  /\ Ready /\ Refused(with)
  /\ command' = "error" /\ texts' = with
  /\ UNCHANGED <<vars, conversion, around, matches, shown>>

Sample(keeps) ==
  /\ input' = [total |-> Total, keeps |-> keeps, boundaries |-> marks_at]
  /\ status' = "running"
  /\ command' = "downsample"
  /\ UNCHANGED <<i, copied, marks, frame_cursor, conversion, around, matches, shown>>

\* --keep, or the row of the cycle a trace of T-cycles has its phase for.
DownsampleWith(keep) ==
  /\ Ready /\ Len(keep) = 1 /\ ~Refused(keep)
  /\ texts' = keep
  /\ Sample({r \in 0..Total - 1 : Meets(rows, Parse(keep), r)})

\* A trace of T-cycles without phase.
DownsampleEveryFourth ==
  /\ Ready
  /\ Sample(EveryNth(4, Total))
  /\ UNCHANGED texts

\* Several conditions are joined by AND to one text.
Query(with, max, context) ==
  /\ Ready /\ ~Refused(with)
  /\ command' = "query" /\ texts' = with /\ around' = context
  /\ matches' = QueryRange(rows, Parse(with), 0, Total)
  /\ shown' = ShownMatches(matches', max, context, Total)
  /\ UNCHANGED <<vars, conversion>>

ShowRange(start, end) ==
  /\ Ready
  /\ IF start >= Total THEN command' = "error" /\ UNCHANGED shown
     ELSE command' = "range" /\ shown' = ShownRange(start, end, Total)
  /\ UNCHANGED <<vars, conversion, texts, around, matches>>

ShowLast(n) ==
  /\ Ready
  /\ command' = "last" /\ shown' = ShownLast(n, Total)
  /\ UNCHANGED <<vars, conversion, texts, around, matches>>

Convert == NextConversion /\ UNCHANGED <<vars, answers>>

DownsampleStep == Next /\ UNCHANGED <<conversion, answers>>

NextCommands ==
  \/ Convert
  \/ DownsampleStep
  \/ \E with \in Queries : CommandFails(with) \/ DownsampleWith(with)
  \/ DownsampleEveryFourth
  \/ \E with \in Queries, max \in {1, 2}, context \in Contexts : Query(with, max, context)
  \/ \E start, end \in Contexts : ShowRange(start, end)
  \/ \E n \in Contexts : ShowLast(n)

SpecCommands == InitCommands /\ [][NextCommands]_everything

-----------------------------------------------------------------------------
Numeric == {c \in header.fields : Types[c] \in {"UInt8", "UInt16", "UInt64"}}
All(cond) == QueryRange(rows, cond, 0, Total)

\* The conditions that look at the row before see every change once, at the row
\* where it happens: a bit that rises twice falls between; a run of rows in a
\* masked state ("ppu enters mode N") has one row that enters it, its first, and
\* be it the first of the trace; and a change is a change from one value and to
\* one value.
TransitionsAlternate ==
  Ready =>
    \A c \in Numeric : \A b \in {0, 7} :
      LET edges(to) == All([kind |-> "transition", field |-> c, bit |-> b, to |-> to])
          holds(s) == All([kind |-> "mask equals", field |-> c, mask |-> {b}, value |-> s])
          enters(s) == All([kind |-> "enters", field |-> c, mask |-> {b}, value |-> s])
          by(kind, v) == All([kind |-> kind, field |-> c, value |-> v])
          values == {Num(rows, c, r) : r \in 0..Total - 1}
      IN  /\ \A to \in BOOLEAN : \A p, q \in edges(to) :
               p < q => \E m \in edges(~to) : p < m /\ m < q
          /\ \A s \in {{}, {b}} : \A r \in holds(s) :
               Cardinality({m \in enters(s) : m <= r /\ m..r \subseteq holds(s)}) = 1
          /\ \A to \in BOOLEAN : edges(to) = enters(IF to THEN {b} ELSE {}) \ {0}
          /\ All([kind |-> "changes", field |-> c]) = UNION {by("changes to", v) : v \in values}
          /\ All([kind |-> "changes", field |-> c]) = UNION {by("changes from", v) : v \in values}

\* A chart of a range shows each of its rows in one bucket, and the rows in
\* order; with more buckets than rows it shows values of the range all the same,
\* save zeros for the buckets in front of row 0.
SummaryOfTheRange ==
  Ready =>
    \A c \in Numeric : \A start, end \in 0..Total + 1 : \A buckets \in 1..Total + 1 :
      LET chart == FieldSummary(rows, c, start, end, buckets)
          range == start..Lesser(end, Total) - 1
          of(b) == SummaryRows(rows, start, end, buckets, b)
          values == {Num(rows, c, r) : r \in range}
      IN  range # {} =>
            /\ \A b \in 1..buckets :
                 \/ {chart[b].min, chart[b].max} \subseteq values
                 \/ start = 0 /\ of(b - 1) = {}
            /\ \A r \in range : \E b \in 1..buckets :
                 r \in of(b - 1) /\ Num(rows, c, r) \in chart[b].min..chart[b].max
            /\ \A b, d \in 0..buckets - 1 : b < d => \A p \in of(b), q \in of(d) :
                 p < q \/ (p = q /\ buckets > Cardinality(range))

Printed == {shown[k] : k \in 1..Len(shown)}
Near(r) == {q \in 0..Total - 1 : q \in r - around..r + around}

\* What is printed of a query are rows of the trace, each within the context
\* of a match, and a match that is shown has all of its context, also at the
\* first and the last row (main.rs 709, 725).
ShownInContext ==
  command = "query" =>
    /\ Printed \subseteq UNION {Near(r) : r \in matches}
    /\ \E few \in SUBSET matches :
         Printed = UNION {Near(r) : r \in few} /\ (matches # {} => few # {})

\* "at least one --where condition required" (main.rs 683): with several, the rows
\* found are those that meet the first, filtered by the others (main.rs 693).
FindsWhatMeetsAll ==
  command = "query" =>
    matches = {r \in 0..Total - 1 :
                 \A k \in 1..Len(texts) : Meets(rows, ParseOne(texts[k]), r)}
=============================================================================
