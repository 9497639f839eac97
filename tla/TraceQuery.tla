----------------------------- MODULE TraceQuery -----------------------------
(***************************************************************************)
(* Conditions over the rows of a trace (query.rs, store.rs): the text of a *)
(* condition, what it is parsed to, whether a row meets it, the rows of a  *)
(* range that do, and the minimum and maximum of a column in buckets. A    *)
(* mask is the set of its bits, a masked value the set of those that are   *)
(* set. Rows are numbered from 0.                                          *)
(*                                                                         *)
(* A text is [form |-> ...] with, by form,                                 *)
(*   equals, changes to, changes from: field, value                        *)
(*   changes: field;  mask: field, mask;  mask equals: field, mask, value  *)
(*   flag: name, to, becomes;  phrase: name;  numbered: name, number       *)
(* a value being a number, or None where the text is no number.            *)
(***************************************************************************)
EXTENDS Integers, Sequences, FiniteSets

CONSTANTS
  ColumnTypes,  \* the type of each column
  Absent,       \* the null cell
  None,         \* no number
  Flags,        \* the ISA's flags: [name -> [field, bit]]
  Exact,        \* the system's phrases: [name -> condition]
  Numbered      \* and those with a number: [name -> [max, of: a condition a number]]

\* The outcome of a text that cannot be parsed; a condition no row meets.
Bad == [kind |-> "bad"]
Never == [kind |-> "never"]

-----------------------------------------------------------------------------
(* parse_condition                                                         *)

ParseFlag(text) ==
  IF text.name \notin DOMAIN Flags THEN Bad
  ELSE LET d == Flags[text.name]
       IN  IF text.becomes
           THEN [kind |-> "transition", field |-> d.field, bit |-> d.bit, to |-> text.to]
           ELSE IF text.to THEN [kind |-> "mask", field |-> d.field, mask |-> {d.bit}]
           ELSE [kind |-> "mask equals", field |-> d.field, mask |-> {d.bit}, value |-> {}]

\* Numbered phrases have the number checked against their maximum.
ParseNumbered(text) ==
  IF text.number > Numbered[text.name].max THEN Bad ELSE Numbered[text.name].of[text.number]

ParseOne(text) ==
  CASE text.form = "flag" -> ParseFlag(text)
    [] text.form = "phrase" -> Exact[text.name]
    [] text.form = "numbered" -> ParseNumbered(text)
    [] text.form = "changes" -> [kind |-> "changes", field |-> text.field]
    [] text.form \in {"equals", "changes to", "changes from"} ->
         [kind |-> text.form, field |-> text.field, value |-> text.value]
    [] text.form = "mask" -> [kind |-> "mask", field |-> text.field, mask |-> text.mask]
    [] text.form = "mask equals" ->
         [kind |-> "mask equals", field |-> text.field, mask |-> text.mask, value |-> text.value]

\* Two texts with AND between, as one text: a form that is recognised takes the
\* AND and what is on its other side into the name of its field or its value.
ParseJoined(p, q) ==
  CASE p.form \in {"flag", "numbered"} -> Bad
    [] q.form = "changes" \/ {p.form, q.form} \cap {"changes to", "changes from"} # {} -> Never
    [] p.form \in {"mask", "mask equals"} -> Bad
    [] p.form = "equals" \/ q.form \in {"mask", "mask equals", "equals"} -> Never
    [] OTHER -> Bad

Parse(texts) == IF Len(texts) = 1 THEN ParseOne(texts[1]) ELSE ParseJoined(texts[1], texts[2])

-----------------------------------------------------------------------------
(* eval_condition_trait, query_range. A trace is a sequence of rows, each a *)
(* function from its columns.                                              *)

\* get_numeric: a null is 0, and so is a boolean.
Num(trace, c, r) ==
  LET v == trace[r + 1][c] IN IF v = Absent \/ ColumnTypes[c] = "Bool" THEN 0 ELSE v

\* What a comparison reads: get_bool, get_str or get_numeric.
Reading(trace, c, r) == LET v == trace[r + 1][c] IN IF v = Absent THEN 0 ELSE v

\* The value of a text that a column can be compared with: 0 and 1 for booleans.
Comparable(c, v) == v # None /\ (ColumnTypes[c] = "Bool" => v \in {0, 1})

BitsOf(v) == {b \in 0..7 : (v \div 2^b) % 2 = 1}
Masked(trace, c, r, mask) == BitsOf(Num(trace, c, r)) \cap mask

Changes(trace, c, r) == r > 0 /\ Reading(trace, c, r) # Reading(trace, c, r - 1)

\* A transition needs a row before; entering a masked value does not.
Transition(trace, cond, r) ==
  /\ r > 0
  /\ (cond.bit \in BitsOf(Num(trace, cond.field, r))) = cond.to
  /\ (cond.bit \in BitsOf(Num(trace, cond.field, r - 1))) # cond.to

\* Mutant: no entry at the first row.
EntersLater(trace, cond, r) ==
  /\ r > 0
  /\ Masked(trace, cond.field, r, cond.mask) = cond.value
  /\ Masked(trace, cond.field, r - 1, cond.mask) # cond.value

Enters(trace, cond, r) ==
  /\ Masked(trace, cond.field, r, cond.mask) = cond.value
  /\ r > 0 => Masked(trace, cond.field, r - 1, cond.mask) # cond.value

Wraps(trace, c, r) ==
  /\ r > 0
  /\ Num(trace, c, r) < Num(trace, c, r - 1) /\ Num(trace, c, r - 1) > 128

\* A field the trace does not have meets no condition.
Meets(trace, cond, r) ==
  /\ cond.kind # "never"
  /\ cond.field \in DOMAIN trace[r + 1]
  /\ LET c == cond.field
     IN CASE cond.kind = "equals" ->
               Comparable(c, cond.value) /\ Reading(trace, c, r) = cond.value
          [] cond.kind = "changes" -> Changes(trace, c, r)
          [] cond.kind = "changes to" ->
               /\ Comparable(c, cond.value) /\ Changes(trace, c, r)
               /\ Reading(trace, c, r) = cond.value
          [] cond.kind = "changes from" ->
               /\ Comparable(c, cond.value) /\ Changes(trace, c, r)
               /\ Reading(trace, c, r - 1) = cond.value
          [] cond.kind = "mask" -> Masked(trace, c, r, cond.mask) # {}
          [] cond.kind = "mask equals" -> Masked(trace, c, r, cond.mask) = cond.value
          [] cond.kind = "transition" -> Transition(trace, cond, r)
          [] cond.kind = "enters" -> Enters(trace, cond, r)
          [] cond.kind = "wraps" -> Wraps(trace, c, r)

Lesser(a, b) == IF a < b THEN a ELSE b

QueryRange(trace, cond, start, end) ==
  {r \in Lesser(start, Len(trace))..Lesser(end, Len(trace)) - 1 : Meets(trace, cond, r)}

-----------------------------------------------------------------------------
(* field_summary                                                           *)

BucketStart(b, start, range, buckets) == start + (b * range) \div buckets

\* Mutant: a bucket ends with the row the next begins with.
SummaryRowsShared(trace, start, end, buckets, b) ==
  LET to == Lesser(end, Len(trace))
      range == to - Lesser(start, to)
      first == BucketStart(b, Lesser(start, to), range, buckets)
      next == BucketStart(b + 1, Lesser(start, to), range, buckets)
  IN  IF first < next THEN first..Lesser(next, Len(trace) - 1)
      ELSE IF first > 0 THEN {Lesser(first, Len(trace) - 1)} ELSE {}

\* The rows whose values bucket b shows; for a bucket without rows the one it
\* would begin with, but never row 0.
SummaryRows(trace, start, end, buckets, b) ==
  LET to == Lesser(end, Len(trace))
      range == to - Lesser(start, to)
      first == BucketStart(b, Lesser(start, to), range, buckets)
      next == BucketStart(b + 1, Lesser(start, to), range, buckets)
  IN  IF first < next THEN first..next - 1
      ELSE IF first > 0 THEN {Lesser(first, Len(trace) - 1)} ELSE {}

Least(S) == CHOOSE v \in S : \A w \in S : v <= w
Greatest(S) == CHOOSE v \in S : \A w \in S : v >= w

\* The minimum and maximum of each bucket, of which an empty one shows zeros.
FieldSummary(trace, c, start, end, buckets) ==
  IF Lesser(start, Len(trace)) >= Lesser(end, Len(trace)) \/ buckets = 0 THEN <<>>
  ELSE [b \in 1..buckets |->
          LET of == {Num(trace, c, r) : r \in SummaryRows(trace, start, end, buckets, b - 1)}
          IN  IF of = {} THEN [min |-> 0, max |-> 0]
              ELSE [min |-> Least(of), max |-> Greatest(of)]]

-----------------------------------------------------------------------------
(* What a command prints of a trace: the rows, in order.                   *)

Interval(a, b) == [k \in 1..(IF a < b THEN b - a ELSE 0) |-> a + k - 1]

\* Mutant: the context of the last matches is not cut.
InContextPast(r, context, total) ==
  Interval(IF r >= context THEN r - context ELSE 0, r) \o <<r>> \o Interval(r + 1, r + context + 1)

\* A match with the rows around it.
InContext(r, context, total) ==
  Interval(IF r >= context THEN r - context ELSE 0, r) \o <<r>>
    \o Interval(r + 1, Lesser(r + context + 1, total))

InContexts(matched, context, total) ==
  LET joined[k \in 0..Len(matched)] ==
        IF k = 0 THEN <<>> ELSE joined[k - 1] \o InContext(matched[k], context, total)
  IN  joined[Len(matched)]

InOrder(S) ==
  LET place(r) == Cardinality({q \in S : q <= r})
  IN  [k \in 1..Cardinality(S) |-> CHOOSE r \in S : place(r) = k]

First(matched, max) == SubSeq(matched, 1, Lesser(max, Len(matched)))

\* --where with --max and --context; --range; --last.
ShownMatches(matches, max, context, total) ==
  InContexts(First(InOrder(matches), max), context, total)
ShownRange(start, end, total) == Interval(start, Lesser(end, total))
ShownLast(n, total) == Interval(IF n < total THEN total - n ELSE 0, total)
=============================================================================
