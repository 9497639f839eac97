------------------------- MODULE DownsampleCommand -------------------------
(***************************************************************************)
(* `morepork downsample` (crates/morepork-cli/src/main.rs, cmd_downsample):*)
(* one pass over a trace that copies the rows the filter keeps to a new    *)
(* trace and marks the frames in it. Rows are numbered from 0.             *)
(***************************************************************************)
EXTENDS Integers, FiniteSets, Sequences

CONSTANTS
  Inputs,   \* what there is to sample: [total, keeps, boundaries]
  MayFail   \* whether writing the output may fail

ASSUME InputsAssumption ==
  \A t \in Inputs : /\ t.total \in Nat
                    /\ t.keeps \subseteq 0..t.total - 1
                    /\ t.boundaries \in Seq(0..t.total)
                    /\ \A f, g \in 1..Len(t.boundaries) :
                         f < g => t.boundaries[f] <= t.boundaries[g]

VARIABLES
  input,
  i,             \* the row the pass is at
  copied,        \* output: the source row of each entry written
  marks,         \* output: the entry index of each frame mark
  frame_cursor,  \* the boundaries marked so far
  status         \* "running", "done" or "failed" (an output without footer)

vars == <<input, i, copied, marks, frame_cursor, status>>

\* Filter::EveryNth(n) as the set of the rows it keeps.
EveryNth(n, total) == {r \in 0..total - 1 : r % n = n - 1}

Kept(r) == r = 0 \/ r \in input.keeps

\* Mutant: only the boundaries strictly before the row.
DueBefore(r) ==
  {f \in frame_cursor + 1..Len(input.boundaries) :
     \A g \in frame_cursor + 1..f : input.boundaries[g] < r}

\* The boundaries from the cursor on that fall at or before row r.
Due(r) ==
  {f \in frame_cursor + 1..Len(input.boundaries) :
     \A g \in frame_cursor + 1..f : input.boundaries[g] <= r}

Init ==
  /\ input \in Inputs
  /\ i = 0
  /\ copied = <<>>
  /\ marks = <<>>
  /\ frame_cursor = 0
  /\ status = "running"

\* Mutant: a boundary that falls on a row left out is passed over.
SkipRowAndFrame ==
  /\ status = "running" /\ i < input.total
  /\ ~Kept(i)
  /\ i' = i + 1
  /\ frame_cursor' = frame_cursor + Cardinality(Due(i))
  /\ UNCHANGED <<input, copied, marks, status>>

SkipRow ==
  /\ status = "running" /\ i < input.total
  /\ ~Kept(i)
  /\ i' = i + 1
  /\ UNCHANGED <<input, copied, marks, frame_cursor, status>>

\* The entry is finished, then the boundaries that are due are marked: each mark
\* stands after the entry.
CopyRow ==
  /\ status = "running" /\ i < input.total
  /\ Kept(i)
  /\ copied' = Append(copied, i)
  /\ marks' = marks \o [f \in 1..Cardinality(Due(i)) |-> Len(copied')]
  /\ frame_cursor' = frame_cursor + Cardinality(Due(i))
  /\ i' = i + 1
  /\ UNCHANGED <<input, status>>

\* finish_entry or mark_frame fails, on the first or a later frame of the row.
CopyRowFails ==
  /\ MayFail
  /\ status = "running" /\ i < input.total
  /\ Kept(i)
  /\ copied' \in {copied, Append(copied, i)}
  /\ \E n \in 0..Cardinality(Due(i)) :
       /\ n > 0 => copied' # copied
       /\ marks' = marks \o [f \in 1..n |-> Len(copied')]
       /\ frame_cursor' = frame_cursor + n
  /\ status' = "failed"
  /\ UNCHANGED <<input, i>>

Finish ==
  /\ status = "running" /\ i = input.total
  /\ status' \in {"done"} \cup (IF MayFail THEN {"failed"} ELSE {})
  /\ UNCHANGED <<input, i, copied, marks, frame_cursor>>

Next == SkipRow \/ CopyRow \/ CopyRowFails \/ Finish

Spec == Init /\ [][Next]_vars

-----------------------------------------------------------------------------
\* No frame is lost or marked twice, however many fall on rows left out
\* (main.rs 658): the boundaries up to the last row copied have a mark each, in
\* order, and those after it have none. A failure loses only boundaries of its
\* own row.
EveryFrameMarkedOnce ==
  LET upTo(r) == Cardinality({f \in 1..Len(input.boundaries) : input.boundaries[f] <= r})
      n == Len(copied)
  IN  n > 0 =>
        /\ frame_cursor = Len(marks)
        /\ Len(marks) <= upTo(copied[n])
        /\ status = "failed" \/ Len(marks) = upTo(copied[n])
        /\ n > 1 => Len(marks) >= upTo(copied[n - 1])
        /\ \A f, g \in 1..Len(marks) : f < g => marks[f] <= marks[g]

\* Each mark stands next to the row it belongs to, the first row copied at or
\* after its boundary, in front of it (as main.rs 615 says) or behind it (as the
\* loop at 653 does): every row further in front lies before the boundary, and
\* every row behind the mark at or after it. However many rows are left out and
\* boundaries are due at once, no frame moves by more than its first row.
MarksWithinOneRow ==
  \A f \in 1..Len(marks) :
    /\ \A d \in 1..marks[f] - 1 : copied[d] < input.boundaries[f]
    /\ \A d \in marks[f] + 1..Len(copied) : copied[d] >= input.boundaries[f]
    /\ status = "done" /\ marks[f] = Len(copied) => copied[Len(copied)] >= input.boundaries[f]
=============================================================================
