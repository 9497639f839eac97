---------------------------- MODULE SegmentWalk ----------------------------
(***************************************************************************)
(* The column comparison of crates/morepork/src/comparison.rs: two columns,*)
(* each cut into the segments of its own file's chunks, are walked in      *)
(* lockstep, a batch at a time, to count the rows that differ              *)
(* (compare_segments) or to list them (diff_indices_from_segments).        *)
(* Rows count from 0 within the range asked for.                           *)
(*                                                                         *)
(* A column is [kind, rows, segs]: its Arrow type, its cells and its       *)
(* segments, each with its first row, its length and the first value of    *)
(* its chunk's dictionary.                                                 *)
(***************************************************************************)
EXTENDS ColumnTypes, Integers, FiniteSets, Sequences

CONSTANTS
  Cells,     \* the values of cells
  Walks      \* the walks to take: [a, b, start, wants]

Segments == [start : Nat, len : Nat \ {0}, first : Cells \cup {NoValue}]

Total(c) == IF Len(c.segs) = 0 THEN 0
            ELSE c.segs[Len(c.segs)].start + c.segs[Len(c.segs)].len

\* One segment follows the other and none is empty (get_column_segments).
IsColumn(c) ==
  /\ c.kind \in Kinds
  /\ c.rows \in Seq(Cells \cup {Null})
  /\ c.segs \in Seq(Segments)
  /\ \A s \in 1..Len(c.segs) :
       c.segs[s].start = IF s = 1 THEN 0 ELSE c.segs[s - 1].start + c.segs[s - 1].len
  /\ \A s \in 1..Len(c.segs) : c.segs[s].start + c.segs[s].len <= Len(c.rows)

IsWalk(w) ==
  /\ IsColumn(w.a) /\ IsColumn(w.b)
  /\ w.start \in Nat
  /\ w.wants \in {"count", "indices"}

ASSUME WalksAssumption == \A w \in Walks : IsWalk(w)

VARIABLES
  walk,        \* the segment lists compared and what is wanted of them
  iter_a,      \* SegmentIter: [seg_idx, pos_in_seg]
  iter_b,
  global_pos,
  diffs,       \* compare_segments: the count
  indices,     \* diff_indices_from_segments: the rows listed
  outcome      \* "walking", "done" or "panic"

walkVars == <<walk, iter_a, iter_b, global_pos, diffs, indices, outcome>>

WalkInit ==
  /\ walk \in Walks
  /\ iter_a = [seg_idx |-> 1, pos_in_seg |-> 0]
  /\ iter_b = [seg_idx |-> 1, pos_in_seg |-> 0]
  /\ global_pos = walk.start
  /\ diffs = 0
  /\ indices = {}
  /\ outcome = "walking"

-----------------------------------------------------------------------------
(* SegmentIter.                                                            *)
HasCurrent(c, it) == it.seg_idx <= Len(c.segs)
Remaining(c, it) == c.segs[it.seg_idx].len - it.pos_in_seg

\* Mutant: a segment is left only when the walk is past its end.
AdvanceLate(c, it, n) ==
  IF it.pos_in_seg + n > c.segs[it.seg_idx].len
  THEN [seg_idx |-> it.seg_idx + 1, pos_in_seg |-> 0]
  ELSE [it EXCEPT !.pos_in_seg = @ + n]

Advance(c, it, n) ==
  IF it.pos_in_seg + n >= c.segs[it.seg_idx].len
  THEN [seg_idx |-> it.seg_idx + 1, pos_in_seg |-> 0]
  ELSE [it EXCEPT !.pos_in_seg = @ + n]

\* The row of the column the iterator is at.
RowOf(c, it) ==
  IF HasCurrent(c, it) THEN c.segs[it.seg_idx].start + it.pos_in_seg ELSE Total(c)

-----------------------------------------------------------------------------
(* count_diffs_typed and collect_diff_indices_typed.                       *)

\* What the value buffer holds for row r, which lies in segment s.
Raw(c, s, r) == Stored(c.kind, c.rows[r + 1], c.segs[s].first)

\* Columns of types the comparison does not know, or of two types, count as
\* different in every row.
Typed(w) ==
  /\ w.a.kind = w.b.kind
  /\ w.a.kind \in IF w.wants = "count" THEN CountedKinds ELSE ListedKinds

Batch ==
  LET left == Remaining(walk.a, iter_a)
      right == Remaining(walk.b, iter_b)
  IN  IF left < right THEN left ELSE right

RawA(k) == Raw(walk.a, iter_a.seg_idx, RowOf(walk.a, iter_a) + k)
RawB(k) == Raw(walk.b, iter_b.seg_idx, RowOf(walk.b, iter_b) + k)

\* Mutant: the offset into b's segment is not moved with the batch.
DifferentFromFirst(n) ==
  {k \in 0..n - 1 : ~Typed(walk) \/ RawA(k) # RawB(0)}

\* The rows of a batch of n that differ, from the walk's row on.
Different(n) ==
  {k \in 0..n - 1 : ~Typed(walk) \/ RawA(k) # RawB(k)}

\* Key 0 of an empty dictionary is read.
Panics(n) ==
  /\ Typed(walk)
  /\ \E k \in 0..n - 1 : NoValue \in {RawA(k), RawB(k)}

\* Mutant: the row listed is counted from the start of the batch.
ListedFromBatch(n) == {k + walk.start : k \in Different(n)}

Listed(n) == {k + global_pos : k \in Different(n)}

Walking ==
  /\ outcome = "walking"
  /\ HasCurrent(walk.a, iter_a) /\ HasCurrent(walk.b, iter_b)

CompareBatch ==
  /\ Walking
  /\ ~Panics(Batch)
  /\ IF walk.wants = "count"
     THEN /\ diffs' = diffs + Cardinality(Different(Batch))
          /\ UNCHANGED <<global_pos, indices>>
     ELSE /\ indices' = indices \cup Listed(Batch)
          /\ global_pos' = global_pos + Batch
          /\ UNCHANGED diffs
  /\ iter_a' = Advance(walk.a, iter_a, Batch)
  /\ iter_b' = Advance(walk.b, iter_b, Batch)
  /\ UNCHANGED <<walk, outcome>>

ReadEmptyDictionary ==
  /\ Walking
  /\ Panics(Batch)
  /\ outcome' = "panic"
  /\ UNCHANGED <<walk, iter_a, iter_b, global_pos, diffs, indices>>

WalkEnds ==
  /\ outcome = "walking"
  /\ ~HasCurrent(walk.a, iter_a) \/ ~HasCurrent(walk.b, iter_b)
  /\ outcome' = "done"
  /\ UNCHANGED <<walk, iter_a, iter_b, global_pos, diffs, indices>>

WalkNext == CompareBatch \/ ReadEmptyDictionary \/ WalkEnds

WalkSpec == WalkInit /\ [][WalkNext]_walkVars /\ WF_walkVars(WalkNext)

-----------------------------------------------------------------------------
WalkTypeOK ==
  /\ IsWalk(walk)
  /\ iter_a \in [seg_idx : Nat, pos_in_seg : Nat]
  /\ iter_b \in [seg_idx : Nat, pos_in_seg : Nat]
  /\ global_pos \in Nat
  /\ diffs \in Nat
  /\ indices \subseteq Nat
  /\ outcome \in {"walking", "done", "panic"}

\* The rows both columns have been compared up to.
Done == RowOf(walk.a, iter_a)

\* A row's value as the accessor of its column reports it.
Value(c, r) == Reported(Accessor(c.kind), c.kind, c.rows[r + 1])
DifferentRows(n) == {r \in 0..n - 1 : Value(walk.a, r) # Value(walk.b, r)}

\* An iterator stands in a segment, never at its end, or behind the last one.
IterOK(c, it) ==
  /\ it.seg_idx \in 1..Len(c.segs) + 1
  /\ it.pos_in_seg \in IF HasCurrent(c, it) THEN 0..c.segs[it.seg_idx].len - 1 ELSE {0}

\* The two iterators are always at one row, whatever the chunk sizes of the two
\* files, and rows are listed by the number of that row in the trace.
InLockstep ==
  /\ IterOK(walk.a, iter_a) /\ IterOK(walk.b, iter_b)
  /\ RowOf(walk.a, iter_a) = RowOf(walk.b, iter_b)
  /\ walk.wants = "indices" => global_pos = walk.start + Done

\* Columns the comparison has a case for, without the nulls of a dictionary.
NullFree(c) == \A r \in 1..Len(c.rows) : c.rows[r] # Null
Plain == Typed(walk) /\ (walk.a.kind = "dict" => NullFree(walk.a) /\ NullFree(walk.b))

\* Each differing row of a plain column is counted once.
CountsEachDifference ==
  (Plain /\ walk.wants = "count") => diffs = Cardinality(DifferentRows(Done))

\* The rows listed for a plain column are those that differ, by their number in
\* the trace.
ListsTheDifferences ==
  (Plain /\ walk.wants = "indices") => indices = {r + walk.start : r \in DifferentRows(Done)}

\* What every batch preserves.
WalkInv == WalkTypeOK /\ InLockstep /\ CountsEachDifference /\ ListsTheDifferences

\* A walk ends, at the end of the shorter column.
WalkTerminates ==
  outcome = "walking" ~>
    \/ outcome = "panic"
    \/ outcome = "done" /\ Done = IF Total(walk.a) < Total(walk.b) THEN Total(walk.a)
                                 ELSE Total(walk.b)

\* "Count differences for a single field [...] Uses bulk column access when
\* available, falling back to scalar" (comparison.rs 497-498): the count does not
\* depend on which of the two is used.
BulkCountsLikeScalar ==
  (walk.wants = "count" /\ walk.a.kind = walk.b.kind) =>
    outcome # "panic" /\ diffs = Cardinality(DifferentRows(Done))
=============================================================================
