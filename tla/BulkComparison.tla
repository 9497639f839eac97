--------------------------- MODULE BulkComparison ---------------------------
(***************************************************************************)
(* Comparison in bulk (crates/morepork/src/comparison.rs): TraceComparison *)
(* takes a field's count in one step; here it is walked (SegmentWalk) over *)
(* the segments the two files' stores hand out for the ranges the maps     *)
(* are. The same walk serves the functions that compare a range of rows of *)
(* two traces without aligning them.                                       *)
(***************************************************************************)
EXTENDS TraceComparison, SegmentWalk

CONSTANT Asked  \* the standalone calls: [field, start, len, wants]

ASSUME AskedAssumption ==
  \A c \in Asked : c.start \in Nat /\ c.len \in Nat /\ c.wants \in {"count", "indices"}

VARIABLE walked  \* history: the field walked for the statistics, Asked's call, or None

bulkVars == <<vars, walkVars, walked>>

Nothing == [kind |-> "u8", rows |-> <<>>, segs |-> <<>>]

\* No walk is under way yet.
BulkInit ==
  /\ Init
  /\ walk = [a |-> Nothing, b |-> Nothing, start |-> 0, wants |-> "count"]
  /\ iter_a = [seg_idx |-> 1, pos_in_seg |-> 0]
  /\ iter_b = [seg_idx |-> 1, pos_in_seg |-> 0]
  /\ global_pos = 0 /\ diffs = 0 /\ indices = {}
  /\ outcome = "done"
  /\ walked = None

\* get_column_segments: the range, cut off at the end of the trace, as one segment
\* of each chunk it meets.
ColumnSegments(t, f, from, len) ==
  LET end == Min({from + len, EntryCount(t)})
      first_chunk == from \div t.chunk
      count == IF from >= end THEN 0 ELSE (end - 1) \div t.chunk - first_chunk + 1
      begins(s) == Max({from, (first_chunk + s - 1) * t.chunk})
      ends(s) == Min({end, (first_chunk + s) * t.chunk})
  IN  [kind |-> t.kinds[f],
       rows |-> IF count = 0 THEN <<>> ELSE SubSeq(t.cols[f], from + 1, end),
       segs |-> [s \in 1..count |-> [start |-> begins(s) - from,
                                     len |-> ends(s) - begins(s),
                                     first |-> FirstValue(t, f, begins(s))]]]

Begin(f, from_a, from_b, len, wants) ==
  /\ walked = None
  /\ pair.a.bulk /\ pair.b.bulk
  /\ f \in Fields(pair.a) \cap Fields(pair.b)
  /\ walk' = [a |-> ColumnSegments(pair.a, f, from_a, len),
              b |-> ColumnSegments(pair.b, f, from_b, len),
              start |-> from_a, wants |-> wants]
  /\ global_pos' = from_a
  /\ outcome' = "walking"
  /\ UNCHANGED <<vars, iter_a, iter_b, diffs, indices>>

\* Mutant: both ranges from a's start.
BeginFieldFromA(f) ==
  /\ stage = "ready" /\ field_stats = None /\ Contiguous
  /\ Begin(f, Start(map_a), Start(map_a), Len(map_a), "count")
  /\ walked' = [field |-> f]

\* bulk_compare_fields, for one of its fields, when no statistics are cached.
BeginField(f) ==
  /\ stage = "ready" /\ field_stats = None /\ Contiguous
  /\ Begin(f, Start(map_a), Start(map_b), Len(map_a), "count")
  /\ walked' = [field |-> f]

\* bulk_field_diff_count and bulk_field_diff_indices, of the two traces as they are.
BeginAsked(c) ==
  /\ stage = "collapse"
  /\ Begin(c.field, c.start, c.start, c.len, c.wants)
  /\ walked' = c

\* Bound: one walk a behaviour, and nothing after it.
BulkNext ==
  \/ walked = None /\ Next /\ UNCHANGED <<walkVars, walked>>
  \/ \E f \in Fields(pair.a) : BeginField(f)
  \/ \E c \in Asked : BeginAsked(c)
  \/ WalkNext /\ UNCHANGED <<vars, walked>>

\* A walk is a loop that waits for nothing.
BulkSpec == BulkInit /\ [][BulkNext]_bulkVars /\ WF_walkVars(WalkNext)

-----------------------------------------------------------------------------
\* The walk gives the count the statistics take in one step, nulls, dictionaries
\* and types without a case included, wherever the ranges start within the chunks
\* of the two files; and it panics only if a null of a dictionary without values
\* is compared, whichever batch that is in.
WalksGiveTheCounts ==
  (walked # None /\ DOMAIN walked = {"field"}) =>
    /\ outcome = "done" => diffs = BulkDiffs(walked.field) /\ ~BulkPanics(walked.field)
    /\ outcome = "panic" => BulkPanics(walked.field)
=============================================================================
