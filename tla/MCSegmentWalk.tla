--------------------------- MODULE MCSegmentWalk ---------------------------
(* Instances of SegmentWalk for TLC. *)
EXTENDS SegmentWalk, SequencesExt

CONSTANTS MaxRows, MaxChunk, TestedKinds

Least(m, n) == IF m < n THEN m ELSE n

\* Rows cut into chunks of the given size; the first of the rows is row
\* `skipped` of its chunk, and no row in front of it has a value.
Cut(rows, size, skipped) ==
  LET count == IF rows = <<>> THEN 0 ELSE (Len(rows) + skipped - 1) \div size + 1
      end(s) == Least(s * size - skipped, Len(rows))
      start(s) == IF s = 1 THEN 0 ELSE end(s - 1)
      values(s) == {r \in start(s) + 1..end(s) : rows[r] # Null}
      first(s) == IF values(s) = {} THEN NoValue
                  ELSE rows[CHOOSE r \in values(s) : \A q \in values(s) : r <= q]
  IN  [s \in 1..count |->
         [start |-> start(s), len |-> end(s) - start(s), first |-> first(s)]]

Cuts == {c \in (1..MaxChunk) \X (0..MaxChunk - 1) : c[2] < c[1]}

Columns(kind, cells) ==
  {[kind |-> kind, rows |-> r, segs |-> Cut(r, c[1], c[2])] :
     r \in BoundedSeq(cells, MaxRows), c \in Cuts}

\* Two columns of one type, the first one without nulls or not.
SmallWalks ==
  UNION {{[a |-> a, b |-> b, start |-> st, wants |-> w] :
            a \in Columns(k, {0, 1}), b \in Columns(k, {1, Null}),
            st \in {2}, w \in {"count", "indices"}} : k \in TestedKinds}
=============================================================================
