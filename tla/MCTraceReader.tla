--------------------------- MODULE MCTraceReader ---------------------------
(* Instances of TraceReader for TLC. *)
EXTENDS TraceReader

CONSTANTS a, b

\* One column in each of two groups.
TwoGroups == <<{a}, {b}>>

\* Every cell of a column is its own, so that a misplaced one shows, and b has
\* nulls.
CellAt(col, row) ==
  IF col = a THEN row ELSE IF row % 2 = 0 THEN Null ELSE 10 + row

\* A finished file with chunks of these sizes and a frame mark after each.
FileOf(sizes) ==
  LET begin(k) == FoldLeft(LAMBDA n, size : n + size, 0, SubSeq(sizes, 1, k - 1))
      chunk(k) == [kind |-> "chunk", entry_count |-> sizes[k],
                   data |-> [col \in Columns |->
                               [i \in 1..sizes[k] |-> CellAt(col, begin(k) + i)]]]
      mark(k) == [kind |-> "snapshot", tag |-> TagFrame,
                  entry_index |-> begin(k) + sizes[k],
                  payload |-> IF k = 1 THEN NoPayload ELSE k]
      footer == [kind |-> "footer",
                 chunks |-> [k \in 1..Len(sizes) |->
                               [offset |-> 2 * k, entry_count |-> sizes[k]]],
                 snapshots |-> [k \in 1..Len(sizes) |->
                                  [snapshot_type |-> TagFrame, offset |-> 2 * k + 1,
                                   entry_index |-> begin(k) + sizes[k]]],
                 total |-> begin(Len(sizes) + 1)]
  IN  <<[kind |-> "header"]>>
        \o [p \in 1..2 * Len(sizes) |->
              IF p % 2 = 1 THEN chunk((p + 1) \div 2) ELSE mark(p \div 2)]
        \o <<footer>>

Sound(records) == [records |-> records, lost |-> {}, absent |-> {}, corrupt |-> {}]

\* Whole files of several shapes, an unfinished one, and a file of which a chunk
\* and two groups cannot be read.
WholeAndDamaged ==
  {Sound(FileOf(<<>>)), Sound(FileOf(<<1, 2, 2>>)),
   Sound(Front(FileOf(<<2>>))),
   [records |-> FileOf(<<1, 2, 1>>), lost |-> {6}, absent |-> {<<2, 2>>},
    corrupt |-> {<<4, 1>>}]}
=============================================================================
