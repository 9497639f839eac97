---------------------------- MODULE TraceArchive ----------------------------
(***************************************************************************)
(* What writer, file and reader promise together: a log (TraceLog) that,   *)
(* once finished, is read back cell by cell, column by column and mark by  *)
(* mark, exactly as it was written.                                        *)
(***************************************************************************)
EXTENDS TraceLog

CONSTANTS Columns, FrameTag, Nothing

VARIABLE seen  \* what the last query showed

archiveVars == <<entries, marks, state, seen>>

FrameMarks ==
  LET upto[n \in 0..Len(marks)] ==
        IF n = 0 THEN <<>>
        ELSE IF marks[n].tag = FrameTag THEN Append(upto[n - 1], marks[n]) ELSE upto[n - 1]
  IN  upto[Len(marks)]

Column(c) == [i \in 1..Len(entries) |-> entries[i][c]]

\* The cells of one column in the rows from `from` up to `to`.
Slice(c, from, to) ==
  [column |-> c, from |-> from, cells |-> SubSeq(Column(c), from + 1, to)]

ReadColumn ==
  \E c \in Columns : \E from, to \in 0..Len(entries) : seen' = Slice(c, from, to)

ReadBoundaries ==
  seen' = [boundaries |-> [f \in 1..Len(FrameMarks) |-> FrameMarks[f].at]]

ReadFrame ==
  \/ \E f \in 1..Len(FrameMarks) : seen' = [frame |-> f, payload |-> FrameMarks[f].payload]
  \/ \E f \in 1..Len(marks) + 1 : f > Len(FrameMarks) /\ seen' = [frame |-> f, payload |-> Nothing]

Read ==
  /\ state = "finished"
  /\ ReadColumn \/ ReadBoundaries \/ ReadFrame
  /\ UNCHANGED <<entries, marks, state>>

ArchiveInit == Init /\ seen = Nothing
ArchiveNext == (Next /\ UNCHANGED seen) \/ Read
ArchiveSpec == ArchiveInit /\ [][ArchiveNext]_archiveVars
=============================================================================
