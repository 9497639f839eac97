---------------------------- MODULE MCVramCache ----------------------------
(* Instances of VramCache for TLC. *)
EXTENDS VramCache

CONSTANTS low, high, Rows

Writes == {None} \cup {[addr |-> low, data |-> 1], [addr |-> low, data |-> 0],
                        [addr |-> high, data |-> 1]}

\* No frames, a frame in the middle of an interval, two at one row, one in front
\* of the first row and one behind the last.
Boundaries == {<<>>, <<1>>, <<2, 2>>, <<0, 3, Rows>>}

ShortTraces == [writes : UNION {[1..n -> Writes] : n \in {0, 1, Rows}}, boundaries : Boundaries]
=============================================================================
