--------------------------- MODULE MCTraceWriter ---------------------------
(* Instances of TraceWriter for TLC. *)
EXTENDS TraceWriter

CONSTANTS a, b, c

\* One column in each of two groups.
TwoGroups == <<{a}, {b}>>

\* A group of two columns and a group of one.
PairAndSingle == <<{a, b}, {c}>>
=============================================================================
