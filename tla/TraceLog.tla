------------------------------ MODULE TraceLog ------------------------------
(***************************************************************************)
(* What a trace file promises its producer and its readers: a log of       *)
(* entries with marks between them (frame boundaries, memory snapshots),   *)
(* which grows until it is finished for good, or is lost as a whole.       *)
(* TraceWriter implements it; TraceReader reads it back.                   *)
(***************************************************************************)
EXTENDS Naturals, Sequences

CONSTANTS Entry, Tag, Payload

VARIABLES entries, marks, state

vars == <<entries, marks, state>>

Init == entries = <<>> /\ marks = <<>> /\ state = "open"

\* An entry becomes part of the trace when the producer finishes it.
Add ==
  /\ state = "open"
  /\ \E entry \in Entry : entries' = Append(entries, entry)
  /\ UNCHANGED <<marks, state>>

\* A mark stands before the next entry.
Mark ==
  /\ state = "open"
  /\ \E tag \in Tag, payload \in Payload :
       marks' = Append(marks, [tag |-> tag, at |-> Len(entries),
                               payload |-> payload])
  /\ UNCHANGED <<entries, state>>

Finish == state = "open" /\ state' = "finished" /\ UNCHANGED <<entries, marks>>

Lose ==
  /\ state = "open"
  /\ state' = "abandoned"
  /\ entries' = <<>>
  /\ marks' = <<>>

Next == Add \/ Mark \/ Finish \/ Lose

Spec == Init /\ [][Next]_vars
=============================================================================
