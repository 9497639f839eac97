-------------------------- MODULE MCTracePipeline --------------------------
(* Instances of TracePipeline for TLC. *)
EXTENDS TracePipeline

CONSTANT b

\* One column, in a group of its own.
OneGroup == <<{b}>>

\* A bound on the reader: of a trace in which something went wrong, of whose
\* contents the properties say nothing, it asks one thing.
UnsoundReadOnce == Intact \/ answer = None
=============================================================================
