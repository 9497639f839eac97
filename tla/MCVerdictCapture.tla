-------------------------- MODULE MCVerdictCapture --------------------------
(* Instances of VerdictCapture for TLC. *)
EXTENDS VerdictCapture

Asked(name, frames, rate) ==
  [adapter : {name}, frames : frames, rate : rate, frame : BOOLEAN]

\* 30 is the default; 179 is a frame short of three seconds; 1300 takes more than
\* openMSX's least deadline.
SmallOptions ==
  Asked("vcs", 0..2, {60}) \cup Asked("tivdp", 0..2, {60})
    \cup Asked("mame", {30, 179}, {50, 60}) \cup Asked("openmsx", {30, 1300}, {50})
=============================================================================
