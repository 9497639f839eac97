-------------------------- MODULE MCGameBoyCapture --------------------------
(* Instances of GameBoyCapture for TLC. *)
EXTENDS GameBoyCapture

CONSTANTS MaxFrames, MaxExtra, Budgets

SmallOptions ==
  [max_frames : {2, MaxFrames}, extra_frames : 0..MaxExtra,
   until : Budgets \cup {None}, speed : {1, 2}]
=============================================================================
