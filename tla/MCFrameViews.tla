---------------------------- MODULE MCFrameViews ----------------------------
(* Instances of FrameViews for TLC: a 2x2 screen. *)
EXTENDS FrameViews, SequencesExt

CONSTANTS x, y, red, blue, MaxRows, MaxFrames, PixelRows

\* Every trace of up to MaxRows rows with up to MaxFrames boundaries in order,
\* without pixels.
PlainTraces ==
  {t \in [count : 0..MaxRows,
          addr : BoundedSeq({x, y}, MaxRows) \cup {None},
          boundaries : BoundedSeq(0..MaxRows, MaxFrames),
          pix : {None}, ly : {None}] :
     /\ t.addr # None => Len(t.addr) = t.count
     /\ \A f \in 1..Len(t.boundaries) : t.boundaries[f] <= t.count
     /\ \A f, g \in 1..Len(t.boundaries) : f < g => t.boundaries[f] <= t.boundaries[g]}

\* Empty values, pixels with an invalid token between, a whole screen.
PixValues == {<<>>, <<red>>, <<blue, Invalid, red>>, <<red, blue, blue, red>>}

\* PixelRows rows of pixels, of two instructions or of one row each, in a frame.
PixelTraces ==
  {t \in [count : {PixelRows},
          addr : {[i \in 1..PixelRows |-> IF i < s THEN x ELSE y] : s \in 2..PixelRows}
                   \cup {None},
          boundaries : {<<1>>},
          pix : [1..PixelRows -> PixValues],
          ly : [1..PixelRows -> LyValues] \cup {None}] : TRUE}

SomeTraces == PlainTraces \cup PixelTraces
=============================================================================
