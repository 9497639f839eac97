------------------------ MODULE GameBoyCaptureProofs ------------------------
(***************************************************************************)
(* Proofs about GameBoyCapture: for every adapter, every option, length of *)
(* a frame and behaviour of the emulator, pictures are in the regions they *)
(* were taken for, a stop condition is followed by the extra frames, and   *)
(* the limit on cycles ends no run at single speed with the LCD on. The    *)
(* actions are many but do few things to a trace: TraceSteps lists them.   *)
(***************************************************************************)
EXTENDS GameBoyCapture, TLAPS

Region == [first : Nat \cup {None}, later : SUBSET Nat]

Formed(t) ==
  /\ t \in Seq(Region) /\ Len(t) > 0
  /\ \A r \in 1..Len(t) : /\ t[r].first \in 0..Len(t) \cup {None}
                          /\ t[r].later \subseteq 1..Len(t)

\* Trace t with p pending: pictures stand first in the regions they are of, and
\* one is pending while a region behind a mark is empty.
Framed(t, p) ==
  /\ \A r \in 1..Len(t) : /\ t[r].first \in {None, IF r = 1 THEN 0 ELSE r}
                          /\ t[r].later = {}
  /\ p = IF t[Len(t)].first = None /\ Len(t) > 1 THEN Len(t) ELSE 0

PictureInv ==
  /\ Formed(regions)
  /\ pending \in 0..Len(regions)
  /\ Captures => Framed(regions, pending)
  /\ (loop = "closed" /\ Budget) => regions[Len(regions)].first = Len(regions)

LEMMA AddedIs ==
  ASSUME NEW t \in Seq(Region), Len(t) > 0, NEW p \in Nat
  PROVE  /\ Added(t, p) \in Seq(Region) /\ Len(Added(t, p)) = Len(t)
         /\ \A r \in 1..Len(t) - 1 : Added(t, p)[r] = t[r]
         /\ t[Len(t)].first = None => Added(t, p)[Len(t)] = [first |-> p, later |-> {}]
         /\ t[Len(t)].first # None =>
              /\ Added(t, p)[Len(t)].first = t[Len(t)].first
              /\ Added(t, p)[Len(t)].later = t[Len(t)].later \cup ({p} \ {0})
<1> DEFINE new == IF t[Len(t)].first = None THEN [first |-> p, later |-> {}]
                  ELSE [first |-> t[Len(t)].first, later |-> t[Len(t)].later \cup ({p} \ {0})]
<1>1. Len(t) \in Nat /\ Len(t) \in 1..Len(t) /\ t[Len(t)] \in Region
  OBVIOUS
<1>2. new \in Region
  BY <1>1 DEF Region
<1>3. Added(t, p) = [t EXCEPT ![Len(t)] = new]
  BY DEF Added
<1>4. /\ t[Len(t)].first = None => new = [first |-> p, later |-> {}]
      /\ t[Len(t)].first # None => /\ new.first = t[Len(t)].first
                                   /\ new.later = t[Len(t)].later \cup ({p} \ {0})
  BY <1>1 DEF Region
<1> HIDE DEF new
<1>5. /\ [t EXCEPT ![Len(t)] = new] \in Seq(Region) /\ Len([t EXCEPT ![Len(t)] = new]) = Len(t)
      /\ [t EXCEPT ![Len(t)] = new][Len(t)] = new
      /\ \A r \in 1..Len(t) - 1 : [t EXCEPT ![Len(t)] = new][r] = t[r]
  BY <1>1, <1>2
<1>6. QED  BY <1>3, <1>4, <1>5

LEMMA MarkedIs ==
  ASSUME NEW t \in Seq(Region)
  PROVE  /\ Marked(t) \in Seq(Region) /\ Len(Marked(t)) = Len(t) + 1
         /\ \A r \in 1..Len(t) : Marked(t)[r] = t[r]
         /\ Marked(t)[Len(t) + 1] = [first |-> None, later |-> {}]
<1>1. NoEntries \in Region
  BY DEF Region, NoEntries
<1>2. QED  BY <1>1 DEF Marked, NoEntries

LEMMA AddedFormed ==
  ASSUME NEW t, Formed(t), NEW p \in 0..Len(t)
  PROVE  /\ Formed(Added(t, p)) /\ Len(Added(t, p)) = Len(t)
         /\ Framed(t, p) => Framed(Added(t, p), 0)
         /\ (t[Len(t)].first = None) => Added(t, p)[Len(t)].first = p
<1>1. /\ t \in Seq(Region) /\ Len(t) \in Nat /\ Len(t) > 0 /\ p \in Nat
  BY DEF Formed
<1> DEFINE u == Added(t, p)
<1>2. /\ u \in Seq(Region) /\ Len(u) = Len(t)
      /\ \A r \in 1..Len(t) - 1 : u[r] = t[r]
      /\ t[Len(t)].first = None => u[Len(t)] = [first |-> p, later |-> {}]
      /\ t[Len(t)].first # None => /\ u[Len(t)].first = t[Len(t)].first
                                   /\ u[Len(t)].later = t[Len(t)].later \cup ({p} \ {0})
  BY <1>1, AddedIs
<1> HIDE DEF u
<1>3. ASSUME NEW r \in 1..Len(t)
      PROVE  u[r].first \in 0..Len(t) \cup {None} /\ u[r].later \subseteq 1..Len(t)
  <2>1. CASE r # Len(t)
    BY <1>1, <1>2, <2>1 DEF Formed
  <2>2. CASE r = Len(t)
    BY <1>1, <1>2, <2>2 DEF Formed
  <2> QED  BY <2>1, <2>2
<1>4. ASSUME Framed(t, p) PROVE Framed(u, 0)
  <2>1. ASSUME NEW r \in 1..Len(t)
        PROVE  u[r].first \in {None, IF r = 1 THEN 0 ELSE r} /\ u[r].later = {}
    <3>1. CASE r # Len(t)
      BY <1>1, <1>2, <1>4, <3>1 DEF Framed
    <3>2. CASE r = Len(t) /\ t[Len(t)].first = None
      BY <1>1, <1>2, <1>4, <3>2 DEF Framed
    <3>3. CASE r = Len(t) /\ t[Len(t)].first # None
      BY <1>1, <1>2, <1>4, <3>3 DEF Framed
    <3> QED  BY <3>1, <3>2, <3>3
  <2>2. ~(u[Len(t)].first = None)
    BY <1>1, <1>2, CaptureAssumption
  <2> QED  BY <1>2, <2>1, <2>2 DEF Framed
<1>5. QED  BY <1>1, <1>2, <1>3, <1>4 DEF Formed, u

LEMMA MarkedFormed ==
  ASSUME NEW t, Formed(t)
  PROVE  /\ Formed(Marked(t)) /\ Len(Marked(t)) = Len(t) + 1
         /\ \A p : Framed(t, p) => Framed(Marked(t), Len(t) + 1)
         /\ Marked(t)[Len(t) + 1].first = None
<1>1. t \in Seq(Region) /\ Len(t) \in Nat /\ Len(t) > 0
  BY DEF Formed
<1> DEFINE u == Marked(t)
<1>2. /\ u \in Seq(Region) /\ Len(u) = Len(t) + 1
      /\ \A r \in 1..Len(t) : u[r] = t[r]
      /\ u[Len(t) + 1].first = None /\ u[Len(t) + 1].later = {}
  BY <1>1, MarkedIs
<1> HIDE DEF u
<1>3. ASSUME NEW r \in 1..Len(t) + 1
      PROVE  u[r].first \in 0..Len(t) + 1 \cup {None} /\ u[r].later \subseteq 1..Len(t) + 1
  <2>1. CASE r # Len(t) + 1
    <3>1. r \in 1..Len(t)
      BY <1>1, <2>1
    <3> QED  BY <1>1, <1>2, <3>1 DEF Formed
  <2>2. CASE r = Len(t) + 1
    BY <1>2, <2>2
  <2> QED  BY <2>1, <2>2
<1>4. ASSUME NEW p, Framed(t, p) PROVE Framed(u, Len(t) + 1)
  <2>1. ASSUME NEW r \in 1..Len(t) + 1
        PROVE  u[r].first \in {None, IF r = 1 THEN 0 ELSE r} /\ u[r].later = {}
    <3>1. CASE r # Len(t) + 1
      <4>1. r \in 1..Len(t)
        BY <1>1, <3>1
      <4> QED  BY <1>2, <1>4, <4>1 DEF Framed
    <3>2. CASE r = Len(t) + 1
      BY <1>2, <3>2
    <3> QED  BY <3>1, <3>2
  <2> QED  BY <1>1, <1>2, <2>1 DEF Framed
<1>5. QED  BY <1>1, <1>2, <1>3, <1>4 DEF Formed, u

-----------------------------------------------------------------------------
(* What a step does to the trace.                                          *)

Entry    == regions' = Added(regions, pending) /\ pending' = 0
Mark     == \E e \in BOOLEAN : regions' = Marked(Emitted(e)) /\ pending' = Len(regions) + 1
EdgeMark == regions' = Added(Marked(regions), Len(regions) + 1) /\ pending' = 0
Plain    == /\ ~Captures /\ UNCHANGED pending
            /\ \E x \in {pending, 0} : regions' \in {regions, Added(regions, x), Marked(regions),
                                                    Marked(Added(regions, x))}

TraceStep == UNCHANGED <<regions, pending>> \/ Entry \/ Mark \/ EdgeMark \/ Plain

LEMMA EmittedLength ==
  ASSUME PictureInv, NEW e \in BOOLEAN
  PROVE  /\ Formed(Emitted(e)) /\ Len(Emitted(e)) = Len(regions)
         /\ Captures => Framed(Emitted(e), Emit(e))
  BY AddedFormed DEF PictureInv, Emitted, Emit

LEMMA EntryStep ==
  ASSUME NEW e \in BOOLEAN, regions' = Emitted(e), pending' = Emit(e)
  PROVE  TraceStep
  BY DEF Emitted, Emit, TraceStep, Entry

LEMMA MarkStep ==
  ASSUME PictureInv, NEW e \in BOOLEAN, MarkFrame(Emitted(e))
  PROVE  Mark
  BY EmittedLength DEF MarkFrame, Mark

LEMMA TraceSteps ==
  ASSUME PictureInv, Next
  PROVE  /\ UNCHANGED <<adapter, opt>> /\ loop # "closed"
         /\ TraceStep
         /\ loop' = "closed" => IF Budget THEN EdgeMark ELSE UNCHANGED <<regions, pending>>
<1> DEFINE Moves == /\ UNCHANGED <<adapter, opt>> /\ loop # "closed"
                    /\ TraceStep
                    /\ loop' = "closed" => IF Budget THEN EdgeMark ELSE UNCHANGED <<regions, pending>>
<1> SUFFICES Moves
  OBVIOUS
<1> USE DEF Leave, StayInLoop, Running, AfterVBlank
<1>1. CASE LoopEnds
  BY <1>1 DEF LoopEnds, TraceStep
<1>2. ASSUME NEW emitted \in BOOLEAN, NEW hit \in BOOLEAN, NEW v \in BOOLEAN, NEW match \in BOOLEAN,
             NEW cond \in BOOLEAN, InstructionStep(emitted, hit, v, match, cond)
      PROVE  Moves
  <2>1. CASE v
    BY <1>2, <2>1, MarkStep DEF InstructionStep, TraceStep
  <2>2. CASE ~v
    BY <1>2, <2>2, EntryStep DEF InstructionStep
  <2> QED  BY <2>1, <2>2
<1>3. ASSUME NEW emitted \in BOOLEAN, GambatteChunk(emitted)
      PROVE  Moves
  BY <1>3, EntryStep DEF GambatteChunk
<1>4. ASSUME NEW edge \in BOOLEAN, NEW hit \in BOOLEAN, NEW v \in BOOLEAN, NEW match \in BOOLEAN,
             NEW cond \in BOOLEAN, TcycleStep(edge, hit, v, match, cond)
      PROVE  Moves
  BY <1>4 DEF TcycleStep, TraceStep, Entry, EdgeMark
<1>5. ASSUME NEW emitted \in BOOLEAN, NEW hit \in BOOLEAN, NEW match \in BOOLEAN,
             NEW cond \in BOOLEAN, FrameStep(emitted, hit, match, cond)
      PROVE  Moves
  BY <1>5, MarkStep DEF FrameStep, TraceStep
<1>6. ASSUME NEW hit \in BOOLEAN, NEW v \in BOOLEAN, NEW match \in BOOLEAN,
             NEW cond \in BOOLEAN, DocBoyCycle(hit, v, match, cond)
      PROVE  Moves
  <2>1. CASE v
    BY <1>6, <2>1, MarkStep DEF DocBoyCycle, TraceStep
  <2>2. CASE ~v
    BY <1>6, <2>2, EntryStep DEF DocBoyCycle
  <2> QED  BY <2>1, <2>2
<1>7. CASE DocBoyThrows
  BY <1>7 DEF DocBoyThrows, TraceStep
<1>8. ASSUME NEW emitted \in BOOLEAN, NEW v \in BOOLEAN, RunOn(emitted, v)
      PROVE  Moves
  BY <1>8, EntryStep DEF RunOn
<1>9. ASSUME NEW edge \in BOOLEAN, NEW v \in BOOLEAN, RunOnTcycle(edge, v)
      PROVE  Moves
  BY <1>9 DEF RunOnTcycle, TraceStep, Entry, EdgeMark
<1>10. CASE RunOnThrows
  BY <1>10 DEF RunOnThrows, TraceStep
<1>11. ASSUME NEW emitted \in BOOLEAN, NEW hit \in BOOLEAN, NEW vsync \in BOOLEAN,
              NEW match \in BOOLEAN, PhaseStep(emitted, hit, vsync, match)
       PROVE  Moves
  <2>1. ~Captures /\ UNCHANGED <<pending, adapter, opt>> /\ loop = "running"
    BY <1>11 DEF PhaseStep, Captures, VBlankLoops
  <2>2. loop' # "closed" /\ regions' = IF vsync THEN Marked(Emitted(emitted)) ELSE Emitted(emitted)
    BY <1>11 DEF PhaseStep
  <2> QED  BY <2>1, <2>2 DEF TraceStep, Plain, Emitted
<1>12. ASSUME NEW hit \in BOOLEAN, NEW v \in BOOLEAN, NEW match \in BOOLEAN, MissingnoStep(hit, v, match)
       PROVE  Moves
  <2>1. ~Captures /\ UNCHANGED <<pending, adapter, opt>> /\ loop = "running"
    BY <1>12 DEF MissingnoStep, Captures, VBlankLoops
  <2>2. loop' # "closed" /\ regions' = IF v THEN Marked(Added(regions, 0)) ELSE Added(regions, 0)
    BY <1>12 DEF MissingnoStep
  <2> QED  BY <2>1, <2>2 DEF TraceStep, Plain
<1>13. CASE Close
  BY <1>13 DEF Close, TraceStep, EdgeMark
<1> HIDE DEF Leave, StayInLoop, Running, AfterVBlank, Moves
<1>14. QED
  BY <1>1, <1>2, <1>3, <1>4, <1>5, <1>6, <1>7, <1>8, <1>9, <1>10, <1>11, <1>12, <1>13
     DEF Next

LEMMA PictureInit == Init => PictureInv
<1> SUFFICES ASSUME Init PROVE PictureInv
  OBVIOUS
<1> DEFINE one == <<NoEntries>>
<1>1. Formed(one) /\ Framed(one, 0) /\ Len(one) = 1 /\ 0 \in 0..Len(one)
  BY DEF Formed, Framed, Region, NoEntries
<1>2. /\ Formed(Added(one, 0)) /\ Len(Added(one, 0)) = 1 /\ Framed(Added(one, 0), 0)
  <2> HIDE DEF one
  <2> QED  BY <1>1, AddedFormed
<1>3. QED
  BY <1>1, <1>2 DEF Init, PictureInv

LEMMA PictureStep ==
  ASSUME PictureInv, [Next]_vars
  PROVE  PictureInv' /\ Len(regions') >= Len(regions)
<1>1. CASE UNCHANGED vars
  BY <1>1 DEF vars, PictureInv, Formed, Framed, Captures, Budget
<1>2. CASE Next
  <2> DEFINE n == Len(regions)
  <2>1. /\ UNCHANGED <<adapter, opt>> /\ loop # "closed" /\ TraceStep
        /\ loop' = "closed" => IF Budget THEN EdgeMark ELSE UNCHANGED <<regions, pending>>
    BY <1>2, TraceSteps
  <2>2. (Captures' <=> Captures) /\ (Budget' <=> Budget)
    BY <2>1 DEF Captures, Budget
  <2>3. Formed(regions) /\ pending \in 0..n /\ n \in Nat /\ (Captures => Framed(regions, pending))
    BY DEF PictureInv, Formed
  <2>4. /\ Formed(Marked(regions)) /\ Len(Marked(regions)) = n + 1
        /\ Captures => Framed(Marked(regions), n + 1)
        /\ Marked(regions)[n + 1].first = None
    BY <2>3, MarkedFormed
  <2>5. SUFFICES /\ Formed(regions') /\ pending' \in 0..Len(regions') /\ Len(regions') >= n
                 /\ Captures => Framed(regions', pending')
                 /\ EdgeMark => regions'[Len(regions')].first = Len(regions')
    BY <2>1, <2>2 DEF PictureInv
  <2>6. CASE EdgeMark
    <3> DEFINE m == Marked(regions)
    <3>1. n + 1 \in 0..Len(m) /\ Formed(m) /\ m[Len(m)].first = None /\ Len(m) = n + 1
          /\ (Captures => Framed(m, n + 1))
      BY <2>3, <2>4
    <3> HIDE DEF m
    <3>2. /\ Formed(Added(m, n + 1)) /\ Len(Added(m, n + 1)) = n + 1
          /\ Captures => Framed(Added(m, n + 1), 0)
          /\ Added(m, n + 1)[Len(m)].first = n + 1
      BY <3>1, AddedFormed
    <3> QED  BY <2>3, <2>6, <3>1, <3>2 DEF EdgeMark, m
  <2>7. CASE UNCHANGED <<regions, pending>> /\ ~EdgeMark
    BY <2>3, <2>7
  <2>8. CASE Entry /\ ~EdgeMark
    BY <2>3, <2>8, AddedFormed DEF Entry
  <2>9. CASE Mark /\ ~EdgeMark
    <3>1. PICK e \in BOOLEAN : regions' = Marked(Emitted(e)) /\ pending' = n + 1
      BY <2>9 DEF Mark
    <3>2. /\ Formed(Emitted(e)) /\ Len(Emitted(e)) = n
          /\ Captures => Framed(Emitted(e), Emit(e))
      BY EmittedLength
    <3>3. /\ Formed(Marked(Emitted(e))) /\ Len(Marked(Emitted(e))) = n + 1
          /\ Captures => Framed(Marked(Emitted(e)), n + 1)
      BY <3>2, MarkedFormed
    <3> QED  BY <2>3, <2>9, <3>1, <3>3
  <2>10. CASE Plain /\ ~EdgeMark
    <3>1. PICK x \in {pending, 0} : regions' \in {regions, Added(regions, x), Marked(regions),
                                                 Marked(Added(regions, x))}
      BY <2>10 DEF Plain
    <3>2. ~Captures /\ pending' = pending /\ x \in 0..n
      BY <2>3, <2>10 DEF Plain
    <3>3. Formed(Added(regions, x)) /\ Len(Added(regions, x)) = n
      BY <2>3, <3>2, AddedFormed
    <3>4. Formed(Marked(Added(regions, x))) /\ Len(Marked(Added(regions, x))) = n + 1
      BY <3>3, MarkedFormed
    <3> QED  BY <2>3, <2>4, <2>10, <3>1, <3>2, <3>3, <3>4
  <2> QED  BY <2>1, <2>6, <2>7, <2>8, <2>9, <2>10 DEF TraceStep
<1>3. QED  BY <1>1, <1>2

\* Over the whole run the pictures keep to their regions.
THEOREM CapturePicturesTyped == Spec => []PictureInv
<1>1. PictureInv /\ [Next]_vars => PictureInv'
  BY PictureStep
<1>2. QED  BY PictureInit, <1>1, PTL DEF Spec

\* Every picture is in the first entry of the frame it was taken for, for every
\* adapter and however blanks, entries, matches and conditions come.
THEOREM CapturePicturesInTheirFrames == Spec => []PicturesInTheirFrames
<1>1. PictureInv => PicturesInTheirFrames
  BY DEF PictureInv, PicturesInTheirFrames, Framed
<1>2. QED  BY <1>1, CapturePicturesTyped, PTL

-----------------------------------------------------------------------------
(* Frames and cycles.                                                      *)

\* How many frames a run can count.
FramesBound == IF Budget THEN CycleBound
               ELSE IF adapter = "sameboy_tcycle" THEN RunOnBound ELSE opt.max_frames

Typed ==
  /\ adapter \in Adapters /\ opt \in Options
  /\ adapter \in {"gateboy", "mgba"} => ~Budget
  /\ loop \in {"running", "matched", "left", "closed", "crashed"}
  /\ stop_triggered \in BOOLEAN /\ ref_matched \in BOOLEAN
  /\ since \in 0..FrameCycles - 1 /\ dark \in BOOLEAN
  /\ ended \in {"", "until", "cycles", "frames", "stop", "match", "exception"}

\* A frame takes a cycle at least, gateboy's exactly FRAME of them, and with the
\* LCD on those of docboy and missingno no more than FRAME.
CountInv ==
  /\ frames \in Nat /\ frames <= FramesBound
  /\ cycles \in 0..CycleBound
  /\ Budget => /\ loop = "running" => frames <= cycles
               /\ (adapter = "gambatte" /\ loop # "closed") => frames = 0
  /\ adapter = "gateboy" => frames * FRAME <= cycles /\ cycles <= opt.max_frames * FRAME
  /\ (adapter \in {"docboy", "missingno"} /\ opt.speed = 1 /\ loop = "running" /\ ~dark) =>
       cycles <= frames * FRAME + since

\* How many frames the loops mark from a stop condition to the end it brings.
\* Where it is noticed at vertical blank, none or one more than asked for; in
\* missingno, as many as asked for, that of the step the condition was met in
\* included, and with none asked for only that.
ExtraMarks ==
  IF adapter = "missingno"
  THEN IF opt.extra_frames = 0 THEN {0, 1} ELSE {opt.extra_frames}
  ELSE IF opt.extra_frames = 0 THEN {0} ELSE {opt.extra_frames + 1}

\* gateboy has marked nothing since it was told to stop, and leaves at a mark or
\* when its countdown runs out; a match begins no countdown.
PhaseStopInv ==
  /\ loop = "running" => /\ stop_mark # 0 <=> stop_triggered
                         /\ stop_mark # 0 => Len(regions) = stop_mark
  /\ (loop = "left" /\ ended = "stop") =>
       /\ stop_mark # 0 /\ MarksSinceStop \in {0, 1}
       /\ remaining_extra = -1 => MarksSinceStop = 1

\* Since the stop condition was met, marks have been counted down; missingno,
\* asked for no extra frame, has made one mark at most.
StopInv ==
  /\ remaining_extra \in -1..opt.extra_frames
  /\ stop_mark \in 0..Len(regions)
  /\ stop_mark = 0 => remaining_extra = -1
  /\ remaining_extra = -1 => stop_mark = 0 \/ (adapter = "gateboy" /\ ref_matched)
  /\ adapter = "gateboy" => PhaseStopInv
  /\ (loop = "running" /\ stop_mark # 0 /\ adapter # "gateboy"
       /\ (adapter = "sameboy_tcycle" => ~dark)) =>
       IF opt.extra_frames > 0
       THEN Len(regions) - stop_mark = opt.extra_frames - remaining_extra
       ELSE adapter = "missingno" /\ Len(regions) - stop_mark \in {0, 1}
  /\ (loop = "left" /\ ended = "stop" /\ adapter # "gateboy"
       /\ (adapter = "sameboy_tcycle" => ~dark)) =>
       stop_mark # 0 /\ Len(regions) - stop_mark \in ExtraMarks

CaptureInv == Typed /\ CountInv /\ StopInv /\ PictureInv /\ BudgetNeverTruncates

\* What the steps below preserve beside the pictures.
Rest == Typed /\ CountInv /\ StopInv /\ BudgetNeverTruncates

LEMMA FrameArithmetic ==
  ASSUME NEW a \in Nat, NEW b \in Nat
  PROVE  /\ (a + 1) * FRAME = a * FRAME + FRAME /\ a * FRAME \in Nat
         /\ a <= a * FRAME
         /\ a * FRAME <= b * FRAME => a <= b
         /\ a <= b => a * FRAME <= b * FRAME
<1>1. FRAME \in Nat /\ FRAME > 0
  BY CaptureAssumption
<1>2. (a + 1) * FRAME = a * FRAME + FRAME /\ a * FRAME \in Nat
  BY <1>1
<1>3. a <= a * FRAME
  BY <1>1
<1>4. ASSUME a > b PROVE a * FRAME > b * FRAME
  BY <1>1, <1>4
<1>5. ASSUME a <= b PROVE a * FRAME <= b * FRAME
  BY <1>1, <1>5
<1>6. QED  BY <1>1, <1>2, <1>3, <1>4, <1>5

LEMMA OptionsTyped ==
  ASSUME Typed
  PROVE  /\ opt.max_frames \in Nat /\ opt.extra_frames \in Nat /\ opt.speed \in {1, 2}
         /\ opt.max_frames * FRAME \in Nat /\ FRAME \in Nat /\ FRAME > 0 /\ CycleBound \in Nat
         /\ MaxCycles = opt.max_frames * FRAME + FRAME /\ MaxCycles < CycleBound
         /\ opt.max_frames <= opt.max_frames * FRAME
         /\ FramesBound \in Nat
         /\ opt.max_frames <= FramesBound /\ RunOnBound = opt.max_frames + 1
         /\ Budget => /\ opt.until \in Nat /\ opt.until < CycleBound
                      /\ FramesBound = CycleBound
         /\ FrameCycles \in Nat /\ FrameCycles > 0 /\ FrameCycles <= 2 * FRAME
         /\ opt.speed = 1 => FrameCycles = FRAME
<1>1. opt \in Options
  BY DEF Typed
<1>2. /\ opt.max_frames \in Nat /\ opt.extra_frames \in Nat /\ opt.speed \in {1, 2}
      /\ opt.until \in Nat \cup {None} /\ FRAME \in Nat /\ FRAME > 0 /\ CycleBound \in Nat
      /\ (opt.max_frames + 1) * FRAME < CycleBound
      /\ opt.until # None => opt.until < CycleBound
  BY <1>1, CaptureAssumption, CycleBoundAssumption
<1>3. /\ (opt.max_frames + 1) * FRAME = opt.max_frames * FRAME + FRAME
      /\ opt.max_frames * FRAME \in Nat /\ opt.max_frames <= opt.max_frames * FRAME
  BY <1>2, FrameArithmetic
<1>4. FrameCycles = FRAME \/ FrameCycles = FRAME + FRAME
  BY <1>2 DEF FrameCycles
<1>5. opt.speed = 1 => FrameCycles = FRAME
  BY <1>2 DEF FrameCycles
<1>6. QED  BY <1>2, <1>3, <1>4, <1>5 DEF MaxCycles, FramesBound, RunOnBound, Budget

LEMMA SinceTyped ==
  ASSUME Typed
  PROVE  since \in Nat /\ since < FrameCycles
<1>1. since \in 0..FrameCycles - 1
  BY DEF Typed
<1>2. FrameCycles \in Nat
  BY OptionsTyped
<1>3. QED  BY <1>1, <1>2

LEMMA BlankIs ==
  ASSUME Typed, NEW v \in BOOLEAN, Blank(v)
  PROVE  /\ since' \in 0..FrameCycles - 1 /\ dark' \in BOOLEAN
         /\ dark => dark'
         /\ ~dark' => IF v THEN since' = 0 /\ since + 1 = FrameCycles ELSE since' = since + 1
<1>1. FrameCycles \in Nat /\ FrameCycles > 0 /\ since \in 0..FrameCycles - 1 /\ dark \in BOOLEAN
  BY OptionsTyped DEF Typed
<1>2. dark' \in BOOLEAN /\ (dark => dark')
  BY <1>1, Zenon DEF Blank
<1>3. ~dark' => (v <=> since + 1 = FrameCycles)
  BY DEF Blank
<1>4. since' = IF v \/ since + 1 = FrameCycles THEN 0 ELSE since + 1
  BY DEF Blank
<1> HIDE DEF FrameCycles
<1>5. since' \in 0..FrameCycles - 1
  BY <1>1, <1>4
<1>6. QED  BY <1>1, <1>2, <1>3, <1>4, <1>5

LEMMA LoopGuardGives ==
  ASSUME Typed, LoopGuard
  PROVE  /\ adapter = "gateboy" => cycles < opt.max_frames * FRAME
         /\ (Budget /\ adapter \in {"sameboy", "sameboy_tcycle", "docboy"}) => cycles < opt.until
         /\ (~Budget /\ adapter \in VBlankLoops) => frames < opt.max_frames
         /\ adapter = "missingno" => frames < opt.max_frames /\ remaining_extra # 0
  BY DEF LoopGuard, VBlankLoops

LEMMA ReasonGives ==
  ASSUME Typed, CountInv, StopInv, ~LoopGuard
  PROVE  /\ Reason \in {"until", "cycles", "frames", "stop"}
         /\ Reason = "stop" => adapter = "missingno" /\ remaining_extra = 0
         /\ (Reason = "cycles" /\ adapter # "gateboy") => cycles >= MaxCycles /\ frames < opt.max_frames
<1>1. /\ frames \in Nat /\ cycles \in Nat /\ opt.max_frames \in Nat /\ MaxCycles \in Nat
      /\ Budget => opt.until \div FRAME \in Nat
  BY OptionsTyped DEF CountInv
<1>2. /\ adapter \in VBlankLoops \cup {"gateboy", "missingno"}
      /\ adapter \in {"gateboy", "mgba"} => ~Budget
  BY CaptureAssumption DEF Typed
<1> HIDE DEF MaxCycles, Budget
<1>3. CASE Budget /\ adapter # "missingno"
  BY <1>2, <1>3 DEF Reason
<1>4. CASE adapter = "gateboy"
  BY <1>2, <1>4 DEF Reason
<1>5. CASE adapter = "missingno"
  <2>1. Reason = IF Budget /\ frames >= opt.until \div FRAME THEN "until"
                 ELSE IF frames >= opt.max_frames THEN "frames"
                 ELSE IF cycles >= MaxCycles THEN "cycles" ELSE "stop"
    BY <1>5 DEF Reason
  <2>2. ~(/\ Budget => frames < opt.until \div FRAME
          /\ frames < opt.max_frames /\ cycles < MaxCycles /\ remaining_extra # 0)
    BY <1>5 DEF LoopGuard
  <2> QED  BY <1>1, <1>5, <2>1, <2>2
<1>6. CASE ~Budget /\ adapter \in VBlankLoops
  <2>1. Reason = IF frames >= opt.max_frames THEN "frames"
                 ELSE IF cycles >= MaxCycles THEN "cycles" ELSE "stop"
    BY <1>6 DEF Reason, VBlankLoops
  <2>2. ~(frames < opt.max_frames /\ (adapter = "docboy" => cycles < MaxCycles))
    BY <1>6 DEF LoopGuard, VBlankLoops
  <2> QED  BY <1>1, <1>6, <2>1, <2>2
<1>8. QED  BY <1>2, <1>3, <1>4, <1>5, <1>6

\* The trace grows by at most one frame a step, and by Emitted and Added not.
LEMMA Lengths ==
  ASSUME PictureInv
  PROVE  /\ Len(regions) \in Nat /\ Len(regions) > 0
         /\ \A x \in {0, pending} : Len(Added(regions, x)) = Len(regions)
         /\ \A e \in BOOLEAN : /\ Len(Emitted(e)) = Len(regions)
                               /\ Len(Marked(Emitted(e))) = Len(regions) + 1
         /\ Len(Marked(Added(regions, 0))) = Len(regions) + 1
         /\ Len(Added(Marked(regions), Len(regions) + 1)) = Len(regions) + 1
<1>1. Formed(regions) /\ pending \in 0..Len(regions) /\ Len(regions) \in Nat /\ Len(regions) > 0
  BY DEF PictureInv, Formed
<1>2. \A x \in {0, pending} : Formed(Added(regions, x)) /\ Len(Added(regions, x)) = Len(regions)
  BY <1>1, AddedFormed
<1>3. \A e \in BOOLEAN : Formed(Emitted(e)) /\ Len(Emitted(e)) = Len(regions)
  BY EmittedLength
<1>4. \A e \in BOOLEAN : Len(Marked(Emitted(e))) = Len(regions) + 1
  BY <1>3, MarkedFormed
<1>5. Len(Marked(Added(regions, 0))) = Len(regions) + 1
  BY <1>2, MarkedFormed
<1>6. Formed(Marked(regions)) /\ Len(Marked(regions)) = Len(regions) + 1
  BY <1>1, MarkedFormed
<1>7. Len(Added(Marked(regions), Len(regions) + 1)) = Len(regions) + 1
  BY <1>1, <1>6, AddedFormed
<1>8. QED  BY <1>1, <1>2, <1>3, <1>4, <1>5, <1>7

-----------------------------------------------------------------------------
(* What is decided at a frame, and the steps one by one.                   *)

\* StayInLoop keeps the countdown's promise when nothing is marked. In T-cycle
\* mode with the LCD off marks are no longer counted.
LEMMA StayKeepsStop ==
  ASSUME StopInv, Typed, loop = "running", UNCHANGED <<adapter, opt>>, dark => dark', StayInLoop,
         adapter # "gateboy",
         Len(regions') \in Nat, Len(regions') >= Len(regions), Len(regions) \in Nat,
         ~(adapter = "sameboy_tcycle" /\ dark') => Len(regions') = Len(regions)
  PROVE  StopInv'
<1>1. opt.extra_frames \in Nat
  BY OptionsTyped
<1>2. QED  BY <1>1 DEF StopInv, StayInLoop

LEMMA DecisionKeepsStop ==
  ASSUME StopInv, Typed, loop = "running", UNCHANGED <<adapter, opt>>, dark => dark',
         NEW match \in BOOLEAN, NEW cond \in BOOLEAN, AfterVBlank(match, cond),
         adapter # "gateboy", adapter # "missingno",
         Len(regions') \in Nat, Len(regions') >= Len(regions), Len(regions) \in Nat, Len(regions) > 0,
         ~(adapter = "sameboy_tcycle" /\ dark') => Len(regions') = Len(regions) + 1
  PROVE  StopInv'
<1>1. opt.extra_frames \in Nat
  BY OptionsTyped
<1>2. CASE match
  BY <1>1, <1>2 DEF StopInv, AfterVBlank
<1>3. CASE ~match /\ remaining_extra >= 0
  BY <1>1, <1>3, SMTT(40) DEF StopInv, AfterVBlank, Leave, ExtraMarks
<1>4. CASE ~match /\ ~(remaining_extra >= 0) /\ (cond \/ stop_triggered')
  BY <1>1, <1>4, SMTT(40) DEF StopInv, AfterVBlank, Leave, ExtraMarks
<1>5. CASE ~match /\ ~(remaining_extra >= 0) /\ ~(cond \/ stop_triggered')
  <2>1. StayInLoop
    BY <1>5 DEF AfterVBlank
  <2>2. remaining_extra = -1 /\ stop_mark = 0
    BY <1>1, <1>5 DEF StopInv
  <2> QED  BY <1>1, <2>1, <2>2 DEF StopInv, StayInLoop
<1>6. QED  BY <1>2, <1>3, <1>4, <1>5

LEMMA Decides ==
  ASSUME Typed, loop = "running", NEW match \in BOOLEAN, NEW cond \in BOOLEAN,
         AfterVBlank(match, cond) \/ StayInLoop
  PROVE  loop' \in {"running", "matched", "left"} /\ ended' \in {ended, "stop"}
  BY DEF AfterVBlank, StayInLoop, Leave

\* Whatever else a step does: types and the budget's property.
LEMMA TypedStep ==
  ASSUME Typed, BudgetNeverTruncates, UNCHANGED <<adapter, opt>>,
         loop' \in {"running", "matched", "left", "closed", "crashed"},
         stop_triggered' \in BOOLEAN, ref_matched' \in BOOLEAN,
         since' \in 0..FrameCycles - 1, dark' \in BOOLEAN, dark => dark',
         ended' \in {ended, "until", "frames", "stop", "match", "exception"}
  PROVE  Typed' /\ BudgetNeverTruncates'
<1>1. UNCHANGED <<Budget, FrameCycles>>
  BY DEF Budget, FrameCycles
<1> HIDE DEF FrameCycles, Budget
<1>2. Typed'
  BY <1>1 DEF Typed
<1>3. BudgetNeverTruncates'
  BY DEF BudgetNeverTruncates
<1>4. QED  BY <1>2, <1>3

LEMMA LatchTyped ==
  ASSUME Typed, NEW hit \in BOOLEAN, Latch(hit)
  PROVE  stop_triggered' \in BOOLEAN
<1>1. stop_triggered \in BOOLEAN
  BY DEF Typed
<1>2. QED  BY <1>1, Zenon DEF Latch

LEMMA InstructionKeeps ==
  ASSUME Rest, PictureInv, NEW emitted \in BOOLEAN, NEW hit \in BOOLEAN, NEW v \in BOOLEAN,
         NEW match \in BOOLEAN, NEW cond \in BOOLEAN,
         InstructionStep(emitted, hit, v, match, cond)
  PROVE  Rest'
<1>1. /\ loop = "running" /\ adapter \in {"sameboy", "gambatte"} /\ LoopGuard
      /\ adapter = "gambatte" => ~Budget
      /\ Blank(v) /\ Latch(hit) /\ UNCHANGED <<adapter, opt, ref_matched>>
      /\ cycles' = IF Budget THEN Counted ELSE cycles
  BY DEF InstructionStep, Running
<1>2. Typed /\ CountInv /\ StopInv /\ BudgetNeverTruncates
  BY DEF Rest
<1>3. /\ frames' = IF v THEN frames + 1 ELSE frames
      /\ IF v THEN AfterVBlank(match, cond) ELSE StayInLoop
  BY DEF InstructionStep
<1>4. Len(regions') = IF v THEN Len(regions) + 1 ELSE Len(regions)
  BY Lengths DEF InstructionStep, MarkFrame
<1>5. /\ since' \in 0..FrameCycles - 1 /\ dark' \in BOOLEAN /\ (dark => dark')
  BY <1>1, <1>2, BlankIs
<1>6. loop' \in {"running", "matched", "left"} /\ ended' \in {ended, "stop"}
  BY <1>1, <1>2, <1>3, Decides
<1>7. Typed' /\ BudgetNeverTruncates'
  <2>1. stop_triggered' \in BOOLEAN /\ ref_matched' \in BOOLEAN
    BY <1>1, <1>2, LatchTyped DEF Typed
  <2> QED  BY <1>1, <1>2, <1>5, <1>6, <2>1, TypedStep
<1>8. StopInv'
  <2>1. Len(regions) \in Nat /\ Len(regions) > 0
    BY Lengths
  <2>2. CASE v
    BY <1>1, <1>2, <1>3, <1>4, <1>5, <2>1, <2>2, DecisionKeepsStop
  <2>3. CASE ~v
    BY <1>1, <1>2, <1>3, <1>4, <1>5, <2>1, <2>3, StayKeepsStop
  <2> QED  BY <2>2, <2>3
<1>9. CountInv'
  <2>1. UNCHANGED <<Budget, FramesBound>>
    BY <1>1 DEF Budget, FramesBound, RunOnBound
  <2>2. Budget => cycles < opt.until /\ opt.until < CycleBound /\ opt.until \in Nat /\ FramesBound = CycleBound
    BY <1>1, <1>2, LoopGuardGives, OptionsTyped
  <2>3. ~Budget => frames < opt.max_frames
    BY <1>1, <1>2, LoopGuardGives DEF VBlankLoops
  <2>4. FramesBound \in Nat /\ opt.max_frames \in Nat /\ opt.max_frames <= FramesBound /\ CycleBound \in Nat
    BY <1>2, OptionsTyped
  <2> HIDE DEF Budget, FramesBound
  <2>5. QED  BY <1>1, <1>2, <1>3, <2>1, <2>2, <2>3, <2>4 DEF CountInv, Counted
<1>10. QED  BY <1>7, <1>8, <1>9 DEF Rest

LEMMA GambatteChunkKeeps ==
  ASSUME Rest, PictureInv, NEW emitted \in BOOLEAN, GambatteChunk(emitted)
  PROVE  Rest'
<1>1. /\ loop = "running" /\ adapter = "gambatte" /\ Budget /\ StayInLoop /\ cycles' = Counted
      /\ UNCHANGED <<adapter, opt, frames, stop_triggered, ref_matched, since, dark>>
  BY DEF GambatteChunk, Running, emulator
<1>2. Typed /\ CountInv /\ StopInv /\ BudgetNeverTruncates
  BY DEF Rest
<1>3. Len(regions') = Len(regions) /\ Len(regions) \in Nat
  BY Lengths DEF GambatteChunk
<1>4. Typed' /\ BudgetNeverTruncates'
  BY <1>1, <1>2, TypedStep DEF StayInLoop, Typed
<1>5. StopInv'
  BY <1>1, <1>2, <1>3, StayKeepsStop
<1>6. CountInv'
  <2>1. UNCHANGED <<Budget, FramesBound>>
    BY <1>1 DEF Budget, FramesBound, RunOnBound
  <2>2. CycleBound \in Nat /\ FramesBound \in Nat
    BY <1>2, OptionsTyped
  <2> HIDE DEF Budget, FramesBound
  <2> QED  BY <1>1, <1>2, <2>1, <2>2 DEF CountInv, Counted, StayInLoop
<1>7. QED  BY <1>4, <1>5, <1>6 DEF Rest

LEMMA TcycleKeeps ==
  ASSUME Rest, PictureInv, NEW edge \in BOOLEAN, NEW hit \in BOOLEAN, NEW v \in BOOLEAN,
         NEW match \in BOOLEAN, NEW cond \in BOOLEAN,
         TcycleStep(edge, hit, v, match, cond)
  PROVE  Rest'
<1>1. /\ loop = "running" /\ adapter = "sameboy_tcycle" /\ LoopGuard
      /\ Blank(edge) /\ Latch(hit) /\ UNCHANGED <<adapter, opt, ref_matched>>
      /\ cycles' = IF Budget THEN Counted ELSE cycles
      /\ ~dark' => (v <=> edge)
  BY DEF TcycleStep, Running
<1>2. Typed /\ CountInv /\ StopInv /\ BudgetNeverTruncates
  BY DEF Rest
<1>3. /\ frames' = IF edge THEN frames + 1 ELSE frames
      /\ IF v THEN AfterVBlank(match, cond) ELSE StayInLoop
  BY DEF TcycleStep
<1>4. /\ Len(regions) \in Nat /\ Len(regions) > 0
      /\ Len(regions') = IF edge THEN Len(regions) + 1 ELSE Len(regions)
  BY Lengths DEF TcycleStep
<1>5. /\ since' \in 0..FrameCycles - 1 /\ dark' \in BOOLEAN /\ (dark => dark')
  BY <1>1, <1>2, BlankIs
<1>6. loop' \in {"running", "matched", "left"} /\ ended' \in {ended, "stop"}
  BY <1>1, <1>2, <1>3, Decides
<1>7. Typed' /\ BudgetNeverTruncates'
  <2>1. stop_triggered' \in BOOLEAN /\ ref_matched' \in BOOLEAN
    BY <1>1, <1>2, LatchTyped DEF Typed
  <2> QED  BY <1>1, <1>2, <1>5, <1>6, <2>1, TypedStep
<1>8. StopInv'
  <2>1. Len(regions') \in Nat /\ Len(regions') >= Len(regions)
    BY <1>4
  <2>2. CASE v
    <3>1. ~dark' => Len(regions') = Len(regions) + 1
      BY <1>1, <1>4, <2>2
    <3> QED  BY <1>1, <1>2, <1>3, <1>4, <1>5, <2>1, <2>2, <3>1, DecisionKeepsStop
  <2>3. CASE ~v
    <3>1. ~dark' => Len(regions') = Len(regions)
      BY <1>1, <1>4, <2>3
    <3> QED  BY <1>1, <1>2, <1>3, <1>4, <1>5, <2>1, <2>3, <3>1, StayKeepsStop
  <2> QED  BY <2>2, <2>3
<1>9. CountInv'
  <2>1. UNCHANGED <<Budget, FramesBound>>
    BY <1>1 DEF Budget, FramesBound, RunOnBound
  <2>2. Budget => cycles < opt.until /\ opt.until < CycleBound /\ opt.until \in Nat /\ FramesBound = CycleBound
    BY <1>1, <1>2, LoopGuardGives, OptionsTyped
  <2>3. ~Budget => frames < opt.max_frames
    BY <1>1, <1>2, LoopGuardGives DEF VBlankLoops
  <2>4. FramesBound \in Nat /\ opt.max_frames \in Nat /\ opt.max_frames <= FramesBound /\ CycleBound \in Nat
    BY <1>2, OptionsTyped
  <2> HIDE DEF Budget, FramesBound
  <2>5. QED  BY <1>1, <1>2, <1>3, <2>1, <2>2, <2>3, <2>4 DEF CountInv, Counted
<1>10. QED  BY <1>7, <1>8, <1>9 DEF Rest

LEMMA FrameKeeps ==
  ASSUME Rest, PictureInv, NEW emitted \in BOOLEAN, NEW hit \in BOOLEAN,
         NEW match \in BOOLEAN, NEW cond \in BOOLEAN, FrameStep(emitted, hit, match, cond)
  PROVE  Rest'
<1>1. /\ loop = "running" /\ adapter = "mgba" /\ LoopGuard /\ Latch(hit)
      /\ frames' = frames + 1 /\ AfterVBlank(match, cond)
      /\ UNCHANGED <<adapter, opt, cycles, ref_matched, since, dark>>
  BY DEF FrameStep, Running, emulator
<1>2. Typed /\ CountInv /\ StopInv /\ BudgetNeverTruncates
  BY DEF Rest
<1>3. Len(regions') = Len(regions) + 1 /\ Len(regions) \in Nat /\ Len(regions) > 0
  BY Lengths DEF FrameStep, MarkFrame
<1>4. loop' \in {"running", "matched", "left"} /\ ended' \in {ended, "stop"}
  BY <1>1, <1>2, Decides
<1>5. Typed' /\ BudgetNeverTruncates'
  <2>1. stop_triggered' \in BOOLEAN /\ ref_matched' \in BOOLEAN /\ dark' \in BOOLEAN
        /\ since' \in 0..FrameCycles - 1
    BY <1>1, <1>2, LatchTyped DEF Typed
  <2> QED  BY <1>1, <1>2, <1>4, <2>1, TypedStep
<1>6. StopInv'
  BY <1>1, <1>2, <1>3, DecisionKeepsStop
<1>7. CountInv'
  <2>1. UNCHANGED <<Budget, FramesBound>>
    BY <1>1 DEF Budget, FramesBound, RunOnBound
  <2>2. ~Budget /\ frames < opt.max_frames /\ opt.max_frames \in Nat
        /\ FramesBound \in Nat /\ opt.max_frames <= FramesBound
    BY <1>1, <1>2, LoopGuardGives, OptionsTyped DEF VBlankLoops, Typed
  <2> HIDE DEF Budget, FramesBound
  <2> QED  BY <1>1, <1>2, <2>1, <2>2 DEF CountInv
<1>8. QED  BY <1>5, <1>6, <1>7 DEF Rest

LEMMA DocBoyKeeps ==
  ASSUME Rest, PictureInv, NEW hit \in BOOLEAN, NEW v \in BOOLEAN,
         NEW match \in BOOLEAN, NEW cond \in BOOLEAN, DocBoyCycle(hit, v, match, cond)
  PROVE  Rest'
<1>1. /\ loop = "running" /\ adapter = "docboy" /\ LoopGuard
      /\ Blank(v) /\ Latch(hit) /\ UNCHANGED <<adapter, opt, ref_matched>>
      /\ cycles' = Counted
  BY DEF DocBoyCycle, Running
<1>2. Typed /\ CountInv /\ StopInv /\ BudgetNeverTruncates
  BY DEF Rest
<1>3. /\ frames' = IF v THEN frames + 1 ELSE frames
      /\ IF v THEN AfterVBlank(match, cond) ELSE StayInLoop
  BY DEF DocBoyCycle
<1>4. Len(regions') = IF v THEN Len(regions) + 1 ELSE Len(regions)
  BY Lengths DEF DocBoyCycle, MarkFrame
<1>5. /\ since' \in 0..FrameCycles - 1 /\ dark' \in BOOLEAN /\ (dark => dark')
      /\ ~dark' => IF v THEN since' = 0 /\ since + 1 = FrameCycles ELSE since' = since + 1
  BY <1>1, <1>2, BlankIs
<1>6. loop' \in {"running", "matched", "left"} /\ ended' \in {ended, "stop"}
  BY <1>1, <1>2, <1>3, Decides
<1>7. Typed' /\ BudgetNeverTruncates'
  <2>1. stop_triggered' \in BOOLEAN /\ ref_matched' \in BOOLEAN
    BY <1>1, <1>2, LatchTyped DEF Typed
  <2> QED  BY <1>1, <1>2, <1>5, <1>6, <2>1, TypedStep
<1>8. StopInv'
  <2>1. Len(regions) \in Nat /\ Len(regions) > 0
    BY Lengths
  <2>2. CASE v
    BY <1>1, <1>2, <1>3, <1>4, <1>5, <2>1, <2>2, DecisionKeepsStop
  <2>3. CASE ~v
    BY <1>1, <1>2, <1>3, <1>4, <1>5, <2>1, <2>3, StayKeepsStop
  <2> QED  BY <2>2, <2>3
<1>9. CountInv'
  <2>1. UNCHANGED <<Budget, FramesBound, FrameCycles>>
    BY <1>1 DEF Budget, FramesBound, RunOnBound, FrameCycles
  <2>2. Budget => cycles < opt.until /\ opt.until < CycleBound /\ opt.until \in Nat /\ FramesBound = CycleBound
    BY <1>1, <1>2, LoopGuardGives, OptionsTyped
  <2>3. ~Budget => frames < opt.max_frames
    BY <1>1, <1>2, LoopGuardGives DEF VBlankLoops
  <2>4. /\ FramesBound \in Nat /\ opt.max_frames \in Nat /\ opt.max_frames <= FramesBound
        /\ CycleBound \in Nat /\ FRAME \in Nat
    BY <1>2, OptionsTyped
  <2>5. ASSUME opt.speed = 1, loop' = "running", ~dark'
        PROVE  cycles' <= frames' * FRAME + since'
    <3>1. cycles <= frames * FRAME + since /\ frames \in Nat /\ since \in Nat /\ cycles \in Nat
      <4>1. ~dark /\ FrameCycles \in Nat
        BY <1>2, <1>5, <2>5, OptionsTyped
      <4>2. since \in Nat
        BY <1>2, SinceTyped
      <4>3. frames \in Nat /\ cycles \in Nat
        BY <1>2 DEF CountInv
      <4>4. cycles <= frames * FRAME + since
        BY <1>1, <1>2, <2>5, <4>1, Zenon DEF CountInv
      <4> QED  BY <4>2, <4>3, <4>4
    <3>2. FrameCycles = FRAME
      BY <1>2, <2>5, OptionsTyped
    <3>3. (frames + 1) * FRAME = frames * FRAME + FRAME /\ frames * FRAME \in Nat
      BY <3>1, FrameArithmetic
    <3>4. cycles' <= cycles + 1
      BY <1>1, <3>1 DEF Counted
    <3>5. cycles' \in Nat
      BY <1>1, <3>1 DEF Counted
    <3>6. CASE v
      <4>1. frames' * FRAME = frames * FRAME + FRAME /\ since' = 0 /\ since + 1 = FRAME
        BY <1>3, <1>5, <2>5, <3>2, <3>3, <3>6
      <4> QED  BY <2>4, <3>1, <3>3, <3>4, <3>5, <4>1
    <3>7. CASE ~v
      <4>1. frames' * FRAME = frames * FRAME /\ since' = since + 1
        BY <1>3, <1>5, <2>5, <3>7
      <4> QED  BY <2>4, <3>1, <3>3, <3>4, <3>5, <4>1
    <3> QED  BY <3>6, <3>7
  <2> HIDE DEF Budget, FramesBound
  <2>6. QED  BY <1>1, <1>2, <1>3, <2>1, <2>2, <2>3, <2>4, <2>5 DEF CountInv, Counted
<1>10. QED  BY <1>7, <1>8, <1>9 DEF Rest

\* The steps that leave the loop, or run on behind it, count nothing for the
\* stop; those after a match may still count frames.
LEMMA LeavingKeeps ==
  ASSUME Rest, PictureInv, UNCHANGED <<adapter, opt, cycles, remaining_extra, ref_matched, stop_mark>>,
         loop' \in {"matched", "left", "crashed"},
         loop # "closed",
         frames' \in Nat, frames' <= FramesBound, frames' = frames \/ adapter = "sameboy_tcycle",
         stop_triggered' \in BOOLEAN,
         since' \in 0..FrameCycles - 1, dark' \in BOOLEAN, dark => dark',
         ended' \in {ended, "match", "exception"},
         loop' = "left" => ended' # "stop",
         Len(regions') \in Nat, Len(regions') >= Len(regions)
  PROVE  Rest'
<1>1. Typed /\ CountInv /\ StopInv /\ BudgetNeverTruncates
  BY DEF Rest
<1>2. Typed' /\ BudgetNeverTruncates'
  BY <1>1, TypedStep DEF Typed
<1>3. StopInv'
  <2>1. Len(regions) \in Nat
    BY Lengths
  <2>2. PhaseStopInv'
    BY DEF PhaseStopInv
  <2> QED  BY <1>1, <2>1, <2>2 DEF StopInv
<1>4. CountInv'
  <2>1. UNCHANGED <<Budget, FramesBound>>
    BY DEF Budget, FramesBound, RunOnBound
  <2> HIDE DEF Budget, FramesBound
  <2> QED  BY <1>1, <2>1 DEF CountInv
<1>5. QED  BY <1>2, <1>3, <1>4 DEF Rest

LEMMA ThrowsKeep ==
  ASSUME Rest, PictureInv, DocBoyThrows \/ RunOnThrows
  PROVE  Rest'
<1>1. Typed /\ CountInv
  BY DEF Rest
<1>2. Len(regions) \in Nat
  BY Lengths
<1>3. stop_triggered' \in BOOLEAN
  BY <1>1 DEF Typed, DocBoyThrows, RunOnThrows
<1>4. /\ since \in 0..FrameCycles - 1 /\ dark \in BOOLEAN /\ frames \in Nat /\ frames <= FramesBound
  BY <1>1 DEF Typed, CountInv
<1>5. /\ UNCHANGED <<adapter, opt, cycles, remaining_extra, ref_matched, stop_mark,
                      frames, since, dark, regions>>
      /\ loop # "closed" /\ loop' \in {"left", "crashed"} /\ ended' = "exception"
  BY DEF DocBoyThrows, RunOnThrows, Leave, Running, emulator
<1>6. QED
  BY <1>2, <1>3, <1>4, <1>5, LeavingKeeps

LEMMA RunOnKeeps ==
  ASSUME Rest, PictureInv, NEW emitted \in BOOLEAN, NEW v \in BOOLEAN, RunOn(emitted, v)
  PROVE  Rest'
<1>1. Typed /\ CountInv
  BY DEF Rest
<1>2. Len(regions) \in Nat /\ Len(regions') = Len(regions)
  BY Lengths DEF RunOn
<1>3. since' \in 0..FrameCycles - 1 /\ dark' \in BOOLEAN /\ (dark => dark')
  <2>1. CASE adapter = "mgba"
    BY <1>1, <2>1 DEF RunOn, emulator, Typed, FrameCycles
  <2>2. CASE adapter # "mgba"
    BY <1>1, <2>2, BlankIs DEF RunOn
  <2> QED  BY <2>1, <2>2
<1>4. loop = "matched" /\ loop' \in {"matched", "left"} /\ ended' \in {ended, "match"}
      /\ (loop' = "left" => ended' = "match")
  BY DEF RunOn, Leave
<1>5. /\ UNCHANGED <<adapter, opt, cycles, remaining_extra, ref_matched, stop_mark, frames,
                      stop_triggered>>
      /\ stop_triggered \in BOOLEAN /\ frames \in Nat /\ frames <= FramesBound
  BY <1>1 DEF RunOn, Typed, CountInv
<1>6. QED
  BY <1>2, <1>3, <1>4, <1>5, LeavingKeeps

LEMMA RunOnTcycleKeeps ==
  ASSUME Rest, PictureInv, NEW edge \in BOOLEAN, NEW v \in BOOLEAN, RunOnTcycle(edge, v)
  PROVE  Rest'
<1>1. Typed /\ CountInv
  BY DEF Rest
<1>2. Len(regions) \in Nat /\ Len(regions') \in Nat /\ Len(regions') >= Len(regions)
  BY Lengths DEF RunOnTcycle
<1>3. since' \in 0..FrameCycles - 1 /\ dark' \in BOOLEAN /\ (dark => dark')
  BY <1>1, BlankIs DEF RunOnTcycle
<1>4. loop = "matched" /\ loop' \in {"matched", "left"} /\ ended' \in {ended, "match"}
      /\ (loop' = "left" => ended' = "match")
  BY DEF RunOnTcycle, Leave
<1>5. frames' \in Nat /\ frames' <= FramesBound /\ adapter = "sameboy_tcycle"
  <2>1. RunOnBound <= FramesBound /\ FramesBound \in Nat /\ RunOnBound \in Nat
    <3>1. /\ opt.max_frames \in Nat /\ RunOnBound = opt.max_frames + 1
          /\ opt.max_frames <= opt.max_frames * FRAME /\ opt.max_frames * FRAME \in Nat
          /\ MaxCycles = opt.max_frames * FRAME + FRAME /\ MaxCycles < CycleBound
          /\ FRAME \in Nat /\ FRAME > 0 /\ CycleBound \in Nat
      BY <1>1, OptionsTyped
    <3> HIDE DEF RunOnBound, MaxCycles
    <3> QED  BY <3>1 DEF FramesBound, RunOnTcycle
  <2> HIDE DEF RunOnBound, FramesBound
  <2> QED  BY <1>1, <2>1 DEF RunOnTcycle, CountInv
<1>6. QED
  BY <1>1, <1>2, <1>3, <1>4, <1>5, LeavingKeeps DEF RunOnTcycle, Typed

LEMMA LoopEndsKeeps ==
  ASSUME Rest, PictureInv, LoopEnds
  PROVE  Rest'
<1>1. Typed /\ CountInv /\ StopInv /\ BudgetNeverTruncates
  BY DEF Rest
<1>2. /\ loop = "running" /\ ~LoopGuard /\ loop' = "left" /\ ended' = Reason
      /\ UNCHANGED <<adapter, opt, frames, cycles, remaining_extra, stop_triggered,
                      ref_matched, pending, regions, since, dark, stop_mark>>
  BY DEF LoopEnds, Leave, emulator
<1>3. /\ Reason \in {"until", "cycles", "frames", "stop"}
      /\ Reason = "stop" => adapter = "missingno" /\ remaining_extra = 0
      /\ (Reason = "cycles" /\ adapter # "gateboy") => cycles >= MaxCycles /\ frames < opt.max_frames
  BY <1>1, <1>2, ReasonGives
<1>4. UNCHANGED <<Budget, FrameCycles, FramesBound, ExtraMarks>>
  BY <1>2 DEF Budget, FrameCycles, FramesBound, RunOnBound, ExtraMarks
<1>5. Typed'
  <2> HIDE DEF Budget, FrameCycles
  <2> QED  BY <1>1, <1>2, <1>3, <1>4 DEF Typed
<1>6. CountInv'
  <2> HIDE DEF Budget, FramesBound
  <2> QED  BY <1>1, <1>2, <1>4 DEF CountInv
<1>7. BudgetNeverTruncates'
  <2> SUFFICES ASSUME adapter \in {"docboy", "missingno"}, opt.speed = 1, Reason = "cycles", ~dark
               PROVE  FALSE
    BY <1>1, <1>2 DEF BudgetNeverTruncates, Typed
  <2>1. cycles >= MaxCycles /\ frames < opt.max_frames
    BY <1>3
  <2>2. cycles <= frames * FRAME + since /\ frames \in Nat
    BY <1>1, <1>2 DEF CountInv
  <2>3. /\ opt.max_frames \in Nat /\ opt.max_frames * FRAME \in Nat /\ FRAME \in Nat
        /\ MaxCycles = opt.max_frames * FRAME + FRAME /\ FrameCycles = FRAME
    BY <1>1, OptionsTyped
  <2>4. since \in Nat /\ since < FRAME /\ cycles \in Int
    BY <1>1, <2>3, SinceTyped DEF CountInv
  <2>5. frames * FRAME \in Nat /\ frames * FRAME <= opt.max_frames * FRAME
    BY <2>1, <2>2, <2>3, FrameArithmetic
  <2> HIDE DEF MaxCycles, FrameCycles
  <2> QED  BY <2>1, <2>2, <2>3, <2>4, <2>5
<1>8. StopInv'
  <2>1. opt.extra_frames \in Nat /\ Len(regions) \in Nat
    BY <1>1, OptionsTyped, Lengths
  <2>2. PhaseStopInv' \/ adapter # "gateboy"
    BY <1>2, <1>3 DEF PhaseStopInv
  <2> QED  BY <1>1, <1>2, <1>3, <2>1, <2>2 DEF StopInv, ExtraMarks
<1>9. QED  BY <1>5, <1>6, <1>7, <1>8 DEF Rest

LEMMA CloseKeeps ==
  ASSUME Rest, PictureInv, Close
  PROVE  Rest'
<1>1. Typed /\ CountInv /\ StopInv /\ BudgetNeverTruncates
  BY DEF Rest
<1>2. /\ loop = "left" /\ loop' = "closed"
      /\ frames' = IF Budget /\ adapter = "gambatte" THEN frames + 1 ELSE frames
      /\ UNCHANGED <<adapter, opt, cycles, remaining_extra, stop_triggered, ref_matched,
                      since, dark, stop_mark, ended>>
  BY DEF Close, emulator
<1>3. Typed' /\ BudgetNeverTruncates'
  BY <1>1, <1>2, TypedStep DEF Typed
<1>4. StopInv'
  <2>1. Len(regions) \in Nat /\ Len(regions') \in Nat /\ Len(regions') >= Len(regions)
    <3>1. Len(regions) \in Nat /\ Len(Added(Marked(regions), Len(regions) + 1)) = Len(regions) + 1
      BY Lengths
    <3>2. regions' \in {regions, Added(Marked(regions), Len(regions) + 1)}
      BY DEF Close
    <3> QED  BY <3>1, <3>2
  <2>2. PhaseStopInv'
    BY <1>2 DEF PhaseStopInv
  <2> QED  BY <1>1, <1>2, <2>1, <2>2 DEF StopInv
<1>5. CountInv'
  <2>1. UNCHANGED <<Budget, FramesBound>>
    BY <1>2 DEF Budget, FramesBound, RunOnBound
  <2>2. Budget => FramesBound = CycleBound /\ CycleBound > 0 /\ CycleBound \in Nat
    BY <1>1, OptionsTyped
  <2> HIDE DEF Budget, FramesBound
  <2> QED  BY <1>1, <1>2, <2>1, <2>2 DEF CountInv
<1>6. QED  BY <1>3, <1>4, <1>5 DEF Rest

LEMMA MissingnoKeeps ==
  ASSUME Rest, PictureInv, NEW hit \in BOOLEAN, NEW v \in BOOLEAN, NEW match \in BOOLEAN,
         MissingnoStep(hit, v, match)
  PROVE  Rest'
<1> DEFINE met   == ~stop_triggered /\ (hit \/ (v /\ match))
           extra == IF met THEN opt.extra_frames ELSE remaining_extra
<1>1. /\ loop = "running" /\ adapter = "missingno" /\ LoopGuard
      /\ Blank(v) /\ UNCHANGED <<adapter, opt, loop, ref_matched, pending, ended>>
      /\ cycles' = Counted
      /\ frames' = IF v THEN frames + 1 ELSE frames
  BY DEF MissingnoStep, Running
<1>2. Typed /\ CountInv /\ StopInv /\ BudgetNeverTruncates
  BY DEF Rest
<1>3. /\ stop_mark' = IF met THEN Len(regions) ELSE stop_mark
      /\ remaining_extra' = IF v THEN Decremented(extra) ELSE extra
  BY DEF MissingnoStep
<1>4. stop_triggered' \in BOOLEAN
  <2>1. stop_triggered \in BOOLEAN
    BY <1>2 DEF Typed
  <2>2. stop_triggered' = (stop_triggered \/ met)
    BY DEF MissingnoStep
  <2> QED  BY <2>1, <2>2, Zenon
<1> HIDE DEF met
<1>5. /\ Len(regions) \in Nat /\ Len(regions) > 0
      /\ Len(regions') = IF v THEN Len(regions) + 1 ELSE Len(regions)
  BY Lengths DEF MissingnoStep
<1>6. /\ since' \in 0..FrameCycles - 1 /\ dark' \in BOOLEAN /\ (dark => dark')
      /\ ~dark' => IF v THEN since' = 0 /\ since + 1 = FrameCycles ELSE since' = since + 1
  BY <1>1, <1>2, BlankIs
<1>7. Typed' /\ BudgetNeverTruncates'
  BY <1>1, <1>2, <1>4, <1>6, TypedStep DEF Typed
<1>8. StopInv'
  <2>1. opt.extra_frames \in Nat /\ remaining_extra # 0
    BY <1>1, <1>2, OptionsTyped, LoopGuardGives
  <2>2. CASE met
    BY <1>1, <1>2, <1>3, <1>5, <2>1, <2>2 DEF StopInv, Decremented
  <2>3. CASE ~met /\ stop_mark # 0
    BY <1>1, <1>2, <1>3, <1>5, <2>1, <2>3 DEF StopInv, Decremented
  <2>4. CASE ~met /\ stop_mark = 0
    BY <1>1, <1>2, <1>3, <1>5, <2>1, <2>4 DEF StopInv, Decremented
  <2> QED  BY <2>2, <2>3, <2>4
<1>9. CountInv'
  <2>1. UNCHANGED <<Budget, FramesBound, FrameCycles>>
    BY <1>1 DEF Budget, FramesBound, RunOnBound, FrameCycles
  <2>2. /\ FramesBound \in Nat /\ opt.max_frames \in Nat /\ opt.max_frames <= FramesBound
        /\ CycleBound \in Nat /\ FRAME \in Nat /\ frames < opt.max_frames
    BY <1>1, <1>2, OptionsTyped, LoopGuardGives
  <2>3. Budget => cycles < CycleBound
    <3>1. /\ MaxCycles = opt.max_frames * FRAME + FRAME /\ MaxCycles < CycleBound
          /\ opt.max_frames * FRAME \in Nat
      BY <1>2, OptionsTyped
    <3>2. cycles < MaxCycles
      BY <1>1 DEF LoopGuard
    <3>3. cycles \in Nat
      BY <1>2 DEF CountInv
    <3> HIDE DEF MaxCycles
    <3> QED  BY <2>2, <3>1, <3>2, <3>3
  <2>4. ASSUME opt.speed = 1, ~dark'
        PROVE  cycles' <= frames' * FRAME + since'
    <3>1. cycles <= frames * FRAME + since /\ frames \in Nat /\ since \in Nat /\ cycles \in Nat
      <4>1. ~dark /\ FrameCycles \in Nat
        BY <1>2, <1>6, <2>4, OptionsTyped
      <4>2. since \in Nat
        BY <1>2, SinceTyped
      <4>3. frames \in Nat /\ cycles \in Nat
        BY <1>2 DEF CountInv
      <4>4. cycles <= frames * FRAME + since
        BY <1>1, <1>2, <2>4, <4>1, Zenon DEF CountInv
      <4> QED  BY <4>2, <4>3, <4>4
    <3>2. FrameCycles = FRAME
      BY <1>2, <2>4, OptionsTyped
    <3>3. (frames + 1) * FRAME = frames * FRAME + FRAME /\ frames * FRAME \in Nat
      BY <3>1, FrameArithmetic
    <3>4. cycles' <= cycles + 1 /\ cycles' \in Nat
      BY <1>1, <3>1 DEF Counted
    <3>5. CASE v
      <4>1. frames' * FRAME = frames * FRAME + FRAME /\ since' = 0 /\ since + 1 = FRAME
        BY <1>1, <1>6, <2>4, <3>2, <3>3, <3>5
      <4> QED  BY <2>2, <3>1, <3>3, <3>4, <4>1
    <3>6. CASE ~v
      <4>1. frames' * FRAME = frames * FRAME /\ since' = since + 1
        BY <1>1, <1>6, <2>4, <3>6
      <4> QED  BY <2>2, <3>1, <3>3, <3>4, <4>1
    <3> QED  BY <3>5, <3>6
  <2> HIDE DEF Budget, FramesBound
  <2>5. QED  BY <1>1, <1>2, <2>1, <2>2, <2>3, <2>4 DEF CountInv, Counted
<1>10. QED  BY <1>7, <1>8, <1>9 DEF Rest

LEMMA NextMultiple ==
  ASSUME NEW f \in Nat, NEW c \in Nat, f * FRAME <= c, (c + 1) % FRAME = 0
  PROVE  (f + 1) * FRAME <= c + 1
<1> DEFINE k == (c + 1) \div FRAME
<1>1. FRAME \in Nat /\ FRAME > 0
  BY CaptureAssumption
<1>2. k \in Nat /\ c + 1 = k * FRAME
  <2>1. k \in Nat /\ c + 1 = FRAME * k + ((c + 1) % FRAME)
    BY <1>1
  <2> HIDE DEF k
  <2> QED  BY <1>1, <2>1
<1> HIDE DEF k
<1>3. ASSUME k <= f PROVE FALSE
  BY <1>1, <1>2, <1>3, FrameArithmetic
<1>4. f + 1 \in Nat /\ f + 1 <= k
  BY <1>2, <1>3
<1>5. QED  BY <1>2, <1>4, FrameArithmetic

LEMMA PhaseKeeps ==
  ASSUME Rest, PictureInv, NEW emitted \in BOOLEAN, NEW hit \in BOOLEAN, NEW vsync \in BOOLEAN,
         NEW match \in BOOLEAN, PhaseStep(emitted, hit, vsync, match)
  PROVE  Rest'
<1> DEFINE counted == (cycles + 1) % FRAME = 0
           extra   == IF hit THEN opt.extra_frames ELSE remaining_extra
           leave   == vsync /\ (stop_triggered \/ hit)
           found   == counted /\ match /\ ~ref_matched /\ ~leave
<1>1. /\ loop = "running" /\ adapter = "gateboy" /\ LoopGuard
      /\ Blank(vsync) /\ UNCHANGED <<adapter, opt, pending>>
      /\ cycles' = cycles + 1
  BY DEF PhaseStep, Running
<1>2. Typed /\ CountInv /\ StopInv /\ BudgetNeverTruncates
  BY DEF Rest
<1>3. /\ stop_mark' = IF hit THEN Len(regions)
                      ELSE IF found /\ ~stop_triggered THEN Len(regions') ELSE stop_mark
      /\ frames' = IF counted /\ ~leave THEN frames + 1 ELSE frames
      /\ remaining_extra' = IF counted /\ ~leave /\ extra > 0 THEN extra - 1 ELSE extra
      /\ loop' \in {"running", "left"} /\ ended' \in {ended, "stop"}
      /\ loop' = "running" => ~leave
      /\ loop' = "left" => leave \/ (counted /\ extra = 0)
  <2>1. /\ stop_mark' = IF hit THEN Len(regions)
                        ELSE IF found /\ ~stop_triggered THEN Len(regions') ELSE stop_mark
        /\ frames' = IF counted /\ ~leave THEN frames + 1 ELSE frames
        /\ remaining_extra' = IF counted /\ ~leave /\ extra > 0 THEN extra - 1 ELSE extra
    BY Zenon DEF PhaseStep
  <2>2. IF leave \/ (counted /\ extra = 0) THEN Leave("stop") ELSE UNCHANGED <<loop, ended>>
    BY Zenon DEF PhaseStep
  <2> HIDE DEF leave, counted, extra, found
  <2> QED  BY <1>1, <2>1, <2>2 DEF Leave
<1>4. /\ stop_triggered' \in BOOLEAN /\ ref_matched' \in BOOLEAN
      /\ stop_triggered' = (stop_triggered \/ hit \/ found)
      /\ ref_matched' = (ref_matched \/ found)
      /\ hit => ~stop_triggered
      /\ stop_triggered \in BOOLEAN /\ ref_matched \in BOOLEAN
  <2>1. stop_triggered \in BOOLEAN /\ ref_matched \in BOOLEAN
    BY <1>2 DEF Typed
  <2>2. /\ stop_triggered' = (stop_triggered \/ hit \/ found) /\ ref_matched' = (ref_matched \/ found)
        /\ hit => ~stop_triggered
    BY DEF PhaseStep
  <2> HIDE DEF found
  <2> QED  BY <2>1, <2>2, Zenon
<1>11. /\ leave => vsync /\ (stop_triggered \/ hit)
       /\ vsync => leave \/ (~stop_triggered /\ ~hit)
       /\ found => ~leave
  OBVIOUS
<1> HIDE DEF leave, found
<1>5. /\ Len(regions) \in Nat /\ Len(regions) > 0
      /\ Len(regions') = IF vsync THEN Len(regions) + 1 ELSE Len(regions)
  BY Lengths DEF PhaseStep
<1>6. since' \in 0..FrameCycles - 1 /\ dark' \in BOOLEAN /\ (dark => dark')
  BY <1>1, <1>2, BlankIs
<1>7. Typed' /\ BudgetNeverTruncates'
  BY <1>1, <1>2, <1>3, <1>4, <1>6, TypedStep
<1>8. StopInv'
  <2>1. opt.extra_frames \in Nat
    BY <1>2, OptionsTyped
  <2> HIDE DEF counted
  <2>2. /\ remaining_extra \in -1..opt.extra_frames /\ stop_mark \in 0..Len(regions)
        /\ stop_mark = 0 => remaining_extra = -1
        /\ remaining_extra = -1 => stop_mark = 0 \/ ref_matched
        /\ stop_mark # 0 <=> stop_triggered
        /\ stop_mark # 0 => Len(regions) = stop_mark
    BY <1>1, <1>2 DEF StopInv, PhaseStopInv
  <2>3. /\ remaining_extra' \in -1..opt.extra_frames
        /\ remaining_extra' = -1 => ~hit /\ remaining_extra = -1
        /\ stop_mark' = 0 => ~hit /\ stop_mark = 0
        /\ stop_mark' \in {Len(regions), Len(regions'), stop_mark}
    BY <1>3, <1>5, <2>1, <2>2
  <2>4. stop_mark' \in 0..Len(regions') /\ (stop_mark' # 0 <=> stop_triggered')
    <3>1. stop_mark' \in 0..Len(regions')
      BY <1>5, <2>2, <2>3
    <3>2. CASE hit \/ (found /\ ~stop_triggered)
      <4>1. stop_mark' # 0
        BY <1>3, <1>5, <3>2
      <4>2. stop_triggered'
        BY <1>4, <3>2, Zenon
      <4> QED  BY <3>1, <4>1, <4>2
    <3>3. CASE ~hit /\ ~(found /\ ~stop_triggered)
      <4>1. stop_mark' = stop_mark
        BY <1>3, <3>3
      <4>2. stop_triggered' = stop_triggered
        BY <1>4, <3>3, Zenon
      <4> QED  BY <2>2, <3>1, <4>1, <4>2, Zenon
    <3> QED  BY <3>2, <3>3
  <2>5. remaining_extra' = -1 => stop_mark' = 0 \/ ref_matched'
    BY <1>3, <1>4, <2>2, <2>3
  <2>6. ASSUME loop' = "running", stop_mark' # 0
        PROVE  Len(regions') = stop_mark'
    BY <1>3, <1>4, <1>5, <1>11, <2>2, <2>6
  <2>7. ASSUME loop' = "left"
        PROVE  /\ stop_mark' # 0 /\ Len(regions') - stop_mark' \in {0, 1}
               /\ remaining_extra' = -1 => Len(regions') - stop_mark' = 1
    <3>1. CASE leave
      BY <1>3, <1>4, <1>5, <1>11, <2>2, <2>3, <3>1
    <3>2. CASE ~leave /\ counted /\ extra = 0
      BY <1>3, <1>4, <1>5, <1>11, <2>1, <2>2, <2>3, <3>2
    <3> QED  BY <1>3, <2>7, <3>1, <3>2
  <2>8. PhaseStopInv'
    BY <2>4, <2>6, <2>7 DEF PhaseStopInv, MarksSinceStop
  <2>9. adapter = "gateboy" /\ adapter' = "gateboy" /\ opt' = opt
    BY <1>1
  <2>10. stop_mark' = 0 => remaining_extra' = -1
    BY <1>3, <2>2, <2>3
  <2> HIDE DEF extra
  <2> QED  BY <2>3, <2>4, <2>5, <2>8, <2>9, <2>10 DEF StopInv
<1>9. CountInv'
  <2>1. UNCHANGED <<Budget, FramesBound>>
    BY <1>1 DEF Budget, FramesBound, RunOnBound
  <2>2. /\ opt.max_frames \in Nat /\ opt.max_frames * FRAME \in Nat /\ CycleBound \in Nat
        /\ opt.max_frames <= FramesBound /\ FramesBound \in Nat /\ FRAME \in Nat
        /\ opt.max_frames * FRAME < CycleBound
    <3>1. /\ opt.max_frames \in Nat /\ opt.max_frames * FRAME \in Nat /\ CycleBound \in Nat
          /\ opt.max_frames <= FramesBound /\ FramesBound \in Nat /\ FRAME \in Nat
          /\ MaxCycles = opt.max_frames * FRAME + FRAME /\ MaxCycles < CycleBound
      BY <1>2, OptionsTyped
    <3> HIDE DEF MaxCycles, FramesBound
    <3> QED  BY <3>1
  <2>3. ~Budget /\ cycles < opt.max_frames * FRAME
    BY <1>1, <1>2, LoopGuardGives DEF Typed
  <2>4. frames \in Nat /\ cycles \in Nat /\ frames * FRAME <= cycles
    BY <1>1, <1>2 DEF CountInv
  <2>5. frames' \in Nat /\ frames' * FRAME <= cycles'
    <3>1. CASE counted /\ ~leave
      <4>1. (frames + 1) * FRAME <= cycles + 1
        BY <2>4, <3>1, NextMultiple
      <4> QED  BY <1>1, <1>3, <2>4, <3>1, <4>1
    <3>2. CASE ~(counted /\ ~leave)
      <4>1. frames' = frames
        BY <1>3, <3>2
      <4>2. frames' * FRAME = frames * FRAME /\ frames * FRAME \in Nat
        BY <2>4, <4>1, FrameArithmetic
      <4> QED  BY <1>1, <2>4, <4>1, <4>2
    <3> QED  BY <3>1, <3>2
  <2>6. cycles' \in Nat /\ cycles' <= opt.max_frames * FRAME
    BY <1>1, <2>2, <2>3, <2>4
  <2>7. frames' <= opt.max_frames
    <3>1. frames' * FRAME \in Nat
      BY <2>5, FrameArithmetic
    <3>2. frames' * FRAME <= opt.max_frames * FRAME
      <4> DEFINE a == frames' * FRAME
                 b == opt.max_frames * FRAME
      <4>1. a \in Nat /\ b \in Nat /\ cycles' \in Nat /\ a <= cycles' /\ cycles' <= b
        BY <2>2, <2>5, <2>6, <3>1
      <4> HIDE DEF a, b
      <4>2. a <= b
        BY <4>1
      <4> QED  BY <4>2 DEF a, b
    <3> QED  BY <2>2, <2>5, <3>2, FrameArithmetic
  <2> HIDE DEF Budget, FramesBound
  <2>8. QED  BY <1>1, <2>1, <2>2, <2>3, <2>5, <2>6, <2>7 DEF CountInv
<1>10. QED  BY <1>7, <1>8, <1>9 DEF Rest

-----------------------------------------------------------------------------
(* The invariant.                                                          *)

LEMMA RestInit == Init => Rest
<1> SUFFICES ASSUME Init PROVE Rest
  OBVIOUS
<1>1. /\ adapter \in Adapters /\ opt \in Options
      /\ adapter \in {"gateboy", "mgba"} => ~Budget
      /\ loop = "running" /\ frames = 0 /\ cycles = 0
      /\ remaining_extra = -1 /\ stop_triggered = FALSE /\ ref_matched = FALSE
      /\ since \in 0..FRAME - 1 /\ dark = FALSE
      /\ stop_mark = 0 /\ ended = ""
  BY DEF Init, Budget
<1>2. FRAME \in Nat /\ FRAME > 0 /\ opt.speed \in {1, 2}
  <2>1. opt \in Options
    BY <1>1
  <2> QED  BY <2>1, CaptureAssumption
<1>3. since \in 0..FrameCycles - 1
  <2>1. FrameCycles = FRAME \/ FrameCycles = FRAME + FRAME
    BY <1>2 DEF FrameCycles
  <2>2. since \in 0..FRAME - 1
    BY <1>1
  <2> HIDE DEF FrameCycles
  <2> QED  BY <1>2, <2>1, <2>2
<1>4. Typed
  <2> HIDE DEF FrameCycles, Budget
  <2> QED  BY <1>1, <1>3 DEF Typed
<1>5. CountInv
  <2>1. FramesBound \in Nat /\ CycleBound \in Nat /\ opt.max_frames * FRAME \in Nat
    BY <1>4, OptionsTyped
  <2>2. 0 * FRAME = 0
    BY <1>2
  <2>3. since \in Nat
    BY <1>4, SinceTyped
  <2>4. frames * FRAME = 0
    BY <1>1, <2>2
  <2>5. /\ frames = 0 /\ cycles = 0
    BY <1>1
  <2> HIDE DEF FramesBound, Budget
  <2> QED  BY <2>1, <2>3, <2>4, <2>5 DEF CountInv
<1>6. StopInv
  <2>1. PictureInv /\ opt.extra_frames \in Nat
    BY <1>4, PictureInit, OptionsTyped
  <2>2. Len(regions) \in Nat
    BY <2>1, Lengths
  <2>3. loop = "running" /\ remaining_extra = -1 /\ stop_mark = 0
    BY <1>1
  <2>4. PhaseStopInv
    BY <1>1 DEF PhaseStopInv
  <2> QED  BY <2>1, <2>2, <2>3, <2>4 DEF StopInv
<1>7. BudgetNeverTruncates
  BY <1>1 DEF BudgetNeverTruncates
<1>8. QED  BY <1>4, <1>5, <1>6, <1>7 DEF Rest

LEMMA RestStep ==
  ASSUME Rest, PictureInv, [Next]_vars
  PROVE  Rest'
<1>1. CASE Next
  BY <1>1, LoopEndsKeeps, InstructionKeeps, GambatteChunkKeeps, TcycleKeeps, FrameKeeps,
     DocBoyKeeps, ThrowsKeep, RunOnKeeps, RunOnTcycleKeeps, PhaseKeeps, MissingnoKeeps, CloseKeeps
     DEF Next
<1>2. CASE UNCHANGED vars
  <2>1. /\ UNCHANGED <<adapter, opt, loop, frames, cycles, remaining_extra, stop_triggered,
                        ref_matched, regions, since, dark, stop_mark, ended>>
        /\ UNCHANGED <<Budget, FrameCycles, FramesBound, ExtraMarks>>
    BY <1>2 DEF vars, emulator, Budget, FrameCycles, FramesBound, RunOnBound, ExtraMarks
  <2> HIDE DEF Budget, FrameCycles, FramesBound, ExtraMarks
  <2>2. Typed'
    BY <2>1 DEF Rest, Typed
  <2>3. CountInv'
    BY <2>1 DEF Rest, CountInv
  <2>4. StopInv' /\ BudgetNeverTruncates'
    BY <2>1 DEF Rest, StopInv, PhaseStopInv, MarksSinceStop, BudgetNeverTruncates
  <2> QED  BY <2>2, <2>3, <2>4 DEF Rest
<1>3. QED  BY <1>1, <1>2

LEMMA CaptureTypes ==
  ASSUME Rest, PictureInv
  PROVE  TypeOK
<1>1. Typed /\ CountInv /\ StopInv
  BY DEF Rest
<1>2. /\ frames \in Nat /\ frames <= FramesBound /\ FramesBound \in Nat
      /\ cycles \in 0..CycleBound
  BY <1>1, OptionsTyped DEF CountInv
<1>3. frames \in 0..FramesBound
  BY <1>2
<1>4. since \in 0..2 * FRAME - 1
  BY <1>1, OptionsTyped, SinceTyped
<1>5. /\ pending \in 0..Len(regions) /\ regions # <<>>
      /\ \A r \in 1..Len(regions) :
           /\ regions[r].first \in 0..Len(regions) \cup {None}
           /\ regions[r].later \subseteq 1..Len(regions)
  BY DEF PictureInv, Formed
<1>6. QED
  BY <1>1, <1>2, <1>3, <1>4, <1>5 DEF TypeOK, Typed, StopInv, FramesBound

\* The inductive invariant: types, frames against cycles and the emulator's clock, the
\* countdown against the frames marked, pictures against regions.
THEOREM CaptureInvariant == Spec => [](Rest /\ PictureInv)
<1>1. Init => Rest /\ PictureInv
  BY RestInit, PictureInit
<1>2. (Rest /\ PictureInv) /\ [Next]_vars => (Rest /\ PictureInv)'
  BY RestStep, PictureStep
<1>3. QED  BY <1>1, <1>2, PTL DEF Spec

\* No extra frame asked for is missed and at most one more is run, for any number
\* of them and in every order of blanks, matches and conditions; gateboy completes
\* the frame of a match.
THEOREM CaptureStopTakesExtraFrames == Spec => []StopTakesExtraFrames
<1>1. ASSUME Rest, PictureInv PROVE StopTakesExtraFrames
  <2>1. StopInv /\ TypeOK
    BY <1>1, CaptureTypes DEF Rest
  <2>2. opt.extra_frames \in Nat /\ Len(regions) \in Nat /\ Len(regions) - stop_mark \in Nat
    <3>1. opt.extra_frames \in Nat /\ Len(regions) \in Nat
      BY <1>1, OptionsTyped, Lengths DEF Rest
    <3>2. stop_mark \in 0..Len(regions)
      BY <2>1 DEF StopInv
    <3> QED  BY <3>1, <3>2
  <2>3. stop_mark # 0 => remaining_extra >= 0 \/ (adapter = "gateboy" /\ ref_matched)
    BY <2>1, <2>2 DEF StopInv
  <2>4. ASSUME loop = "left", ended = "stop", adapter = "sameboy_tcycle" => ~dark
        PROVE  /\ stop_mark # 0 /\ MarksSinceStop <= opt.extra_frames + 1
               /\ adapter # "gateboy" => MarksSinceStop >= opt.extra_frames
               /\ remaining_extra = -1 => MarksSinceStop = 1
    <3>1. CASE adapter = "gateboy"
      BY <2>1, <2>2, <2>4, <3>1 DEF StopInv, PhaseStopInv, MarksSinceStop
    <3>2. CASE adapter # "gateboy"
      BY <2>1, <2>2, <2>3, <2>4, <3>2 DEF StopInv, ExtraMarks, MarksSinceStop
    <3> QED  BY <3>1, <3>2
  <2> QED  BY <2>1, <2>3, <2>4 DEF StopTakesExtraFrames
<1>2. QED  BY <1>1, CaptureInvariant, PTL

\* The limit on cycles ends no run at single speed whose LCD stayed on, whatever
\* the length of a frame, the number of frames and where in a frame the run began.
THEOREM CaptureBudgetNeverTruncates == Spec => []BudgetNeverTruncates
<1>1. Rest => BudgetNeverTruncates
  BY DEF Rest
<1>2. QED  BY <1>1, CaptureInvariant, PTL
=============================================================================
