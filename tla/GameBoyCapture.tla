--------------------------- MODULE GameBoyCapture ---------------------------
(***************************************************************************)
(* The capture loops of the Game Boy adapters. Each drives an emulator     *)
(* step by step, writes entries, marks frames at vertical blank, and stops *)
(* at a frame limit, a cycle budget, a match with a reference picture, or  *)
(* some frames after a stop condition. The emulator is external: in a step *)
(* it may reach vertical blank, hit a condition or show the reference.     *)
(* A picture is captured at a mark and goes into the next entry. Pictures  *)
(* are numbered by the region, from mark to mark, they are captured for.   *)
(***************************************************************************)
EXTENDS Integers, Sequences

CONSTANTS
  Adapters,
  Options,     \* [max_frames, extra_frames, until, speed] as on the command line
  FRAME,       \* cycles from vertical blank to vertical blank, 70224 in the code
  CycleBound,  \* cycles are counted up to here
  None

VBlankLoops == {"sameboy", "sameboy_tcycle", "gambatte", "mgba", "docboy"}

ASSUME CaptureAssumption ==
  /\ Adapters \subseteq VBlankLoops \cup {"gateboy", "missingno"}
  /\ FRAME \in Nat \ {0} /\ CycleBound \in Nat /\ None \notin Nat
  /\ \A o \in Options : /\ o.max_frames \in Nat /\ o.extra_frames \in Nat
                        /\ o.until \in Nat \cup {None} /\ o.speed \in {1, 2}

\* No budget is beyond what is counted.
ASSUME CycleBoundAssumption ==
  \A o \in Options : /\ (o.max_frames + 1) * FRAME < CycleBound
                     /\ o.until # None => o.until < CycleBound

VARIABLES
  adapter, opt,
  loop,       \* running, matched (running on after a match), left, closed, crashed
  frames, cycles,
  remaining_extra,  \* -1 until a stop condition is met
  stop_triggered, ref_matched,
  pending,    \* the picture to go into the next entry, 0 if none
  regions,    \* the trace from mark to mark: the picture of its first entry and
              \* those of later ones
  since,      \* of the emulator: cycles since vertical blank
  dark,       \* of the emulator: the LCD has been off
  stop_mark,  \* history: marks when the stop condition was noticed, 0 before
  ended       \* history: why the loop was left

emulator == <<since, dark>>
vars == <<adapter, opt, loop, frames, cycles, remaining_extra, stop_triggered,
          ref_matched, pending, regions, emulator, stop_mark, ended>>

Budget == opt.until # None

NoEntries == [first |-> None, later |-> {}]

Added(trace, pix) ==
  [trace EXCEPT ![Len(trace)] = IF @.first = None THEN [first |-> pix, later |-> {}]
                                ELSE [first |-> @.first, later |-> @.later \cup ({pix} \ {0})]]
Marked(trace) == Append(trace, NoEntries)

\* Entry 0 is marked; mGBA also writes the state after reset.
Init ==
  /\ adapter \in Adapters
  /\ opt \in {o \in Options : /\ adapter \in {"gateboy", "mgba"} => o.until = None
                              /\ o.speed = 2 => adapter = "missingno"}
  /\ loop = "running" /\ frames = 0 /\ cycles = 0
  /\ remaining_extra = -1 /\ stop_triggered = FALSE /\ ref_matched = FALSE
  /\ pending = 0
  /\ regions = IF adapter = "mgba" THEN Added(<<NoEntries>>, 0) ELSE <<NoEntries>>
  /\ since \in 0..FRAME - 1 /\ dark = FALSE
  /\ stop_mark = 0 /\ ended = ""

-----------------------------------------------------------------------------
(* The emulator. While the LCD stays on, vertical blank comes every frame; *)
(* once it has been off, at any time or never. In double speed the         *)
(* processor's cycles, which missingno counts, are two to the frame's one. *)

FrameCycles == FRAME * opt.speed

Blank(v) ==
  /\ dark' \in {dark, TRUE}
  /\ ~dark' => (v <=> since + 1 = FrameCycles)
  /\ since' = IF v \/ since + 1 = FrameCycles THEN 0 ELSE since + 1

Counted == IF cycles < CycleBound THEN cycles + 1 ELSE cycles

\* Mutant: a budget of M-cycles where the loop counts T-cycles.
MaxCyclesQuarter == ((opt.max_frames + 1) * FRAME) \div 4

\* Mutant: no budget.
MaxCyclesNone == CycleBound + 1

\* "One frame of slack".
MaxCycles == (opt.max_frames + 1) * FRAME

\* While the loop goes on; gambatte counts frames of samples against its budget.
LoopGuard ==
  CASE adapter = "gateboy"   -> cycles < opt.max_frames * FRAME
    [] adapter = "gambatte" /\ Budget -> cycles <= opt.until \div FRAME
    [] adapter = "missingno" -> /\ Budget => frames < opt.until \div FRAME
                                /\ frames < opt.max_frames
                                /\ cycles < MaxCycles
                                /\ remaining_extra # 0
    [] adapter = "docboy" /\ ~Budget -> frames < opt.max_frames /\ cycles < MaxCycles
    [] OTHER -> IF Budget THEN cycles < opt.until ELSE frames < opt.max_frames

\* Why a loop whose guard fails ends.
Reason ==
  IF Budget /\ adapter # "missingno" THEN "until"
  ELSE IF adapter = "gateboy" THEN "cycles"
  ELSE IF Budget /\ frames >= opt.until \div FRAME THEN "until"
  ELSE IF frames >= opt.max_frames THEN "frames"
  ELSE IF cycles >= MaxCycles THEN "cycles" ELSE "stop"

Running(names) == loop = "running" /\ adapter \in names

Leave(why) == loop' = "left" /\ ended' = why

LoopEnds ==
  /\ loop = "running" /\ ~LoopGuard
  /\ Leave(Reason)
  /\ UNCHANGED <<adapter, opt, frames, cycles, remaining_extra, stop_triggered,
                 ref_matched, pending, regions, emulator, stop_mark>>

StayInLoop == UNCHANGED <<loop, remaining_extra, stop_mark, ended>>

Latch(hit) == stop_triggered' = (stop_triggered \/ hit)

\* Mutant: a condition still met begins the countdown again.
AfterVBlankRestart(match, cond) ==
  IF match THEN loop' = "matched" /\ UNCHANGED <<remaining_extra, stop_mark, ended>>
  ELSE IF cond \/ (stop_triggered' /\ remaining_extra < 0)
  THEN /\ remaining_extra' = opt.extra_frames
       /\ stop_mark' = IF stop_mark = 0 THEN Len(regions') ELSE stop_mark
       /\ IF opt.extra_frames = 0 THEN Leave("stop") ELSE UNCHANGED <<loop, ended>>
  ELSE IF remaining_extra >= 0
  THEN /\ UNCHANGED stop_mark
       /\ IF remaining_extra = 0 THEN Leave("stop") /\ UNCHANGED remaining_extra
          ELSE remaining_extra' = remaining_extra - 1 /\ UNCHANGED <<loop, ended>>
  ELSE StayInLoop

\* What is decided after a frame is marked: to run on after a match, to count
\* the extra frames down, or to begin to, on a memory condition or on an opcode
\* or serial byte seen since.
AfterVBlank(match, cond) ==
  IF match THEN loop' = "matched" /\ UNCHANGED <<remaining_extra, stop_mark, ended>>
  ELSE IF remaining_extra >= 0
  THEN /\ UNCHANGED stop_mark
       /\ IF remaining_extra = 0 THEN Leave("stop") /\ UNCHANGED remaining_extra
          ELSE remaining_extra' = remaining_extra - 1 /\ UNCHANGED <<loop, ended>>
  ELSE IF cond \/ stop_triggered'
  THEN /\ remaining_extra' = opt.extra_frames
       /\ stop_mark' = Len(regions')
       /\ IF opt.extra_frames = 0 THEN Leave("stop") ELSE UNCHANGED <<loop, ended>>
  ELSE StayInLoop

\* Mutant: an entry leaves its picture for the next one.
EmitKept(emitted) == pending

\* An entry takes the pending picture.
Emit(emitted) == IF emitted THEN 0 ELSE pending
Emitted(emitted) == IF emitted THEN Added(regions, pending) ELSE regions

\* Capture the picture, then mark: it is that of the region now beginning.
MarkFrame(trace) == regions' = Marked(trace) /\ pending' = Len(trace) + 1

-----------------------------------------------------------------------------
(* SameBoy and Gambatte, an entry an instruction: GB_run executes a step,  *)
(* runFor up to a frame. No entry is written while the processor halts.    *)

InstructionStep(emitted, hit, v, match, cond) ==
  /\ Running({"sameboy", "gambatte"}) /\ LoopGuard
  /\ adapter = "gambatte" => ~Budget
  /\ hit => emitted
  /\ Blank(v)
  /\ cycles' = IF Budget THEN Counted ELSE cycles
  /\ Latch(hit)
  /\ IF v
     THEN /\ frames' = frames + 1
          /\ MarkFrame(Emitted(emitted))
          /\ AfterVBlank(match, cond)
     ELSE /\ regions' = Emitted(emitted) /\ pending' = Emit(emitted)
          /\ StayInLoop /\ UNCHANGED frames
  /\ UNCHANGED <<adapter, opt, ref_matched>>

\* In Gambatte's budget mode chunks of samples are run and nothing is marked.
GambatteChunk(emitted) ==
  /\ Running({"gambatte"}) /\ Budget /\ LoopGuard
  /\ regions' = Emitted(emitted) /\ pending' = Emit(emitted)
  /\ cycles' = Counted
  /\ StayInLoop
  /\ UNCHANGED <<adapter, opt, frames, stop_triggered, ref_matched, emulator>>

(* SameBoy, an entry a cycle: the callback marks the frame at the edge of  *)
(* the STAT mode and writes the cycle's entry; the loop decides when it is *)
(* told of vertical blank, which with the LCD off comes without an edge.   *)

TcycleStep(edge, hit, v, match, cond) ==
  /\ Running({"sameboy_tcycle"}) /\ LoopGuard
  /\ Blank(edge)
  /\ ~dark' => (v <=> edge)
  /\ cycles' = IF Budget THEN Counted ELSE cycles
  /\ Latch(hit)
  /\ frames' = IF edge THEN frames + 1 ELSE frames
  /\ regions' = IF edge THEN Added(Marked(regions), Len(regions) + 1)
                ELSE Added(regions, pending)
  /\ pending' = 0
  /\ IF v THEN AfterVBlank(match, cond) ELSE StayInLoop
  /\ UNCHANGED <<adapter, opt, ref_matched>>

(* mGBA: a frame at a time, whatever the LCD does.                         *)

FrameStep(emitted, hit, match, cond) ==
  /\ Running({"mgba"}) /\ LoopGuard
  /\ hit => emitted
  /\ Latch(hit)
  /\ frames' = frames + 1
  /\ MarkFrame(Emitted(emitted))
  /\ AfterVBlank(match, cond)
  /\ UNCHANGED <<adapter, opt, cycles, ref_matched, emulator>>

(* DocBoy: an entry a cycle. The opcode is looked at every cycle, the rest *)
(* at vertical blank; an undefined opcode throws.                          *)

DocBoyCycle(hit, v, match, cond) ==
  /\ Running({"docboy"}) /\ LoopGuard
  /\ Blank(v)
  /\ cycles' = Counted
  /\ Latch(hit)
  /\ IF v
     THEN /\ frames' = frames + 1
          /\ MarkFrame(Emitted(TRUE))
          /\ AfterVBlank(match, cond)
     ELSE /\ regions' = Emitted(TRUE) /\ pending' = Emit(TRUE)
          /\ StayInLoop /\ UNCHANGED frames
  /\ UNCHANGED <<adapter, opt, ref_matched>>

DocBoyThrows ==
  /\ Running({"docboy"}) /\ LoopGuard
  /\ stop_triggered' \in {stop_triggered, TRUE}
  /\ Leave("exception")
  /\ UNCHANGED <<adapter, opt, frames, cycles, remaining_extra, ref_matched, pending,
                 regions, emulator, stop_mark>>

(* After a match one more frame is run, so that its picture is written.    *)

RunOn(emitted, v) ==
  /\ loop = "matched" /\ adapter # "sameboy_tcycle"
  /\ adapter = "docboy" => emitted
  /\ adapter \in {"gambatte", "mgba"} => v
  /\ IF adapter = "mgba" THEN UNCHANGED emulator ELSE Blank(v)
  /\ regions' = Emitted(emitted) /\ pending' = Emit(emitted)
  /\ IF v THEN Leave("match") ELSE UNCHANGED <<loop, ended>>
  /\ UNCHANGED <<adapter, opt, frames, cycles, remaining_extra, stop_triggered,
                 ref_matched, stop_mark>>

\* Frames marked while running on are bounded so.
RunOnBound == opt.max_frames + 1

RunOnTcycle(edge, v) ==  \* the callback still marks
  /\ loop = "matched" /\ adapter = "sameboy_tcycle"
  /\ Blank(edge)
  /\ ~dark' => (v <=> edge)
  /\ edge => frames < RunOnBound
  /\ frames' = IF edge THEN frames + 1 ELSE frames
  /\ regions' = IF edge THEN Added(Marked(regions), Len(regions) + 1)
                ELSE Added(regions, pending)
  /\ pending' = 0
  /\ IF v THEN Leave("match") ELSE UNCHANGED <<loop, ended>>
  /\ UNCHANGED <<adapter, opt, cycles, remaining_extra, stop_triggered, ref_matched, stop_mark>>

RunOnThrows ==  \* outside the try: the trace is never closed
  /\ loop = "matched" /\ adapter = "docboy"
  /\ loop' = "crashed" /\ ended' = "exception"
  /\ UNCHANGED <<adapter, opt, frames, cycles, remaining_extra, stop_triggered,
                 ref_matched, pending, regions, emulator, stop_mark>>

-----------------------------------------------------------------------------
(* GateBoy: a phase at a time, its pictures pixel by pixel in the entries. *)
(* Stop conditions are looked at between instructions, frames marked at    *)
(* the LCD's vertical sync, and frames counted and the reference compared  *)
(* whenever a frame's number of phases has passed.                         *)

PhaseStep(emitted, hit, vsync, match) ==
  /\ Running({"gateboy"}) /\ LoopGuard
  /\ hit => ~stop_triggered
  /\ Blank(vsync)
  /\ cycles' = cycles + 1
  /\ LET trace   == Emitted(emitted)
         counted == (cycles + 1) % FRAME = 0
         extra   == IF hit THEN opt.extra_frames ELSE remaining_extra
         leave   == vsync /\ (stop_triggered \/ hit)
         found   == counted /\ match /\ ~ref_matched /\ ~leave
     IN  /\ regions' = IF vsync THEN Marked(trace) ELSE trace
         /\ stop_mark' = IF hit THEN Len(regions)
                         ELSE IF found /\ ~stop_triggered THEN Len(regions') ELSE stop_mark
         /\ frames' = IF counted /\ ~leave THEN frames + 1 ELSE frames
         /\ ref_matched' = (ref_matched \/ found)
         /\ stop_triggered' = (stop_triggered \/ hit \/ found)
         /\ remaining_extra' = IF counted /\ ~leave /\ extra > 0 THEN extra - 1 ELSE extra
         /\ IF leave \/ (counted /\ extra = 0) THEN Leave("stop")
            ELSE UNCHANGED <<loop, ended>>
  /\ UNCHANGED <<adapter, opt, pending>>

-----------------------------------------------------------------------------
(* missingno: the entry is written before the step; conditions are looked  *)
(* at after every step, the reference at every new screen.                 *)

Decremented(n) == IF n > 0 THEN n - 1 ELSE n  \* saturating_sub, if triggered

MissingnoStep(hit, v, match) ==
  /\ Running({"missingno"}) /\ LoopGuard
  /\ hit => ~stop_triggered
  /\ Blank(v)
  /\ cycles' = Counted
  /\ LET trace == Added(regions, 0)
         met   == ~stop_triggered /\ (hit \/ (v /\ match))
         extra == IF met THEN opt.extra_frames ELSE remaining_extra
     IN  /\ regions' = IF v THEN Marked(trace) ELSE trace
         /\ stop_triggered' = (stop_triggered \/ met)
         /\ stop_mark' = IF met THEN Len(regions) ELSE stop_mark
         /\ remaining_extra' = IF v THEN Decremented(extra) ELSE extra
  /\ frames' = IF v THEN frames + 1 ELSE frames
  /\ UNCHANGED <<adapter, opt, loop, ref_matched, pending, ended>>

-----------------------------------------------------------------------------
(* The end: with a budget, the screen as it is now becomes the last frame. *)

Close ==
  /\ loop = "left"
  /\ loop' = "closed"
  /\ regions' = IF Budget THEN Added(Marked(regions), Len(regions) + 1) ELSE regions
  /\ pending' = IF Budget THEN 0 ELSE pending
  /\ frames' = IF Budget /\ adapter = "gambatte" THEN frames + 1 ELSE frames
  /\ UNCHANGED <<adapter, opt, cycles, remaining_extra, stop_triggered, ref_matched,
                 emulator, stop_mark, ended>>

Next ==
  \/ LoopEnds
  \/ \E emitted, hit, v, match, cond \in BOOLEAN : InstructionStep(emitted, hit, v, match, cond)
  \/ \E emitted \in BOOLEAN : GambatteChunk(emitted)
  \/ \E edge, hit, v, match, cond \in BOOLEAN : TcycleStep(edge, hit, v, match, cond)
  \/ \E emitted, hit, match, cond \in BOOLEAN : FrameStep(emitted, hit, match, cond)
  \/ \E hit, v, match, cond \in BOOLEAN : DocBoyCycle(hit, v, match, cond)
  \/ DocBoyThrows
  \/ \E emitted, v \in BOOLEAN : RunOn(emitted, v)
  \/ \E edge, v \in BOOLEAN : RunOnTcycle(edge, v)
  \/ RunOnThrows
  \/ \E emitted, hit, vsync, match \in BOOLEAN : PhaseStep(emitted, hit, vsync, match)
  \/ \E hit, v, match \in BOOLEAN : MissingnoStep(hit, v, match)
  \/ Close

\* The loops wait for nothing: a process that is scheduled goes on.
Spec == Init /\ [][Next]_vars /\ WF_vars(Next)

-----------------------------------------------------------------------------
Captures == adapter \in VBlankLoops

TypeOK ==
  /\ adapter \in Adapters /\ opt \in Options
  /\ loop \in {"running", "matched", "left", "closed", "crashed"}
  /\ frames \in 0..(IF Budget THEN CycleBound
                    ELSE IF adapter = "sameboy_tcycle" THEN RunOnBound ELSE opt.max_frames)
  /\ cycles \in 0..CycleBound
  /\ remaining_extra \in -1..opt.extra_frames
  /\ stop_triggered \in BOOLEAN /\ ref_matched \in BOOLEAN
  /\ pending \in 0..Len(regions)
  /\ regions # <<>>
  /\ \A r \in 1..Len(regions) :
       /\ regions[r].first \in 0..Len(regions) \cup {None}
       /\ regions[r].later \subseteq 1..Len(regions)
  /\ since \in 0..2 * FRAME - 1 /\ dark \in BOOLEAN
  /\ stop_mark \in 0..Len(regions)
  /\ ended \in {"", "until", "cycles", "frames", "stop", "match", "exception"}

\* A frame's picture is in its first entry, and in no other: from mark to mark
\* the entries of an adapter that captures whole pictures show the picture taken
\* when the frame was marked, on the first of them. With a budget the last frame
\* is the screen when it ran out.
PicturesInTheirFrames ==
  /\ Captures =>
       \A r \in 1..Len(regions) :
         /\ regions[r].first \in {None, IF r = 1 THEN 0 ELSE r}
         /\ regions[r].later = {}
  /\ (loop = "closed" /\ Budget) => regions[Len(regions)].first = Len(regions)

\* The marks made since a stop condition was noticed, when the loop is left for it.
MarksSinceStop == Len(regions) - stop_mark

\* None of the extra frames asked for is missed, and at most one more is run,
\* however blanks, conditions, the countdown and the limit on frames meet; no
\* loop is left for a condition that was not noticed, and a countdown once
\* begun is not forgotten. gateboy, which stops at its next vertical sync or when
\* its countdown runs out, whichever is first, may run fewer, but after a match
\* it always completes the frame. In T-cycle mode blanks without an edge end
\* a frame too and mark none.
StopTakesExtraFrames ==
  /\ TypeOK
  /\ stop_mark # 0 => remaining_extra >= 0 \/ (adapter = "gateboy" /\ ref_matched)
  /\ (loop = "left" /\ ended = "stop" /\ (adapter = "sameboy_tcycle" => ~dark)) =>
       /\ stop_mark # 0
       /\ MarksSinceStop <= opt.extra_frames + 1
       /\ adapter # "gateboy" => MarksSinceStop >= opt.extra_frames
       /\ remaining_extra = -1 => MarksSinceStop = 1

\* "Stop condition met at frame %d, running %d extra frame%s": as many frames as
\* that are run. Violated: the loops count down to zero and then once more.
StopRunsExtraFrames ==
  (loop = "left" /\ ended = "stop") => MarksSinceStop = opt.extra_frames

\* "One frame of slack keeps it from ever truncating a legitimate
\* --frames-bounded run": in single speed, a run ends for its cycles only if the
\* LCD has been off.
BudgetNeverTruncates ==
  (adapter \in {"docboy", "missingno"} /\ opt.speed = 1 /\ ended = "cycles") => dark

\* "bounds the run even when the LCD never turns on and `frames` can't advance":
\* whatever the LCD does, the loops that count cycles or phases end.
CountsCycles == adapter \in {"docboy", "missingno", "gateboy"} \/ Budget

RunIsBounded == (CountsCycles /\ loop = "running") ~> loop # "running"

=============================================================================
