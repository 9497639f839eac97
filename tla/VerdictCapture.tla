--------------------------- MODULE VerdictCapture ---------------------------
(***************************************************************************)
(* The adapters of the test suites. A test program latches a verdict in    *)
(* its RESULT byte; the adapter traces it until then, or until its budget  *)
(* is used up, takes a picture, and closes the trace. Two adapters of      *)
(* missingno link the emulator ("vcs", and "tivdp" for the SG-1000 and the *)
(* ColecoVision, whose loops are the same); MAME and openMSX are child     *)
(* processes, driven through a debugger's socket and a console, that run   *)
(* on while the adapter waits, and log to a file of their own.             *)
(***************************************************************************)
EXTENDS Integers, Sequences

CONSTANTS
  Options,           \* what a run is asked for: [adapter, frames, rate, frame]
  Paces,             \* wall-clock seconds an emulated second may take
  MAX_INSTRUCTIONS,  \* the limit of the "vcs" loop
  FrameSteps,        \* instructions after which a linked emulator has drawn a frame
  MaxRan             \* bound: instructions of a program in a child process

Linked == {"vcs", "tivdp"}
Verdicts == {"pass", "fail"}  \* $A5 and $5A; any other byte is "none"

ASSUME OptionsAssumption ==
  /\ \A o \in Options : /\ o.adapter \in Linked \cup {"mame", "openmsx"}
                        /\ o.frames \in Nat /\ o.rate \in {50, 60} /\ o.frame \in BOOLEAN
  /\ Paces \subseteq Nat \ {0}
  /\ MAX_INSTRUCTIONS \in Nat /\ FrameSteps \in Nat \ {0} /\ MaxRan \in Nat

VARIABLES
  opt, pace,
  pc,        \* where the adapter is; at last "done" or "failed"
  told,      \* the adapter has learnt that there is a verdict
  shown,     \* the RESULT byte it read for the last entry
  cause,     \* why a run without verdict ended: "", "budget", "clock"
  waited,    \* wall-clock seconds the adapter's wait has lasted
  frames_done,
  picture,   \* the last frame it has: "none", "old" or "new", drawn before or after the verdict
  file,      \* the trace: "none", "open" or "closed"
  entries,   \* entries in it
  last,      \* RESULT in the last of them
  \* The emulator
  emu,       \* none, halted in the debugger before its first instruction, running,
             \* stopped at the watchpoint, hung, exited, killed
  ran,       \* instructions of the program
  result,    \* its RESULT byte
  drawn,     \* instructions since the last frame; -1 once the processor is jammed
  seconds,   \* emulated
  log,       \* lines logged
  flushed,   \* of which the file has at least so many
  asked,     \* requests MAME has not answered
  wire,      \* answers not yet read
  hooks      \* what is installed in it: "armed", "tracing", "verdict" or "closed"

program  == <<ran, result, drawn>>
child    == <<emu, seconds, log, flushed, asked, wire, hooks>>
trace    == <<file, entries, last>>
progress == <<pc, told, shown, cause, waited, frames_done, picture>>
vars == <<opt, pace, program, child, trace, progress>>

Is(name) == opt.adapter = name
Max2(a, b) == IF a > b THEN a ELSE b

Init ==
  /\ opt \in Options
  /\ pace \in IF opt.adapter \in Linked THEN {1} ELSE Paces
  /\ pc = IF opt.adapter \in Linked THEN "loop" ELSE "connect"
  /\ told = FALSE /\ shown = "none" /\ cause = "" /\ waited = 0
  /\ frames_done = 0 /\ picture = "none"
  /\ file = IF opt.adapter \in Linked THEN "open" ELSE "none"
  /\ entries = 0 /\ last = "none"
  /\ emu = "none" /\ ran = 0 /\ result = "none" /\ drawn = 0
  /\ seconds = 0 /\ log = 0 /\ flushed = 0 /\ asked = <<>> /\ wire = <<>>
  /\ hooks = "armed"

\* The program runs an instruction; it latches at most one verdict, and then
\* stays where it is.
Runs(w) ==
  /\ w # "none" => result = "none"
  /\ ran' = ran + 1
  /\ result' = IF w = "none" THEN result ELSE w

Record(value) == entries' = entries + 1 /\ last' = value

-----------------------------------------------------------------------------
(* The linked emulators: the adapter steps the processor itself.           *)

\* Where the adapter goes from its loop: the 2600's takes extra frames for a
\* verdict only.
AfterLoop(seen) ==
  IF Is("tivdp") THEN "extra2" ELSE IF seen /\ opt.frame THEN "extra1" ELSE "finish"

\* One entry an instruction: entries counts the instructions.
VcsGuard == frames_done < opt.frames /\ entries < MAX_INSTRUCTIONS

VcsStep(w, frame, jam) ==
  /\ Is("vcs") /\ pc = "loop" /\ VcsGuard /\ drawn >= 0
  /\ Runs(w)
  /\ drawn' = IF jam THEN -1 ELSE IF frame THEN 0 ELSE drawn + 1
  /\ Record(result')
  /\ frames_done' = IF frame THEN frames_done + 1 ELSE frames_done
  /\ picture' = IF frame THEN "old" ELSE picture
  /\ told' = (result' # "none")
  /\ pc' = IF told' THEN AfterLoop(TRUE) ELSE pc
  /\ UNCHANGED <<opt, pace, child, file, shown, cause, waited>>

\* A jammed processor takes no cycles; the entry is written before that is seen.
VcsJammed ==
  /\ Is("vcs") /\ pc = "loop" /\ VcsGuard /\ drawn = -1
  /\ Record(result)
  /\ pc' = AfterLoop(FALSE) /\ cause' = "jam"
  /\ UNCHANGED <<opt, pace, program, child, file, told, shown, waited, frames_done, picture>>

VcsLoopEnds ==
  /\ Is("vcs") /\ pc = "loop" /\ ~VcsGuard
  /\ cause' = IF frames_done >= opt.frames THEN "budget" ELSE "limit"
  /\ pc' = AfterLoop(FALSE)
  /\ UNCHANGED <<opt, pace, program, child, trace, told, shown, waited, frames_done, picture>>

\* The TI VDP draws a frame every so many instructions.
FrameDrawn == drawn + 1 = FrameSteps

\* Mutant: the instruction that latches the verdict has no entry.
TiVdpChecksFirst(w) ==
  /\ Is("tivdp") /\ pc = "loop"
  /\ \/ /\ result # "none"
        /\ told' = TRUE /\ pc' = "extra2"
        /\ UNCHANGED <<program, cause, frames_done, picture, entries, last>>
     \/ /\ result = "none" /\ frames_done >= opt.frames
        /\ cause' = "budget" /\ pc' = "extra2"
        /\ UNCHANGED <<program, told, frames_done, picture, entries, last>>
     \/ /\ result = "none" /\ frames_done < opt.frames
        /\ Record(result) /\ Runs(w)
        /\ drawn' = IF FrameDrawn THEN 0 ELSE drawn + 1
        /\ frames_done' = IF FrameDrawn THEN frames_done + 1 ELSE frames_done
        /\ UNCHANGED <<pc, told, cause, picture>>
  /\ UNCHANGED <<opt, pace, child, file, shown, waited>>

\* One turn of the SG-1000's and the ColecoVision's loop: the entry is the state
\* before the instruction, so that the verdict shows in the one after it.
TiVdpTurn(w) ==
  /\ Is("tivdp") /\ pc = "loop"
  /\ Record(result)
  /\ \/ /\ result # "none"
        /\ told' = TRUE /\ pc' = AfterLoop(TRUE)
        /\ UNCHANGED <<program, cause, frames_done>>
     \/ /\ result = "none" /\ frames_done >= opt.frames
        /\ cause' = "budget" /\ pc' = AfterLoop(FALSE)
        /\ UNCHANGED <<program, told, frames_done>>
     \/ /\ result = "none" /\ frames_done < opt.frames
        /\ Runs(w)
        /\ drawn' = IF FrameDrawn THEN 0 ELSE drawn + 1
        /\ frames_done' = IF FrameDrawn THEN frames_done + 1 ELSE frames_done
        /\ UNCHANGED <<pc, told, cause>>
  /\ UNCHANGED <<opt, pace, child, file, shown, waited, picture>>

\* A frame after the loop, not traced, in which the program draws its verdict.
\* That of the TI VDP always comes within two frames' time; the 2600's only if
\* the program makes one.
ExtraFrame(comes) ==
  /\ pc \in {"extra1", "extra2"}
  /\ Is("tivdp") => comes
  /\ picture' = IF ~comes THEN picture ELSE IF told /\ drawn = 0 THEN "new" ELSE "old"
  /\ drawn' = IF comes THEN 0 ELSE FrameSteps
  /\ pc' = IF pc = "extra1" /\ comes THEN "extra2" ELSE "finish"
  /\ UNCHANGED <<opt, pace, ran, result, child, trace, told, shown, cause, waited, frames_done>>

-----------------------------------------------------------------------------
(* The program in a child process. MAME stops at the watchpoint and says   *)
(* so; in openMSX the watchpoint's script ends the log and the machine     *)
(* goes on.                                                                *)

\* What an instruction does to openMSX's script: the first, at the cartridge's
\* INIT, begins the log; the watchpoint's script fails once the log is closed.
Watched(w) ==
  IF hooks = "closed" THEN "closed"
  ELSE IF w # "none" THEN "verdict"
  ELSE IF hooks = "armed" THEN "tracing" ELSE hooks

Execute(w) ==
  /\ emu = "running" /\ result = "none" /\ ran < MaxRan
  /\ Runs(w)
  /\ log' = IF hooks \in {"armed", "tracing"} THEN log + 1 ELSE log
  /\ IF Is("mame")
     THEN /\ emu' = IF w = "none" THEN emu ELSE "stopped"
          /\ wire' = IF w = "none" THEN wire ELSE Append(wire, "stop")
          /\ UNCHANGED <<hooks, flushed>>
     ELSE /\ hooks' = Watched(w)
          /\ flushed' = IF hooks' = "verdict" THEN log' ELSE flushed
          /\ UNCHANGED <<emu, wire>>
  /\ UNCHANGED <<opt, pace, progress, trace, drawn, seconds, asked>>

\* MAME answers what it is asked in order, at full speed as well as stopped.
Answer ==
  /\ emu \in {"running", "stopped"} /\ asked # <<>>
  /\ asked' = Tail(asked)
  /\ IF Head(asked) = "memory"
     THEN wire' = Append(wire, result) /\ UNCHANGED <<hooks, flushed>>
     ELSE wire' = Append(wire, "ok") /\ hooks' = "closed" /\ flushed' = log
  /\ UNCHANGED <<opt, pace, progress, trace, program, emu, seconds, log>>

Hang ==
  /\ emu \in {"halted", "running"}
  /\ emu' = "hung"
  /\ UNCHANGED <<opt, pace, progress, trace, program, seconds, log, flushed, asked, wire, hooks>>

\* Mutant: a PAL machine's frames taken for a sixtieth of a second.
MameSeconds60 == Max2(2, opt.frames \div 60)

\* -seconds_to_run.
MameSeconds == Max2(2, opt.frames \div opt.rate)

\* How long a read of the debugger's socket waits.
ReadTimeout == Max2(30, 12 * MameSeconds)

\* openMSX's budget in emulated seconds, and the wall-clock limit to reach it.
CapSeconds == Max2(5, opt.frames \div 50 + 3)
Deadline == Max2(120, 5 * CapSeconds)

Awaiting == pc \in {"await_stop", "await_memory", "await_off"}
Polling == pc \in {"poll_verdict", "poll_time", "poll_deadline"}

\* An emulated second passes: not past the moment at which a read gives up, nor
\* far past the time at which the polls do.
Second ==
  /\ emu = "running"
  /\ seconds' = seconds + 1
  /\ \/ /\ Awaiting /\ waited + pace <= ReadTimeout
        /\ emu' = IF seconds' = MameSeconds THEN "exited" ELSE emu
        /\ flushed' = IF seconds' = MameSeconds THEN log ELSE flushed
     \/ /\ Polling /\ seconds <= CapSeconds /\ waited <= Deadline
        /\ UNCHANGED <<emu, flushed>>
  /\ waited' = waited + pace
  /\ UNCHANGED <<opt, pace, trace, program, pc, told, shown, cause, frames_done, picture,
                 log, asked, wire, hooks>>

\* SIGKILL, from kill or from Drop: what is not flushed may be lost.
Killed ==
  /\ emu' = IF emu \in {"none", "exited"} THEN emu ELSE "killed"
  /\ log' \in flushed..log

-----------------------------------------------------------------------------
(* MAME's adapter. Every command is followed by a read, which takes the    *)
(* next answer whatever it belongs to, or the empty string when MAME has   *)
(* gone or, once it runs the program, the time is up.                      *)

Due == emu = "hung" \/ (emu = "running" /\ waited + pace >= ReadTimeout)

\* Mutant: the read waits for ever.
ReadsForEver ==
  IF wire # <<>> THEN {Head(wire)} ELSE IF emu = "exited" THEN {"eof"} ELSE {}

Reads ==
  IF wire # <<>> THEN {Head(wire)}
  ELSE (IF emu = "exited" THEN {"eof"} ELSE {}) \cup (IF Due THEN {"timeout"} ELSE {})

\* One read, and the command sent after it.
ReadThenSend(request) ==
  /\ wire' = IF wire # <<>> THEN Tail(wire) ELSE wire
  /\ asked' = IF request = "" \/ emu = "exited" THEN asked ELSE Append(asked, request)
  /\ waited' = 0

\* Connect; or the debugger never listens, the process is dropped and with it killed.
MameConnect ==
  /\ Is("mame") /\ pc = "connect"
  /\ \/ emu' = "halted" /\ pc' = "qSupported"
     \/ emu' \in {"none", "killed"} /\ pc' = "failed"
  /\ UNCHANGED <<opt, pace, program, trace, told, shown, cause, waited, frames_done, picture,
                 seconds, log, flushed, asked, wire, hooks>>

\* The commands in front of the first timeout, each sent once the one before is
\* answered: where a read waits for an answer, nothing else ends it.
HandshakeNext == [qSupported |-> "qXfer", qXfer |-> "trace", trace |-> "wpset"]
Handshake == {"qSupported", "qXfer", "trace", "wpset"}

MameHandshake ==
  /\ pc \in DOMAIN HandshakeNext /\ emu = "halted"
  /\ pc' = HandshakeNext[pc]
  /\ hooks' = IF pc = "trace" THEN "tracing" ELSE hooks
  /\ UNCHANGED <<opt, pace, program, trace, told, shown, cause, waited, frames_done, picture,
                 emu, seconds, log, flushed, asked, wire>>

\* The watchpoint is set, and from here on reads give up.
MameContinue ==
  /\ pc = "wpset" /\ emu = "halted"
  /\ emu' = "running" /\ pc' = "await_stop"
  /\ UNCHANGED <<opt, pace, program, trace, told, shown, cause, waited, frames_done, picture,
                 seconds, log, flushed, asked, wire, hooks>>

MameReadStop ==
  /\ pc = "await_stop"
  /\ \E answer \in Reads :
       /\ told' = (answer = "stop")
       /\ cause' = CASE answer = "eof" -> "budget"
                     [] answer = "timeout" -> IF emu = "hung" THEN "hung" ELSE "clock"
                     [] OTHER -> cause
  /\ ReadThenSend("memory")
  /\ pc' = "await_memory"
  /\ UNCHANGED <<opt, pace, program, trace, shown, frames_done, picture, emu, seconds,
                 log, flushed, hooks>>

\* Mutant: the process is killed without ending the log first.
MameReadMemoryAndKill ==
  /\ pc = "await_memory"
  /\ \E answer \in Reads : shown' = IF answer \in Verdicts THEN answer ELSE "none"
  /\ ReadThenSend("")
  /\ Killed
  /\ pc' = "picture"
  /\ UNCHANGED <<opt, pace, program, trace, told, cause, frames_done, picture, seconds,
                 flushed, hooks>>

\* parse_mem: what is not the hexadecimal of a byte is zero.
MameReadMemory ==
  /\ pc = "await_memory"
  /\ \E answer \in Reads : shown' = IF answer \in Verdicts THEN answer ELSE "none"
  /\ ReadThenSend("off")
  /\ pc' = "await_off"
  /\ UNCHANGED <<opt, pace, program, trace, told, cause, frames_done, picture, emu, seconds,
                 log, flushed, hooks>>

MameReadOff ==
  /\ pc = "await_off"
  /\ Reads # {}
  /\ ReadThenSend("")
  /\ Killed
  /\ pc' = "picture"
  /\ UNCHANGED <<opt, pace, program, trace, told, shown, cause, frames_done, picture,
                 seconds, flushed, hooks>>

\* The second pass, a process of its own without debugger: it shows a late frame
\* if its seconds last until then, and may fail for reasons of its own.
TargetFrame == Max2(opt.frames, 8)
TargetReached == (TargetFrame \div opt.rate + 2) * opt.rate >= TargetFrame

MamePicture ==
  /\ Is("mame") /\ pc = "picture"
  /\ picture' \in {"none"} \cup (IF opt.frame /\ TargetReached THEN {"old", "new"} ELSE {})
  /\ pc' = "write"
  /\ UNCHANGED <<opt, pace, program, child, trace, told, shown, cause, waited, frames_done>>

-----------------------------------------------------------------------------
(* openMSX's adapter: commands on the console, each with its reply; a      *)
(* command the emulator no longer answers fails the run.                   *)

\* Launch, set the breakpoint and the watchpoint, power on.
OpenMsxStart ==
  /\ Is("openmsx") /\ pc = "connect"
  /\ \/ emu' = "running" /\ pc' = "poll_verdict"
     \/ emu' \in {"none", "killed"} /\ pc' = "failed"
  /\ UNCHANGED <<opt, pace, program, trace, told, shown, cause, waited, frames_done, picture,
                 seconds, log, flushed, asked, wire, hooks>>

PollVerdict ==
  /\ pc = "poll_verdict" /\ emu = "running"
  /\ told' = (hooks = "verdict")
  /\ pc' = IF hooks = "verdict" THEN "read_block" ELSE "poll_time"
  /\ UNCHANGED <<opt, pace, program, child, trace, shown, cause, waited, frames_done, picture>>

PollTime ==
  /\ pc = "poll_time" /\ emu = "running"
  /\ IF seconds > CapSeconds THEN cause' = "budget" /\ pc' = "teardown"
     ELSE pc' = "poll_deadline" /\ UNCHANGED cause
  /\ UNCHANGED <<opt, pace, program, child, trace, told, shown, waited, frames_done, picture>>

PollDeadline ==
  /\ pc = "poll_deadline"
  /\ IF waited > Deadline THEN cause' = "clock" /\ pc' = "teardown"
     ELSE pc' = "poll_verdict" /\ UNCHANGED cause
  /\ UNCHANGED <<opt, pace, program, child, trace, told, shown, waited, frames_done, picture>>

\* Without a verdict the log is closed by command; should the watchpoint have
\* closed it in the meantime, nothing is left to do.
TearDown ==
  /\ pc = "teardown" /\ emu = "running"
  /\ hooks' = IF hooks = "verdict" THEN hooks ELSE "closed"
  /\ flushed' = log
  /\ pc' = "read_block"
  /\ UNCHANGED <<opt, pace, program, trace, emu, seconds, log, asked, wire, told, shown, cause,
                 waited, frames_done, picture>>

\* The RESULT byte is read now, whenever the log ended.
ReadBlock ==
  /\ pc = "read_block" /\ emu = "running"
  /\ shown' = result
  /\ pc' = "picture"
  /\ UNCHANGED <<opt, pace, program, child, trace, told, cause, waited, frames_done, picture>>

ConsoleFails ==
  /\ emu = "hung" /\ (Polling \/ pc \in {"teardown", "read_block"})
  /\ pc # "poll_deadline"
  /\ Killed
  /\ pc' = "failed"
  /\ UNCHANGED <<opt, pace, program, trace, seconds, flushed, asked, wire, hooks, told, shown,
                 cause, waited, frames_done, picture>>

\* A screenshot, for which the adapter waits a moment, and without which it goes
\* on; then the process is dropped.
OpenMsxPicture ==
  /\ Is("openmsx") /\ pc = "picture"
  /\ picture' \in {"none"} \cup (IF opt.frame /\ emu = "running" THEN {"old", "new"} ELSE {})
  /\ Killed
  /\ pc' = "write"
  /\ UNCHANGED <<opt, pace, program, trace, seconds, flushed, asked, wire, hooks, told, shown,
                 cause, waited, frames_done>>

-----------------------------------------------------------------------------
(* The trace: from the child's log at once, with the RESULT bytes on its   *)
(* last entry; then the picture, and the end.                              *)

WriteTrace ==
  /\ pc = "write"
  /\ IF log = 0 THEN pc' = "failed" /\ UNCHANGED trace
     ELSE /\ file' = "open" /\ entries' = log /\ last' = shown
          /\ pc' = "finish"
  /\ UNCHANGED <<opt, pace, program, child, told, shown, cause, waited, frames_done, picture>>

\* The picture, if there is one, is marked behind the entries; the footer.
Finish ==
  /\ pc = "finish"
  /\ file' = "closed" /\ pc' = "done"
  /\ UNCHANGED <<opt, pace, program, child, entries, last, told, shown, cause, waited,
                 frames_done, picture>>

\* An entry, the mark or the footer cannot be written, or the trace not created.
WriteFails ==
  /\ pc \in {"write", "finish"} \/ (pc = "loop" /\ entries > 0)
  /\ file' \in {file, "open"}
  /\ pc' = "failed"
  /\ UNCHANGED <<opt, pace, program, child, entries, last, told, shown, cause, waited,
                 frames_done, picture>>

-----------------------------------------------------------------------------
Choices == {"none"} \cup Verdicts

LinkedNext ==
  \/ \E w \in Choices, frame, jam \in BOOLEAN : VcsStep(w, frame, jam)
  \/ VcsJammed
  \/ VcsLoopEnds
  \/ \E w \in Choices : TiVdpTurn(w)
  \/ \E comes \in BOOLEAN : ExtraFrame(comes)

ChildNext ==
  \/ MameConnect \/ MameHandshake \/ MameContinue
  \/ MameReadStop \/ MameReadMemory \/ MameReadOff \/ MamePicture
  \/ OpenMsxStart \/ PollVerdict \/ PollTime \/ PollDeadline \/ TearDown \/ ReadBlock
  \/ ConsoleFails \/ OpenMsxPicture
  \/ WriteTrace

Adapter == LinkedNext \/ ChildNext \/ Finish

Emulator == (\E w \in Choices : Execute(w)) \/ Second \/ Answer \/ Hang

Next == Adapter \/ WriteFails \/ Emulator

\* The adapter is a process that is scheduled; a MAME that has not hung answers
\* (the handshake's steps are the adapter's with the answer they wait for),
\* and emulated time passes in an emulator that runs.
Spec == Init /\ [][Next]_vars /\ WF_vars(Adapter) /\ WF_vars(Second) /\ WF_vars(Answer)

-----------------------------------------------------------------------------
\* A verdict in a closed trace is the program's, and one the adapter was told of
\* is there: neither a late answer taken for another command's nor one that never
\* came makes a verdict of nothing (mame 464-467), and no order of polls and
\* watchpoint loses one the poll saw.
VerdictIsThePrograms ==
  file = "closed" =>
    /\ last \in {"none", result}
    /\ told => last = result /\ result # "none"

\* Entries of a whole trace. The TI VDP's begin with the state before the first
\* instruction.
Whole == IF Is("tivdp") THEN ran + 1 ELSE ran

Late == Is("openmsx") /\ hooks = "closed"

\* A closed trace that shows a verdict has every instruction up to the one that
\* latched it and none behind, whatever the child had not flushed when it was
\* killed: "The RESULT bytes are placed on the final (verdict) entry" (mame
\* 778). In openMSX, unless the verdict is latched after the log is torn down.
VerdictTraceWhole ==
  (file = "closed" /\ last # "none" /\ ~Late) => entries = Whole

\* Frames the run has been through, and how many of the last second a budget in
\* whole seconds may be short of.
FramesRun ==
  CASE Is("mame") -> seconds * opt.rate [] Is("openmsx") -> seconds * 50 [] OTHER -> frames_done
Rounding == IF Is("mame") THEN opt.rate - 1 ELSE 0

\* "The wall-clock read timeout must cover the whole emulated budget" (mame
\* 456, openmsx 340): an emulator that has not hung and is no slower than the
\* factor allowed for is never given up for the clock; and a budget that is used
\* up covers the frames asked for, on a PAL machine too.
SlowestAllowed == IF Is("mame") THEN 12 ELSE 5

BudgetSuffices ==
  /\ cause = "clock" => pace >= SlowestAllowed
  /\ cause = "budget" => FramesRun + Rounding >= opt.frames

\* Every run ends, with a trace or an error, whatever the program does and
\* wherever the child hangs, and no child is left behind; but for a MAME that
\* hangs while it is told of the trace and the watchpoint, before the reads of
\* its socket have a timeout.
Ended == pc \in {"done", "failed"} /\ emu \in {"none", "exited", "killed"}

CaptureEnds == (<>Ended) \/ (<>[](pc \in Handshake /\ emu = "hung"))

=============================================================================
