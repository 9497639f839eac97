------------------------ MODULE VerdictCaptureProofs ------------------------
(***************************************************************************)
(* Proofs about VerdictCapture: for every budget, pace and program, the    *)
(* verdict a closed trace shows is the program's, and the trace reaches    *)
(* it. The linked adapters step the program themselves; MAME's argument is *)
(* that answers and commands stay in step once the stop was read, and that *)
(* a stop unread comes before any verdict; openMSX's that the log and its  *)
(* flush are in step with the program until the log is closed.             *)
(***************************************************************************)
EXTENDS VerdictCapture, SequenceTheorems, TLAPS

Gone == {"none", "exited", "killed"}

\* MAME's adapter before the program runs.
Starting == {"connect", "qSupported", "qXfer", "trace", "wpset"}

\* Where an adapter is.
AtPlace ==
  \/ /\ opt.adapter \in Linked /\ emu = "none"
     /\ pc \in {"loop", "extra1", "extra2", "finish", "done", "failed"}
  \/ /\ opt.adapter = "mame"
     /\ pc \in Starting \cup {"await_stop", "await_memory", "await_off", "picture", "write",
                             "finish", "done", "failed"}
  \/ /\ opt.adapter = "openmsx"
     /\ pc \in {"connect", "poll_verdict", "poll_time", "poll_deadline", "teardown",
                "read_block", "picture", "write", "finish", "done", "failed"}

Values ==
  /\ shown \in Choices /\ last \in Choices /\ result \in Choices
  /\ ran \in Nat /\ log \in Nat /\ flushed \in Nat /\ entries \in Nat
  /\ wire \in Seq({"stop", "ok"} \cup Choices) /\ asked \in Seq({"memory", "off"})

Typed ==
  /\ AtPlace /\ Values
  /\ file = "closed" => pc = "done"

\* The 2600's entry shows the state behind its instruction.
VcsInvariant ==
  Is("vcs") =>
    /\ last = result
    /\ pc = "loop" => entries = ran /\ result = "none"
    /\ result # "none" => entries = ran
    /\ told => result # "none"

\* The TI VDP's the state in front of it.
TiVdpInvariant ==
  Is("tivdp") =>
    /\ pc = "loop" => entries = ran /\ last = "none" /\ ~told
    /\ last # "none" => last = result /\ entries = ran + 1
    /\ told => last # "none"

\* The next answer is that to the last command, and the last has none waiting.
InStep(request, answer) ==
  \/ asked = <<request>> /\ wire = <<>>
  \/ asked = <<>> /\ wire = <<answer>>

MameInvariant ==
  Is("mame") =>
    /\ result # "none" => emu \in {"stopped", "killed"}
    /\ pc \in Starting =>
         result = "none" /\ ran = 0 /\ log = 0 /\ wire = <<>> /\ asked = <<>>
    /\ pc \in Starting => emu \in {"none", "halted", "hung"}
    /\ pc = "connect" => emu = "none"
    /\ pc = "wpset" => hooks = "tracing"
    /\ emu = "halted" => pc \in Starting
    /\ pc \in Starting \cup {"await_stop"} => ~told
    /\ pc \in Starting \cup {"await_stop", "await_memory"} => shown = "none" /\ emu # "killed"
    /\ pc = "await_stop" =>
         /\ log = ran /\ hooks = "tracing" /\ asked = <<>>
         /\ wire = IF result = "none" THEN <<>> ELSE <<"stop">>
    /\ pc = "await_memory" =>
         IF told
         THEN log = ran /\ result # "none" /\ emu = "stopped" /\ InStep("memory", result)
         ELSE /\ result # "none" => wire # <<>>
              /\ wire # <<>> => Head(wire) \notin Verdicts
    /\ pc = "await_off" =>
         IF told
         THEN /\ shown = result /\ log = ran /\ result # "none" /\ emu = "stopped"
              /\ InStep("off", "ok") /\ (asked = <<>> => flushed = log)
         ELSE shown = "none"
    /\ pc = "failed" => emu \in Gone
    /\ pc \in {"picture", "write"} =>
         emu \in Gone /\ IF told THEN shown = result /\ result # "none" /\ log = ran ELSE shown = "none"
    /\ pc \in {"finish", "done"} =>
         emu \in Gone /\ IF told THEN last = result /\ result # "none" /\ entries = ran ELSE last = "none"

OpenMsxInvariant ==
  Is("openmsx") =>
    /\ asked = <<>> /\ hooks \in {"armed", "tracing", "verdict", "closed"}
    /\ emu = "killed" => pc \in {"write", "finish", "done", "failed"}
    /\ emu \in {"none", "exited"} => pc \in {"connect", "failed"}
    /\ emu # "killed" /\ hooks # "closed" => log = ran
    /\ hooks = "verdict" => log = ran /\ flushed = log /\ result # "none"
    /\ result # "none" => hooks \in {"verdict", "closed"}
    /\ told => hooks = "verdict"
    /\ pc \in {"picture", "write"} => shown \in {"none", result} /\ (told => shown = result)
    /\ pc \in {"write", "finish", "done"} => emu \in Gone
    /\ pc \in {"finish", "done"} =>
         /\ last \in {"none", result} /\ (told => last = result)
         /\ hooks = "verdict" => entries = ran

CaptureInvariant == Typed /\ VcsInvariant /\ TiVdpInvariant /\ MameInvariant /\ OpenMsxInvariant

-----------------------------------------------------------------------------
LEMMA AppendKeepsHead ==
  ASSUME NEW S, NEW s \in Seq(S), NEW x \in S
  PROVE  Append(s, x) # <<>> /\ (s # <<>> => Head(Append(s, x)) = Head(s))
  <1>1. Append(s, x) # <<>>
    BY AppendProperties
  <1>2. s # <<>> => Head(Append(s, x)) = Head(s)
    <2> SUFFICES ASSUME s # <<>> PROVE Append(s, x)[1] = s[1]
      BY <1>1, SMT
    <2>1. Len(s) \in Nat \ {0}
      BY EmptySeq, Zenon
    <2> QED
      BY <2>1, AppendProperties, SMT
  <1> QED
    BY <1>1, <1>2

LEMMA Zero == 0 \in Nat
  OBVIOUS

LEMMA CaptureInit == Init => CaptureInvariant
  <1> SUFFICES ASSUME Init PROVE CaptureInvariant
    OBVIOUS
  <1>1. opt.adapter \in {"vcs", "tivdp", "mame", "openmsx"}
    BY OptionsAssumption DEF Init, Linked
  <1>2. Typed
    <2>1. AtPlace /\ (file = "closed" => pc = "done")
      <3>1. /\ emu = "none" /\ pc = (IF opt.adapter \in Linked THEN "loop" ELSE "connect")
            /\ file = (IF opt.adapter \in Linked THEN "open" ELSE "none")
        BY Zenon DEF Init
      <3> QED
        BY <1>1, <3>1, SMT DEF AtPlace, Linked, Starting
    <2>2. Values
      BY EmptySeq, Zero, Zenon DEF Init, Values, Choices
    <2> QED
      BY <2>1, <2>2 DEF Typed
  <1>3. VcsInvariant /\ TiVdpInvariant
    BY Zenon DEF Init, VcsInvariant, TiVdpInvariant
  <1>4. MameInvariant
    BY <1>1 DEF Init, MameInvariant, Is, Linked, Gone
  <1>5. OpenMsxInvariant
    BY <1>1 DEF Init, OpenMsxInvariant, Is, Linked, Gone
  <1> QED
    BY <1>2, <1>3, <1>4, <1>5 DEF CaptureInvariant

-----------------------------------------------------------------------------
\* The linked emulators: there is no child, and what the others promise is idle.
LEMMA LinkedPlace ==
  ASSUME AtPlace, opt.adapter \in Linked
  PROVE  emu = "none" /\ pc \in {"loop", "extra1", "extra2", "finish", "done", "failed"}
  BY DEF AtPlace, Linked

LEMMA LinkedOnly ==
  ASSUME opt.adapter \in Linked, AtPlace, opt' = opt, emu' = emu,
         pc' \in {"loop", "extra1", "extra2", "finish", "done", "failed"},
         file' = "closed" => pc' = "done",
         Values', Is("vcs") => VcsInvariant', Is("tivdp") => TiVdpInvariant'
  PROVE  CaptureInvariant'
  <1>1. opt'.adapter = opt.adapter /\ opt.adapter # "mame" /\ opt.adapter # "openmsx"
    BY DEF Linked
  <1>2. MameInvariant' /\ OpenMsxInvariant'
    BY <1>1, Zenon DEF MameInvariant, OpenMsxInvariant, Is
  <1>3. VcsInvariant' /\ TiVdpInvariant'
    BY <1>1, Zenon DEF VcsInvariant, TiVdpInvariant, Is
  <1>4. AtPlace'
    BY <1>1, LinkedPlace, Zenon DEF AtPlace
  <1> QED
    BY <1>2, <1>3, <1>4, Zenon DEF CaptureInvariant, Typed

LEMMA VcsLinked == Is("vcs") => opt.adapter \in Linked /\ ~Is("tivdp")
  BY DEF Is, Linked

LEMMA TiVdpLinked == Is("tivdp") => opt.adapter \in Linked /\ ~Is("vcs")
  BY DEF Is, Linked

LEMMA VcsStepKeeps ==
  ASSUME CaptureInvariant,
         NEW w \in Choices, NEW frame \in BOOLEAN, NEW jam \in BOOLEAN, VcsStep(w, frame, jam)
  PROVE  CaptureInvariant'
  <1>1. /\ Is("vcs") /\ opt' = opt /\ pc = "loop" /\ ran' = ran + 1
        /\ last' = result' /\ entries' = entries + 1
        /\ result' = (IF w = "none" THEN result ELSE w)
        /\ pc' = (IF result' # "none" THEN AfterLoop(TRUE) ELSE pc)
        /\ (told' => result' # "none")
    BY Zenon DEF VcsStep, Runs, Record
  <1>2. /\ file' = file /\ emu' = emu /\ log' = log /\ flushed' = flushed /\ shown' = shown
        /\ asked' = asked /\ wire' = wire
    BY Zenon DEF VcsStep, child
  <1>3. AtPlace /\ Values /\ (file = "closed" => pc = "done")
    BY Zenon DEF CaptureInvariant, Typed
  <1>4. pc' \in {"loop", "extra1", "finish"} /\ (pc' = "loop" => result' = "none")
    BY <1>1, SMT DEF AfterLoop, Is
  <1>5. Values'
    BY <1>1, <1>2, <1>3, SMT DEF Values
  <1>6. entries = ran
    BY <1>1, Zenon DEF CaptureInvariant, VcsInvariant
  <1>7. VcsInvariant'
    BY <1>1, <1>4, <1>6, Zenon DEF VcsInvariant
  <1>8. file' # "closed"
    BY <1>1, <1>2, <1>3, SMT
  <1>9. pc' \in {"loop", "extra1", "extra2", "finish", "done", "failed"}
    BY <1>4
  <1> QED
    BY <1>1, <1>2, <1>3, <1>5, <1>7, <1>8, <1>9, LinkedOnly, VcsLinked, Zenon

LEMMA VcsEndKeeps ==
  ASSUME CaptureInvariant, VcsJammed \/ VcsLoopEnds
  PROVE  CaptureInvariant'
  <1>1. /\ Is("vcs") /\ opt' = opt /\ pc = "loop" /\ pc' = AfterLoop(FALSE)
        /\ result' = result /\ ran' = ran /\ (told' => told)
        /\ \/ last' = result /\ entries' = entries + 1
           \/ last' = last /\ entries' = entries
    <2>1. CASE VcsJammed
      BY <2>1, Zenon DEF VcsJammed, Record, program
    <2>2. CASE VcsLoopEnds
      BY <2>2, Zenon DEF VcsLoopEnds, program, trace
    <2> QED
      BY <2>1, <2>2
  <1>2. /\ file' = file /\ emu' = emu /\ log' = log /\ flushed' = flushed /\ shown' = shown
        /\ asked' = asked /\ wire' = wire
    BY Zenon DEF VcsJammed, VcsLoopEnds, child, trace
  <1>3. AtPlace /\ Values /\ (file = "closed" => pc = "done")
    BY Zenon DEF CaptureInvariant, Typed
  <1>4. pc' = "finish"
    BY <1>1, SMT DEF AfterLoop, Is
  <1>5. Values'
    BY <1>1, <1>2, <1>3, SMT DEF Values
  <1>6. last = result /\ result = "none" /\ ~told
    BY <1>1, Zenon DEF CaptureInvariant, VcsInvariant
  <1>7. VcsInvariant'
    BY <1>1, <1>4, <1>6, Zenon DEF VcsInvariant
  <1>8. file' # "closed"
    BY <1>1, <1>2, <1>3, SMT
  <1>9. pc' \in {"loop", "extra1", "extra2", "finish", "done", "failed"}
    BY <1>4
  <1> QED
    BY <1>1, <1>2, <1>3, <1>5, <1>7, <1>8, <1>9, LinkedOnly, VcsLinked, Zenon

LEMMA TiVdpTurnKeeps ==
  ASSUME CaptureInvariant, NEW w \in Choices, TiVdpTurn(w)
  PROVE  CaptureInvariant'
  <1>1. Is("tivdp") /\ opt' = opt /\ pc = "loop" /\ last' = result /\ entries' = entries + 1
    BY Zenon DEF TiVdpTurn, Record
  <1>2. /\ file' = file /\ emu' = emu /\ log' = log /\ flushed' = flushed /\ shown' = shown
        /\ asked' = asked /\ wire' = wire
    BY Zenon DEF TiVdpTurn, child
  <1>3. AtPlace /\ Values /\ (file = "closed" => pc = "done")
    BY Zenon DEF CaptureInvariant, Typed
  <1>4. AfterLoop(TRUE) = "extra2" /\ AfterLoop(FALSE) = "extra2"
    BY <1>1, Zenon DEF AfterLoop
  <1>5. entries = ran /\ last = "none" /\ ~told
    BY <1>1, Zenon DEF CaptureInvariant, TiVdpInvariant
  <1>6. \/ program' = program /\ pc' = "extra2" /\ (told' => result # "none")
        \/ result = "none" /\ Runs(w) /\ pc' = pc /\ ~told'
    <2>1. CASE result # "none"
      BY <1>4, <2>1, Zenon DEF TiVdpTurn
    <2>2. CASE result = "none"
      BY <1>4, <1>5, <2>2, Zenon DEF TiVdpTurn
    <2> QED
      BY <2>1, <2>2
  <1>7. CASE program' = program /\ pc' = "extra2" /\ (told' => result # "none")
    <2>1. result' = result /\ ran' = ran
      BY <1>7, Zenon DEF program
    <2>2. Values' /\ TiVdpInvariant'
      BY <1>1, <1>2, <1>3, <1>5, <1>7, <2>1, SMT DEF Values, TiVdpInvariant
    <2> QED
      BY <1>1, <1>2, <1>3, <1>7, <2>2, LinkedOnly, TiVdpLinked, SMT
  <1>8. CASE result = "none" /\ Runs(w) /\ pc' = pc /\ ~told'
    <2>1. Values'
      BY <1>1, <1>2, <1>3, <1>8, SMT DEF Values, Runs
    <2>2. TiVdpInvariant'
      BY <1>1, <1>5, <1>8, Zenon DEF TiVdpInvariant, Runs
    <2> QED
      BY <1>1, <1>2, <1>3, <1>8, <2>1, <2>2, LinkedOnly, TiVdpLinked, SMT
  <1> QED
    BY <1>6, <1>7, <1>8

LEMMA ExtraFrameKeeps ==
  ASSUME CaptureInvariant, NEW comes \in BOOLEAN, ExtraFrame(comes)
  PROVE  CaptureInvariant'
  <1>1. /\ pc \in {"extra1", "extra2"} /\ pc' \in {"extra2", "finish"} /\ opt' = opt
        /\ result' = result /\ ran' = ran /\ (told' => told) /\ last' = last /\ entries' = entries
        /\ file' = file /\ emu' = emu /\ log' = log /\ flushed' = flushed /\ shown' = shown
        /\ asked' = asked /\ wire' = wire
    BY Zenon DEF ExtraFrame, child, trace
  <1>2. AtPlace /\ Values /\ (file = "closed" => pc = "done")
    BY Zenon DEF CaptureInvariant, Typed
  <1>3. opt.adapter \in Linked /\ Values' /\ file' # "closed"
    BY <1>1, <1>2, SMT DEF AtPlace, Values, Starting
  <1>4. Is("vcs") => VcsInvariant'
    BY <1>1, SMT DEF CaptureInvariant, VcsInvariant
  <1>5. Is("tivdp") => TiVdpInvariant'
    BY <1>1, SMT DEF CaptureInvariant, TiVdpInvariant
  <1>6. pc' \in {"loop", "extra1", "extra2", "finish", "done", "failed"}
    BY <1>1
  <1> QED
    BY <1>1, <1>2, <1>3, <1>4, <1>5, <1>6, LinkedOnly, Zenon

LEMMA LinkedStep == CaptureInvariant /\ LinkedNext => CaptureInvariant'
  BY VcsStepKeeps, VcsEndKeeps, TiVdpTurnKeeps, ExtraFrameKeeps, Zenon DEF LinkedNext

-----------------------------------------------------------------------------
\* MAME's commands and answers.
LEMMA MamePlace ==
  ASSUME AtPlace
  PROVE  /\ pc \in {"await_stop", "await_memory", "await_off"} => Is("mame")
         /\ Is("mame") => ~Is("vcs") /\ ~Is("tivdp") /\ ~Is("openmsx")
  BY DEF AtPlace, Is

LEMMA StartingIsMame ==
  ASSUME AtPlace, pc \in Starting, pc # "connect" \/ Is("mame")
  PROVE  Is("mame")
  BY DEF AtPlace, Is, Starting

LEMMA MameOnly ==
  ASSUME Is("mame"), opt' = opt, Values', MameInvariant',
         pc' \in Starting \cup {"await_stop", "await_memory", "await_off", "picture", "write",
                              "finish", "done", "failed"},
         file' = "closed" => pc' = "done"
  PROVE  CaptureInvariant'
  <1>1. opt'.adapter = "mame"
    BY DEF Is
  <1>2. VcsInvariant' /\ TiVdpInvariant' /\ OpenMsxInvariant'
    BY <1>1 DEF VcsInvariant, TiVdpInvariant, OpenMsxInvariant, Is
  <1>3. AtPlace'
    BY <1>1, SMT DEF AtPlace
  <1> QED
    BY <1>2, <1>3, Zenon DEF CaptureInvariant, Typed

LEMMA MameStartKeeps ==
  ASSUME CaptureInvariant, MameConnect \/ MameHandshake \/ MameContinue
  PROVE  CaptureInvariant'
  <1>1. /\ opt' = opt /\ (told' <=> told)
        /\ result' = result /\ ran' = ran /\ last' = last /\ entries' = entries /\ file' = file
        /\ log' = log /\ flushed' = flushed /\ shown' = shown /\ asked' = asked /\ wire' = wire
    <2>1. CASE MameConnect
      BY <2>1, Zenon DEF MameConnect, program, trace
    <2>2. CASE MameHandshake
      BY <2>2, Zenon DEF MameHandshake, program, trace
    <2>3. CASE MameContinue
      BY <2>3, Zenon DEF MameContinue, program, trace
    <2> QED
      BY <2>1, <2>2, <2>3
  <1>2. AtPlace /\ Values /\ (file = "closed" => pc = "done")
    BY Zenon DEF CaptureInvariant, Typed
  <1>3. /\ pc \in Starting /\ (pc # "connect" \/ Is("mame"))
        /\ \/ Is("mame") /\ emu' = "halted" /\ pc' = "qSupported"
           \/ Is("mame") /\ emu' \in {"none", "killed"} /\ pc' = "failed"
           \/ /\ emu = "halted" /\ emu' = emu /\ pc' \in {"qXfer", "trace", "wpset"}
              /\ pc' = "wpset" => hooks' = "tracing"
           \/ pc = "wpset" /\ emu = "halted" /\ emu' = "running" /\ pc' = "await_stop" /\ hooks' = hooks
    <2>1. CASE MameConnect
      BY <2>1, SMT DEF MameConnect, Starting
    <2>2. CASE MameHandshake
      BY <2>2, SMT DEF MameHandshake, HandshakeNext, Starting
    <2>3. CASE MameContinue
      BY <2>3, SMT DEF MameContinue, Starting
    <2> QED
      BY <2>1, <2>2, <2>3
  <1>4. Is("mame")
    BY <1>2, <1>3, StartingIsMame
  <1>5. /\ result = "none" /\ ran = 0 /\ log = 0 /\ wire = <<>> /\ asked = <<>> /\ ~told /\ shown = "none"
        /\ pc = "wpset" => hooks = "tracing"
    BY <1>3, <1>4, SMT DEF CaptureInvariant, MameInvariant
  <1>6. Values'
    BY <1>1, <1>2, Zenon DEF Values
  <1>7. MameInvariant'
    BY <1>1, <1>3, <1>5, SMT DEF MameInvariant, Gone, Starting
  <1>8. pc' \in Starting \cup {"await_stop", "failed"} /\ (file' = "closed" => pc' = "done")
    BY <1>1, <1>2, <1>3, SMT DEF Starting
  <1> QED
    BY <1>1, <1>4, <1>6, <1>7, <1>8, MameOnly, SMT

\* What a read leaves of the answers, and the command behind it of the requests.
LEMMA ReadThenSendKeeps ==
  ASSUME Values, NEW request \in {"", "memory", "off"}, ReadThenSend(request)
  PROVE  wire' \in Seq({"stop", "ok"} \cup Choices) /\ asked' \in Seq({"memory", "off"})
  <1>1. wire \in Seq({"stop", "ok"} \cup Choices) /\ asked \in Seq({"memory", "off"})
    BY Zenon DEF Values
  <1>2. wire' \in Seq({"stop", "ok"} \cup Choices)
    <2>1. CASE wire = <<>>
      BY <1>1, <2>1, Zenon DEF ReadThenSend
    <2>2. CASE wire # <<>>
      BY <1>1, <2>2, HeadTailProperties, Zenon DEF ReadThenSend
    <2> QED
      BY <2>1, <2>2
  <1>3. asked' \in Seq({"memory", "off"})
    <2>1. CASE asked' = asked
      BY <1>1, <2>1, Zenon
    <2>2. CASE asked' = Append(asked, request) /\ request # ""
      <3>1. request \in {"memory", "off"}
        BY <2>2
      <3> QED
        BY <1>1, <2>2, <3>1, AppendProperties, Zenon
    <2> QED
      BY <2>1, <2>2, Zenon DEF ReadThenSend
  <1> QED
    BY <1>2, <1>3

LEMMA MameReadStopKeeps ==
  ASSUME CaptureInvariant, MameReadStop
  PROVE  CaptureInvariant'
  <1>1. PICK answer \in Reads : told' = (answer = "stop")
    BY Zenon DEF MameReadStop
  <1>2. /\ pc = "await_stop" /\ pc' = "await_memory" /\ opt' = opt /\ ReadThenSend("memory")
        /\ shown' = shown /\ emu' = emu /\ log' = log /\ flushed' = flushed /\ ran' = ran
        /\ result' = result /\ file' = file /\ entries' = entries /\ last' = last
    BY Zenon DEF MameReadStop, program, trace
  <1>3. AtPlace /\ Values /\ (file = "closed" => pc = "done")
    BY Zenon DEF CaptureInvariant, Typed
  <1>4. Is("mame")
    BY <1>2, <1>3, MamePlace
  <1>5. /\ log = ran /\ asked = <<>> /\ wire = (IF result = "none" THEN <<>> ELSE <<"stop">>)
        /\ shown = "none" /\ emu \notin {"killed", "halted"} /\ (result # "none" => emu = "stopped")
    BY <1>2, <1>4, SMT DEF CaptureInvariant, MameInvariant, Starting
  <1>6. told' <=> result # "none"
    <2>1. CASE result = "none"
      <3>1. answer \in {"eof", "timeout"}
        BY <1>5, <2>1, Zenon DEF Reads
      <3> QED
        BY <1>1, <2>1, <3>1
    <2>2. CASE result # "none"
      <3>1. answer = "stop"
        BY <1>5, <2>2, SMT DEF Reads
      <3> QED
        BY <1>1, <2>2, <3>1, Zenon
    <2> QED
      BY <2>1, <2>2
  <1>7. wire' = <<>> /\ (emu # "exited" => asked' = <<"memory">>)
    BY <1>2, <1>5, SMT DEF ReadThenSend
  <1>8. Values'
    <2>1. wire' \in Seq({"stop", "ok"} \cup Choices) /\ asked' \in Seq({"memory", "off"})
      BY <1>2, <1>3, ReadThenSendKeeps, Zenon
    <2> QED
      BY <1>2, <1>3, <2>1, Zenon DEF Values
  <1>9. MameInvariant'
    BY <1>2, <1>5, <1>6, <1>7, SMT DEF MameInvariant, InStep, Starting
  <1> QED
    BY <1>2, <1>3, <1>4, <1>8, <1>9, MameOnly, SMT

LEMMA MameReadMemoryKeeps ==
  ASSUME CaptureInvariant, MameReadMemory
  PROVE  CaptureInvariant'
  <1>1. PICK answer \in Reads : shown' = IF answer \in Verdicts THEN answer ELSE "none"
    BY Zenon DEF MameReadMemory
  <1>2. /\ pc = "await_memory" /\ pc' = "await_off" /\ opt' = opt /\ ReadThenSend("off")
        /\ (told' <=> told) /\ emu' = emu /\ log' = log /\ flushed' = flushed /\ ran' = ran
        /\ result' = result /\ file' = file /\ entries' = entries /\ last' = last
    BY Zenon DEF MameReadMemory, program, trace
  <1>3. AtPlace /\ Values /\ (file = "closed" => pc = "done")
    BY Zenon DEF CaptureInvariant, Typed
  <1>4. Is("mame")
    BY <1>2, <1>3, MamePlace
  <1>5. (result # "none" => emu \in {"stopped", "killed"}) /\ emu # "halted"
    BY <1>2, <1>4, SMT DEF CaptureInvariant, MameInvariant, Starting
  <1>6. Values'
    <2>1. shown' \in Choices
      BY <1>1, SMT DEF Choices
    <2>2. wire' \in Seq({"stop", "ok"} \cup Choices) /\ asked' \in Seq({"memory", "off"})
      BY <1>2, <1>3, ReadThenSendKeeps, Zenon
    <2> QED
      BY <1>2, <1>3, <2>1, <2>2, Zenon DEF Values
  <1>7. CASE told
    <2>1. log = ran /\ result # "none" /\ emu = "stopped" /\ InStep("memory", result)
      BY <1>2, <1>4, <1>7, Zenon DEF CaptureInvariant, MameInvariant
    <2>2. Reads = IF wire # <<>> THEN {Head(wire)} ELSE {}
      BY <2>1, SMT DEF Reads, Due
    <2>3. asked = <<>> /\ wire = <<result>>
      BY <1>1, <2>1, <2>2, Zenon DEF InStep
    <2>4. answer = result
      BY <1>1, <2>2, <2>3, SMT
    <2>5. asked' = <<"off">> /\ wire' = <<>>
      BY <1>2, <2>1, <2>3, SMT DEF ReadThenSend
    <2>6. shown' = result
      <3>1. result \in Verdicts
        BY <1>3, <2>1, SMT DEF Values, Choices
      <3> QED
        BY <1>1, <2>4, <3>1
    <2>7. MameInvariant'
      BY <1>2, <1>7, <2>1, <2>5, <2>6, SMT DEF MameInvariant, InStep, Starting
    <2> QED
      BY <1>2, <1>3, <1>4, <1>6, <2>7, MameOnly, SMT
  <1>8. CASE ~told
    <2>1. wire # <<>> => Head(wire) \notin Verdicts
      BY <1>2, <1>4, <1>8, Zenon DEF CaptureInvariant, MameInvariant
    <2>2. answer \notin Verdicts
      BY <1>1, <2>1, SMT DEF Reads, Verdicts
    <2>3. shown' = "none"
      BY <1>1, <2>2
    <2>4. MameInvariant'
      BY <1>2, <1>5, <1>8, <2>3, SMT DEF MameInvariant, Starting
    <2> QED
      BY <1>2, <1>3, <1>4, <1>6, <2>4, MameOnly, SMT
  <1> QED
    BY <1>7, <1>8

LEMMA MameReadOffKeeps ==
  ASSUME CaptureInvariant, MameReadOff
  PROVE  CaptureInvariant'
  <1>1. /\ pc = "await_off" /\ pc' = "picture" /\ opt' = opt
        /\ (told' <=> told) /\ shown' = shown /\ flushed' = flushed /\ ran' = ran
        /\ result' = result /\ file' = file /\ entries' = entries /\ last' = last
    BY Zenon DEF MameReadOff, program, trace
  <1>2. ReadThenSend("") /\ Reads # {} /\ Killed
    BY Zenon DEF MameReadOff
  <1>3. AtPlace /\ Values /\ (file = "closed" => pc = "done")
    BY Zenon DEF CaptureInvariant, Typed
  <1>4. Is("mame")
    BY <1>1, <1>3, MamePlace
  <1>5. emu' \in Gone /\ (emu \in {"stopped", "killed"} => emu' = "killed")
    <2>1. emu' = IF emu \in {"none", "exited"} THEN emu ELSE "killed"
      BY <1>2, Zenon DEF Killed
    <2> QED
      BY <2>1, SMT DEF Gone
  <1>6. log' \in flushed..log /\ flushed \in Nat /\ log \in Nat
    BY <1>2, <1>1, <1>3, Zenon DEF Killed, Values
  <1>7. Values'
    <2>1. log' \in Nat
      BY <1>6, SMT
    <2>2. wire' \in Seq({"stop", "ok"} \cup Choices) /\ asked' \in Seq({"memory", "off"})
      BY <1>2, <1>3, ReadThenSendKeeps, Zenon
    <2> QED
      BY <1>1, <1>3, <2>1, <2>2, Zenon DEF Values
  <1>8. (result # "none" => emu \in {"stopped", "killed"})
    BY <1>4, Zenon DEF CaptureInvariant, MameInvariant
  <1>9. CASE told
    <2>1. /\ shown = result /\ log = ran /\ result # "none" /\ emu = "stopped"
          /\ InStep("off", "ok") /\ (asked = <<>> => flushed = log)
      BY <1>1, <1>4, <1>9, Zenon DEF CaptureInvariant, MameInvariant
    <2>2. Reads = IF wire # <<>> THEN {Head(wire)} ELSE {}
      BY <2>1, SMT DEF Reads, Due
    <2>3. flushed = log
      BY <1>2, <2>1, <2>2, Zenon DEF InStep
    <2>4. log' = ran
      BY <1>6, <2>1, <2>3, SMT
    <2>5. MameInvariant'
      BY <1>1, <1>5, <1>9, <2>1, <2>4, SMT DEF MameInvariant, Starting
    <2> QED
      BY <1>1, <1>3, <1>4, <1>7, <2>5, MameOnly, SMT
  <1>10. CASE ~told
    <2>1. shown = "none"
      BY <1>1, <1>4, <1>10, Zenon DEF CaptureInvariant, MameInvariant
    <2>2. MameInvariant'
      BY <1>1, <1>5, <1>8, <1>10, <2>1, SMT DEF MameInvariant, Starting, Gone
    <2> QED
      BY <1>1, <1>3, <1>4, <1>7, <2>2, MameOnly, SMT
  <1> QED
    BY <1>9, <1>10

LEMMA MamePictureKeeps ==
  ASSUME CaptureInvariant, MamePicture
  PROVE  CaptureInvariant'
  <1>1. /\ Is("mame") /\ pc = "picture" /\ pc' = "write" /\ opt' = opt /\ (told' <=> told)
        /\ shown' = shown /\ emu' = emu /\ log' = log /\ flushed' = flushed /\ ran' = ran
        /\ result' = result /\ file' = file /\ entries' = entries /\ last' = last
        /\ asked' = asked /\ wire' = wire
    BY Zenon DEF MamePicture, program, child, trace
  <1>2. Values /\ (file = "closed" => pc = "done")
    BY Zenon DEF CaptureInvariant, Typed
  <1>3. Values'
    BY <1>1, <1>2, Zenon DEF Values
  <1>4. MameInvariant'
    BY <1>1, SMT DEF CaptureInvariant, MameInvariant, Starting
  <1> QED
    BY <1>1, <1>2, <1>3, <1>4, MameOnly, SMT

LEMMA MameAdapterStep ==
  /\ CaptureInvariant
  /\ \/ MameConnect \/ MameHandshake \/ MameContinue
     \/ MameReadStop \/ MameReadMemory \/ MameReadOff \/ MamePicture
  => CaptureInvariant'
  BY MameStartKeeps, MameReadStopKeeps, MameReadMemoryKeeps, MameReadOffKeeps, MamePictureKeeps, Zenon

-----------------------------------------------------------------------------
\* openMSX's console.
LEMMA OpenMsxPlace ==
  ASSUME AtPlace
  PROVE  /\ pc \in {"poll_verdict", "poll_time", "poll_deadline", "teardown", "read_block"} => Is("openmsx")
         /\ Is("openmsx") => ~Is("vcs") /\ ~Is("tivdp") /\ ~Is("mame")
  BY DEF AtPlace, Is, Starting

LEMMA OpenMsxOnly ==
  ASSUME Is("openmsx"), opt' = opt, Values', OpenMsxInvariant',
         pc' \in {"poll_verdict", "poll_time", "poll_deadline", "teardown", "read_block", "picture",
                  "write", "finish", "done", "failed"},
         file' = "closed" => pc' = "done"
  PROVE  CaptureInvariant'
  <1>1. opt'.adapter = "openmsx"
    BY DEF Is
  <1>2. VcsInvariant' /\ TiVdpInvariant' /\ MameInvariant'
    BY <1>1 DEF VcsInvariant, TiVdpInvariant, MameInvariant, Is
  <1>3. AtPlace'
    BY <1>1, SMT DEF AtPlace
  <1> QED
    BY <1>2, <1>3, Zenon DEF CaptureInvariant, Typed

\* Launching, and the commands that change nothing of the emulator.
LEMMA OpenMsxAsksKeeps ==
  ASSUME CaptureInvariant, OpenMsxStart \/ PollVerdict \/ PollTime \/ PollDeadline \/ ReadBlock
  PROVE  CaptureInvariant'
  <1>1. /\ opt' = opt /\ log' = log /\ flushed' = flushed /\ ran' = ran /\ hooks' = hooks
        /\ result' = result /\ file' = file /\ entries' = entries /\ last' = last
        /\ asked' = asked /\ wire' = wire
    BY Zenon DEF OpenMsxStart, PollVerdict, PollTime, PollDeadline, ReadBlock, program, child, trace
  <1>2. AtPlace /\ Values /\ (file = "closed" => pc = "done")
    BY Zenon DEF CaptureInvariant, Typed
  <1>3. pc \in {"connect", "poll_verdict", "poll_time", "poll_deadline", "read_block"}
    BY SMT DEF OpenMsxStart, PollVerdict, PollTime, PollDeadline, ReadBlock
  <1>4. Is("openmsx")
    BY <1>2, <1>3, OpenMsxPlace, SMT DEF OpenMsxStart, PollVerdict, PollTime, PollDeadline, ReadBlock
  <1>5. emu' = "killed" => pc' = "failed"
    <2>1. emu # "killed"
      BY <1>3, <1>4, SMT DEF CaptureInvariant, OpenMsxInvariant
    <2> QED
      BY <2>1, Zenon DEF OpenMsxStart, PollVerdict, PollTime, PollDeadline, ReadBlock, child
  <1>6. emu' \in {"none", "exited"} => pc' = "failed"
    <2>1. emu' \in {"none", "exited"} => pc' = "failed" \/ (pc # "connect" /\ emu' = emu)
      BY SMT DEF OpenMsxStart, PollVerdict, PollTime, PollDeadline, ReadBlock, child
    <2>2. emu \in {"none", "exited"} => pc = "connect"
      BY <1>3, <1>4, SMT DEF CaptureInvariant, OpenMsxInvariant
    <2> QED
      BY <2>1, <2>2, SMT
  <1>7. (told' => told \/ hooks = "verdict") /\ (shown' = shown \/ shown' = result)
    <2>1. CASE OpenMsxStart
      BY <2>1, Zenon DEF OpenMsxStart
    <2>2. CASE PollVerdict
      BY <2>2, Zenon DEF PollVerdict
    <2>3. CASE PollTime
      BY <2>3, Zenon DEF PollTime
    <2>4. CASE PollDeadline
      BY <2>4, Zenon DEF PollDeadline
    <2>5. CASE ReadBlock
      BY <2>5, Zenon DEF ReadBlock
    <2> QED
      BY <2>1, <2>2, <2>3, <2>4, <2>5
  <1>8. /\ pc' \in {"poll_verdict", "poll_time", "poll_deadline", "teardown", "read_block", "picture",
                    "failed"}
        /\ (pc' = "picture" => shown' = result)
    BY SMT DEF OpenMsxStart, PollVerdict, PollTime, PollDeadline, ReadBlock
  <1>9. Values'
    BY <1>1, <1>2, <1>7, Zenon DEF Values
  <1>10. OpenMsxInvariant'
    <2>1. /\ asked = <<>>
          /\ hooks \in {"armed", "tracing", "verdict", "closed"}
          /\ emu # "killed" /\ hooks # "closed" => log = ran
          /\ hooks = "verdict" => log = ran /\ flushed = log /\ result # "none"
          /\ result # "none" => hooks \in {"verdict", "closed"}
          /\ told => hooks = "verdict"
          /\ emu = "killed" => pc \in {"write", "finish", "done", "failed"}
          /\ emu \in {"none", "exited"} => pc \in {"connect", "failed"}
      BY <1>4, Zenon DEF CaptureInvariant, OpenMsxInvariant
    <2> QED
      BY <1>1, <1>3, <1>5, <1>7, <1>8, <1>6, <2>1, SMT DEF OpenMsxInvariant
  <1> QED
    BY <1>1, <1>2, <1>3, <1>4, <1>8, <1>9, <1>10, OpenMsxOnly, SMT

LEMMA TearDownKeeps ==
  ASSUME CaptureInvariant, TearDown
  PROVE  CaptureInvariant'
  <1>1. /\ pc = "teardown" /\ pc' = "read_block" /\ opt' = opt /\ log' = log /\ flushed' = log
        /\ hooks' = (IF hooks = "verdict" THEN hooks ELSE "closed") /\ (told' <=> told)
        /\ ran' = ran /\ result' = result /\ file' = file /\ entries' = entries /\ last' = last
        /\ shown' = shown /\ emu' = emu /\ asked' = asked /\ wire' = wire
    BY Zenon DEF TearDown, program, trace
  <1>2. AtPlace /\ Values /\ (file = "closed" => pc = "done")
    BY Zenon DEF CaptureInvariant, Typed
  <1>3. Is("openmsx")
    BY <1>1, <1>2, OpenMsxPlace
  <1>4. Values'
    BY <1>1, <1>2, Zenon DEF Values
  <1>5. OpenMsxInvariant'
    BY <1>1, <1>3, SMT DEF CaptureInvariant, OpenMsxInvariant
  <1> QED
    BY <1>1, <1>2, <1>3, <1>4, <1>5, OpenMsxOnly, SMT

\* A kill loses only what the log has not flushed, and that is nothing once the
\* watchpoint has ended the log.
LEMMA OpenMsxKillKeeps ==
  ASSUME CaptureInvariant, ConsoleFails \/ OpenMsxPicture
  PROVE  CaptureInvariant'
  <1>1. /\ opt' = opt /\ flushed' = flushed /\ ran' = ran /\ hooks' = hooks
        /\ result' = result /\ file' = file /\ entries' = entries /\ last' = last
        /\ shown' = shown /\ (told' <=> told) /\ asked' = asked /\ wire' = wire
    <2>1. CASE ConsoleFails
      BY <2>1, Zenon DEF ConsoleFails, program, trace
    <2>2. CASE OpenMsxPicture
      BY <2>2, Zenon DEF OpenMsxPicture, program, trace
    <2> QED
      BY <2>1, <2>2
  <1>2. AtPlace /\ Values /\ (file = "closed" => pc = "done")
    BY Zenon DEF CaptureInvariant, Typed
  <1>3. \/ pc \in {"poll_verdict", "poll_time", "teardown", "read_block"} /\ pc' = "failed"
        \/ Is("openmsx") /\ pc = "picture" /\ pc' = "write"
    BY SMT DEF ConsoleFails, OpenMsxPicture, Polling
  <1>4. Is("openmsx")
    BY <1>2, <1>3, OpenMsxPlace, SMT
  <1>5. emu' = (IF emu \in {"none", "exited"} THEN emu ELSE "killed") /\ log' \in flushed..log
    BY Zenon DEF ConsoleFails, OpenMsxPicture, Killed
  <1>6. emu' = "killed"
    <2>1. emu \notin {"none", "exited"}
      BY <1>3, <1>4, SMT DEF CaptureInvariant, OpenMsxInvariant
    <2> QED
      BY <1>5, <2>1
  <1>7. log' \in Nat /\ (flushed = log => log' = log)
    BY <1>2, <1>5, SMT DEF Values
  <1>8. Values'
    BY <1>1, <1>2, <1>7, Zenon DEF Values
  <1>9. OpenMsxInvariant'
    <2>1. /\ asked = <<>> /\ hooks \in {"armed", "tracing", "verdict", "closed"}
          /\ hooks = "verdict" => log = ran /\ flushed = log /\ result # "none"
          /\ result # "none" => hooks \in {"verdict", "closed"}
          /\ told => hooks = "verdict"
          /\ pc = "picture" => shown \in {"none", result} /\ (told => shown = result)
      BY <1>4, SMT DEF CaptureInvariant, OpenMsxInvariant
    <2>2. hooks' = "verdict" => log' = ran' /\ flushed' = log' /\ result' # "none"
      BY <1>1, <1>7, <2>1, SMT
    <2> QED
      BY <1>1, <1>3, <1>6, <2>1, <2>2, SMT DEF OpenMsxInvariant, Gone
  <1> QED
    BY <1>1, <1>2, <1>3, <1>4, <1>8, <1>9, OpenMsxOnly, SMT

-----------------------------------------------------------------------------
\* The trace, the same for all.
LEMMA WriteTraceKeeps ==
  ASSUME CaptureInvariant, WriteTrace
  PROVE  CaptureInvariant'
  <1>1. /\ pc = "write" /\ opt' = opt /\ log' = log /\ flushed' = flushed /\ ran' = ran /\ hooks' = hooks
        /\ result' = result /\ shown' = shown /\ (told' <=> told) /\ emu' = emu
        /\ asked' = asked /\ wire' = wire
    BY Zenon DEF WriteTrace, program, child
  <1>2. \/ pc' = "failed" /\ file' = file /\ entries' = entries /\ last' = last
        \/ pc' = "finish" /\ file' = "open" /\ entries' = log /\ last' = shown
    BY Zenon DEF WriteTrace, trace
  <1>3. AtPlace /\ Values /\ (file = "closed" => pc = "done")
    BY Zenon DEF CaptureInvariant, Typed
  <1>4. Values'
    BY <1>1, <1>2, <1>3, Zenon DEF Values
  <1>5. file' # "closed" /\ pc' \in {"failed", "finish"}
    BY <1>1, <1>2, <1>3, SMT
  <1>6. Is("mame") \/ Is("openmsx")
    BY <1>1, <1>3, SMT DEF AtPlace, Is
  <1>7. CASE Is("mame")
    <2>1. MameInvariant'
      BY <1>1, <1>2, <1>7, SMT DEF CaptureInvariant, MameInvariant, Starting
    <2> QED
      BY <1>1, <1>4, <1>5, <1>7, <2>1, MameOnly, SMT
  <1>8. CASE Is("openmsx")
    <2>1. OpenMsxInvariant'
      BY <1>1, <1>2, <1>8, SMT DEF CaptureInvariant, OpenMsxInvariant
    <2> QED
      BY <1>1, <1>4, <1>5, <1>8, <2>1, OpenMsxOnly, SMT
  <1> QED
    BY <1>6, <1>7, <1>8

\* The end, or a failure to write, changes where the adapter is and the file.
LEMMA EndKeeps ==
  ASSUME CaptureInvariant, Finish \/ WriteFails
  PROVE  CaptureInvariant'
  <1>1. /\ opt' = opt /\ log' = log /\ flushed' = flushed /\ ran' = ran /\ hooks' = hooks
        /\ result' = result /\ shown' = shown /\ (told' <=> told) /\ emu' = emu
        /\ asked' = asked /\ wire' = wire /\ entries' = entries /\ last' = last
    <2>1. CASE Finish
      BY <2>1, Zenon DEF Finish, program, child
    <2>2. CASE WriteFails
      BY <2>2, Zenon DEF WriteFails, program, child
    <2> QED
      BY <2>1, <2>2
  <1>2. AtPlace /\ Values /\ (file = "closed" => pc = "done")
    BY Zenon DEF CaptureInvariant, Typed
  <1>3. \/ pc = "finish" /\ pc' = "done"
        \/ pc \in {"loop", "write", "finish"} /\ pc' = "failed" /\ file' # "closed"
    BY <1>2, SMT DEF Finish, WriteFails
  <1>4. Values'
    BY <1>1, <1>2, Zenon DEF Values
  <1>5. pc' \in {"done", "failed"} /\ (file' = "closed" => pc' = "done")
    BY <1>3, SMT
  <1>6. opt.adapter \in Linked \/ Is("mame") \/ Is("openmsx")
    BY <1>2, Zenon DEF AtPlace, Is
  <1>7. CASE opt.adapter \in Linked
    <2>1. Is("vcs") => VcsInvariant'
      BY <1>1, <1>5, SMT DEF CaptureInvariant, VcsInvariant
    <2>2. Is("tivdp") => TiVdpInvariant'
      BY <1>1, <1>5, SMT DEF CaptureInvariant, TiVdpInvariant
    <2> QED
      BY <1>1, <1>2, <1>4, <1>5, <1>7, <2>1, <2>2, LinkedOnly, SMT
  <1>8. CASE Is("mame")
    <2>1. MameInvariant'
      <3>1. pc # "loop"
        BY <1>2, <1>8, SMT DEF AtPlace, Is, Linked, Starting
      <3> QED
        BY <1>1, <1>3, <1>8, <3>1, SMT DEF CaptureInvariant, MameInvariant, Starting
    <2> QED
      BY <1>1, <1>4, <1>5, <1>8, <2>1, MameOnly, SMT
  <1>9. CASE Is("openmsx")
    <2>1. OpenMsxInvariant'
      BY <1>1, <1>3, <1>9, SMT DEF CaptureInvariant, OpenMsxInvariant
    <2> QED
      BY <1>1, <1>4, <1>5, <1>9, <2>1, OpenMsxOnly, SMT
  <1> QED
    BY <1>6, <1>7, <1>8, <1>9

-----------------------------------------------------------------------------
\* The child process runs on, whatever the adapter does.
LEMMA NoChild ==
  ASSUME CaptureInvariant, emu \in {"halted", "running", "stopped"}
  PROVE  Is("mame") \/ Is("openmsx")
  BY SMT DEF CaptureInvariant, Typed, AtPlace, Is

\* The invariants of a child's adapter, when the adapter stays where it is.
LEMMA ChildOnly ==
  ASSUME CaptureInvariant, opt' = opt, pc' = pc, file' = file, Values', emu \in {"halted", "running", "stopped"},
         Is("mame") => MameInvariant', Is("openmsx") => OpenMsxInvariant'
  PROVE  CaptureInvariant'
  <1>1. AtPlace /\ (file = "closed" => pc = "done")
    BY Zenon DEF CaptureInvariant, Typed
  <1>2. opt'.adapter \notin Linked /\ opt.adapter \notin Linked /\ opt'.adapter = opt.adapter
    BY <1>1, SMT DEF AtPlace, Linked
  <1>3. VcsInvariant' /\ TiVdpInvariant'
    BY <1>2, SMT DEF VcsInvariant, TiVdpInvariant, Is, Linked
  <1>4. MameInvariant' /\ OpenMsxInvariant'
    BY Zenon DEF MameInvariant, OpenMsxInvariant, Is
  <1>5. AtPlace'
    BY <1>1, <1>2, SMT DEF AtPlace
  <1> QED
    BY <1>1, <1>3, <1>4, <1>5, Zenon DEF CaptureInvariant, Typed

\* What is so of a MAME that runs: it has not met the watchpoint.
MameRuns ==
  /\ ~told /\ result = "none" /\ pc \in {"await_stop", "await_memory", "await_off"}
  /\ shown = "none"
  /\ pc = "await_stop" => log = ran /\ hooks = "tracing" /\ asked = <<>> /\ wire = <<>>
  /\ pc = "await_memory" /\ wire # <<>> => Head(wire) \notin Verdicts

LEMMA MameRunning ==
  ASSUME CaptureInvariant, Is("mame"), emu = "running"
  PROVE  MameRuns
  <1>1. AtPlace /\ MameInvariant
    BY Zenon DEF CaptureInvariant, Typed
  <1>2. pc \in Starting \cup {"await_stop", "await_memory", "await_off", "picture", "write", "finish",
                            "done", "failed"}
    BY <1>1, SMT DEF AtPlace, Is, Linked
  <1>3. result = "none" /\ pc \notin Starting \cup {"picture", "write", "finish", "done", "failed"}
    BY <1>1, SMT DEF MameInvariant, Gone
  <1>5. CASE pc = "await_stop"
    BY <1>1, <1>3, <1>5, SMT DEF MameInvariant, MameRuns
  <1>6. CASE pc = "await_memory"
    BY <1>1, <1>3, <1>6, SMT DEF MameInvariant, MameRuns
  <1>7. CASE pc = "await_off"
    BY <1>1, <1>3, <1>7, SMT DEF MameInvariant, MameRuns
  <1> QED
    BY <1>2, <1>3, <1>5, <1>6, <1>7

LEMMA ExecuteKeeps ==
  ASSUME CaptureInvariant, NEW w \in Choices, Execute(w)
  PROVE  CaptureInvariant'
  <1>1. /\ emu = "running" /\ result = "none" /\ ran' = ran + 1
        /\ result' = (IF w = "none" THEN result ELSE w)
        /\ log' = (IF hooks \in {"armed", "tracing"} THEN log + 1 ELSE log)
        /\ opt' = opt /\ asked' = asked
    BY Zenon DEF Execute, Runs
  <1>2. /\ pc' = pc /\ (told' <=> told) /\ shown' = shown
        /\ file' = file /\ entries' = entries /\ last' = last
    BY Zenon DEF Execute, progress, trace
  <1>3. Values
    BY Zenon DEF CaptureInvariant, Typed
  <1>4. log' \in Nat /\ ran' \in Nat /\ result' \in Choices
    BY <1>1, <1>3, SMT DEF Values
  <1>5. Is("mame") => MameRuns
    BY <1>1, MameRunning
  <1>6. CASE Is("mame")
    <2>1. /\ emu' = (IF w = "none" THEN emu ELSE "stopped")
          /\ wire' = (IF w = "none" THEN wire ELSE Append(wire, "stop"))
          /\ hooks' = hooks /\ flushed' = flushed
      BY <1>6, Zenon DEF Execute
    <2>2. wire' \in Seq({"stop", "ok"} \cup Choices)
      BY <1>3, <2>1, AppendProperties, SMT DEF Values
    <2>3. Values'
      BY <1>1, <1>2, <1>3, <1>4, <2>1, <2>2, Zenon DEF Values
    <2>4. MameInvariant'
      <3>2. CASE pc = "await_stop"
        BY <1>1, <1>2, <1>6, <1>5, <2>1, <3>2, SMT DEF MameInvariant, MameRuns, Starting
      <3>3. CASE pc = "await_memory"
        <4>1. CASE w = "none"
          BY <1>1, <1>2, <1>6, <1>5, <2>1, <3>3, <4>1, SMT DEF MameInvariant, MameRuns, Starting
        <4>2. CASE w # "none"
          <5>1. wire' # <<>> /\ (wire # <<>> => Head(wire') = Head(wire))
            BY <1>3, <2>1, <4>2, AppendKeepsHead, SMT DEF Values
          <5>2. wire = <<>> => Head(wire') = "stop"
            BY <2>1, <4>2, SMT
          <5>3. Head(wire') \notin Verdicts
            BY <1>6, <1>5, <3>3, <5>1, <5>2, SMT DEF MameRuns, Verdicts
          <5> QED
            BY <1>1, <1>2, <1>6, <1>5, <2>1, <3>3, <4>2, <5>1, <5>3, SMT DEF MameInvariant, MameRuns, Starting
        <4> QED
          BY <4>1, <4>2
      <3>4. CASE pc = "await_off"
        BY <1>1, <1>2, <1>6, <1>5, <2>1, <3>4, SMT DEF MameInvariant, MameRuns, Starting
      <3> QED
        BY <1>6, <1>5, <3>2, <3>3, <3>4, SMT DEF MameRuns
    <2> QED
      BY <1>1, <1>2, <1>6, <2>3, <2>4, ChildOnly, SMT DEF Is
  <1>7. CASE Is("openmsx")
    <2>1. /\ hooks' = Watched(w) /\ flushed' = (IF hooks' = "verdict" THEN log' ELSE flushed)
          /\ emu' = emu /\ wire' = wire
      BY <1>7, Zenon DEF Execute, Is
    <2>2. Values'
      BY <1>1, <1>2, <1>3, <1>4, <2>1, Zenon DEF Values
    <2>3. OpenMsxInvariant'
      <3>1. /\ asked = <<>> /\ hooks \in {"armed", "tracing", "closed"} /\ ~told
            /\ hooks # "closed" => log = ran
            /\ pc \notin {"write", "finish", "done"}
            /\ pc = "picture" => shown = "none"
        BY <1>1, <1>7, SMT DEF CaptureInvariant, OpenMsxInvariant, Gone
      <3>2. \/ hooks = "closed" /\ hooks' = "closed"
            \/ hooks # "closed" /\ w # "none" /\ hooks' = "verdict"
            \/ hooks # "closed" /\ w = "none" /\ hooks' = "tracing"
        BY <2>1, <3>1, SMT DEF Watched
      <3>3. log' \in Nat /\ (hooks # "closed" => log' = ran')
        BY <1>1, <1>3, <1>4, <3>1, SMT DEF Values
      <3> QED
        BY <1>1, <1>2, <2>1, <3>1, <3>2, <3>3, SMT DEF OpenMsxInvariant
    <2> QED
      BY <1>1, <1>2, <1>7, <2>2, <2>3, ChildOnly, SMT DEF Is
  <1> QED
    BY <1>1, <1>6, <1>7, NoChild

LEMMA SecondKeeps ==
  ASSUME CaptureInvariant, Second
  PROVE  CaptureInvariant'
  <1>1. /\ emu = "running" /\ opt' = opt /\ pc' = pc /\ (told' <=> told) /\ shown' = shown
        /\ log' = log /\ ran' = ran /\ result' = result /\ hooks' = hooks
        /\ file' = file /\ entries' = entries /\ last' = last /\ asked' = asked /\ wire' = wire
    BY Zenon DEF Second, program, trace
  <1>2. \/ Awaiting /\ emu' \in {"exited", "running"} /\ flushed' \in {flushed, log}
        \/ Polling /\ emu' = emu /\ flushed' = flushed
    BY <1>1, SMT DEF Second
  <1>3. AtPlace /\ Values
    BY Zenon DEF CaptureInvariant, Typed
  <1>4. Values'
    BY <1>1, <1>2, <1>3, SMT DEF Values
  <1>5. CASE Is("mame")
    <2>1. MameRuns /\ emu' \in {"exited", "running"}
      BY <1>1, <1>2, <1>5, MameRunning, SMT
    <2>2. MameInvariant'
      BY <1>1, <2>1, SMT DEF MameInvariant, MameRuns, Starting
    <2> QED
      BY <1>1, <1>4, <1>5, <2>2, ChildOnly, SMT DEF Is
  <1>6. CASE Is("openmsx")
    <2>1. pc \notin {"await_stop", "await_memory", "await_off"}
      BY <1>3, <1>6, MamePlace
    <2>2. emu' = emu /\ flushed' = flushed
      BY <1>2, <2>1, SMT DEF Awaiting
    <2>3. OpenMsxInvariant'
      BY <1>1, <1>6, <2>2, SMT DEF CaptureInvariant, OpenMsxInvariant
    <2> QED
      BY <1>1, <1>4, <1>6, <2>3, ChildOnly, SMT DEF Is
  <1> QED
    BY <1>1, <1>5, <1>6, NoChild

LEMMA HangKeeps ==
  ASSUME CaptureInvariant, Hang
  PROVE  CaptureInvariant'
  <1>1. /\ emu \in {"halted", "running"} /\ emu' = "hung" /\ opt' = opt /\ pc' = pc /\ (told' <=> told)
        /\ shown' = shown /\ log' = log /\ flushed' = flushed /\ ran' = ran /\ result' = result
        /\ hooks' = hooks /\ file' = file /\ entries' = entries /\ last' = last
        /\ asked' = asked /\ wire' = wire
    BY Zenon DEF Hang, program, progress, trace
  <1>2. Values'
    BY <1>1, Zenon DEF CaptureInvariant, Typed, Values
  <1>3. CASE Is("mame")
    <2>1. ASSUME emu = "running" PROVE MameInvariant'
      <3>1. MameRuns
        BY <1>3, <2>1, MameRunning
      <3> QED
        BY <1>1, <3>1, SMT DEF MameInvariant, MameRuns, Starting
    <2>2. ASSUME emu = "halted" PROVE MameInvariant'
      <3>1. MameInvariant /\ pc \in Starting /\ pc # "connect"
        BY <1>3, <2>2, SMT DEF CaptureInvariant, MameInvariant
      <3> QED
        BY <1>1, <1>3, <2>2, <3>1, SMT DEF MameInvariant, Starting
    <2>3. MameInvariant'
      BY <1>1, <2>1, <2>2
    <2> QED
      BY <1>1, <1>2, <1>3, <2>3, ChildOnly, SMT DEF Is
  <1>4. CASE Is("openmsx")
    <2>1. OpenMsxInvariant'
      BY <1>1, <1>4, SMT DEF CaptureInvariant, OpenMsxInvariant, Gone
    <2> QED
      BY <1>1, <1>2, <1>4, <2>1, ChildOnly, SMT DEF Is
  <1> QED
    BY <1>1, <1>3, <1>4, NoChild

LEMMA AnswerKeeps ==
  ASSUME CaptureInvariant, Answer
  PROVE  CaptureInvariant'
  <1>1. /\ emu \in {"running", "stopped"} /\ asked # <<>> /\ asked' = Tail(asked)
        /\ emu' = emu /\ opt' = opt /\ pc' = pc /\ (told' <=> told) /\ shown' = shown
        /\ log' = log /\ ran' = ran /\ result' = result
        /\ file' = file /\ entries' = entries /\ last' = last
    BY Zenon DEF Answer, program, progress, trace
  <1>2. \/ Head(asked) = "memory" /\ wire' = Append(wire, result) /\ hooks' = hooks /\ flushed' = flushed
        \/ Head(asked) # "memory" /\ wire' = Append(wire, "ok") /\ flushed' = log
    BY Zenon DEF Answer
  <1>3. AtPlace /\ Values
    BY Zenon DEF CaptureInvariant, Typed
  <1>4. Is("mame")
    BY <1>1, NoChild, SMT DEF CaptureInvariant, OpenMsxInvariant
  <1>5. Values'
    <2>1. flushed' \in Nat
      BY <1>2, <1>3, Zenon DEF Values
    <2>2. PICK answer \in {"stop", "ok"} \cup Choices : wire' = Append(wire, answer)
      BY <1>2, <1>3 DEF Values
    <2>3. wire' \in Seq({"stop", "ok"} \cup Choices)
      BY <1>3, <2>2, AppendProperties, Zenon DEF Values
    <2>4. asked' \in Seq({"memory", "off"})
      BY <1>1, <1>3, HeadTailProperties, Zenon DEF Values
    <2> QED
      BY <1>1, <1>3, <2>1, <2>3, <2>4, Zenon DEF Values
  <1>6. pc \in {"await_memory", "await_off"}
    <2>1. pc \in Starting \cup {"await_stop", "await_memory", "await_off", "picture", "write", "finish",
                              "done", "failed"}
      BY <1>3, <1>4, SMT DEF AtPlace, Is, Linked
    <2>2. pc \notin Starting \cup {"await_stop", "picture", "write", "finish", "done", "failed"}
      BY <1>1, <1>4, SMT DEF CaptureInvariant, MameInvariant, Gone
    <2> QED
      BY <2>1, <2>2
  <1>7. (result # "none" => emu = "stopped") /\ emu # "killed"
    BY <1>1, <1>4, SMT DEF CaptureInvariant, MameInvariant
  <1>8. ASSUME pc = "await_memory", told PROVE MameInvariant'
    <2>1. log = ran /\ result # "none" /\ emu = "stopped" /\ InStep("memory", result)
      BY <1>4, <1>8, SMT DEF CaptureInvariant, MameInvariant
    <2>2. asked = <<"memory">> /\ wire = <<>>
      BY <1>1, <2>1, Zenon DEF InStep
    <2>3. asked' = <<>> /\ wire' = <<result>>
      BY <1>1, <1>2, <2>2, SMT
    <2>4. wire' = <<result'>>
      BY <1>1, <2>3
    <2>5. /\ result' # "none" /\ emu' = "stopped" /\ log' = ran' /\ told' /\ shown' = shown
          /\ pc' = "await_memory" /\ shown = "none"
      BY <1>1, <1>4, <1>8, <2>1, SMT DEF CaptureInvariant, MameInvariant
    <2> QED
      BY <2>3, <2>4, <2>5, Zenon DEF MameInvariant, InStep, Starting
  <1>9. ASSUME pc = "await_memory", ~told PROVE MameInvariant'
    <2>1. /\ result # "none" => wire # <<>>
          /\ wire # <<>> => Head(wire) \notin Verdicts
          /\ shown = "none"
      BY <1>4, <1>9, SMT DEF CaptureInvariant, MameInvariant
    <2>2. PICK answer \in {"ok"} \cup Choices :
               wire' = Append(wire, answer) /\ (result = "none" => answer \notin Verdicts)
      <3>1. wire' = Append(wire, result) \/ wire' = Append(wire, "ok")
        BY <1>2
      <3>2. "ok" \in {"ok"} \cup Choices /\ "ok" \notin Verdicts
        BY DEF Verdicts
      <3>3. result \in {"ok"} \cup Choices /\ (result = "none" => result \notin Verdicts)
        BY <1>3, SMT DEF Values, Choices, Verdicts
      <3> QED
        BY <3>1, <3>2, <3>3, Zenon
    <2>3. wire' # <<>> /\ (wire # <<>> => Head(wire') = Head(wire))
      BY <1>3, <2>2, AppendKeepsHead, SMT DEF Values
    <2>4. wire = <<>> => Head(wire') \notin Verdicts
      BY <2>1, <2>2, SMT
    <2>5. Head(wire') \notin Verdicts
      BY <2>1, <2>3, <2>4, Zenon
    <2> QED
      BY <1>1, <1>7, <1>9, <2>1, <2>3, <2>5, SMT DEF MameInvariant, Starting
  <1>10. ASSUME pc = "await_off", told PROVE MameInvariant'
    <2>1. /\ shown = result /\ log = ran /\ result # "none" /\ emu = "stopped"
          /\ InStep("off", "ok")
      BY <1>4, <1>10, SMT DEF CaptureInvariant, MameInvariant
    <2>2. asked = <<"off">> /\ wire = <<>>
      BY <1>1, <2>1, Zenon DEF InStep
    <2>3. asked' = <<>> /\ wire' = <<"ok">> /\ flushed' = log
      BY <1>1, <1>2, <2>2, SMT
    <2> QED
      BY <1>1, <1>7, <1>10, <2>1, <2>3, SMT DEF MameInvariant, InStep, Starting
  <1>11. ASSUME pc = "await_off", ~told PROVE MameInvariant'
    <2>1. shown = "none"
      BY <1>4, <1>11, SMT DEF CaptureInvariant, MameInvariant
    <2> QED
      BY <1>1, <1>7, <1>11, <2>1, SMT DEF MameInvariant, Starting
  <1>12. MameInvariant'
    BY <1>6, <1>8, <1>9, <1>10, <1>11
  <1> QED
    BY <1>1, <1>4, <1>5, <1>12, ChildOnly, SMT DEF Is

LEMMA StutterKeeps == CaptureInvariant /\ UNCHANGED vars => CaptureInvariant'
  <1> SUFFICES ASSUME CaptureInvariant, UNCHANGED vars
               PROVE  CaptureInvariant'
    OBVIOUS
  <1>1. /\ opt' = opt /\ pc' = pc /\ (told' <=> told) /\ shown' = shown /\ file' = file
        /\ entries' = entries /\ last' = last /\ emu' = emu /\ ran' = ran /\ result' = result
        /\ log' = log /\ flushed' = flushed /\ asked' = asked /\ wire' = wire /\ hooks' = hooks
    BY Zenon DEF vars, program, child, trace, progress
  <1>2. Typed'
    BY <1>1, Zenon DEF CaptureInvariant, Typed, AtPlace, Values
  <1>3. VcsInvariant' /\ TiVdpInvariant'
    BY <1>1, SMT DEF CaptureInvariant, VcsInvariant, TiVdpInvariant, Is
  <1>4. MameInvariant'
    BY <1>1, SMT DEF CaptureInvariant, MameInvariant, InStep, Is
  <1>5. OpenMsxInvariant'
    BY <1>1, SMT DEF CaptureInvariant, OpenMsxInvariant, Is
  <1> QED
    BY <1>2, <1>3, <1>4, <1>5, Zenon DEF CaptureInvariant

LEMMA CaptureStep == CaptureInvariant /\ [Next]_vars => CaptureInvariant'
  BY LinkedStep, MameAdapterStep, OpenMsxAsksKeeps, TearDownKeeps, OpenMsxKillKeeps, WriteTraceKeeps,
     EndKeeps, ExecuteKeeps, SecondKeeps, AnswerKeeps, HangKeeps, StutterKeeps, Zenon
     DEF Next, Adapter, ChildNext, Emulator

-----------------------------------------------------------------------------
\* Where each adapter and its child are, and what the trace and the log hold of
\* the program, whatever the emulator does in between.
THEOREM CaptureInvariantHolds == Spec => []CaptureInvariant
  BY CaptureInit, CaptureStep, PTL DEF Spec

\* The verdict in a closed trace is the program's, and the one the adapter was
\* told of: for every budget, pace and program, in every order of polls, answers
\* and watchpoint.
THEOREM VerdictsAreThePrograms == Spec => []VerdictIsThePrograms
  <1>1. CaptureInvariant => VerdictIsThePrograms
    <2> SUFFICES ASSUME CaptureInvariant, file = "closed" PROVE VerdictIsThePrograms
      BY Zenon DEF VerdictIsThePrograms
    <2>1. pc = "done" /\ (Is("vcs") \/ Is("tivdp") \/ Is("mame") \/ Is("openmsx"))
      BY SMT DEF CaptureInvariant, Typed, AtPlace, Is, Linked
    <2>2. CASE Is("vcs")
      BY <2>2, SMT DEF CaptureInvariant, VcsInvariant, VerdictIsThePrograms
    <2>3. CASE Is("tivdp")
      BY <2>3, SMT DEF CaptureInvariant, TiVdpInvariant, VerdictIsThePrograms
    <2>4. CASE Is("mame")
      BY <2>1, <2>4, SMT DEF CaptureInvariant, MameInvariant, VerdictIsThePrograms
    <2>5. CASE Is("openmsx")
      BY <2>1, <2>5, SMT DEF CaptureInvariant, OpenMsxInvariant, VerdictIsThePrograms
    <2> QED
      BY <2>1, <2>2, <2>3, <2>4, <2>5
  <1> QED
    BY <1>1, CaptureInvariantHolds, PTL

\* A closed trace with a verdict has every instruction up to it, however much of
\* its log the child had not flushed when it was killed.
THEOREM VerdictTracesAreWhole == Spec => []VerdictTraceWhole
  <1>1. CaptureInvariant => VerdictTraceWhole
    <2> SUFFICES ASSUME CaptureInvariant, file = "closed", last # "none", ~Late PROVE entries = Whole
      BY Zenon DEF VerdictTraceWhole
    <2>1. pc = "done" /\ (Is("vcs") \/ Is("tivdp") \/ Is("mame") \/ Is("openmsx"))
      BY SMT DEF CaptureInvariant, Typed, AtPlace, Is, Linked
    <2>2. CASE Is("tivdp")
      BY <2>2, SMT DEF CaptureInvariant, TiVdpInvariant, Whole
    <2>3. CASE Is("vcs")
      <3>1. entries = ran
        BY <2>3, SMT DEF CaptureInvariant, VcsInvariant
      <3> QED
        BY <2>3, <3>1, VcsLinked DEF Whole
    <2>4. CASE Is("mame")
      <3>1. entries = ran
        BY <2>1, <2>4, SMT DEF CaptureInvariant, MameInvariant
      <3> QED
        BY <2>4, <3>1 DEF Whole, Is
    <2>5. CASE Is("openmsx")
      <3>1. hooks # "closed"
        BY <2>5 DEF Late
      <3>2. entries = ran
        BY <2>1, <2>5, <3>1, SMT DEF CaptureInvariant, OpenMsxInvariant
      <3> QED
        BY <2>5, <3>2 DEF Whole, Is
    <2> QED
      BY <2>1, <2>2, <2>3, <2>4, <2>5
  <1> QED
    BY <1>1, CaptureInvariantHolds, PTL

-----------------------------------------------------------------------------
(* The budgets. The wall clock of a wait is pace times the emulated time,  *)
(* and emulated time is bounded by the budget, by one second more where it *)
(* is polled.                                                              *)
Clocked ==
  /\ opt \in Options /\ pace \in Nat /\ seconds \in Nat /\ waited \in Nat /\ frames_done \in Nat

MameClock ==
  Is("mame") =>
    /\ emu = "running" => seconds < MameSeconds
    /\ emu = "exited" => seconds >= MameSeconds
    /\ pc \in Starting => seconds = 0
    /\ pc \in Starting \cup {"await_stop"} => waited = pace * seconds

OpenMsxClock ==
  Is("openmsx") => waited = pace * seconds /\ seconds <= CapSeconds + 1

LinkedClock == opt.adapter \in Linked => cause # "clock"

BudgetInvariant == Clocked /\ MameClock /\ OpenMsxClock /\ LinkedClock /\ BudgetSuffices

LEMMA OptionsTyped ==
  ASSUME opt \in Options
  PROVE  /\ opt.frames \in Nat /\ opt.rate \in {50, 60}
         /\ opt.adapter \in {"vcs", "tivdp", "mame", "openmsx"}
BY OptionsAssumption DEF Linked

LEMMA BudgetsTyped ==
  ASSUME opt \in Options
  PROVE  /\ MameSeconds \in Nat /\ MameSeconds >= 2
         /\ MameSeconds * opt.rate + opt.rate - 1 >= opt.frames
         /\ CapSeconds \in Nat /\ CapSeconds >= 5 /\ CapSeconds * 50 >= opt.frames
         /\ ReadTimeout \in Nat /\ ReadTimeout >= 12 * MameSeconds
         /\ Deadline \in Nat /\ Deadline >= 5 * CapSeconds
<1>1. opt.frames \in Nat /\ opt.rate \in {50, 60}
  BY OptionsTyped
<1>2. MameSeconds \in Nat /\ MameSeconds >= 2 /\ MameSeconds * opt.rate + opt.rate - 1 >= opt.frames
  <2>1. CASE opt.rate = 50
    BY <1>1, <2>1 DEF MameSeconds, Max2
  <2>2. CASE opt.rate = 60
    BY <1>1, <2>2 DEF MameSeconds, Max2
  <2> QED  BY <1>1, <2>1, <2>2
<1>3. CapSeconds \in Nat /\ CapSeconds >= 5 /\ CapSeconds * 50 >= opt.frames
  BY <1>1 DEF CapSeconds, Max2
<1>4. ReadTimeout \in Nat /\ ReadTimeout >= 12 * MameSeconds
  BY <1>2 DEF ReadTimeout, Max2
<1>5. Deadline \in Nat /\ Deadline >= 5 * CapSeconds
  BY <1>3 DEF Deadline, Max2
<1>6. QED  BY <1>2, <1>3, <1>4, <1>5

LEMMA LaterSecond ==
  ASSUME NEW p \in Nat, NEW s \in Nat
  PROVE  p * (s + 1) = p * s + p /\ p * s \in Nat
OBVIOUS

\* An emulator within its budget that has taken k times as long is k times slower.
LEMMA SlowerBy ==
  ASSUME NEW p \in Nat, NEW s \in Nat, NEW limit \in Nat, NEW k \in Nat, s <= limit, limit > 0,
         k * limit <= p * s
  PROVE  p >= k
<1> SUFFICES ASSUME p + 1 <= k PROVE FALSE
  OBVIOUS
<1>1. p * s <= p * limit
  OBVIOUS
<1>2. (p + 1) * limit <= k * limit
  OBVIOUS
<1>3. (p + 1) * limit = p * limit + limit
  OBVIOUS
<1>4. p * s \in Nat /\ p * limit \in Nat /\ k * limit \in Nat
  OBVIOUS
<1>5. QED  BY <1>1, <1>2, <1>3, <1>4

LEMMA BudgetInit == Init => BudgetInvariant
<1> SUFFICES ASSUME Init PROVE BudgetInvariant
  OBVIOUS
<1>0. pace \in Nat
  <2>1. pace \in (IF opt.adapter \in Linked THEN {1} ELSE Paces)
    BY DEF Init
  <2>2. Paces \subseteq Nat
    BY OptionsAssumption
  <2> QED  BY <2>1, <2>2
<1>1. Clocked
  <2>1. opt \in Options /\ seconds = 0 /\ waited = 0 /\ frames_done = 0
    BY DEF Init
  <2> QED  BY <1>0, <2>1 DEF Clocked
<1>2. MameSeconds >= 2 /\ MameSeconds \in Nat /\ CapSeconds >= 5 /\ CapSeconds \in Nat
  BY <1>1, BudgetsTyped DEF Clocked
<1>3. waited = 0 /\ seconds = 0 /\ cause = "" /\ emu = "none"
  BY DEF Init
<1>4. MameClock /\ OpenMsxClock
  <2>1. 0 < MameSeconds /\ 0 <= CapSeconds + 1
    BY <1>2
  <2>2. pace * 0 = 0
    BY <1>0
  <2>3. waited = pace * seconds
    BY <1>3, <2>2, Zenon
  <2> QED  BY <1>3, <2>1, <2>3 DEF MameClock, OpenMsxClock
<1>5. QED
  BY <1>1, <1>3, <1>4 DEF BudgetInvariant, LinkedClock, BudgetSuffices

\* Steps in which neither the clock nor the reason for the end changes.
LEMMA QuietBudget ==
  ASSUME BudgetInvariant, UNCHANGED <<opt, pace, seconds, cause, frames_done>>,
         emu' \in {emu, "killed", "hung", "stopped", "none"},
         \/ UNCHANGED waited
         \/ waited' = 0 /\ Is("mame") /\ pc' \notin Starting \cup {"await_stop"},
         pc' \in Starting => pc \in Starting,
         pc' = "await_stop" => pc \in Starting \cup {"await_stop"}
  PROVE  BudgetInvariant'
<1>1. Clocked'
  BY DEF BudgetInvariant, Clocked
<1>2. UNCHANGED <<MameSeconds, CapSeconds>> /\ (Is("mame") <=> Is("mame")') /\ (Is("openmsx") <=> Is("openmsx")')
  BY DEF MameSeconds, CapSeconds, Is
<1>3. MameClock'
  <2>1. SUFFICES ASSUME Is("mame") PROVE MameClock'
    BY <1>2 DEF MameClock
  <2>2. /\ emu' = "running" => seconds' < MameSeconds'
        /\ emu' = "exited" => seconds' >= MameSeconds'
        /\ pc' \in Starting => seconds' = 0
    BY <1>2, <2>1 DEF BudgetInvariant, MameClock
  <2>3. pc' \in Starting \cup {"await_stop"} => waited' = pace' * seconds'
    BY <1>2, <2>1 DEF BudgetInvariant, MameClock
  <2> QED  BY <2>2, <2>3 DEF MameClock
<1>4. OpenMsxClock'
  BY <1>2 DEF BudgetInvariant, OpenMsxClock, Is
<1>5. LinkedClock'
  BY DEF BudgetInvariant, LinkedClock
<1>6. BudgetSuffices'
  BY DEF BudgetInvariant, BudgetSuffices, FramesRun, Rounding, SlowestAllowed, Is
<1>7. QED  BY <1>1, <1>3, <1>4, <1>5, <1>6 DEF BudgetInvariant

LEMMA LinkedBudget == BudgetInvariant /\ LinkedNext => BudgetInvariant'
<1> SUFFICES ASSUME BudgetInvariant, LinkedNext PROVE BudgetInvariant'
  OBVIOUS
<1>1. CASE \E comes \in BOOLEAN : ExtraFrame(comes)
  BY <1>1, QuietBudget DEF ExtraFrame, child, Starting
<1>2. CASE ~(\E comes \in BOOLEAN : ExtraFrame(comes))
  <2>1. /\ Is("vcs") \/ Is("tivdp")
        /\ UNCHANGED <<opt, pace, child, waited>>
        /\ frames_done' \in {frames_done, frames_done + 1}
        /\ \/ cause' = "budget" /\ frames_done >= opt.frames
           \/ cause' \in {"jam", "limit"}
           \/ UNCHANGED cause
    <3>1. CASE \E w \in Choices, frame, jam \in BOOLEAN : VcsStep(w, frame, jam)
      BY <3>1 DEF VcsStep
    <3>2. CASE VcsJammed
      BY <3>2 DEF VcsJammed
    <3>3. CASE VcsLoopEnds
      BY <3>3 DEF VcsLoopEnds
    <3>4. CASE \E w \in Choices : TiVdpTurn(w)
      BY <3>4 DEF TiVdpTurn
    <3> QED  BY <1>2, <3>1, <3>2, <3>3, <3>4 DEF LinkedNext
  <2>2. UNCHANGED <<opt, pace, waited, seconds, emu>> /\ ~Is("mame") /\ ~Is("openmsx")
    BY <2>1 DEF child, Is
  <2>3. ~Is("mame")' /\ ~Is("openmsx")'
    BY <2>2 DEF Is
  <2>4. Clocked /\ Clocked' /\ opt.frames \in Nat
    BY <2>1, <2>2, OptionsTyped DEF BudgetInvariant, Clocked
  <2>5. cause # "clock" /\ cause' # "clock"
    BY <2>1 DEF BudgetInvariant, LinkedClock, Is, Linked
  <2>6. FramesRun = frames_done /\ Rounding = 0 /\ FramesRun' = frames_done' /\ Rounding' = 0
    BY <2>2, <2>3 DEF FramesRun, Rounding
  <2>7. cause' = "budget" => frames_done' >= opt.frames
    BY <2>1, <2>4, <2>6 DEF BudgetInvariant, BudgetSuffices, Clocked
  <2>8. BudgetSuffices'
    <3>1. cause' = "budget" => frames_done' + 0 >= opt.frames'
      BY <2>2, <2>4, <2>7 DEF Clocked
    <3> QED  BY <2>5, <2>6, <3>1 DEF BudgetSuffices
  <2> QED  BY <2>3, <2>4, <2>5, <2>8 DEF BudgetInvariant, MameClock, OpenMsxClock, LinkedClock
<1>3. QED  BY <1>1, <1>2

LEMMA SecondBudget == BudgetInvariant /\ CaptureInvariant /\ Second => BudgetInvariant'
<1> SUFFICES ASSUME BudgetInvariant, CaptureInvariant, Second PROVE BudgetInvariant'
  OBVIOUS
<1>1. /\ emu = "running" /\ seconds' = seconds + 1 /\ waited' = waited + pace
      /\ UNCHANGED <<opt, pace, pc, cause, frames_done>>
  BY DEF Second
<1>2. Clocked /\ Clocked'
  BY <1>1 DEF BudgetInvariant, Clocked
<1>3. UNCHANGED <<MameSeconds, CapSeconds>> /\ MameSeconds \in Nat /\ CapSeconds \in Nat
  BY <1>1, <1>2, BudgetsTyped DEF Clocked, MameSeconds, CapSeconds
<1>4. pace * (seconds + 1) = pace * seconds + pace /\ pace * seconds \in Nat
  BY <1>2, LaterSecond DEF Clocked
<1>5. ASSUME Is("mame") PROVE MameClock'
  <2>1. seconds < MameSeconds /\ ~Polling /\ pc \notin Starting
    BY <1>1, <1>5 DEF BudgetInvariant, MameClock, CaptureInvariant, Typed, AtPlace, MameInvariant, Is, Linked, Polling
  <2>2. emu' = IF seconds' = MameSeconds THEN "exited" ELSE emu
    BY <2>1 DEF Second
  <2>3. pc = "await_stop" => waited = pace * seconds
    BY <1>5 DEF BudgetInvariant, MameClock
  <2>4. pc = "await_stop" => waited' = pace' * seconds'
    BY <1>1, <1>4, <2>3
  <2> QED  BY <1>1, <1>2, <1>3, <2>1, <2>2, <2>4 DEF MameClock, Clocked
<1>6. ASSUME Is("openmsx") PROVE OpenMsxClock'
  <2>1. ~Awaiting
    BY <1>6 DEF CaptureInvariant, Typed, AtPlace, Is, Linked, Awaiting
  <2>2. seconds <= CapSeconds
    BY <2>1 DEF Second
  <2>3. waited = pace * seconds
    BY <1>6 DEF BudgetInvariant, OpenMsxClock
  <2>4. waited' = pace' * seconds'
    BY <1>1, <1>4, <2>3
  <2> QED  BY <1>1, <1>2, <1>3, <2>2, <2>4 DEF OpenMsxClock, Clocked
<1>7. MameClock' /\ OpenMsxClock'
  BY <1>1, <1>5, <1>6 DEF MameClock, OpenMsxClock, Is
<1>8. LinkedClock'
  BY <1>1 DEF BudgetInvariant, LinkedClock
<1>9. BudgetSuffices'
  <2>1. opt.rate \in {50, 60} /\ opt.frames \in Nat
    BY <1>2, OptionsTyped DEF Clocked
  <2>2. (seconds + 1) * opt.rate = seconds * opt.rate + opt.rate
    BY <1>2, <2>1 DEF Clocked
  <2>3. ASSUME cause = "budget" PROVE (FramesRun + Rounding)' >= opt.frames
    <3>1. CASE Is("mame")
      <4>1. FramesRun = seconds * opt.rate /\ FramesRun' = (seconds + 1) * opt.rate
            /\ Rounding = opt.rate - 1 /\ Rounding' = opt.rate - 1
        BY <1>1, <3>1 DEF FramesRun, Rounding, Is
      <4>2. seconds * opt.rate \in Nat /\ seconds * opt.rate + (opt.rate - 1) >= opt.frames
        BY <1>2, <2>1, <2>3, <4>1 DEF BudgetInvariant, BudgetSuffices, Clocked
      <4>3. (seconds + 1) * opt.rate + (opt.rate - 1) >= opt.frames
        BY <2>1, <2>2, <4>2
      <4> QED  BY <4>1, <4>3
    <3>2. CASE ~Is("mame")
      BY <1>1, <1>2, <2>1, <2>3, <3>2
         DEF BudgetInvariant, BudgetSuffices, FramesRun, Rounding, Is, Clocked
    <3> QED  BY <3>1, <3>2
  <2> QED  BY <1>1, <2>3 DEF BudgetInvariant, BudgetSuffices, SlowestAllowed, Is
<1>10. QED  BY <1>2, <1>7, <1>8, <1>9 DEF BudgetInvariant

\* The stop is not read: MAME has gone, for its seconds have run, or is given up.
LEMMA ReadStopBudget == BudgetInvariant /\ CaptureInvariant /\ MameReadStop => BudgetInvariant'
<1> SUFFICES ASSUME BudgetInvariant, CaptureInvariant, MameReadStop PROVE BudgetInvariant'
  OBVIOUS
<1>1. /\ pc = "await_stop" /\ pc' = "await_memory" /\ waited' = 0
      /\ UNCHANGED <<opt, pace, seconds, emu, frames_done>>
  BY DEF MameReadStop, ReadThenSend
<1>2. Is("mame") /\ Clocked /\ Clocked'
  BY <1>1 DEF BudgetInvariant, Clocked, CaptureInvariant, Typed, AtPlace, Is, Linked
<1>3. /\ MameSeconds \in Nat /\ MameSeconds >= 2 /\ MameSeconds * opt.rate + opt.rate - 1 >= opt.frames
      /\ ReadTimeout \in Nat /\ ReadTimeout >= 12 * MameSeconds
      /\ opt.rate \in {50, 60} /\ opt.frames \in Nat
  BY <1>2, BudgetsTyped, OptionsTyped DEF Clocked
<1>4. PICK answer \in Reads :
        cause' = CASE answer = "eof" -> "budget"
                   [] answer = "timeout" -> IF emu = "hung" THEN "hung" ELSE "clock"
                   [] OTHER -> cause
  BY DEF MameReadStop
<1>5. CASE answer = "eof"
  <2>1. emu = "exited"
    <3>1. wire \in Seq({"stop", "ok"} \cup Choices)
      BY DEF CaptureInvariant, Typed, Values
    <3>2. wire # <<>> => Head(wire) # "eof"
      <4>1. wire # <<>> => Head(wire) \in {"stop", "ok"} \cup Choices
        BY <3>1
      <4> QED  BY <4>1 DEF Choices, Verdicts
    <3> QED  BY <1>4, <1>5, <3>2 DEF Reads
  <2>2. seconds >= MameSeconds
    BY <1>2, <2>1 DEF BudgetInvariant, MameClock
  <2>3. seconds * opt.rate >= MameSeconds * opt.rate
    <3>1. CASE opt.rate = 50
      BY <1>2, <1>3, <2>2, <3>1 DEF Clocked
    <3>2. CASE opt.rate = 60
      BY <1>2, <1>3, <2>2, <3>2 DEF Clocked
    <3> QED  BY <1>3, <3>1, <3>2
  <2>4. seconds * opt.rate + (opt.rate - 1) >= opt.frames
    <3>1. seconds * opt.rate \in Nat /\ MameSeconds * opt.rate \in Nat
      BY <1>2, <1>3 DEF Clocked
    <3> QED  BY <1>3, <2>3, <3>1
  <2>5. (FramesRun + Rounding)' >= opt.frames
    BY <1>1, <1>2, <2>4 DEF FramesRun, Rounding, Is
  <2>6. cause' = "budget"
    BY <1>4, <1>5
  <2>7. BudgetSuffices'
    BY <1>1, <2>5, <2>6 DEF BudgetSuffices
  <2>8. MameClock' /\ OpenMsxClock' /\ LinkedClock'
    BY <1>1, <1>2, <2>6
       DEF BudgetInvariant, MameClock, OpenMsxClock, LinkedClock, Is, MameSeconds, Starting
  <2> QED  BY <1>2, <2>7, <2>8 DEF BudgetInvariant
<1>6. CASE answer # "eof"
  <2>1. cause' \in {cause, "hung"} \/ (cause' = "clock" /\ answer = "timeout" /\ emu # "hung")
    BY <1>4, <1>6
  <2>2. ASSUME answer = "timeout", emu # "hung" PROVE pace >= 12
    <3>1. Due /\ emu = "running"
      <4>1. wire \in Seq({"stop", "ok"} \cup Choices)
        BY DEF CaptureInvariant, Typed, Values
      <4>2. wire # <<>> => Head(wire) # "timeout"
        <5>1. wire # <<>> => Head(wire) \in {"stop", "ok"} \cup Choices
          BY <4>1
        <5> QED  BY <5>1 DEF Choices, Verdicts
      <4> QED  BY <1>4, <2>2, <4>2 DEF Reads, Due
    <3>2. waited + pace >= ReadTimeout
      BY <2>2, <3>1 DEF Due
    <3>3. waited = pace * seconds /\ seconds < MameSeconds
      BY <1>1, <1>2, <3>1 DEF BudgetInvariant, MameClock
    <3>4. pace * (seconds + 1) = pace * seconds + pace /\ pace * seconds \in Nat
      BY <1>2, LaterSecond DEF Clocked
    <3>5. 12 * MameSeconds <= pace * (seconds + 1)
      BY <1>2, <1>3, <3>2, <3>3, <3>4 DEF Clocked
    <3>6. seconds + 1 \in Nat /\ seconds + 1 <= MameSeconds /\ MameSeconds > 0 /\ 12 \in Nat /\ pace \in Nat
      BY <1>2, <1>3, <3>3 DEF Clocked
    <3> QED  BY <1>3, <3>5, <3>6, SlowerBy
  <2>3. BudgetSuffices'
    <3>1. cause' = "clock" => pace' >= SlowestAllowed'
      BY <1>1, <1>2, <2>1, <2>2 DEF BudgetInvariant, BudgetSuffices, SlowestAllowed, Is
    <3>2. cause' = "budget" => (FramesRun + Rounding)' >= opt.frames'
      BY <1>1, <1>2, <2>1 DEF BudgetInvariant, BudgetSuffices, FramesRun, Rounding, Is
    <3> QED  BY <3>1, <3>2 DEF BudgetSuffices
  <2>4. MameClock' /\ OpenMsxClock' /\ LinkedClock'
    BY <1>1, <1>2
       DEF BudgetInvariant, MameClock, OpenMsxClock, LinkedClock, Is, MameSeconds, Linked, Starting
  <2> QED  BY <1>2, <2>3, <2>4 DEF BudgetInvariant
<1>7. QED  BY <1>5, <1>6

\* The child is started with a budget of its own, or the run fails.
MameStarts == MameConnect \/ MameHandshake \/ MameContinue

LEMMA StartBudget ==
  BudgetInvariant /\ CaptureInvariant /\ (MameStarts \/ OpenMsxStart) => BudgetInvariant'
<1> SUFFICES ASSUME BudgetInvariant, CaptureInvariant, MameStarts \/ OpenMsxStart
             PROVE  BudgetInvariant'
  OBVIOUS
<1>1. /\ pc \in Starting /\ UNCHANGED <<opt, pace, seconds, waited, cause, frames_done>>
      /\ emu' # "exited"
  <2>1. CASE MameConnect \/ OpenMsxStart
    BY <2>1 DEF MameConnect, OpenMsxStart, Starting
  <2>2. CASE MameHandshake
    BY <2>2 DEF MameHandshake, HandshakeNext, Starting
  <2>3. CASE MameContinue
    BY <2>3 DEF MameContinue, Starting
  <2> QED  BY <2>1, <2>2, <2>3 DEF MameStarts
<1>2. Clocked /\ Clocked'
  BY <1>1 DEF BudgetInvariant, Clocked
<1>3. UNCHANGED <<MameSeconds, CapSeconds>> /\ MameSeconds \in Nat /\ MameSeconds >= 2
  BY <1>1, <1>2, BudgetsTyped DEF Clocked, MameSeconds, CapSeconds
<1>4. Is("mame") => seconds = 0 /\ waited = pace * seconds
  BY <1>1 DEF BudgetInvariant, MameClock
<1>5. MameClock'
  <2>1. Is("mame") => seconds' = 0 /\ seconds' < MameSeconds' /\ waited' = pace' * seconds'
    BY <1>1, <1>3, <1>4
  <2> QED  BY <1>1, <2>1 DEF MameClock, Is, Starting
<1>6. OpenMsxClock' /\ LinkedClock'
  BY <1>1, <1>3 DEF BudgetInvariant, OpenMsxClock, LinkedClock, Is
<1>7. BudgetSuffices'
  BY <1>1 DEF BudgetInvariant, BudgetSuffices, FramesRun, Rounding, SlowestAllowed, Is
<1>8. QED  BY <1>2, <1>5, <1>6, <1>7 DEF BudgetInvariant

\* openMSX's polls give up when the emulated time is over, or the wall clock's.
LEMMA PollBudget == BudgetInvariant /\ CaptureInvariant /\ (PollTime \/ PollDeadline) => BudgetInvariant'
<1> SUFFICES ASSUME BudgetInvariant, CaptureInvariant, PollTime \/ PollDeadline
             PROVE  BudgetInvariant'
  OBVIOUS
<1>1. /\ pc \in {"poll_time", "poll_deadline"}
      /\ UNCHANGED <<opt, pace, seconds, waited, emu, frames_done>>
  BY DEF PollTime, PollDeadline, child
<1>2. Is("openmsx") /\ Is("openmsx")' /\ ~Is("mame") /\ ~Is("mame")'
  BY <1>1 DEF CaptureInvariant, Typed, AtPlace, Is, Linked, Starting
<1>3. Clocked /\ Clocked'
  BY <1>1 DEF BudgetInvariant, Clocked
<1>4. /\ CapSeconds \in Nat /\ CapSeconds >= 5 /\ CapSeconds * 50 >= opt.frames
      /\ Deadline \in Nat /\ Deadline >= 5 * CapSeconds /\ opt.frames \in Nat
  BY <1>3, BudgetsTyped, OptionsTyped DEF Clocked
<1>5. waited = pace * seconds /\ seconds <= CapSeconds + 1
  BY <1>2 DEF BudgetInvariant, OpenMsxClock
<1>6. UNCHANGED CapSeconds
  BY <1>1 DEF CapSeconds
<1>7. MameClock' /\ OpenMsxClock' /\ LinkedClock'
  BY <1>1, <1>2, <1>5, <1>6 DEF MameClock, OpenMsxClock, LinkedClock, Is, Linked
<1>8. FramesRun = seconds * 50 /\ Rounding = 0 /\ FramesRun' = seconds * 50 /\ Rounding' = 0
  BY <1>1, <1>2 DEF FramesRun, Rounding, Is
<1>9. SlowestAllowed = 5 /\ SlowestAllowed' = 5
  BY <1>2 DEF SlowestAllowed
<1>10. CASE UNCHANGED cause
  BY <1>1, <1>7, <1>3, <1>8, <1>9, <1>10 DEF BudgetInvariant, BudgetSuffices
<1>11. CASE cause' = "budget" /\ seconds > CapSeconds
  <2>1. seconds * 50 + 0 >= opt.frames
    BY <1>3, <1>4, <1>11 DEF Clocked
  <2>2. BudgetSuffices'
    BY <1>1, <1>8, <1>11, <2>1 DEF BudgetSuffices
  <2> QED  BY <1>3, <1>7, <2>2 DEF BudgetInvariant
<1>12. CASE cause' = "clock" /\ waited > Deadline
  <2>1. PICK p \in Nat, s \in Nat, c \in Nat : p = pace /\ s = seconds /\ c = CapSeconds
    BY <1>3, <1>4 DEF Clocked
  <2>2. 5 * c < p * s /\ s <= c + 1 /\ c >= 5
    <3>1. 5 * CapSeconds < waited
      BY <1>3, <1>4, <1>12 DEF Clocked
    <3> QED  BY <1>4, <1>5, <2>1, <3>1
  <2>3. p >= 5
    <3> SUFFICES ASSUME p <= 4 PROVE FALSE
      BY <2>1
    <3>1. p * s <= 4 * s
      <4>1. CASE p = 0 \/ p = 1 \/ p = 2
        BY <4>1
      <4>2. CASE p = 3 \/ p = 4
        BY <4>2
      <4> QED  BY <4>1, <4>2
    <3>2. p * s \in Nat
      OBVIOUS
    <3> QED  BY <2>2, <3>1, <3>2
  <2>4. BudgetSuffices'
    BY <1>1, <1>9, <1>12, <2>1, <2>3 DEF BudgetSuffices
  <2> QED  BY <1>3, <1>7, <2>4 DEF BudgetInvariant
<1>13. QED
  BY <1>10, <1>11, <1>12 DEF PollTime, PollDeadline

LEMMA ChildBudget == BudgetInvariant /\ CaptureInvariant /\ ChildNext => BudgetInvariant'
<1> SUFFICES ASSUME BudgetInvariant, CaptureInvariant, ChildNext PROVE BudgetInvariant'
  OBVIOUS
<1>1. pc \in {"await_memory", "await_off"} => Is("mame")
  BY DEF CaptureInvariant, Typed, AtPlace, Is, Linked
<1>2. CASE MameStarts \/ OpenMsxStart
  BY <1>2, StartBudget
<1>3. CASE MameReadStop
  BY <1>3, ReadStopBudget
<1>4. CASE MameReadMemory
  BY <1>1, <1>4, QuietBudget DEF MameReadMemory, ReadThenSend, Starting
<1>5. CASE MameReadOff
  <2>1. emu' \in {emu, "killed"} /\ waited' = 0 /\ pc = "await_off" /\ pc' = "picture"
        /\ UNCHANGED <<opt, pace, seconds, cause, frames_done>>
    BY <1>5 DEF MameReadOff, ReadThenSend, Killed
  <2> QED  BY <1>1, <2>1, QuietBudget DEF Starting
<1>6. CASE MamePicture
  BY <1>6, QuietBudget DEF MamePicture, child, Starting
<1>7. CASE PollVerdict
  BY <1>7, QuietBudget DEF PollVerdict, child, Starting
<1>8. CASE PollTime \/ PollDeadline
  BY <1>8, PollBudget
<1>9. CASE TearDown
  BY <1>9, QuietBudget DEF TearDown, Starting
<1>10. CASE ReadBlock
  BY <1>10, QuietBudget DEF ReadBlock, child, Starting
<1>11. CASE ConsoleFails
  BY <1>11, QuietBudget DEF ConsoleFails, Killed, Starting
<1>12. CASE OpenMsxPicture
  BY <1>12, QuietBudget DEF OpenMsxPicture, Killed, Starting
<1>13. CASE WriteTrace
  <2>1. pc' \in {"failed", "finish"} /\ UNCHANGED <<opt, pace, emu, seconds, cause, waited, frames_done>>
    BY <1>13 DEF WriteTrace, child
  <2> QED  BY <2>1, QuietBudget DEF Starting
<1>14. QED
  BY <1>2, <1>3, <1>4, <1>5, <1>6, <1>7, <1>8, <1>9, <1>10, <1>11, <1>12, <1>13
     DEF ChildNext, MameStarts

LEMMA BudgetStep == BudgetInvariant /\ CaptureInvariant /\ [Next]_vars => BudgetInvariant'
<1> SUFFICES ASSUME BudgetInvariant, CaptureInvariant, [Next]_vars PROVE BudgetInvariant'
  OBVIOUS
<1>1. CASE LinkedNext
  BY <1>1, LinkedBudget
<1>2. CASE ChildNext
  BY <1>2, ChildBudget
<1>3. CASE Finish
  BY <1>3, QuietBudget DEF Finish, child, Starting
<1>4. CASE WriteFails
  BY <1>4, QuietBudget DEF WriteFails, child, Starting
<1>5. CASE \E w \in Choices : Execute(w)
  <2>1. emu' \in {emu, "stopped"} /\ UNCHANGED <<opt, pace, progress, seconds>>
    BY <1>5 DEF Execute
  <2> QED  BY <2>1, QuietBudget DEF progress
<1>6. CASE Second
  BY <1>6, SecondBudget
<1>7. CASE Answer
  BY <1>7, QuietBudget DEF Answer, progress
<1>8. CASE Hang
  BY <1>8, QuietBudget DEF Hang, progress
<1>9. CASE UNCHANGED vars
  BY <1>9, QuietBudget DEF vars, child, progress
<1>10. QED
  BY <1>1, <1>2, <1>3, <1>4, <1>5, <1>6, <1>7, <1>8, <1>9 DEF Next, Adapter, Emulator

\* An emulator that has not hung and is no slower than allowed for is never given
\* up for the clock, and a budget that is used up covers the frames asked for.
THEOREM VerdictBudgetsSuffice == Spec => []BudgetSuffices
<1>1. Spec => []CaptureInvariant
  BY CaptureInvariantHolds
<1>2. BudgetInvariant => BudgetSuffices
  BY DEF BudgetInvariant
<1>3. QED
  BY BudgetInit, BudgetStep, <1>1, <1>2, PTL DEF Spec

=============================================================================
