----------------------------- MODULE VramCache -----------------------------
(***************************************************************************)
(* VramCache (crates/morepork/src/system/gb/vram.rs): the Game Boy's video *)
(* memory at any row of a trace, replayed from the writes the trace        *)
(* records. One pass over the trace leaves checkpoints behind; a query     *)
(* replays from the last answer or from a checkpoint, whichever the code   *)
(* picks, and its answer becomes the next starting point.                  *)
(*                                                                         *)
(* Rows are numbered from 0. A snapshot is [data, entry]: the memory       *)
(* before the write of row `entry`.                                        *)
(***************************************************************************)
EXTENDS Integers, FiniteSets, Sequences

CONSTANTS
  Addresses,  \* the bytes of video memory, 0x8000 to 0x9FFF
  Bytes,      \* what a byte may hold
  Zero,       \* the byte memory starts with
  None,       \* no write, no answer
  Interval,   \* CHECKPOINT_INTERVAL: 4096
  Traces,     \* the stores: [writes, boundaries]
  MaxEntry    \* bound: rows asked about, some behind the end

\* writes[r + 1] is the write of row r, None if it goes elsewhere or nowhere.
ASSUME VramAssumption ==
  /\ Zero \in Bytes /\ None \notin [addr : Addresses, data : Bytes]
  /\ Interval \in Nat \ {0} /\ MaxEntry \in Nat
  /\ \A t \in Traces : /\ t.writes \in Seq([addr : Addresses, data : Bytes] \cup {None})
                       /\ t.boundaries \in Seq(Nat)

VARIABLES
  store,
  phase,        \* "building", "idle" or "replaying"
  i,            \* the row the pass, or the replay, is at
  vram,         \* the memory so far
  checkpoints,
  next_boundary_idx,
  last_checkpoint_entry,
  wanted,       \* the row asked about
  last_result   \* None before the first answer

vars == <<store, phase, i, vram, checkpoints, next_boundary_idx,
          last_checkpoint_entry, wanted, last_result>>

EntryCount == Len(store.writes)

ZeroMemory == [a \in Addresses |-> Zero]
Written(data, w) == IF w = None THEN data ELSE [data EXCEPT ![w.addr] = w.data]

Init ==
  /\ store \in Traces
  /\ phase = "building"
  /\ i = 0
  /\ vram = ZeroMemory
  /\ checkpoints = <<[data |-> ZeroMemory, entry |-> 0]>>
  /\ next_boundary_idx = 1
  /\ last_checkpoint_entry = 0
  /\ wanted = None
  /\ last_result = None

-----------------------------------------------------------------------------
(* build. The boundaries at row i are passed, however many there are; the  *)
(* pass leaves a checkpoint at it, or Interval rows after the last one.    *)
AtRow == phase = "building" /\ i < EntryCount

BoundariesHere ==
  {b \in next_boundary_idx..Len(store.boundaries) :
     \A c \in next_boundary_idx..b : store.boundaries[c] = i}

\* Mutant: the next checkpoint is taken one row late.
CheckpointDueLate ==
  BoundariesHere # {} \/ (i > 0 /\ i - last_checkpoint_entry > Interval)

CheckpointDue ==
  BoundariesHere # {} \/ (i > 0 /\ i - last_checkpoint_entry >= Interval)

Checkpoint == [data |-> vram, entry |-> i]

\* The checkpoints are in order of their rows, so that what the final sort and
\* dedup_by_key change is the second checkpoint of a row: the first is kept.
AddCheckpoint(cp) ==
  checkpoints' = IF checkpoints[Len(checkpoints)].entry = cp.entry THEN checkpoints
                 ELSE Append(checkpoints, cp)

\* Mutant: the write is applied before the checkpoint is taken.
PassRowWriteFirst ==
  /\ AtRow
  /\ IF CheckpointDue
     THEN /\ AddCheckpoint([data |-> Written(vram, store.writes[i + 1]), entry |-> i])
          /\ last_checkpoint_entry' = i
     ELSE UNCHANGED <<checkpoints, last_checkpoint_entry>>
  /\ vram' = Written(vram, store.writes[i + 1])
  /\ next_boundary_idx' = next_boundary_idx + Cardinality(BoundariesHere)
  /\ i' = i + 1
  /\ UNCHANGED <<store, phase, wanted, last_result>>

PassRow ==
  /\ AtRow
  /\ IF CheckpointDue
     THEN AddCheckpoint(Checkpoint) /\ last_checkpoint_entry' = i
     ELSE UNCHANGED <<checkpoints, last_checkpoint_entry>>
  /\ next_boundary_idx' = next_boundary_idx + Cardinality(BoundariesHere)
  /\ vram' = Written(vram, store.writes[i + 1])
  /\ i' = i + 1
  /\ UNCHANGED <<store, phase, wanted, last_result>>

PassEnds ==
  /\ phase = "building" /\ i = EntryCount
  /\ AddCheckpoint(Checkpoint)
  /\ phase' = "idle"
  /\ UNCHANGED <<store, i, vram, next_boundary_idx, last_checkpoint_entry, wanted,
                 last_result>>

-----------------------------------------------------------------------------
(* at_entry.                                                               *)

\* partition_point: the last checkpoint at or before the row.
NearestCheckpoint(entry) ==
  checkpoints[CHOOSE k \in 1..Len(checkpoints) :
                /\ checkpoints[k].entry <= entry
                /\ k < Len(checkpoints) => checkpoints[k + 1].entry > entry]

\* Mutant: the last answer is taken even when it lies behind the row.
StartingPointLast(entry) == IF last_result # None THEN last_result ELSE NearestCheckpoint(entry)

StartingPoint(entry) ==
  IF last_result # None /\ last_result.entry <= entry
  THEN last_result ELSE NearestCheckpoint(entry)

AtEntry(entry) ==
  /\ phase = "idle"
  /\ ~(last_result # None /\ last_result.entry = entry)
  /\ vram' = StartingPoint(entry).data
  /\ i' = StartingPoint(entry).entry
  /\ wanted' = entry
  /\ phase' = "replaying"
  /\ UNCHANGED <<store, checkpoints, next_boundary_idx, last_checkpoint_entry, last_result>>

\* The fast path: the row of the last answer is asked about again.
AtLastEntry(entry) ==
  /\ phase = "idle"
  /\ last_result # None /\ last_result.entry = entry
  /\ wanted' = entry
  /\ UNCHANGED <<store, phase, i, vram, checkpoints, next_boundary_idx,
                 last_checkpoint_entry, last_result>>

End == IF wanted < EntryCount THEN wanted ELSE EntryCount

Replay ==
  /\ phase = "replaying" /\ i < End
  /\ vram' = Written(vram, store.writes[i + 1])
  /\ i' = i + 1
  /\ UNCHANGED <<store, phase, checkpoints, next_boundary_idx, last_checkpoint_entry,
                 wanted, last_result>>

Answer ==
  /\ phase = "replaying" /\ i >= End
  /\ last_result' = [data |-> vram, entry |-> wanted]
  /\ phase' = "idle"
  /\ UNCHANGED <<store, i, vram, checkpoints, next_boundary_idx, last_checkpoint_entry, wanted>>

Next ==
  \/ PassRow
  \/ PassEnds
  \/ \E entry \in 0..MaxEntry : AtEntry(entry) \/ AtLastEntry(entry)
  \/ Replay
  \/ Answer

Spec == Init /\ [][Next]_vars

-----------------------------------------------------------------------------
Memory == [Addresses -> Bytes]
Snapshots == [data : Memory, entry : Nat]

TypeOK ==
  /\ store \in Traces
  /\ phase \in {"building", "idle", "replaying"}
  /\ i \in Nat /\ last_checkpoint_entry \in Nat /\ next_boundary_idx \in Nat
  /\ vram \in Memory
  /\ checkpoints \in Seq(Snapshots)
  /\ wanted \in Nat \cup {None}
  /\ last_result \in Snapshots \cup {None}

\* The rows before n that write byte a, and the memory they leave: a byte holds
\* what the last of them wrote.
WritesTo(a, n) ==
  {r \in 0..EntryCount - 1 : r < n /\ store.writes[r + 1] # None
                                   /\ store.writes[r + 1].addr = a}

Latest(rows) == CHOOSE r \in rows : \A q \in rows : q <= r

ByteAt(a, n) ==
  IF WritesTo(a, n) = {} THEN Zero ELSE store.writes[Latest(WritesTo(a, n)) + 1].data

MemoryAt(n) == [a \in Addresses |-> ByteAt(a, n)]

\* Each checkpoint holds the memory in front of its row, and they lie in the
\* order partition_point relies on, the first at row 0.
CheckpointsExact ==
  /\ Len(checkpoints) > 0 /\ checkpoints[1].entry = 0
  /\ \A k \in 1..Len(checkpoints) : checkpoints[k].data = MemoryAt(checkpoints[k].entry)
  /\ \A k, l \in 1..Len(checkpoints) : k < l => checkpoints[k].entry < checkpoints[l].entry

\* Whatever was asked before, in whatever order, an answer is the memory that
\* the writes in front of the row leave, rows behind the end included.
AnswersExact == last_result # None => last_result.data = MemoryAt(last_result.entry)

\* A query that goes back replays at most an interval of rows, wherever the
\* frames lie: no row is further than that behind a checkpoint.
CheckpointsClose ==
  \A r \in 0..IF phase = "building" THEN i ELSE EntryCount :
    \E k \in 1..Len(checkpoints) : r - checkpoints[k].entry \in 0..Interval

\* With the above, what each step preserves: the memory the pass or a replay is
\* at is that of its row, the checkpoint last taken is at most an interval behind
\* the pass, and partition_point finds a checkpoint for every row.
PassAtItsRow ==
  phase = "building" =>
    /\ i <= EntryCount
    /\ last_result = None
    /\ last_checkpoint_entry = checkpoints[Len(checkpoints)].entry
    /\ last_checkpoint_entry <= i /\ i - last_checkpoint_entry <= Interval
    /\ i > 0 => last_checkpoint_entry < i

ReplayAtItsRow == phase = "replaying" => wanted \in Nat /\ i <= wanted

HasNearest ==
  \A entry \in 0..MaxEntry :
    \E k \in 1..Len(checkpoints) :
      /\ checkpoints[k].entry <= entry
      /\ k < Len(checkpoints) => checkpoints[k + 1].entry > entry

IInv ==
  /\ TypeOK
  /\ CheckpointsExact /\ AnswersExact /\ CheckpointsClose
  /\ vram = MemoryAt(i)
  /\ PassAtItsRow /\ ReplayAtItsRow /\ HasNearest
=============================================================================
