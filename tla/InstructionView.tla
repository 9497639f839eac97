-------------------------- MODULE InstructionView --------------------------
(***************************************************************************)
(* DownsampledStore (crates/morepork/src/downsample.rs): a view of a trace *)
(* with one row per instruction. It is built in one pass over the          *)
(* instruction-address column, keeping the rows where the address changes; *)
(* then rows and frame boundaries are translated through the index map.    *)
(* Rows are numbered from 0 as in the code, the map's cells from 1.        *)
(***************************************************************************)
EXTENDS Integers, FiniteSets, Sequences

CONSTANTS
  Addresses,  \* instruction addresses
  None,       \* Option::None
  Traces      \* the inner stores: [count, addr, boundaries]

\* A store has an address column or none; its frames are in order.
ASSUME TracesAssumption ==
  \A t \in Traces :
    /\ t.count \in Nat
    /\ t.addr = None \/ (t.addr \in Seq(Addresses) /\ Len(t.addr) = t.count)
    /\ t.boundaries \in Seq(0..t.count)
    /\ \A f, g \in 1..Len(t.boundaries) : f < g => t.boundaries[f] <= t.boundaries[g]

VARIABLES
  inner,      \* the address of every row, and the frame boundaries in order
  row,        \* the row the pass is at
  prev_addr,
  index_map,
  built,      \* the pass is over
  answer      \* what the last query returned

vars == <<inner, row, prev_addr, index_map, built, answer>>

Rows == 0..inner.count - 1

\* Without an address column every row is an instruction of its own.
Address(r) == IF inner.addr = None THEN r ELSE inner.addr[r + 1]

Init ==
  /\ inner \in Traces
  /\ row = 0
  /\ prev_addr = None
  /\ index_map = <<>>
  /\ built = FALSE
  /\ answer = None

FirstRow ==  \* always included
  /\ ~built /\ row = 0 /\ inner.count > 0 /\ inner.addr # None
  /\ index_map' = <<0>>
  /\ prev_addr' = Address(0)
  /\ row' = 1
  /\ UNCHANGED <<inner, built, answer>>

PassThrough ==
  /\ ~built /\ row = 0 /\ inner.count > 0 /\ inner.addr = None
  /\ index_map' = [d \in 1..inner.count |-> d - 1]
  /\ row' = inner.count
  /\ UNCHANGED <<inner, prev_addr, built, answer>>

\* Mutant: the address compared with stays that of the first row.
NextRowStale ==
  /\ ~built /\ row > 0 /\ row \in Rows
  /\ index_map' = IF Address(row) # prev_addr THEN Append(index_map, row) ELSE index_map
  /\ row' = row + 1
  /\ UNCHANGED <<inner, prev_addr, built, answer>>

NextRow ==
  /\ ~built /\ row > 0 /\ row \in Rows
  /\ IF Address(row) # prev_addr
     THEN index_map' = Append(index_map, row) /\ prev_addr' = Address(row)
     ELSE UNCHANGED <<index_map, prev_addr>>
  /\ row' = row + 1
  /\ UNCHANGED <<inner, built, answer>>

Build ==
  /\ ~built /\ row = inner.count
  /\ built' = TRUE
  /\ UNCHANGED <<inner, row, prev_addr, index_map, answer>>

-----------------------------------------------------------------------------
(* binary_search on the map: where r is in it, or would have to be         *)
(* inserted, is how many of its rows come before r.                        *)
Before(r) ==
  CHOOSE k \in 0..Len(index_map) : \A d \in 1..Len(index_map) : index_map[d] < r <=> d <= k

\* index_map.get, through which the accessors read too: past the end they
\* report no row, an empty value.
RowOf(d) == IF d < Len(index_map) THEN index_map[d + 1] ELSE None

Found(r) == Before(r) < Len(index_map) /\ index_map[Before(r) + 1] = r

OriginalIndex(d) ==
  /\ built
  /\ answer' = [view |-> d, original |-> RowOf(d)]
  /\ UNCHANGED <<inner, row, prev_addr, index_map, built>>

\* Mutant: a row between two instructions belongs to the later one.
InstructionOfNext(r) == Before(r)

InstructionOf(r) ==
  IF Found(r) THEN Before(r) ELSE IF Before(r) > 0 THEN Before(r) - 1 ELSE 0

DownsampledIndex(r) ==
  /\ built
  /\ answer' = [row |-> r, instruction |-> InstructionOf(r)]
  /\ UNCHANGED <<inner, row, prev_addr, index_map, built>>

\* Mutant: a boundary inside an instruction is put before that instruction.
MappedBoundaryEarly(b) == InstructionOf(b)

MappedBoundary(b) == Before(b)

FrameBoundaries ==
  /\ built
  /\ LET kept == {f \in 1..Len(inner.boundaries) :
                    MappedBoundary(inner.boundaries[f]) < Len(index_map)}
     IN  answer' = [boundaries |-> [f \in 1..Cardinality(kept) |->
                                      MappedBoundary(inner.boundaries[f])]]
  /\ UNCHANGED <<inner, row, prev_addr, index_map, built>>

Next ==
  \/ FirstRow
  \/ PassThrough
  \/ NextRow
  \/ Build
  \/ \E d \in 0..Len(index_map) : OriginalIndex(d)
  \/ \E r \in Rows : DownsampledIndex(r)
  \/ FrameBoundaries

Spec == Init /\ [][Next]_vars

-----------------------------------------------------------------------------
TypeOK ==
  /\ inner \in Traces
  /\ row \in 0..inner.count
  /\ prev_addr \in Addresses \cup {None}
  /\ index_map \in Seq(Rows)
  /\ built \in BOOLEAN

(* The rows of the instruction at place d of the map, as far as the pass is. *)
End(d) == IF d = Len(index_map) THEN row ELSE index_map[d + 1]
InstructionRows(d) == index_map[d]..End(d) - 1

Growing ==
  /\ row > 0 => Len(index_map) > 0 /\ index_map[1] = 0
  /\ \A d \in 1..Len(index_map) : index_map[d] < row
  /\ \A d, e \in 1..Len(index_map) : d < e => index_map[d] < index_map[e]

OneAddress ==
  \A d \in 1..Len(index_map) :
    \A r \in InstructionRows(d) : Address(r) = Address(index_map[d])

Changing ==
  \A d \in 1..Len(index_map) - 1 : Address(index_map[d]) # Address(index_map[d + 1])

\* The pass keeps one row per instruction: the map grows from row 0, all rows
\* from one place to the next have one address, those of the last up to where
\* the pass is, and neighbours differ in theirs.
SplitsAtChanges == Growing /\ OneAddress /\ Changing

\* "Returns the instruction that contains this T-cycle": the row asked about
\* lies in the instruction returned, and all rows from the instruction's first
\* to it have one address.
AnswerContainsRow ==
  (answer # None /\ "row" \in DOMAIN answer) =>
    LET d == answer.instruction + 1
    IN  /\ d \in 1..Len(index_map)
        /\ answer.row \in InstructionRows(d)
        /\ \A q \in index_map[d]..answer.row : Address(q) = Address(answer.row)

\* Every row the pass has seen belongs to an instruction, the address to compare
\* with is that of the row before, and nothing is asked before the pass is over:
\* with the above, what each step preserves.
Covering ==
  \A r \in 0..row - 1 : \E d \in 1..Len(index_map) : r \in InstructionRows(d)

Passing ==
  /\ row = 0 => index_map = <<>>
  /\ (row > 0 /\ inner.addr # None) => prev_addr = Address(row - 1)
  /\ (row > 0 /\ inner.addr = None) => row = inner.count
  /\ built => row = inner.count
  /\ answer # None => built

IInv == TypeOK /\ SplitsAtChanges /\ Covering /\ Passing /\ AnswerContainsRow

\* Every instruction of the view is in the frame its first row is in: as many
\* mapped boundaries are at or before it as original ones at or before its row.
InstructionsStayInTheirFrame ==
  (answer # None /\ "boundaries" \in DOMAIN answer) =>
    \A d \in 0..Len(index_map) - 1 :
      Cardinality({f \in 1..Len(answer.boundaries) : answer.boundaries[f] <= d})
        = Cardinality({f \in 1..Len(inner.boundaries) :
                         inner.boundaries[f] <= index_map[d + 1]})
=============================================================================
