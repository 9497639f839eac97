-------------------------- MODULE TraceComparison --------------------------
(***************************************************************************)
(* TraceComparison (crates/morepork/src/comparison.rs): two traces seen    *)
(* through index maps, built by collapsing each to instructions, dropping  *)
(* rows in front until the two start together and cutting the longer one.  *)
(* A map is a sequence of rows, rows counted from 0.                       *)
(*                                                                         *)
(* A trace is [trigger, addr, count, kinds, cols, chunk, bulk]: its        *)
(* sampling rate, the name of its address column (None if it has none), its*)
(* length, the types and the cells of its columns, the length of its chunks*)
(* and whether its store hands out whole columns (a file's does, a         *)
(* downsampled view of one does not).                                      *)
(* Sync is [mode, field, values]; a condition, field=value or field&mask,  *)
(* is met by the rows where the field has one of the values.               *)
(***************************************************************************)
EXTENDS ColumnTypes, Integers, FiniteSetsExt, SequencesExt

CONSTANTS
  None,
  Entry, AfterEntry,  \* header.entry_addrs of the system
  HeadRows,           \* how far align_by_pc looks for a common address: 100
  Pairs,              \* what to compare: [a, b, sync]
  Filters             \* the field lists compute_stats_filtered is called with

ASSUME HeadRowsAssumption == HeadRows \in Nat \ {0}

VARIABLES
  pair,
  stage,          \* "collapse", "sync", "truncate", "ready", "error" or "panicked"
  map_a, map_b,
  field_stats,    \* the count of differences by field, None before the first call
  first_filter,   \* the fields of the first call (history)
  overall         \* what overall_match_pct summed up: [diffs, total]

vars == <<pair, stage, map_a, map_b, field_stats, first_filter, overall>>

Fields(t) == DOMAIN t.cols
EntryCount(t) == t.count
Rows(t) == 0..t.count - 1
Cell(t, f, r) == t.cols[f][r + 1]
Numeric(t, f, r) == Reported("numeric", t.kinds[f], Cell(t, f, r))
Address(t, r) == Numeric(t, t.addr, r)

ASSUME TracesAssumption ==
  \A p \in Pairs : \A t \in {p.a, p.b} :
    /\ EntryCount(t) \in Nat
    /\ IsFiniteSet(Fields(t))
    /\ \A f \in Fields(t) : t.kinds[f] \in Kinds
    /\ t.chunk \in Nat \ {0}

\* None is no address and no table of counts.
ASSUME NoneAssumption ==
  \A p \in Pairs : \A t \in {p.a, p.b} :
    /\ t.addr # None => \A r \in Rows(t) : Address(t, r) # None
    /\ \A fields \in SUBSET Fields(t) : None \notin [fields -> Nat]

Init ==
  /\ pair \in Pairs
  /\ stage = "collapse"
  /\ map_a = <<>> /\ map_b = <<>>
  /\ field_stats = None /\ first_filter = None
  /\ overall = None

-----------------------------------------------------------------------------
(* Collapsing to instructions: row 0 and each row whose address differs    *)
(* from the row before.                                                    *)
Changes(t) == {r \in Rows(t) : r = 0 \/ Address(t, r) # Address(t, r - 1)}

CollapseIndices(t) ==
  LET indices[n \in 0..EntryCount(t)] ==
        IF n = 0 THEN <<>>
        ELSE IF n - 1 \in Changes(t) THEN Append(indices[n - 1], n - 1) ELSE indices[n - 1]
  IN  indices[EntryCount(t)]

AllRows(t) == [d \in 1..EntryCount(t) |-> d - 1]

\* Both traces are collapsed when their triggers differ.
Collapses(t, u) ==
  \/ t.trigger = "tcycle" /\ u.trigger # "tcycle"
  \/ t.trigger # u.trigger

StartMap(t, u) == IF Collapses(t, u) THEN CollapseIndices(t) ELSE AllRows(t)

CannotCollapse(t, u) == Collapses(t, u) /\ t.addr = None

Collapse ==
  /\ stage = "collapse"
  /\ ~CannotCollapse(pair.a, pair.b) /\ ~CannotCollapse(pair.b, pair.a)
  /\ map_a' = StartMap(pair.a, pair.b)
  /\ map_b' = StartMap(pair.b, pair.a)
  /\ stage' = "sync"
  /\ UNCHANGED <<pair, field_stats, first_filter, overall>>

CollapseFails ==
  /\ stage = "collapse"
  /\ CannotCollapse(pair.a, pair.b) \/ CannotCollapse(pair.b, pair.a)
  /\ stage' = "error"
  /\ UNCHANGED <<pair, map_a, map_b, field_stats, first_filter, overall>>

-----------------------------------------------------------------------------
(* Sync.                                                                   *)

\* find_pc_position and the position of a condition: the first place in the map
\* whose row passes, 0 if none does.
FirstPlace(map, Passes(_)) ==
  LET places == {d \in 1..Len(map) : Passes(map[d])}
  IN  IF places = {} THEN 0 ELSE CHOOSE d \in places : \A e \in places : d <= e

AddressPlace(t, map, x) == FirstPlace(map, LAMBDA r : Address(t, r) = x)

\* map.drain(..place), from the first row that passes; all stays if none does.
DrainTo(map, place) == IF place = 0 THEN map ELSE SubSeq(map, place, Len(map))

HasAddresses == pair.a.addr # None /\ pair.b.addr # None
BothNonEmpty == map_a # <<>> /\ map_b # <<>>
StartA == Address(pair.a, map_a[1])
StartB == Address(pair.b, map_b[1])

SyncNone ==
  /\ stage = "sync" /\ pair.sync.mode = "none"
  /\ stage' = "truncate"
  /\ UNCHANGED <<pair, map_a, map_b, field_stats, first_filter, overall>>

\* try_align_cartridge_entry applies.
AtCartridgeEntry ==
  /\ HasAddresses /\ BothNonEmpty
  /\ StartA = Entry /\ StartB = Entry
  /\ AddressPlace(pair.a, map_a, AfterEntry) > 0
  /\ AddressPlace(pair.b, map_b, AfterEntry) > 0

SyncCartridge ==
  /\ stage = "sync" /\ pair.sync.mode \in {"auto", "cartridge"}
  /\ AtCartridgeEntry
  /\ map_a' = DrainTo(map_a, AddressPlace(pair.a, map_a, AfterEntry))
  /\ map_b' = DrainTo(map_b, AddressPlace(pair.b, map_b, AfterEntry))
  /\ stage' = "truncate"
  /\ UNCHANGED <<pair, field_stats, first_filter, overall>>

SyncCartridgeFails ==
  /\ stage = "sync" /\ pair.sync.mode = "cartridge"
  /\ ~AtCartridgeEntry
  /\ stage' = "error"
  /\ UNCHANGED <<pair, map_a, map_b, field_stats, first_filter, overall>>

FirstRows(map) == SubSeq(map, 1, IF Len(map) < HeadRows THEN Len(map) ELSE HeadRows)

\* Mutant: the two first addresses swapped.
CommonAddressSwapped ==
  IF AddressPlace(pair.a, FirstRows(map_a), StartB) > 0 THEN StartA
  ELSE IF AddressPlace(pair.b, FirstRows(map_b), StartA) > 0 THEN StartB
  ELSE None

\* align_by_pc: the address one side starts with and the other has in its head.
CommonAddress ==
  IF AddressPlace(pair.a, FirstRows(map_a), StartB) > 0 THEN StartB
  ELSE IF AddressPlace(pair.b, FirstRows(map_b), StartA) > 0 THEN StartA
  ELSE None

\* One side starts at the common address and stays; the other is drained to it.
SyncPc ==
  /\ stage = "sync"
  /\ pair.sync.mode = "pc" \/ (pair.sync.mode = "auto" /\ ~AtCartridgeEntry)
  /\ IF HasAddresses /\ BothNonEmpty /\ StartA # StartB /\ CommonAddress # None
     THEN /\ map_a' = DrainTo(map_a, AddressPlace(pair.a, map_a, CommonAddress))
          /\ map_b' = DrainTo(map_b, AddressPlace(pair.b, map_b, CommonAddress))
     ELSE UNCHANGED <<map_a, map_b>>
  /\ stage' = "truncate"
  /\ UNCHANGED <<pair, field_stats, first_filter, overall>>

\* A trace without the field has no row that matches.
Matches(t, r) ==
  pair.sync.field \in Fields(t) /\ Numeric(t, pair.sync.field, r) \in pair.sync.values

ConditionPlace(t, map) == FirstPlace(map, LAMBDA r : Matches(t, r))

SyncCondition ==
  /\ stage = "sync" /\ pair.sync.mode = "condition"
  /\ map_a' = DrainTo(map_a, ConditionPlace(pair.a, map_a))
  /\ map_b' = DrainTo(map_b, ConditionPlace(pair.b, map_b))
  /\ stage' = "truncate"
  /\ UNCHANGED <<pair, field_stats, first_filter, overall>>

\* A condition without & or =, or with a value that is no number.
SyncMalformed ==
  /\ stage = "sync" /\ pair.sync.mode = "malformed"
  /\ stage' = "error"
  /\ UNCHANGED <<pair, map_a, map_b, field_stats, first_filter, overall>>

\* Mutant: only the first map is cut.
TruncateA ==
  /\ stage = "truncate"
  /\ map_a' = SubSeq(map_a, 1, IF Len(map_a) < Len(map_b) THEN Len(map_a) ELSE Len(map_b))
  /\ stage' = "ready"
  /\ UNCHANGED <<pair, map_b, field_stats, first_filter, overall>>

Truncate ==
  /\ stage = "truncate"
  /\ LET len == IF Len(map_a) < Len(map_b) THEN Len(map_a) ELSE Len(map_b)
     IN  /\ map_a' = SubSeq(map_a, 1, len)
         /\ map_b' = SubSeq(map_b, 1, len)
  /\ stage' = "ready"
  /\ UNCHANGED <<pair, field_stats, first_filter, overall>>

-----------------------------------------------------------------------------
(* Statistics, computed once and cached.                                   *)
Common(filter) ==
  (Fields(pair.a) \cap Fields(pair.b)) \cap (IF filter = None THEN Fields(pair.a) ELSE filter)

\* Mutant: without the look at the last place.
IsContiguousMiddle(map) ==
  Len(map) > 2 => map[Len(map) \div 2 + 1] = map[1] + Len(map) \div 2

\* The first, last and middle places agree with a range of rows.
IsContiguous(map) ==
  map # <<>> =>
    /\ map[Len(map)] = map[1] + Len(map) - 1
    /\ Len(map) > 2 => map[Len(map) \div 2 + 1] = map[1] + Len(map) \div 2

Start(map) == IF map = <<>> THEN 0 ELSE map[1]

\* What scalar_diff_count compares, and the same in field_differs and
\* scalar_diff_count_mapped: both rows through the accessor of a's type.
RowsDiffer(f, r, q) ==
  LET accessor == Accessor(pair.a.kinds[f])
  IN  Reported(accessor, pair.a.kinds[f], Cell(pair.a, f, r))
        # Reported(accessor, pair.b.kinds[f], Cell(pair.b, f, q))

FieldDiffers(f, d) == RowsDiffer(f, map_a[d], map_b[d])
ScalarDiffs(f) == Cardinality({d \in 1..Len(map_a) : FieldDiffers(f, d)})

\* Rows side by side from the start of each range.
RangeDiffs(f) ==
  Cardinality({k \in 0..Len(map_a) - 1 : RowsDiffer(f, Start(map_a) + k, Start(map_b) + k)})

\* The first value of the dictionary of row r's chunk.
FirstValue(t, f, r) ==
  LET valued == {q \in Rows(t) : q \div t.chunk = r \div t.chunk /\ Cell(t, f, q) # Null}
  IN  IF valued = {} THEN NoValue ELSE Cell(t, f, Min(valued))

StoredAt(t, f, r) == Stored(t.kinds[f], Cell(t, f, r), FirstValue(t, f, r))

\* count_diffs_typed has a case for the two columns.
Counted(f) == pair.a.kinds[f] = pair.b.kinds[f] /\ pair.a.kinds[f] \in CountedKinds

\* compare_segments over the two ranges (module SegmentWalk walks them).
BulkDiffs(f) ==
  Cardinality({k \in 0..Len(map_a) - 1 :
    Counted(f) => StoredAt(pair.a, f, Start(map_a) + k) # StoredAt(pair.b, f, Start(map_b) + k)})

\* Key 0 of an empty dictionary is read.
BulkPanics(f) ==
  /\ Counted(f)
  /\ \E k \in 0..Len(map_a) - 1 :
       NoValue \in {StoredAt(pair.a, f, Start(map_a) + k), StoredAt(pair.b, f, Start(map_b) + k)}

Contiguous == IsContiguous(map_a) /\ IsContiguous(map_b)
InBulk == Contiguous /\ pair.a.bulk /\ pair.b.bulk

DiffCount(f) ==
  IF InBulk THEN BulkDiffs(f) ELSE IF Contiguous THEN RangeDiffs(f) ELSE ScalarDiffs(f)

\* What a call leaves: the statistics, or the process gone while it counts.
ComputeStats(filter) ==
  /\ stage = "ready"
  /\ field_stats = None => ~(InBulk /\ \E f \in Common(filter) : BulkPanics(f))
  /\ field_stats' = IF field_stats = None THEN [f \in Common(filter) |-> DiffCount(f)]
                    ELSE field_stats
  /\ first_filter' = IF field_stats = None THEN [fields |-> filter] ELSE first_filter

ComputeStatsFiltered(filter) ==
  /\ ComputeStats(filter)
  /\ UNCHANGED <<pair, stage, map_a, map_b, overall>>

ComputeStatsPanics(filter) ==
  /\ stage = "ready" /\ field_stats = None
  /\ InBulk /\ \E f \in Common(filter) : BulkPanics(f)
  /\ stage' = "panicked"
  /\ UNCHANGED <<pair, map_a, map_b, field_stats, first_filter, overall>>

SumOf(stats) == MapThenSumSet(LAMBDA f : stats[f], DOMAIN stats)

OverallMatchPct ==
  /\ ComputeStats(None)
  /\ overall' = [diffs |-> SumOf(field_stats'),
                 total |-> Cardinality(DOMAIN field_stats') * Len(map_a)]
  /\ UNCHANGED <<pair, stage, map_a, map_b>>

Next ==
  \/ Collapse \/ CollapseFails
  \/ SyncNone
  \/ SyncCartridge \/ SyncCartridgeFails
  \/ SyncPc
  \/ SyncCondition
  \/ SyncMalformed
  \/ Truncate
  \/ \E filter \in Filters : ComputeStatsFiltered(filter)
  \/ \E filter \in Filters \cup {None} : ComputeStatsPanics(filter)
  \/ OverallMatchPct

Spec == Init /\ [][Next]_vars

-----------------------------------------------------------------------------
Increasing(map, t) ==
  /\ \A d \in 1..Len(map) : map[d] \in Rows(t)
  /\ \A d \in 1..Len(map) - 1 : map[d] < map[d + 1]

\* Both maps are rows of their traces in order, one for one once the comparison
\* is ready; original_a and original_b index with them unchecked. And traces
\* sampled at different rates are compared instruction by instruction: from each
\* row of a map to the next, the address changes at the latter and nowhere in
\* between, so neither side runs ahead (comparison.rs 71).
MapsInOrder ==
  LET instructions(map, t) ==
        \A d \in 1..Len(map) - 1 :
          /\ \A r \in map[d]..map[d + 1] - 1 : Address(t, r) = Address(t, map[d])
          /\ Address(t, map[d + 1]) # Address(t, map[d + 1] - 1)
  IN  /\ Increasing(map_a, pair.a)
      /\ Increasing(map_b, pair.b)
      /\ stage = "ready" => Len(map_a) = Len(map_b)
      /\ (pair.a.trigger # pair.b.trigger) =>
           instructions(map_a, pair.a) /\ instructions(map_b, pair.b)

Ready(mode) == stage = "ready" /\ pair.sync.mode = mode

\* Cartridge sync starts both traces at their first row after the entry
\* instruction.
StartsAfterEntry ==
  LET first(t, map) ==
        /\ Address(t, map[1]) = AfterEntry
        /\ Address(t, 0) = Entry
        /\ \A r \in 0..map[1] - 1 : Address(t, r) # AfterEntry
  IN  Ready("cartridge") => first(pair.a, map_a) /\ first(pair.b, map_b)

\* Address sync starts both traces at one address unless neither one's first
\* address is near the start of the other, and drops rows of one side only.
StartsTogether ==
  (Ready("pc") /\ HasAddresses /\ BothNonEmpty) =>
    LET apart(t, u, x) == \A d \in 1..HeadRows :
                            d <= Len(StartMap(t, u)) => Address(t, StartMap(t, u)[d]) # x
    IN  /\ map_a[1] = 0 \/ map_b[1] = 0
        /\ \/ StartA = StartB
           \/ /\ map_a[1] = 0 /\ map_b[1] = 0
              /\ apart(pair.a, pair.b, StartB) /\ apart(pair.b, pair.a, StartA)

\* Condition sync, where both traces have a row that matches: both start at the
\* first one.
StartsAtCondition ==
  Ready("condition") =>
    LET matching(t, u) == {r \in Range(StartMap(t, u)) : Matches(t, r)}
        a == matching(pair.a, pair.b)
        b == matching(pair.b, pair.a)
    IN  (a # {} /\ b # {}) =>
          /\ map_a[1] \in a /\ \A r \in a : map_a[1] <= r
          /\ map_b[1] \in b /\ \A r \in b : map_b[1] <= r

\* After alignment both traces start where the sync mode says.
StartsWhereAsked == StartsAfterEntry /\ StartsTogether /\ StartsAtCondition

\* Of the rows compared of a column none is a null in a dictionary.
NoDictionaryNulls(f) ==
  LET free(t, map) == t.kinds[f] = "dict" => \A d \in 1..Len(map) : Cell(t, f, map[d]) # Null
  IN  free(pair.a, map_a) /\ free(pair.b, map_b)

\* The counts are for the fields of the call that computed them and the overall
\* counts of the same fields. In bulk a column without dictionary nulls is
\* counted like row by row if its type is known, and no difference of it is
\* missed if its type is not; no more pairs differ than are compared.
StatsCountPairs ==
  /\ field_stats # None =>
       /\ DOMAIN field_stats = Common(first_filter.fields)
       /\ \A f \in DOMAIN field_stats :
            /\ (InBulk => Counted(f) /\ NoDictionaryNulls(f)) => field_stats[f] = ScalarDiffs(f)
            /\ NoDictionaryNulls(f) => field_stats[f] >= ScalarDiffs(f)
            /\ field_stats[f] <= Len(map_a)
  /\ overall # None =>
       /\ overall.total = Cardinality(Common(first_filter.fields)) * Len(map_a)
       /\ overall.diffs <= overall.total
=============================================================================
