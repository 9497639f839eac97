------------------------ MODULE TraceCommandsProofs -------------------------
(***************************************************************************)
(* Proofs about TraceConversion under TraceCommands: for every JSONL file, *)
(* with or without a header and with any noise in it, the rows copied are  *)
(* its data lines in order, and the marks stand where its flags do. What   *)
(* the induction needs is the reader's position: the data lines consumed   *)
(* are those copied and the one read ahead, which is the first. Then about *)
(* sampling, and about what is answered of the rows copied.                *)
(***************************************************************************)
EXTENDS TraceCommands, FiniteSetTheorems, SequenceTheorems, WellFoundedInduction, TLAPS

Elements(s) == {s[k] : k \in 1..Len(s)}
Copied == {rows_from[k] : k \in 1..Len(rows_from)}
Flagged(lines) == {l \in lines : jsonl[l].flag}

Typed ==
  /\ jsonl \in Seq(Elements(jsonl))
  /\ at \in 0..Len(jsonl)
  /\ pending \in 0..Len(jsonl)
  /\ rows \in Seq(Elements(rows)) /\ Len(rows) = Len(rows_from)
  /\ rows_from \in Seq(1..Len(jsonl))
  /\ marks_at \in Seq(Nat)

\* Nothing is copied, and nothing waits, before the header is known; the line
\* read ahead is the last one consumed; only what is done is closed.
Staged ==
  /\ stage \in {"start", "peek"} => pending = 0
  /\ stage \in {"start", "peek", "create"} => rows_from = <<>> /\ marks_at = <<>>
  /\ pending # 0 => rows_from = <<>> /\ pending = at
  /\ outfile = "closed" => stage = "done" /\ (AtEnd \/ Ahead.kind = "blank")

\* The data lines consumed are those copied and the one that waits.
Consumed == EntryLines(1..at) = Copied \cup (IF pending # 0 THEN {pending} ELSE {})

\* Each flag copied has a mark, at an entry copied, in order.
Counted ==
  /\ Len(marks_at) = Cardinality(Flagged(Copied))
  /\ \A f \in 1..Len(marks_at) : marks_at[f] <= Len(rows_from)
  /\ \A f, g \in 1..Len(marks_at) : f < g => marks_at[f] <= marks_at[g]

Ascending == \A k \in 1..Len(rows_from) : k > 1 => rows_from[k - 1] < rows_from[k]

\* A cell holds what its line said, as its column holds it.
CellSaid(cell, cells, c) ==
  IF c \notin DOMAIN cells THEN cell = IF c \in NullableCols THEN Null ELSE 0
  ELSE cell \in {As(Types[c], cells[c])} \cup (IF As(Types[c], cells[c]) = 0 THEN {Null} ELSE {})

CellsSaid ==
  \A k \in 1..Len(rows_from) : \A c \in DOMAIN rows[k] :
    CellSaid(rows[k][c], jsonl[rows_from[k]].cells, c)

\* The loops mark behind the entry: in front of entry k stand the marks of the
\* flagged lines before its own.
MarkedBehind ==
  \A k \in 1..Len(rows_from) :
    Cardinality({f \in 1..Len(marks_at) : marks_at[f] < k}) =
      Cardinality({l \in EntryLines(1..rows_from[k] - 1) : jsonl[l].flag})

ConversionInvariant ==
  Typed /\ Staged /\ Consumed /\ Counted /\ Ascending /\ CellsSaid /\ MarkedBehind

-----------------------------------------------------------------------------
LEMMA Appended ==
  ASSUME NEW S, NEW s \in Seq(S), NEW x \in S
  PROVE  /\ Append(s, x) \in Seq(S)
         /\ Len(Append(s, x)) = Len(s) + 1 /\ Len(s) \in Nat
         /\ \A k \in 1..Len(s) : Append(s, x)[k] = s[k]
         /\ Append(s, x)[Len(s) + 1] = x
  OBVIOUS

LEMMA SequenceOfItsElements ==
  ASSUME NEW S, NEW s \in Seq(S)
  PROVE  s \in Seq(Elements(s)) /\ Len(s) \in Nat
  BY SMT DEF Elements

LEMMA CountTo ==
  ASSUME NEW n \in Nat
  PROVE  Cardinality(1..n) = n
  <1>1. 1 \in Int /\ n \in Int /\ (IF 1 > n THEN 0 ELSE n - 1 + 1) = n
    BY SMT
  <1> QED
    BY <1>1, FS_Interval, Zenon

\* One more line: a data line is one more, another is none.
LEMMA OneMoreLine ==
  ASSUME NEW n \in Nat
  PROVE  EntryLines(1..n + 1) =
           EntryLines(1..n) \cup (IF jsonl[n + 1].kind = "entry" THEN {n + 1} ELSE {})
  <1>1. 1..n + 1 = (1..n) \cup {n + 1}
    BY SMT
  <1> QED
    BY <1>1, Zenon DEF EntryLines

\* Steps that copy nothing keep what is said of the copies.
LEMMA NothingCopied ==
  ASSUME ConversionInvariant, UNCHANGED <<jsonl, rows, marks_at, rows_from>>
  PROVE  /\ Counted' /\ Ascending' /\ CellsSaid' /\ MarkedBehind' /\ Copied' = Copied
         /\ \A lines : EntryLines(lines)' = EntryLines(lines)
  BY Zenon DEF ConversionInvariant, Counted, Ascending, CellsSaid, MarkedBehind, Copied,
     Flagged, EntryLines

LEMMA InitialConversion == InitCommands => ConversionInvariant
  <1> SUFFICES ASSUME InitCommands PROVE ConversionInvariant
    OBVIOUS
  <1>1. /\ at = 0 /\ pending = 0 /\ rows = <<>> /\ marks_at = <<>> /\ rows_from = <<>>
        /\ outfile = "none" /\ stage \in {"start", "native"}
    BY DEF InitCommands, InitConversion, Native
  <1>2. jsonl \in Seq(Elements(jsonl))
    <2>1. CASE InitConversion
      <3>1. jsonl \in JsonlFiles
        BY <2>1, Zenon DEF InitConversion
      <3> QED
        BY <3>1, ConversionAssumption, Zenon DEF Elements
    <2>2. CASE Native
      <3>1. jsonl = <<>>
        BY <2>2, Zenon DEF Native
      <3> QED
        BY <3>1, SMT
    <2> QED
      BY <2>1, <2>2, Zenon DEF InitCommands
  <1>3. Len(jsonl) \in Nat
    BY <1>2
  <1>4. Len(<<>>) = 0 /\ 1..0 = {}
    BY SMT
  <1>5. Typed
    BY <1>1, <1>2, <1>3, SMT DEF Typed
  <1>6. Copied = {} /\ Flagged({}) = {} /\ EntryLines({}) = {}
    BY <1>1, <1>4, Zenon DEF Copied, Flagged, EntryLines
  <1>7. Consumed
    BY <1>1, <1>4, <1>6, Zenon DEF Consumed
  <1>8. Counted
    BY <1>1, <1>4, <1>6, FS_EmptySet, Zenon DEF Counted
  <1>9. Staged
    BY <1>1, Zenon DEF Staged
  <1>10. Ascending /\ CellsSaid /\ MarkedBehind
    BY <1>1, <1>4, Zenon DEF Ascending, CellsSaid, MarkedBehind
  <1> QED
    BY <1>5, <1>7, <1>8, <1>9, <1>10 DEF ConversionInvariant

-----------------------------------------------------------------------------
\* The reader moves by a line, or not, and copies nothing.
LEMMA LineRead ==
  ASSUME ConversionInvariant,
         SkipNoise \/ ReadHeader \/ ReadHeaderless \/ PeekBlank \/ PeekEntry \/ PeekNothing
  PROVE  ConversionInvariant'
  <1>1. UNCHANGED <<jsonl, rows, marks_at, rows_from, outfile>> /\ pending = 0 /\ rows_from = <<>>
        /\ marks_at = <<>> /\ outfile # "closed" /\ stage' \in {"start", "peek", "create"}
    BY DEF ConversionInvariant, Staged, SkipNoise, ReadHeader, ReadHeaderless, PeekBlank, PeekEntry,
       PeekNothing, OutputUnchanged
  <1>2. /\ Len(jsonl) \in Nat /\ at \in Nat
    BY SMT DEF ConversionInvariant, Typed
  <1>3. \/ at' = at /\ pending' = 0
        \/ /\ at' = at + 1 /\ at < Len(jsonl) /\ jsonl[at + 1].kind # "entry" /\ pending' = 0
        \/ /\ at' = at + 1 /\ at < Len(jsonl) /\ jsonl[at + 1].kind = "entry" /\ pending' = at + 1
           /\ stage' = "create"
    <2>1. at # Len(jsonl) => at < Len(jsonl)
      BY SMT DEF ConversionInvariant, Typed
    <2> QED
      BY <1>1, <2>1, Zenon DEF SkipNoise, ReadHeader, ReadHeaderless, PeekBlank, PeekEntry,
         PeekNothing, OutputUnchanged, IsAhead, AtEnd, Ahead
  <1>4. Typed'
    <2>1. at' \in 0..Len(jsonl) /\ pending' \in 0..Len(jsonl)
      BY <1>2, <1>3, SMT DEF ConversionInvariant, Typed
    <2> QED
      BY <1>1, <2>1, Zenon DEF ConversionInvariant, Typed, Elements
  <1>5. Staged'
    BY <1>1, <1>3, Zenon DEF Staged
  <1>6. /\ Counted' /\ Ascending' /\ CellsSaid' /\ MarkedBehind' /\ Copied' = Copied
        /\ \A lines : EntryLines(lines)' = EntryLines(lines)
    BY <1>1, NothingCopied
  <1>7. Consumed'
    <2>1. EntryLines(1..at) = Copied
      BY <1>1, Zenon DEF ConversionInvariant, Consumed
    <2>2. EntryLines(1..at') = Copied \cup (IF pending' # 0 THEN {pending'} ELSE {})
      BY <1>2, <1>3, <2>1, OneMoreLine, SMT
    <2> QED
      BY <1>6, <2>2, Zenon DEF Consumed
  <1> QED
    BY <1>4, <1>5, <1>6, <1>7 DEF ConversionInvariant

\* The reader stays where it is.
LEMMA NoLineRead ==
  ASSUME ConversionInvariant,
         \/ NoStart \/ PeekFails \/ CreateWriter \/ CreateFails
         \/ CopyFails \/ EndOfTrace \/ ReadFails \/ FinishFails
  PROVE  ConversionInvariant'
  <1>1. UNCHANGED <<jsonl, at, pending, rows, marks_at, rows_from>>
    BY Zenon DEF NoStart, PeekFails, CreateWriter, CreateFails, CopyFails, EndOfTrace, ReadFails, FinishFails
  <1>2. stage' \in {"body", "done", "failed"}
    BY Zenon DEF NoStart, PeekFails, CreateWriter, CreateFails, CopyFails, EndOfTrace, ReadFails, FinishFails,
       Fail
  <1>3. outfile' = "closed" => stage' = "done" /\ (AtEnd \/ Ahead.kind = "blank")
    <2>1. outfile # "closed"
      BY Zenon DEF ConversionInvariant, Staged, NoStart, PeekFails, CreateWriter, CreateFails, CopyFails,
         EndOfTrace, ReadFails, FinishFails
    <2> QED
      BY <2>1 DEF NoStart, PeekFails, CreateWriter, CreateFails, CopyFails, EndOfTrace,
         ReadFails, FinishFails, Fail, IsAhead
  <1>4. Staged'
    BY <1>1, <1>2, <1>3, Zenon DEF ConversionInvariant, Staged, AtEnd, Ahead
  <1>5. Typed'
    BY <1>1, Zenon DEF ConversionInvariant, Typed, Elements
  <1>6. /\ Counted' /\ Ascending' /\ CellsSaid' /\ MarkedBehind' /\ Copied' = Copied
        /\ \A lines : EntryLines(lines)' = EntryLines(lines)
    BY <1>1, NothingCopied
  <1>7. Consumed'
    BY <1>1, <1>6, Zenon DEF ConversionInvariant, Consumed
  <1> QED
    BY <1>4, <1>5, <1>6, <1>7 DEF ConversionInvariant

-----------------------------------------------------------------------------
\* The line taken is the data line after those copied.
LEMMA NextDataLine ==
  ASSUME ConversionInvariant, More
  PROVE  /\ Taken \in 1..Len(jsonl) /\ jsonl[Taken].kind = "entry"
         /\ EntryLines(1..Taken - 1) = Copied
         /\ EntryLines(1..(IF pending # 0 THEN at ELSE at + 1)) = Copied \cup {Taken}
         /\ \A k \in 1..Len(rows_from) : rows_from[k] < Taken
  <1>1. at \in 0..Len(jsonl) /\ Len(jsonl) \in Nat /\ pending \in 0..Len(jsonl)
    BY SMT DEF ConversionInvariant, Typed
  <1>2. /\ Taken \in 1..Len(jsonl) /\ jsonl[Taken].kind = "entry"
        /\ EntryLines(1..Taken - 1) = Copied
        /\ EntryLines(1..(IF pending # 0 THEN at ELSE at + 1)) = Copied \cup {Taken}
    <2>1. CASE pending = 0
      <3>1. Taken = at + 1 /\ at + 1 \in 1..Len(jsonl) /\ jsonl[at + 1].kind = "entry"
        BY <1>1, <2>1, SMT DEF More, Taken, IsAhead, AtEnd, Ahead
      <3>2. EntryLines(1..at) = Copied
        BY <2>1, Zenon DEF ConversionInvariant, Consumed
      <3>3. EntryLines(1..at + 1) = Copied \cup {at + 1}
        BY <1>1, <3>1, <3>2, OneMoreLine
      <3>4. (at + 1) - 1 = at
        BY <1>1
      <3> QED
        BY <2>1, <3>1, <3>2, <3>3, <3>4, Zenon
    <2>2. CASE pending # 0
      <3>1. Taken = pending /\ pending = at /\ pending \in 1..Len(jsonl)
        BY <1>1, <2>2, SMT DEF Taken, ConversionInvariant, Staged
      <3>2. Copied = {}
        <4>1. rows_from = <<>> /\ Len(<<>>) = 0 /\ 1..0 = {}
          BY <2>2, SMT DEF ConversionInvariant, Staged
        <4> QED
          BY <4>1, Zenon DEF Copied
      <3>3. EntryLines(1..at) = {at}
        BY <2>2, <3>1, <3>2, Zenon DEF ConversionInvariant, Consumed
      <3>4. jsonl[at].kind = "entry"
        BY <3>3, Zenon DEF EntryLines
      <3>5. EntryLines(1..at - 1) = {}
        <4>1. \A l \in 1..at - 1 : l \in 1..at /\ l # at
          BY <1>1, SMT
        <4>2. \A l \in 1..at : jsonl[l].kind = "entry" => l \in {at}
          BY <3>3, Zenon DEF EntryLines
        <4> QED
          BY <4>1, <4>2, SMT DEF EntryLines
      <3> QED
        BY <2>2, <3>1, <3>2, <3>3, <3>4, <3>5, Zenon
    <2> QED
      BY <2>1, <2>2
  <1>3. ASSUME NEW k \in 1..Len(rows_from) PROVE rows_from[k] < Taken
    <2>1. rows_from[k] \in 1..Taken - 1
      BY <1>2, Zenon DEF Copied, EntryLines
    <2> QED
      BY <1>2, <2>1, SMT
  <1> QED
    BY <1>2, <1>3

LEMMA CellIsSaid ==
  ASSUME NEW cells, NEW c
  PROVE  CellSaid(Cell(cells, c), cells, c)
  <1>1. CASE c \notin DOMAIN cells
    BY <1>1, Zenon DEF CellSaid, Cell
  <1>2. CASE c \in DOMAIN cells
    BY <1>2, Zenon DEF CellSaid, Cell
  <1> QED
    BY <1>1, <1>2

LEMMA EntryCopied ==
  ASSUME ConversionInvariant, CopyEntry
  PROVE  ConversionInvariant'
  <1> DEFINE n == Len(rows_from)
             t == Taken
             row == [c \in header.fields |-> Cell(jsonl[t].cells, c)]
  <1>1. /\ t \in 1..Len(jsonl) /\ jsonl[t].kind = "entry"
        /\ EntryLines(1..t - 1) = Copied
        /\ EntryLines(1..at') = Copied \cup {t}
        /\ \A k \in 1..n : rows_from[k] < t
    BY NextDataLine, Zenon DEF CopyEntry
  <1>2. /\ jsonl' = jsonl /\ rows' = Append(rows, row) /\ rows_from' = Append(rows_from, t)
        /\ marks_at' = Marked(t) /\ pending' = 0 /\ stage = "body" /\ stage' = "body"
        /\ outfile' = outfile
    BY Zenon DEF CopyEntry
  <1>3. /\ n \in Nat /\ Len(rows) = n /\ Len(jsonl) \in Nat /\ at' \in 0..Len(jsonl)
    <2>1. n \in Nat /\ Len(rows) = n /\ Len(jsonl) \in Nat
      BY SMT DEF ConversionInvariant, Typed
    <2>2. at' \in 0..Len(jsonl)
      BY <1>1, <2>1, SMT DEF CopyEntry, ConversionInvariant, Typed, Taken
    <2> QED
      BY <2>1, <2>2
  <1>4. /\ rows_from' \in Seq(1..Len(jsonl)) /\ Len(rows_from') = n + 1
        /\ rows_from'[n + 1] = t /\ \A k \in 1..n : rows_from'[k] = rows_from[k]
    <2>1. rows_from \in Seq(1..Len(jsonl))
      BY Zenon DEF ConversionInvariant, Typed
    <2> HIDE DEF t
    <2> QED
      BY <1>1, <1>2, <2>1, Appended
  <1>5. /\ rows' \in Seq(Elements(rows')) /\ Len(rows') = n + 1
        /\ rows'[n + 1] = row /\ \A k \in 1..n : rows'[k] = rows[k]
    <2>1. rows \in Seq(Elements(rows) \cup {row})
      BY SMT DEF ConversionInvariant, Typed
    <2>2. /\ rows' \in Seq(Elements(rows) \cup {row}) /\ Len(rows') = n + 1
          /\ rows'[n + 1] = row /\ \A k \in 1..n : rows'[k] = rows[k]
      <3> HIDE DEF row
      <3> QED
        BY <1>2, <1>3, <2>1, Appended
    <2> QED
      BY <2>2, SequenceOfItsElements
  <1>6. /\ marks_at' \in Seq(Nat) /\ Len(marks_at) \in Nat
        /\ Len(marks_at') = IF jsonl[t].flag THEN Len(marks_at) + 1 ELSE Len(marks_at)
        /\ \A f \in 1..Len(marks_at) : marks_at'[f] = marks_at[f] /\ marks_at[f] \in Nat
        /\ jsonl[t].flag => marks_at'[Len(marks_at) + 1] = n + 1
    <2>1. marks_at \in Seq(Nat) /\ n + 1 \in Nat /\ Len(rows) + 1 = n + 1
      BY <1>3 DEF ConversionInvariant, Typed
    <2>2. CASE jsonl[t].flag
      <3>1. marks_at' = Append(marks_at, n + 1)
        BY <1>2, <2>1, <2>2, Zenon DEF Marked
      <3> QED
        BY <2>1, <2>2, <3>1, SMT
    <2>3. CASE ~jsonl[t].flag
      <3>1. marks_at' = marks_at
        BY <1>2, <2>3, Zenon DEF Marked
      <3> QED
        BY <2>1, <2>3, <3>1, SMT
    <2> QED
      BY <2>2, <2>3
  <1> HIDE DEF n, t, row
  <1>7. Typed'
    <2>1. jsonl' \in Seq(Elements(jsonl'))
      BY <1>2, Zenon DEF ConversionInvariant, Typed, Elements
    <2> QED
      BY <1>2, <1>3, <1>4, <1>5, <1>6, <2>1, SMT DEF Typed
  <1>8. Staged'
    BY <1>2, Zenon DEF ConversionInvariant, Staged
  <1>9. Copied' = Copied \cup {t}
    <2>1. 1..n + 1 = (1..n) \cup {n + 1} /\ n = Len(rows_from)
      BY <1>3, SMT DEF n
    <2> QED
      BY <1>4, <2>1, SMT DEF Copied
  <1>10. \A lines : EntryLines(lines)' = EntryLines(lines) /\ Flagged(lines)' = Flagged(lines)
    BY <1>2, Zenon DEF EntryLines, Flagged
  <1>11. Consumed'
    BY <1>1, <1>2, <1>9, <1>10, Zenon DEF Consumed
  <1>12. Ascending'
    <2>1. ASSUME NEW k \in 1..n + 1, k > 1 PROVE rows_from'[k - 1] < rows_from'[k]
      <3>1. CASE k \in 1..n
        <4>1. k - 1 \in 1..n
          BY <2>1, <3>1, <1>3, SMT
        <4>2. rows_from[k - 1] < rows_from[k]
          BY <2>1, <3>1 DEF ConversionInvariant, Ascending, n
        <4> QED
          BY <1>4, <3>1, <4>1, <4>2
      <3>2. CASE k = n + 1
        <4>1. k - 1 \in 1..n
          BY <2>1, <3>2, <1>3, SMT
        <4> QED
          BY <1>1, <1>4, <3>2, <4>1
      <3> QED
        BY <1>3, <3>1, <3>2, SMT
    <2> QED
      BY <1>4, <2>1 DEF Ascending
  <1>13. CellsSaid'
    <2>1. ASSUME NEW k \in 1..n + 1, NEW c \in DOMAIN rows'[k]
          PROVE  CellSaid(rows'[k][c], jsonl[rows_from'[k]].cells, c)
      <3>1. CASE k \in 1..n
        BY <1>4, <1>5, <2>1, <3>1, Zenon DEF ConversionInvariant, CellsSaid, n
      <3>2. CASE k = n + 1
        <4>1. c \in header.fields /\ rows'[k][c] = Cell(jsonl[t].cells, c)
          BY <1>5, <2>1, <3>2, Zenon DEF row
        <4> QED
          BY <1>4, <3>2, <4>1, CellIsSaid, Zenon
      <3> QED
        BY <1>3, <3>1, <3>2, SMT
    <2> QED
      BY <1>2, <1>4, <2>1, Zenon DEF CellsSaid
  <1>14. IsFiniteSet(Copied) /\ IsFiniteSet(Flagged(Copied)) /\ t \notin Copied
    <2>1. Copied \subseteq 1..Len(jsonl) /\ t \notin Copied
      <3>1. \A k \in 1..n : rows_from[k] \in 1..Len(jsonl) /\ rows_from[k] # t
        BY <1>1, <1>3, SMT DEF ConversionInvariant, Typed, n
      <3> QED
        BY <3>1, Zenon DEF Copied, n
    <2>2. IsFiniteSet(1..Len(jsonl))
      BY <1>3, FS_Interval, SMT
    <2>3. Flagged(Copied) \subseteq Copied
      BY Zenon DEF Flagged
    <2> QED
      BY <2>1, <2>2, <2>3, FS_Subset, Zenon
  <1>15. Counted'
    <2>1. Len(marks_at') = Cardinality(Flagged(Copied \cup {t}))
      <3>1. CASE jsonl[t].flag
        <4>1. Flagged(Copied \cup {t}) = Flagged(Copied) \cup {t} /\ t \notin Flagged(Copied)
          BY <1>14, <3>1, Zenon DEF Flagged
        <4>2. Cardinality(Flagged(Copied) \cup {t}) = Cardinality(Flagged(Copied)) + 1
          BY <1>14, <4>1, FS_AddElement, Zenon
        <4>3. Len(marks_at) = Cardinality(Flagged(Copied))
          BY Zenon DEF ConversionInvariant, Counted
        <4> QED
          BY <1>6, <3>1, <4>1, <4>2, <4>3, Zenon
      <3>2. CASE ~jsonl[t].flag
        <4>1. Flagged(Copied \cup {t}) = Flagged(Copied)
          BY <3>2, Zenon DEF Flagged
        <4> QED
          BY <1>6, <3>2, <4>1 DEF ConversionInvariant, Counted
      <3> QED
        BY <3>1, <3>2
    <2>2. \A f \in 1..Len(marks_at') : marks_at'[f] <= n + 1
      <3>1. \A f \in 1..Len(marks_at) : marks_at[f] <= n
        BY Zenon DEF ConversionInvariant, Counted, n
      <3> QED
        BY <1>3, <1>6, <3>1, SMTT(40)
    <2>3. ASSUME NEW f \in 1..Len(marks_at'), NEW g \in 1..Len(marks_at'), f < g
          PROVE  marks_at'[f] <= marks_at'[g]
      <3>1. f \in 1..Len(marks_at)
        BY <1>6, <2>3, SMT
      <3>2. CASE g \in 1..Len(marks_at)
        BY <1>6, <2>3, <3>1, <3>2 DEF ConversionInvariant, Counted
      <3>3. CASE g = Len(marks_at) + 1 /\ jsonl[t].flag
        <4>1. marks_at[f] <= n /\ marks_at'[f] = marks_at[f] /\ marks_at'[g] = n + 1
              /\ marks_at[f] \in Nat
          BY <1>6, <3>1, <3>3, Zenon DEF ConversionInvariant, Counted, n
        <4> QED
          BY <1>3, <4>1, SMT
      <3>4. g \in 1..Len(marks_at) \/ (g = Len(marks_at) + 1 /\ jsonl[t].flag)
        BY <1>6, <2>3, SMT
      <3> QED
        BY <3>2, <3>3, <3>4
    <2> QED
      BY <1>2, <1>4, <1>9, <1>10, <2>1, <2>2, <2>3, Zenon DEF Counted
  <1>16. MarkedBehind'
    <2>1. ASSUME NEW k \in 1..n + 1
          PROVE  Cardinality({f \in 1..Len(marks_at') : marks_at'[f] < k}) =
                   Cardinality({l \in EntryLines(1..rows_from'[k] - 1) : jsonl[l].flag})
      <3>1. CASE k \in 1..n
        <4>1. {f \in 1..Len(marks_at') : marks_at'[f] < k} =
                {f \in 1..Len(marks_at) : marks_at[f] < k}
          BY <1>3, <1>6, <3>1, SMTT(40)
        <4> QED
          BY <1>4, <3>1, <4>1, Zenon DEF ConversionInvariant, MarkedBehind, n
      <3>2. CASE k = n + 1
        <4>1. \A f \in 1..Len(marks_at) : marks_at[f] <= n
          BY Zenon DEF ConversionInvariant, Counted, n
        <4>2. {f \in 1..Len(marks_at') : marks_at'[f] < k} = 1..Len(marks_at)
          <5>1. ASSUME NEW f \in 1..Len(marks_at)
                PROVE  f \in 1..Len(marks_at') /\ marks_at'[f] < k
            <6>1. marks_at'[f] = marks_at[f] /\ marks_at[f] \in Nat /\ marks_at[f] <= n
              BY <1>6, <4>1
            <6>2. Len(marks_at') \in {Len(marks_at), Len(marks_at) + 1} /\ Len(marks_at) \in Nat
              BY <1>6, Zenon
            <6> QED
              BY <1>3, <3>2, <6>1, <6>2, SMT
          <5>2. ASSUME NEW f \in 1..Len(marks_at'), marks_at'[f] < k
                PROVE  f \in 1..Len(marks_at)
            <6>1. CASE jsonl[t].flag
              <7>1. marks_at'[Len(marks_at) + 1] = n + 1 /\ Len(marks_at') = Len(marks_at) + 1
                BY <1>6, <6>1, Zenon
              <7>2. f # Len(marks_at) + 1
                BY <1>3, <3>2, <5>2, <7>1, SMT
              <7> QED
                BY <1>6, <7>1, <7>2, SMT
            <6>2. CASE ~jsonl[t].flag
              BY <1>6, <6>2, Zenon
            <6> QED
              BY <6>1, <6>2
          <5> QED
            BY <5>1, <5>2, Zenon
        <4>3. Cardinality(1..Len(marks_at)) = Len(marks_at)
          BY <1>6, CountTo
        <4>4. {l \in EntryLines(1..rows_from'[k] - 1) : jsonl[l].flag} = Flagged(Copied)
          BY <1>1, <1>4, <3>2, Zenon DEF Flagged
        <4> QED
          BY <4>2, <4>3, <4>4, Zenon DEF ConversionInvariant, Counted
      <3> QED
        BY <1>3, <3>1, <3>2, SMT
    <2>2. \A k \in 1..n + 1 :
            {l \in EntryLines(1..rows_from[k] - 1)' : jsonl'[l].flag} =
              {l \in EntryLines(1..rows_from'[k] - 1) : jsonl[l].flag}
      BY <1>2, Zenon DEF EntryLines
    <2> QED
      BY <1>4, <2>1, <2>2, Zenon DEF MarkedBehind
  <1> QED
    BY <1>7, <1>8, <1>11, <1>12, <1>13, <1>15, <1>16 DEF ConversionInvariant

-----------------------------------------------------------------------------
LEMMA ConversionStep == ConversionInvariant /\ [NextCommands]_everything => ConversionInvariant'
  <1> SUFFICES ASSUME ConversionInvariant, [NextCommands]_everything PROVE ConversionInvariant'
    OBVIOUS
  <1>1. CASE NextConversion
    BY <1>1, LineRead, NoLineRead, EntryCopied, Zenon DEF NextConversion
  <1>2. CASE UNCHANGED conversion
    <2>1. UNCHANGED <<jsonl, at, pending, rows, marks_at, rows_from, stage, outfile>>
      BY <1>2, Zenon DEF conversion
    <2>2. /\ Counted' /\ Ascending' /\ CellsSaid' /\ MarkedBehind' /\ Copied' = Copied
          /\ \A lines : EntryLines(lines)' = EntryLines(lines)
      BY <2>1, NothingCopied
    <2>3. Typed' /\ Staged'
      BY <2>1, Zenon DEF ConversionInvariant, Typed, Staged, Elements, AtEnd, Ahead
    <2>4. Consumed'
      BY <2>1, <2>2, Zenon DEF ConversionInvariant, Consumed
    <2> QED
      BY <2>2, <2>3, <2>4 DEF ConversionInvariant
  <1> QED
    BY <1>1, <1>2, Zenon DEF NextCommands, everything, Convert, DownsampleStep, CommandFails,
       DownsampleWith, DownsampleEveryFourth, Sample, Query, ShowRange, ShowLast

\* The invariant of the reader and the copy, under every command.
THEOREM ConversionInvariantHolds == SpecCommands => []ConversionInvariant
  BY InitialConversion, ConversionStep, PTL DEF SpecCommands

\* Whatever noise and blanks a JSONL file holds and however its fields are found,
\* entry k of the trace is its k-th data line, cell by cell.
THEOREM ConversionCopiesTheEntries == SpecCommands => []RowsAreTheEntries
  <1>1. ConversionInvariant => RowsAreTheEntries
    <2> SUFFICES ASSUME ConversionInvariant PROVE RowsAreTheEntries
      OBVIOUS
    <2>1. outfile = "closed" => AtEnd \/ Ahead.kind = "blank"
      BY Zenon DEF ConversionInvariant, Staged
    <2>2. EntryLines(1..at) =
            {rows_from[k] : k \in 1..Len(rows_from)} \cup (IF pending # 0 THEN {pending} ELSE {})
      BY Zenon DEF ConversionInvariant, Consumed, Copied
    <2> QED
      BY <2>1, <2>2, Zenon DEF ConversionInvariant, Ascending, CellsSaid, CellSaid, RowsAreTheEntries
  <1> QED
    BY <1>1, ConversionInvariantHolds, PTL

\* Every flagged line copied gives the trace one mark, next to its own entry.
THEOREM ConversionMarksFrames == SpecCommands => []FlagsMarkTheirEntries
  <1>1. ConversionInvariant => FlagsMarkTheirEntries
    <2> SUFFICES ASSUME ConversionInvariant PROVE FlagsMarkTheirEntries
      OBVIOUS
    <2> DEFINE before(k) == Cardinality(Flagged(EntryLines(1..rows_from[k] - 1)))
               upTo(k) == Cardinality(Flagged(EntryLines(1..rows_from[k])))
               marked(k) == Cardinality({f \in 1..Len(marks_at) : marks_at[f] < k})
    <2>1. Len(marks_at) = Cardinality(Flagged(Copied))
      BY Zenon DEF ConversionInvariant, Counted
    <2>2. ASSUME NEW k \in 1..Len(rows_from) PROVE marked(k) \in before(k)..upTo(k)
      <3>1. rows_from[k] \in Nat
        BY <2>2, SMT DEF ConversionInvariant, Typed
      <3>2. IsFiniteSet(1..rows_from[k])
        BY <3>1, FS_Interval, SMT
      <3>3. 1..rows_from[k] - 1 \subseteq 1..rows_from[k]
        BY <3>1, SMT
      <3>4. /\ Flagged(EntryLines(1..rows_from[k])) \subseteq 1..rows_from[k]
            /\ Flagged(EntryLines(1..rows_from[k] - 1)) \subseteq
                 Flagged(EntryLines(1..rows_from[k]))
        BY <3>3, Zenon DEF Flagged, EntryLines
      <3>5. IsFiniteSet(Flagged(EntryLines(1..rows_from[k])))
        BY <3>2, <3>4, FS_Subset, Zenon
      <3>6. before(k) <= upTo(k) /\ IsFiniteSet(Flagged(EntryLines(1..rows_from[k] - 1)))
        BY <3>4, <3>5, FS_Subset, Zenon
      <3>7. before(k) \in Nat /\ upTo(k) \in Nat
        BY <3>5, <3>6, FS_CardinalityType, Zenon
      <3>8. marked(k) = before(k)
        BY <2>2, Zenon DEF ConversionInvariant, MarkedBehind, Flagged
      <3> HIDE DEF before, upTo, marked
      <3> QED
        BY <3>6, <3>7, <3>8, SMT
    <2> QED
      BY <2>1, <2>2, Zenon DEF FlagsMarkTheirEntries, Flagged, Copied
  <1> QED
    BY <1>1, ConversionInvariantHolds, PTL

-----------------------------------------------------------------------------
(***************************************************************************)
(* Proofs about DownsampleCommand, alone in its native traces and behind   *)
(* TraceConversion in converted ones: for every trace, filter and placing  *)
(* of frames, and wherever the output fails, a frame has one mark, and its *)
(* mark is off by a row at most. The boundaries due at a row are counted   *)
(* by Cardinality; that they are the next so many (DueAreTheNext) follows  *)
(* from their order.                                                       *)
(***************************************************************************)

Boundary(f) == input.boundaries[f]
Frames == Len(input.boundaries)

InputTyped ==
  /\ input.total \in Nat
  /\ input.boundaries \in Seq(Nat)
  /\ \A f, g \in 1..Frames : f < g => Boundary(f) <= Boundary(g)

PassTyped ==
  /\ i \in Nat
  /\ copied \in Seq(Nat) /\ marks \in Seq(Nat)
  /\ frame_cursor = Len(marks) /\ Len(marks) <= Frames

\* Rows are copied in order, up to the row the pass is at.
RowsInOrder ==
  /\ \A c, d \in 1..Len(copied) : c < d => copied[c] < copied[d]
  /\ \A d \in 1..Len(copied) : copied[d] <= i /\ (status # "failed" => copied[d] < i)

\* A boundary that is marked lies behind every row in front of its mark's, and
\* not behind that one; the marks are in order.
MarksPlaced ==
  /\ \A f \in 1..Len(marks) :
       /\ marks[f] \in 1..Len(copied)
       /\ Boundary(f) <= copied[marks[f]]
       /\ \A d \in 1..marks[f] - 1 : copied[d] < Boundary(f)
  /\ \A f, g \in 1..Len(marks) : f < g => marks[f] <= marks[g]

\* Those not yet marked lie behind every row copied, but after a failure behind
\* every row but the last.
OthersBehind ==
  \A f \in Len(marks) + 1..Frames : \A d \in 1..Len(copied) :
    d < Len(copied) \/ status # "failed" => copied[d] < Boundary(f)

SamplingInvariant == InputTyped /\ PassTyped /\ RowsInOrder /\ MarksPlaced /\ OthersBehind

\* Until a command samples what was converted, nothing is sampled.
NotYet ==
  /\ status = "idle" => copied = <<>> /\ marks = <<>> /\ i = 0 /\ frame_cursor = 0
  /\ stage # "native" /\ command = "none" => status = "idle"

-----------------------------------------------------------------------------
LEMMA CountFrom ==
  ASSUME NEW c \in Nat, NEW m \in Nat
  PROVE  IsFiniteSet(c + 1..c + m) /\ Cardinality(c + 1..c + m) = m
  <1> DEFINE e == c + m
             b == c + 1
  <1>1. b \in Int /\ e \in Int /\ (IF b > e THEN 0 ELSE e - b + 1) = m
    BY SMT
  <1> HIDE DEF e, b
  <1>2. IsFiniteSet(b..e) /\ Cardinality(b..e) = m
    BY <1>1, FS_Interval, Zenon
  <1> QED
    BY <1>2, Zenon DEF e, b

\* A set of numbers behind c that has with each number those in front of it is
\* an interval.
LEMMA Prefix ==
  ASSUME NEW c \in Nat, NEW n \in Nat, NEW D \in SUBSET (c + 1..n),
         \A f \in D : c + 1..f \subseteq D
  PROVE  Cardinality(D) \in Nat /\ D = c + 1..c + Cardinality(D)
  <1>1. IsFiniteSet(D) /\ Cardinality(D) \in Nat
    <2>1. c + 1 \in Int /\ n \in Int
      BY SMT
    <2> QED
      BY <2>1, FS_Interval, FS_Subset, FS_CardinalityType, Zenon
  <1> DEFINE m == Cardinality(D)
  <1>0. m \in Nat
    BY <1>1
  <1>2. ASSUME NEW f \in D PROVE f \in c + 1..c + m
    <2>1. c + 1 \in Int /\ f \in Int /\ c + 1 <= f
      BY <1>2, SMT
    <2>2. Cardinality(c + 1..f) = IF c + 1 > f THEN 0 ELSE f - (c + 1) + 1
      BY <2>1, FS_Interval, Zenon
    <2>3. Cardinality(c + 1..f) <= m
      BY <1>1, <1>2, FS_Subset, Zenon
    <2> HIDE DEF m
    <2> QED
      BY <1>0, <2>1, <2>2, <2>3, SMT
  <1>3. IsFiniteSet(c + 1..c + m) /\ Cardinality(c + 1..c + m) = m
    BY <1>0, CountFrom, Zenon
  <1>4. D \subseteq c + 1..c + m
    BY <1>2
  <1> QED
    BY <1>1, <1>3, <1>4, FS_Subset, Zenon

LEMMA DueAreTheNext ==
  ASSUME SamplingInvariant
  PROVE  LET n == Cardinality(Due(i))
         IN  /\ n \in Nat /\ frame_cursor + n <= Frames
             /\ \A f \in frame_cursor + 1..frame_cursor + n : Boundary(f) <= i
             /\ \A f \in frame_cursor + n + 1..Frames : i < Boundary(f)
  <1> DEFINE D == Due(i)
             n == Cardinality(D)
             c == frame_cursor
  <1>1. c \in Nat /\ Frames \in Nat /\ c <= Frames /\ i \in Nat
        /\ \A f \in 1..Frames : Boundary(f) \in Nat
    BY SMT DEF SamplingInvariant, PassTyped, InputTyped, Frames, Boundary
  <1>2. \A f : f \in D <=> f \in c + 1..Frames /\ \A g \in c + 1..f : Boundary(g) <= i
    BY Zenon DEF Due, Boundary, Frames
  <1> HIDE DEF D, c
  <1>3. ASSUME NEW f \in D PROVE c + 1..f \subseteq D
    <2>1. ASSUME NEW g \in c + 1..f PROVE g \in D
      <3>1. g \in c + 1..Frames /\ c + 1..g \subseteq c + 1..f
        BY <1>1, <1>2, <1>3, <2>1, SMT
      <3> QED
        BY <1>2, <1>3, <3>1, Zenon
    <2> QED
      BY <2>1
  <1>4. D \subseteq c + 1..Frames
    BY <1>2, Zenon
  <1>5. n \in Nat /\ D = c + 1..c + n
    BY <1>1, <1>3, <1>4, Prefix, Zenon
  <1> HIDE DEF n
  <1>6. c + n <= Frames
    <2>1. CASE n = 0
      BY <1>1, <2>1, SMT
    <2>2. CASE n # 0
      <3>1. c + n \in c + 1..c + n
        BY <1>1, <1>5, <2>2, SMT
      <3>2. c + n \in c + 1..Frames
        BY <1>4, <1>5, <3>1, Zenon
      <3> QED
        BY <3>2, SMT
    <2> QED
      BY <2>1, <2>2
  <1>7. ASSUME NEW f \in c + 1..c + n PROVE Boundary(f) <= i
    <2>1. f \in D /\ f \in c + 1..f
      BY <1>1, <1>5, <1>7, SMT
    <2> QED
      BY <1>2, <2>1, Zenon
  <1>8. ASSUME NEW f \in c + n + 1..Frames PROVE i < Boundary(f)
    <2>1. c + n + 1 \in c + 1..Frames /\ c + n + 1 \notin D
      BY <1>1, <1>5, <1>8, SMT
    <2>2. PICK g \in c + 1..c + n + 1 : ~(Boundary(g) <= i)
      BY <1>2, <2>1, Zenon
    <2>3. g \notin c + 1..c + n
      BY <1>7, <2>2, Zenon
    <2>4. g = c + n + 1 /\ g \in 1..Frames /\ f \in 1..Frames /\ g <= f
      BY <1>1, <1>5, <1>8, <2>1, <2>3, SMT
    <2>5. i < Boundary(g)
      BY <1>1, <2>2, <2>4, SMT
    <2>6. g < f => Boundary(g) <= Boundary(f)
      BY <2>4, Zenon DEF SamplingInvariant, InputTyped
    <2> QED
      BY <1>1, <2>4, <2>5, <2>6, SMT
  <1> QED
    BY <1>5, <1>6, <1>7, <1>8, Zenon DEF n, D, c

LEMMA Repeated ==
  ASSUME NEW s \in Seq(Nat), NEW n \in Nat, NEW v \in Nat
  PROVE  LET t == s \o [f \in 1..n |-> v]
         IN  /\ t \in Seq(Nat) /\ Len(t) = Len(s) + n /\ Len(s) \in Nat
             /\ \A f \in 1..Len(s) : t[f] = s[f]
             /\ \A f \in Len(s) + 1..Len(s) + n : t[f] = v
  <1> DEFINE r == [f \in 1..n |-> v]
  <1>1. r \in Seq(Nat) /\ Len(r) = n /\ \A f \in 1..n : r[f] = v
    OBVIOUS
  <1> HIDE DEF r
  <1>2. /\ s \o r \in Seq(Nat) /\ Len(s \o r) = Len(s) + Len(r) /\ Len(s) \in Nat
        /\ \A f \in 1..Len(s) + Len(r) : (s \o r)[f] = IF f <= Len(s) THEN s[f] ELSE r[f - Len(s)]
    BY <1>1, ConcatProperties, LenProperties, ZenonT(40)
  <1> QED
    BY <1>1, <1>2, SMT DEF r

-----------------------------------------------------------------------------
\* Row i copied, and the next n of the boundaries due marked behind it; not all
\* of them if that failed.
CopiedWithMarks(n) ==
  /\ status = "running" /\ n \in 0..Cardinality(Due(i))
  /\ UNCHANGED input /\ copied' = Append(copied, i)
  /\ marks' = marks \o [f \in 1..n |-> Len(copied')] /\ frame_cursor' = frame_cursor + n
  /\ \/ n = Cardinality(Due(i)) /\ i' = i + 1 /\ status' = "running"
     \/ i' = i /\ status' = "failed"

LEMMA FirstOrLast ==
  ASSUME NEW n \in Nat, NEW d \in 1..n + 1
  PROVE  d \in 1..n \/ d = n + 1
  OBVIOUS

LEMMA RowCopied ==
  ASSUME SamplingInvariant, NEW n, CopiedWithMarks(n)
  PROVE  SamplingInvariant'
  <1> DEFINE m == Len(marks)
             l == Len(copied)
             due == Cardinality(Due(i))
  <1>1. /\ due \in Nat /\ m + due <= Frames
        /\ \A f \in m + 1..m + due : Boundary(f) <= i
        /\ \A f \in m + due + 1..Frames : i < Boundary(f)
    BY DueAreTheNext, Zenon DEF SamplingInvariant, PassTyped
  <1>2. /\ Frames' = Frames /\ \A f : Boundary(f)' = Boundary(f)
        /\ InputTyped' /\ Frames \in Nat /\ \A f \in 1..Frames : Boundary(f) \in Nat
    <2>1. Frames \in Nat /\ \A f \in 1..Frames : Boundary(f) \in Nat
      BY SMT DEF SamplingInvariant, InputTyped, Frames, Boundary
    <2> QED
      BY <2>1, Zenon DEF SamplingInvariant, InputTyped, Frames, Boundary, CopiedWithMarks
  <1>3. /\ i \in Nat /\ l \in Nat /\ m \in Nat /\ copied \in Seq(Nat) /\ marks \in Seq(Nat)
        /\ frame_cursor = m
        /\ \A d \in 1..l : copied[d] \in Nat /\ copied[d] < i
    <2>1. i \in Nat /\ copied \in Seq(Nat) /\ marks \in Seq(Nat) /\ frame_cursor = m
      BY Zenon DEF SamplingInvariant, PassTyped
    <2>2. \A d \in 1..l : copied[d] < i
      BY DEF SamplingInvariant, RowsInOrder, CopiedWithMarks
    <2> QED
      BY <2>1, <2>2
  <1>4. /\ copied' \in Seq(Nat) /\ Len(copied') = l + 1 /\ copied'[l + 1] = i
        /\ \A d \in 1..l : copied'[d] = copied[d]
    <2>1. copied' = Append(copied, i)
      BY DEF CopiedWithMarks
    <2>2. copied \in Seq(Nat) /\ i \in Nat
      BY <1>3
    <2>3. /\ Append(copied, i) \in Seq(Nat) /\ Len(Append(copied, i)) = l + 1
          /\ \A d \in 1..l : Append(copied, i)[d] = copied[d]
          /\ Append(copied, i)[l + 1] = i
      BY <2>2, Appended, SMTT(40)
    <2> QED
      BY <2>1, <2>3
  <1>5. /\ marks' \in Seq(Nat) /\ Len(marks') = m + n /\ n \in Nat
        /\ \A f \in 1..m : marks'[f] = marks[f]
        /\ \A f \in m + 1..m + n : marks'[f] = l + 1
    <2>1. n \in Nat /\ l + 1 \in Nat
      BY <1>1, <1>3, SMT DEF CopiedWithMarks
    <2>2. marks' = marks \o [f \in 1..n |-> l + 1]
      BY <1>4, Zenon DEF CopiedWithMarks
    <2> DEFINE t == marks \o [f \in 1..n |-> l + 1]
    <2>3. /\ t \in Seq(Nat) /\ Len(t) = Len(marks) + n
          /\ \A f \in 1..Len(marks) : t[f] = marks[f]
          /\ \A f \in Len(marks) + 1..Len(marks) + n : t[f] = l + 1
      <3>1. marks \in Seq(Nat)
        BY <1>3
      <3> HIDE DEF l
      <3> QED
        BY <2>1, <3>1, Repeated
    <2>4. marks' = t
      BY <2>2
    <2> HIDE DEF t, l
    <2> QED
      BY <2>1, <2>3, <2>4, Zenon
  <1>10. /\ n \in 0..due
         /\ \/ n = due /\ i' = i + 1 /\ status' = "running"
            \/ i' = i /\ status' = "failed"
         /\ status # "failed" /\ frame_cursor' = m + n
    BY <1>3, Zenon DEF CopiedWithMarks
  <1> HIDE DEF m, l, due
  <1>6. PassTyped'
    <2>1. i' \in Nat /\ frame_cursor' = m + n /\ m + n <= Frames
      BY <1>1, <1>2, <1>3, <1>5, <1>10, SMT
    <2> QED
      BY <1>2, <1>4, <1>5, <2>1, Zenon DEF PassTyped
  <1>7. RowsInOrder'
    <2>1. ASSUME NEW c \in 1..l + 1, NEW d \in 1..l + 1, c < d PROVE copied'[c] < copied'[d]
      <3>1. c \in 1..l
        BY <1>3, <2>1, SMT
      <3>2. CASE d \in 1..l
        BY <1>4, <2>1, <3>1, <3>2, Zenon DEF SamplingInvariant, RowsInOrder, l
      <3>3. CASE d = l + 1
        BY <1>3, <1>4, <3>1, <3>3, Zenon
      <3> QED
        BY <1>3, <3>2, <3>3, FirstOrLast, Zenon
    <2>2. ASSUME NEW d \in 1..l + 1
          PROVE  copied'[d] <= i' /\ (status' # "failed" => copied'[d] < i')
      <3>1. d \in 1..l \/ d = l + 1
        BY <1>3, FirstOrLast, Zenon
      <3>2. copied'[d] \in Nat /\ (copied'[d] < i \/ copied'[d] = i)
        BY <1>3, <1>4, <3>1, Zenon
      <3>3. i \in Nat
        BY <1>3
      <3> QED
        BY <1>10, <3>2, <3>3, SMT
    <2> QED
      BY <1>4, <2>1, <2>2, Zenon DEF RowsInOrder
  <1>8. MarksPlaced'
    <2>1. ASSUME NEW f \in 1..m + n
          PROVE  /\ marks'[f] \in 1..l + 1
                 /\ Boundary(f) <= copied'[marks'[f]]
                 /\ \A d \in 1..marks'[f] - 1 : copied'[d] < Boundary(f)
      <3>1. CASE f \in 1..m
        <4>1. /\ marks[f] \in 1..l /\ Boundary(f) <= copied[marks[f]]
              /\ \A d \in 1..marks[f] - 1 : copied[d] < Boundary(f)
          BY <3>1, Zenon DEF SamplingInvariant, MarksPlaced, l, m
        <4>2. marks[f] \in 1..l + 1 /\ \A d \in 1..marks[f] - 1 : d \in 1..l
          <5>1. l \in Nat /\ marks[f] \in 1..l
            BY <1>3, <4>1, Zenon
          <5> QED
            BY <5>1, SMT
        <4> QED
          BY <1>4, <1>5, <3>1, <4>1, <4>2, Zenon
      <3>2. CASE f \in m + 1..m + n
        <4>1. f \in m + 1..m + due /\ f \in m + 1..Frames /\ (l + 1) - 1 = l /\ l + 1 \in 1..l + 1
          <5>1. l \in Nat /\ m \in Nat /\ n \in Nat /\ due \in Nat /\ Frames \in Nat
                /\ m + due <= Frames /\ n <= due
            BY <1>1, <1>2, <1>3, <1>5, <1>10, SMT
          <5> QED
            BY <3>2, <5>1, SMT
        <4>2. ASSUME NEW d \in 1..l PROVE copied'[d] < Boundary(f)
          BY <1>4, <1>10, <4>1, <4>2, Zenon DEF SamplingInvariant, OthersBehind, l, m
        <4> QED
          BY <1>1, <1>4, <1>5, <3>2, <4>1, <4>2, Zenon
      <3>3. m \in Nat /\ n \in Nat
        BY <1>3, <1>5, Zenon
      <3> QED
        BY <3>1, <3>2, <3>3, SMT
    <2>2. ASSUME NEW f \in 1..m + n, NEW g \in 1..m + n, f < g PROVE marks'[f] <= marks'[g]
      <3>1. CASE g \in 1..m
        <4>1. f \in 1..m
          BY <1>3, <2>2, <3>1, SMT
        <4> QED
          BY <1>5, <2>2, <3>1, <4>1, Zenon DEF SamplingInvariant, MarksPlaced, m
      <3>2. CASE g \in m + 1..m + n
        <4>1. marks'[g] = l + 1 /\ marks'[f] \in 1..l + 1
          BY <1>5, <2>1, <3>2, Zenon
        <4>2. l \in Nat
          BY <1>3
        <4> QED
          BY <4>1, <4>2, SMT
      <3>3. m \in Nat /\ n \in Nat
        BY <1>3, <1>5, Zenon
      <3> QED
        BY <3>1, <3>2, <3>3, SMT
    <2> QED
      BY <1>2, <1>4, <1>5, <2>1, <2>2, Zenon DEF MarksPlaced
  <1>9. OthersBehind'
    <2>1. ASSUME NEW f \in m + n + 1..Frames, NEW d \in 1..l + 1, d < l + 1 \/ status' # "failed"
          PROVE  copied'[d] < Boundary(f)
      <3>1. CASE d \in 1..l
        <4>1. f \in m + 1..Frames
          <5>1. m \in Nat /\ n \in Nat /\ Frames \in Nat
            BY <1>2, <1>3, <1>5, Zenon
          <5> QED
            BY <2>1, <5>1, SMT
        <4> QED
          BY <1>4, <1>10, <3>1, <4>1, Zenon DEF SamplingInvariant, OthersBehind, l, m
      <3>2. CASE d = l + 1
        <4>1. status' # "failed"
          <5>1. l \in Nat
            BY <1>3
          <5> QED
            BY <2>1, <3>2, <5>1, SMT
        <4>2. f \in m + due + 1..Frames
          BY <1>10, <2>1, <4>1, Zenon
        <4> QED
          BY <1>1, <1>4, <3>2, <4>2, Zenon
      <3> QED
        BY <1>3, <3>1, <3>2, FirstOrLast, Zenon
    <2> QED
      BY <1>2, <1>4, <1>5, <2>1, Zenon DEF OthersBehind
  <1> QED
    BY <1>2, <1>6, <1>7, <1>8, <1>9 DEF SamplingInvariant

\* The output as it was: the pass has moved on, or ended, or begun.
LEMMA NoRowCopied ==
  ASSUME SamplingInvariant, UNCHANGED <<input, copied, marks, frame_cursor>>,
         \/ i' = i \/ (i' = i + 1 /\ status' # "failed"),
         status # "failed"
  PROVE  SamplingInvariant'
  <1>1. i \in Nat /\ Len(copied) \in Nat /\ \A d \in 1..Len(copied) : copied[d] \in Nat /\ copied[d] < i
    <2>1. i \in Nat /\ copied \in Seq(Nat)
      BY Zenon DEF SamplingInvariant, PassTyped
    <2>2. \A d \in 1..Len(copied) : copied[d] < i
      BY DEF SamplingInvariant, RowsInOrder
    <2> QED
      BY <2>1, <2>2
  <1>2. i' \in Nat /\ \A d \in 1..Len(copied) : copied[d] <= i' /\ copied[d] < i'
    BY <1>1, SMT
  <1>3. RowsInOrder'
    BY <1>2, Zenon DEF SamplingInvariant, RowsInOrder
  <1>4. InputTyped' /\ PassTyped' /\ MarksPlaced'
    BY <1>2, Zenon DEF SamplingInvariant, InputTyped, PassTyped, MarksPlaced, Boundary, Frames
  <1>5. OthersBehind'
    BY Zenon DEF SamplingInvariant, OthersBehind, Boundary, Frames
  <1> QED
    BY <1>3, <1>4, <1>5 DEF SamplingInvariant

LEMMA SamplingStep == SamplingInvariant /\ Next => SamplingInvariant'
  <1> SUFFICES ASSUME SamplingInvariant, Next PROVE SamplingInvariant'
    OBVIOUS
  <1>1. CASE SkipRow
    BY <1>1, NoRowCopied DEF SkipRow
  <1>2. CASE CopyRow
    <2>1. Cardinality(Due(i)) \in 0..Cardinality(Due(i))
      BY DueAreTheNext, SMT
    <2> QED
      BY <1>2, <2>1, RowCopied, Zenon DEF CopyRow, CopiedWithMarks
  <1>3. CASE CopyRowFails
    <2>1. PICK n \in 0..Cardinality(Due(i)) :
            /\ n > 0 => copied' # copied
            /\ marks' = marks \o [f \in 1..n |-> Len(copied')]
            /\ frame_cursor' = frame_cursor + n
      BY <1>3, Zenon DEF CopyRowFails
    <2>2. CASE copied' = Append(copied, i)
      BY <1>3, <2>1, <2>2, RowCopied, Zenon DEF CopyRowFails, CopiedWithMarks
    <2>3. CASE copied' = copied
      <3>1. n = 0 /\ n \in Nat
        BY <2>1, <2>3, DueAreTheNext, SMT
      <3>2. marks \in Seq(Nat) /\ frame_cursor \in Nat
        BY SMT DEF SamplingInvariant, PassTyped
      <3>3. [f \in 1..0 |-> Len(copied')] = <<>> /\ marks \o <<>> = marks
        BY <3>2, ConcatEmptySeq, SMT
      <3>4. marks' = marks /\ frame_cursor' = frame_cursor
        BY <2>1, <3>1, <3>2, <3>3, SMT
      <3> QED
        BY <1>3, <2>3, <3>4, NoRowCopied DEF CopyRowFails
    <2> QED
      BY <1>3, <2>2, <2>3, Zenon DEF CopyRowFails
  <1>4. CASE Finish
    BY <1>4, NoRowCopied DEF Finish
  <1> QED
    BY <1>1, <1>2, <1>3, <1>4 DEF Next

-----------------------------------------------------------------------------
\* Before the first row.
LEMMA SamplingBegins ==
  ASSUME InputTyped, i = 0, copied = <<>>, marks = <<>>, frame_cursor = 0
  PROVE  SamplingInvariant
  <1>1. Len(<<>>) = 0 /\ <<>> \in Seq(Nat) /\ 1..0 = {} /\ 0 \in Nat
    BY SMT
  <1>2. 0 <= Frames
    BY SMT DEF InputTyped, Frames
  <1> QED
    BY <1>1, <1>2, Zenon DEF SamplingInvariant, PassTyped, RowsInOrder, MarksPlaced, OthersBehind

LEMMA InputsTyped == input \in Inputs => InputTyped
  <1> SUFFICES ASSUME input \in Inputs PROVE InputTyped
    OBVIOUS
  <1>1. /\ input.total \in Nat /\ input.boundaries \in Seq(0..input.total)
        /\ \A f, g \in 1..Len(input.boundaries) :
             f < g => input.boundaries[f] <= input.boundaries[g]
    BY InputsAssumption, Zenon
  <1>2. 0..input.total \subseteq Nat
    BY <1>1, SMT
  <1> QED
    BY <1>1, <1>2, SeqMonotonic, Zenon DEF InputTyped, Boundary, Frames

LEMMA SamplingInit == InitCommands => SamplingInvariant /\ NotYet
  <1> SUFFICES ASSUME InitCommands PROVE SamplingInvariant /\ NotYet
    OBVIOUS
  <1>1. CASE InitConversion /\ Idle
    <2>1. input.total = 0 /\ input.boundaries = <<>>
      BY <1>1, Zenon DEF Idle
    <2>2. Len(<<>>) = 0 /\ <<>> \in Seq(Nat) /\ 1..0 = {} /\ 0 \in Nat
      BY SMT
    <2>3. InputTyped
      BY <2>1, <2>2, Zenon DEF InputTyped, Frames
    <2> QED
      BY <1>1, <2>3, SamplingBegins DEF Idle, NotYet
  <1>2. CASE Native /\ Init
    BY <1>2, InputsTyped, SamplingBegins DEF Native, Init, NotYet
  <1> QED
    BY <1>1, <1>2, Zenon DEF InitCommands

\* What a command samples is what was converted, whose marks are in order.
LEMMA SampleBegins ==
  ASSUME ConversionInvariant, SamplingInvariant, NotYet, Ready,
         NEW keeps, Sample(keeps)
  PROVE  SamplingInvariant' /\ NotYet'
  <1>1. status = "idle" /\ copied = <<>> /\ marks = <<>> /\ i = 0 /\ frame_cursor = 0
    BY Zenon DEF Ready, NotYet
  <1>2. /\ input'.total = Len(rows) /\ input'.boundaries = marks_at
        /\ copied' = <<>> /\ marks' = <<>> /\ i' = 0 /\ frame_cursor' = 0
        /\ status' = "running" /\ command' = "downsample"
    BY <1>1, Zenon DEF Sample, Total
  <1>3. InputTyped'
    <2>1. Len(rows) \in Nat /\ marks_at \in Seq(Nat)
      BY SMT DEF ConversionInvariant, Typed
    <2>2. \A f, g \in 1..Len(marks_at) : f < g => marks_at[f] <= marks_at[g]
      BY Zenon DEF ConversionInvariant, Counted
    <2> QED
      BY <1>2, <2>1, <2>2, Zenon DEF InputTyped, Frames, Boundary
  <1>4. SamplingInvariant'
    <2>1. Len(<<>>) = 0 /\ <<>> \in Seq(Nat) /\ 1..0 = {} /\ 0 \in Nat
      BY SMT
    <2>2. 0 <= Frames'
      BY <1>3, SMT DEF InputTyped, Frames
    <2> QED
      BY <1>2, <1>3, <2>1, <2>2, Zenon DEF SamplingInvariant, PassTyped, RowsInOrder, MarksPlaced,
         OthersBehind
  <1>5. NotYet'
    BY <1>2, Zenon DEF NotYet
  <1> QED
    BY <1>4, <1>5

LEMMA CommandsStep ==
  ConversionInvariant /\ SamplingInvariant /\ NotYet /\ [NextCommands]_everything
    => SamplingInvariant' /\ NotYet'
  <1> SUFFICES ASSUME ConversionInvariant, SamplingInvariant, NotYet, [NextCommands]_everything
               PROVE  SamplingInvariant' /\ NotYet'
    OBVIOUS
  <1>1. ASSUME UNCHANGED vars PROVE SamplingInvariant'
    <2>1. UNCHANGED <<input, i, copied, marks, frame_cursor, status>>
      BY <1>1, Zenon DEF vars
    <2> QED
      BY <2>1, Zenon DEF SamplingInvariant, InputTyped, PassTyped, RowsInOrder, MarksPlaced, OthersBehind,
         Boundary, Frames
  <1>2. CASE Convert
    <2>1. UNCHANGED <<vars, command>> /\ stage # "native"
      BY <1>2, Zenon DEF Convert, answers, NextConversion, SkipNoise, NoStart, ReadHeader, ReadHeaderless,
         PeekBlank, PeekEntry, PeekNothing, PeekFails, CreateWriter, CreateFails, CopyEntry,
         CopyFails, EndOfTrace, ReadFails, FinishFails
    <2> QED
      BY <1>1, <2>1, Zenon DEF NotYet, vars
  <1>3. CASE DownsampleStep
    <2>1. SamplingInvariant'
      BY <1>3, SamplingStep DEF DownsampleStep
    <2>2. status = "running" /\ status' # "idle" /\ stage' = stage /\ command' = command
      BY <1>3, Zenon DEF DownsampleStep, Next, SkipRow, CopyRow, CopyRowFails, Finish, conversion, answers
    <2> QED
      BY <2>1, <2>2, Zenon DEF NotYet
  <1>4. ASSUME NEW with, DownsampleWith(with) PROVE SamplingInvariant' /\ NotYet'
    BY <1>4, SampleBegins, Zenon DEF DownsampleWith
  <1>5. CASE DownsampleEveryFourth
    BY <1>5, SampleBegins, Zenon DEF DownsampleEveryFourth
  <1>6. ASSUME UNCHANGED vars, command' # "none" PROVE SamplingInvariant' /\ NotYet'
    BY <1>1, <1>6, Zenon DEF NotYet, vars
  <1>7. ASSUME NEW with, CommandFails(with) PROVE SamplingInvariant' /\ NotYet'
    <2>1. UNCHANGED vars /\ command' # "none"
      BY <1>7 DEF CommandFails
    <2> QED
      BY <1>6, <2>1
  <1>8. ASSUME NEW with, NEW max, NEW context, Query(with, max, context)
        PROVE  SamplingInvariant' /\ NotYet'
    <2>1. UNCHANGED vars /\ command' # "none"
      BY <1>8 DEF Query
    <2> QED
      BY <1>6, <2>1
  <1>9. ASSUME NEW start, NEW end, ShowRange(start, end) PROVE SamplingInvariant' /\ NotYet'
    <2>1. UNCHANGED vars /\ command' # "none"
      BY <1>9 DEF ShowRange
    <2> QED
      BY <1>6, <2>1
  <1>10. ASSUME NEW n, ShowLast(n) PROVE SamplingInvariant' /\ NotYet'
    <2>1. UNCHANGED vars /\ command' # "none"
      BY <1>10 DEF ShowLast
    <2> QED
      BY <1>6, <2>1
  <1>11. CASE UNCHANGED everything
    <2>1. UNCHANGED <<vars, stage, command>>
      BY <1>11, Zenon DEF everything, conversion, answers
    <2> QED
      BY <1>1, <2>1, Zenon DEF NotYet, vars
  <1> QED
    BY <1>2, <1>3, <1>4, <1>5, <1>7, <1>8, <1>9, <1>10, <1>11, Zenon DEF NextCommands

-----------------------------------------------------------------------------
LEMMA MarkedOnce == SamplingInvariant => EveryFrameMarkedOnce
  <1> SUFFICES ASSUME SamplingInvariant, Len(copied) > 0
               PROVE  LET upTo(r) == Cardinality({f \in 1..Len(input.boundaries) : input.boundaries[f] <= r})
                          n == Len(copied)
                      IN  /\ frame_cursor = Len(marks)
                          /\ Len(marks) <= upTo(copied[n])
                          /\ status = "failed" \/ Len(marks) = upTo(copied[n])
                          /\ n > 1 => Len(marks) >= upTo(copied[n - 1])
                          /\ \A f, g \in 1..Len(marks) : f < g => marks[f] <= marks[g]
    BY Zenon DEF EveryFrameMarkedOnce
  <1> DEFINE n == Len(copied)
             m == Len(marks)
             upTo(r) == {f \in 1..Frames : Boundary(f) <= r}
  <1>1. /\ n \in Nat /\ n > 0 /\ m \in Nat /\ Frames \in Nat /\ m <= Frames /\ n \in 1..n
        /\ \A d \in 1..n : copied[d] \in Nat
        /\ \A f \in 1..Frames : Boundary(f) \in Nat
    BY SMTT(40) DEF SamplingInvariant, PassTyped, InputTyped, Frames, Boundary
  <1>2. \A r : IsFiniteSet(upTo(r)) /\ Cardinality(upTo(r)) \in Nat
    <2>1. 1 \in Int /\ Frames \in Int
      BY <1>1, SMT
    <2>2. IsFiniteSet(1..Frames)
      BY <2>1, FS_Interval, Zenon
    <2>3. \A r : upTo(r) \in SUBSET (1..Frames)
      BY Zenon
    <2> QED
      BY <2>2, <2>3, FS_Subset, FS_CardinalityType, Zenon
  <1>3. IsFiniteSet(1..m) /\ Cardinality(1..m) = m
    <2>1. 1 \in Int /\ m \in Int
      BY <1>1, SMT
    <2> QED
      BY <1>1, <2>1, FS_Interval, CountTo, Zenon
  <1>4. 1..m \subseteq upTo(copied[n])
    <2>1. ASSUME NEW f \in 1..m PROVE f \in upTo(copied[n])
      <3>1. f \in 1..Frames /\ marks[f] \in 1..n /\ Boundary(f) <= copied[marks[f]]
        BY <1>1, <2>1, SMT DEF SamplingInvariant, MarksPlaced
      <3>2. copied[marks[f]] <= copied[n]
        <4>1. CASE marks[f] = n
          BY <1>1, <4>1, SMT
        <4>2. CASE marks[f] # n
          <5>1. marks[f] < n
            BY <1>1, <3>1, <4>2, SMT
          <5>2. copied[marks[f]] < copied[n]
            BY <1>1, <3>1, <5>1, Zenon DEF SamplingInvariant, RowsInOrder
          <5>3. copied[marks[f]] \in Nat /\ copied[n] \in Nat
            BY <1>1, <3>1, Zenon
          <5> QED
            BY <5>2, <5>3, SMT
        <4> QED
          BY <4>1, <4>2
      <3> QED
        BY <1>1, <3>1, <3>2, SMTT(40)
    <2> QED
      BY <2>1, Zenon
  <1>5. ASSUME NEW d \in 1..n, d < n \/ status # "failed" PROVE upTo(copied[d]) \subseteq 1..m
    <2>1. ASSUME NEW f \in 1..Frames, Boundary(f) <= copied[d] PROVE f \in 1..m
      <3>1. ~(copied[d] < Boundary(f))
        BY <1>1, <1>5, <2>1, SMT
      <3>2. f \notin m + 1..Frames
        BY <1>5, <3>1, Zenon DEF SamplingInvariant, OthersBehind
      <3> QED
        BY <1>1, <2>1, <3>2, SMT
    <2> QED
      BY <2>1, Zenon
  <1> HIDE DEF upTo
  <1>6. m <= Cardinality(upTo(copied[n]))
    BY <1>2, <1>3, <1>4, FS_Subset, Zenon
  <1>7. status # "failed" => m = Cardinality(upTo(copied[n]))
    <2>1. status # "failed" => upTo(copied[n]) = 1..m
      BY <1>1, <1>4, <1>5, Zenon
    <2> QED
      BY <1>3, <2>1, Zenon
  <1>8. ASSUME n > 1 PROVE m >= Cardinality(upTo(copied[n - 1]))
    <2>1. n - 1 \in 1..n /\ n - 1 < n
      BY <1>1, <1>8, SMT
    <2>2. upTo(copied[n - 1]) \in SUBSET (1..m)
      BY <1>5, <2>1, Zenon
    <2>3. Cardinality(upTo(copied[n - 1])) <= m
      BY <1>3, <2>2, FS_Subset, ZenonT(40)
    <2> QED
      BY <1>1, <1>2, <2>3, SMT
  <1>9. frame_cursor = m /\ \A f, g \in 1..m : f < g => marks[f] <= marks[g]
    BY Zenon DEF SamplingInvariant, PassTyped, MarksPlaced
  <1> QED
    BY <1>6, <1>7, <1>8, <1>9, Zenon DEF upTo, Frames, Boundary

LEMMA WithinOneRow == SamplingInvariant => MarksWithinOneRow
  <1> SUFFICES ASSUME SamplingInvariant, NEW f \in 1..Len(marks)
               PROVE  /\ \A d \in 1..marks[f] - 1 : copied[d] < Boundary(f)
                      /\ \A d \in marks[f] + 1..Len(copied) : copied[d] >= Boundary(f)
                      /\ marks[f] = Len(copied) => copied[Len(copied)] >= Boundary(f)
    BY Zenon DEF MarksWithinOneRow, Boundary
  <1>1. /\ marks[f] \in 1..Len(copied) /\ Boundary(f) <= copied[marks[f]]
        /\ \A d \in 1..marks[f] - 1 : copied[d] < Boundary(f)
    BY Zenon DEF SamplingInvariant, MarksPlaced
  <1>2. /\ Len(copied) \in Nat /\ \A e \in 1..Len(copied) : copied[e] \in Nat
        /\ f \in 1..Frames /\ Boundary(f) \in Nat
    <2>1. /\ copied \in Seq(Nat) /\ input.boundaries \in Seq(Nat) /\ marks \in Seq(Nat)
          /\ Len(marks) <= Frames
      BY Zenon DEF SamplingInvariant, PassTyped, InputTyped
    <2>2. f \in 1..Len(input.boundaries)
      BY <2>1, SMT DEF Frames
    <2>3. Boundary(f) \in Nat
      BY <2>1, <2>2, ElementOfSeq, Zenon DEF Boundary
    <2>4. Len(copied) \in Nat /\ \A e \in 1..Len(copied) : copied[e] \in Nat
      BY <2>1, ElementOfSeq, LenProperties, Zenon
    <2> QED
      BY <2>2, <2>3, <2>4, Zenon DEF Frames
  <1>3. ASSUME NEW d \in marks[f] + 1..Len(copied) PROVE copied[d] >= Boundary(f)
    <2>1. d \in 1..Len(copied) /\ marks[f] < d
      BY <1>1, <1>2, <1>3, SMT
    <2>2. copied[marks[f]] < copied[d]
      BY <1>1, <2>1, Zenon DEF SamplingInvariant, RowsInOrder
    <2> QED
      BY <1>1, <1>2, <2>1, <2>2, SMT
  <1>4. ASSUME marks[f] = Len(copied) PROVE copied[Len(copied)] >= Boundary(f)
    BY <1>1, <1>2, <1>4, SMT
  <1> QED
    BY <1>1, <1>3, <1>4

\* The invariant of the pass, in native and in converted traces.
THEOREM SamplingInvariantHolds == SpecCommands => [](SamplingInvariant /\ NotYet)
  BY SamplingInit, CommandsStep, ConversionInvariantHolds, PTL DEF SpecCommands

\* However many boundaries fall on rows left out, and whichever write fails, the
\* boundaries up to the last row copied have one mark each, and no other has.
THEOREM SamplingMarksEveryFrameOnce == SpecCommands => []EveryFrameMarkedOnce
  BY MarkedOnce, SamplingInvariantHolds, PTL

\* Each mark stands next to the first row copied at or after its boundary.
THEOREM SamplingMarksWithinOneRow == SpecCommands => []MarksWithinOneRow
  BY WithinOneRow, SamplingInvariantHolds, PTL

-----------------------------------------------------------------------------
(* The rows copied have the columns of the header, numbers in the numeric ones. *)

\* Every row has the fields of the header, and numbers in those that are numeric.
RowsTyped ==
  \A k \in 1..Len(rows) :
    /\ DOMAIN rows[k] = header.fields
    /\ \A c \in header.fields : Types[c] # "Str" => rows[k][c] \in Nat \cup {Null}

RowsInv == ConversionInvariant /\ RowsTyped /\ (jsonl = <<>> \/ jsonl \in JsonlFiles)

\* What is read of a cell of an entry is of its column: a number, or null.
LEMMA CellTyped ==
  ASSUME NEW l \in Nat, jsonl \in JsonlFiles, l \in 1..Len(jsonl), jsonl[l].kind = "entry",
         NEW c, Types[c] # "Str"
  PROVE  Cell(jsonl[l].cells, c) \in Nat \cup {Null}
  <1>1. 0 \in Nat
    OBVIOUS
  <1>2. ASSUME c \in DOMAIN jsonl[l].cells
        PROVE  As(Types[c], jsonl[l].cells[c]) \in Nat
    <2>1. jsonl[l].cells[c] \in Nat \cup {Odd}
      BY <1>2, ConversionAssumption
    <2>2. CASE jsonl[l].cells[c] = Odd
      BY <2>2, <1>1 DEF As
    <2>3. CASE jsonl[l].cells[c] \in Nat
      <3>1. PICK v \in Nat : v = jsonl[l].cells[c]
        BY <2>3
      <3>2. CASE Types[c] \in DOMAIN Modulus
        <4>1. PICK n \in Nat \ {0} : n = Modulus[Types[c]]
          BY <3>2, SMT DEF Modulus
        <4>2. v % n \in Nat
          OBVIOUS
        <4> QED
          BY <1>1, <3>1, <3>2, <4>1, <4>2, Zenon DEF As
      <3> QED
        BY <1>1, <3>1, <3>2, Zenon DEF As
    <2> QED
      BY <2>1, <2>2, <2>3
  <1> QED
    BY <1>1, <1>2 DEF Cell

\* An entry that is copied has the columns of the header, filled from its cells.
LEMMA RowsTypedCopy ==
  ASSUME RowsInv, CopyEntry
  PROVE  RowsTyped'
  <1>1. /\ Len(jsonl) \in Nat /\ at \in 0..Len(jsonl) /\ pending \in 0..Len(jsonl)
        /\ rows \in Seq(Elements(rows)) /\ pending # 0 => pending = at
    BY Zenon, SMT DEF RowsInv, ConversionInvariant, Typed, Staged
  <1>2. jsonl \in JsonlFiles
    <2>1. jsonl # <<>>
      BY <1>1, SMT DEF CopyEntry, More, IsAhead, AtEnd
    <2> QED
      BY <2>1 DEF RowsInv
  <1> DEFINE l == Taken
  <1>3. l \in 1..Len(jsonl) /\ jsonl[l].kind = "entry"
    BY NextDataLine, Zenon DEF RowsInv, CopyEntry
  <1> DEFINE row == [c \in header.fields |-> Cell(jsonl[l].cells, c)]
  <1>4. rows' = Append(rows, row) /\ UNCHANGED <<jsonl, header>>
    BY Zenon DEF CopyEntry
  <1>5. \A c \in header.fields : Types[c] # "Str" => row[c] \in Nat \cup {Null}
    BY <1>2, <1>3, CellTyped, SMT
  <1>6. DOMAIN row = header.fields
    OBVIOUS
  <1> HIDE DEF l, row
  <1>7. rows \in Seq(Elements(rows) \cup {row})
    BY SMT DEF RowsInv, ConversionInvariant, Typed
  <1>8. PICK R \in Seq(Elements(rows) \cup {row}) : R = rows
    BY <1>7
  <1>9. /\ Len(Append(R, row)) = Len(R) + 1 /\ Len(R) \in Nat
        /\ \A k \in 1..Len(R) : Append(R, row)[k] = R[k]
        /\ Append(R, row)[Len(R) + 1] = row
    BY Appended
  <1>10. \A k \in 1..Len(R) + 1 : k \in 1..Len(R) \/ k = Len(R) + 1
    BY <1>9
  <1>11. ASSUME NEW k \in 1..Len(R) + 1
         PROVE  /\ DOMAIN rows'[k] = header.fields
                /\ \A c \in header.fields : Types[c] # "Str" => rows'[k][c] \in Nat \cup {Null}
    <2>1. CASE k \in 1..Len(R)
      <3>1. rows'[k] = rows[k] /\ k \in 1..Len(rows)
        BY <1>4, <1>8, <1>9, <2>1, Zenon
      <3> QED
        BY <3>1, Zenon DEF RowsInv, RowsTyped
    <2>2. CASE k = Len(R) + 1
      <3>1. rows'[k] = row
        BY <1>4, <1>8, <1>9, <2>2, Zenon
      <3> QED
        BY <1>5, <1>6, <3>1, Zenon
    <2> QED
      BY <1>10, <2>1, <2>2
  <1>12. Len(rows') = Len(R) + 1 /\ header' = header
    BY <1>4, <1>8, <1>9, Zenon
  <1> QED
    BY <1>11, <1>12, Zenon DEF RowsTyped

LEMMA RowsTypedStep == RowsInv /\ [NextCommands]_everything => RowsInv'
  <1> SUFFICES ASSUME RowsInv, [NextCommands]_everything PROVE RowsInv'
    OBVIOUS
  <1>1. ConversionInvariant'
    BY ConversionStep DEF RowsInv
  <1>2. UNCHANGED jsonl
    BY Zenon DEF NextCommands, everything, Convert, DownsampleStep, CommandFails,
       DownsampleWith, DownsampleEveryFourth, Sample, Query, ShowRange, ShowLast, NextConversion,
       SkipNoise, NoStart, ReadHeader, ReadHeaderless, PeekBlank, PeekEntry, PeekNothing, PeekFails,
       CreateWriter, CreateFails, CopyEntry, CopyFails, EndOfTrace, ReadFails, FinishFails, conversion,
       OutputUnchanged
  <1>3. CASE CopyEntry
    BY <1>1, <1>2, <1>3, RowsTypedCopy DEF RowsInv
  <1>4. CASE UNCHANGED <<rows, header>>
    BY <1>1, <1>2, <1>4, Zenon DEF RowsInv, RowsTyped
  <1>5. CASE ReadHeader \/ ReadHeaderless \/ PeekEntry
    <2>1. rows_from = <<>> /\ rows' = rows
      BY <1>5, Zenon DEF RowsInv, ConversionInvariant, Staged, ReadHeader, ReadHeaderless, PeekEntry,
         OutputUnchanged
    <2>2. Len(rows) = 0
      BY <2>1, SMT DEF RowsInv, ConversionInvariant, Typed
    <2>3. 1..0 = {}
      OBVIOUS
    <2>4. RowsTyped'
      BY <2>1, <2>2, <2>3, Zenon DEF RowsTyped
    <2> QED
      BY <1>1, <1>2, <2>4 DEF RowsInv
  <1>6. CopyEntry \/ UNCHANGED <<rows, header>> \/ ReadHeader \/ ReadHeaderless \/ PeekEntry
    BY Zenon DEF NextCommands, everything, Convert, DownsampleStep, CommandFails,
       DownsampleWith, DownsampleEveryFourth, Sample, Query, ShowRange, ShowLast, NextConversion,
       SkipNoise, NoStart, PeekBlank, PeekNothing, PeekFails,
       CreateWriter, CreateFails, CopyFails, EndOfTrace, ReadFails, FinishFails, conversion,
       OutputUnchanged
  <1> QED
    BY <1>3, <1>4, <1>5, <1>6

LEMMA RowsTypedInit == InitCommands => RowsInv
  <1> SUFFICES ASSUME InitCommands PROVE RowsInv
    OBVIOUS
  <1>1. rows = <<>> /\ (jsonl = <<>> \/ jsonl \in JsonlFiles)
    BY DEF InitCommands, InitConversion, Native
  <1>2. 1..Len(<<>>) = {}
    OBVIOUS
  <1>3. RowsTyped
    BY <1>1, <1>2, Zenon DEF RowsTyped
  <1> QED
    BY <1>1, <1>3, InitialConversion DEF RowsInv

-----------------------------------------------------------------------------
(* Conditions that look at the row before.                                *)

RowsWhere(c, m, s) == All([kind |-> "mask equals", field |-> c, mask |-> m, value |-> s])
RowsEntering(c, m, s) == All([kind |-> "enters", field |-> c, mask |-> m, value |-> s])
RowsTurning(c, b, to) == All([kind |-> "transition", field |-> c, bit |-> b, to |-> to])

\* A query of the whole trace asks every row.
LEMMA WholeRange ==
  ASSUME RowsInv, NEW cond
  PROVE  /\ Total \in Nat
         /\ All(cond) = {r \in 0..Total - 1 : Meets(rows, cond, r)}
  <1>1. Len(rows) \in Nat
    BY SMT DEF RowsInv, ConversionInvariant, Typed
  <1>2. Lesser(0, Len(rows)) = 0 /\ Lesser(Len(rows), Len(rows)) = Len(rows)
    BY <1>1 DEF Lesser
  <1> QED
    BY <1>1, <1>2 DEF All, QueryRange, Total

\* What a numeric column reads as: one number for every comparison, bit and sum.
LEMMA NumericCell ==
  ASSUME RowsInv, NEW c \in Numeric, NEW r \in 0..Total - 1
  PROVE  /\ c \in DOMAIN rows[r + 1]
         /\ Num(rows, c, r) \in Nat /\ Num(rows, c, r) # None
         /\ Reading(rows, c, r) = Num(rows, c, r)
         /\ \A v : v # None => Comparable(c, v)
  <1>1. Len(rows) \in Nat
    BY SMT DEF RowsInv, ConversionInvariant, Typed
  <1>2. r + 1 \in 1..Len(rows)
    BY <1>1, SMT DEF Total
  <1>3. c \in header.fields /\ Types[c] # "Str" /\ Types[c] # "Bool"
    BY DEF Numeric
  <1>4. DOMAIN rows[r + 1] = header.fields /\ rows[r + 1][c] \in Nat \cup {Null}
    BY <1>2, <1>3, Zenon DEF RowsInv, RowsTyped
  <1>5. 0 \in Nat
    OBVIOUS
  <1> QED
    BY <1>3, <1>4, <1>5, QueryAssumption, Zenon DEF Num, Reading, Comparable

\* The rows at which a bit turns: it has the value there and not at the row before.
LEMMA Transitions ==
  ASSUME RowsInv, NEW c \in Numeric, NEW b, NEW to \in BOOLEAN
  PROVE  /\ RowsTurning(c, b, to) \subseteq 0..Total - 1
         /\ \A r \in 0..Total - 1 :
              r \in RowsTurning(c, b, to) <=>
                /\ r > 0
                /\ (b \in BitsOf(Num(rows, c, r))) = to
                /\ (b \in BitsOf(Num(rows, c, r - 1))) # to
  <1> DEFINE cond == [kind |-> "transition", field |-> c, bit |-> b, to |-> to]
  <1>1. cond.kind = "transition" /\ cond.field = c /\ cond.bit = b /\ cond.to = to
    OBVIOUS
  <1>2. RowsTurning(c, b, to) = All(cond)
    BY DEF RowsTurning
  <1> HIDE DEF cond
  <1>3. ASSUME NEW r \in 0..Total - 1
        PROVE  Meets(rows, cond, r) <=> Transition(rows, cond, r)
    BY <1>1, <1>3, NumericCell DEF Meets
  <1>4. ASSUME NEW r \in 0..Total - 1
        PROVE  Transition(rows, cond, r) <=>
                 /\ r > 0
                 /\ (b \in BitsOf(Num(rows, c, r))) = to
                 /\ (b \in BitsOf(Num(rows, c, r - 1))) # to
    BY <1>1, Zenon DEF Transition
  <1>5. All(cond) = {r \in 0..Total - 1 : Meets(rows, cond, r)}
    BY WholeRange
  <1> QED
    BY <1>2, <1>3, <1>4, <1>5, Zenon

\* The rows whose masked value is the one asked for.
LEMMA MaskHolds ==
  ASSUME RowsInv, NEW c \in Numeric, NEW m, NEW s
  PROVE  /\ RowsWhere(c, m, s) \subseteq 0..Total - 1
         /\ \A r \in 0..Total - 1 :
              r \in RowsWhere(c, m, s) <=> BitsOf(Num(rows, c, r)) \cap m = s
  <1> DEFINE cond == [kind |-> "mask equals", field |-> c, mask |-> m, value |-> s]
  <1>1. cond.field = c /\ cond.mask = m /\ cond.value = s /\ cond.kind = "mask equals"
    OBVIOUS
  <1>2. RowsWhere(c, m, s) = All(cond)
    BY DEF RowsWhere
  <1> HIDE DEF cond
  <1>3. ASSUME NEW r \in 0..Total - 1
        PROVE  Meets(rows, cond, r) <=> Masked(rows, cond.field, r, cond.mask) = cond.value
    BY <1>1, <1>3, NumericCell DEF Meets
  <1>4. All(cond) = {r \in 0..Total - 1 : Meets(rows, cond, r)}
    BY WholeRange
  <1> QED
    BY <1>1, <1>2, <1>3, <1>4, Zenon DEF Masked

\* The rows with a masked value whose row before, if there is one, has another.
LEMMA MaskEnters ==
  ASSUME RowsInv, NEW c \in Numeric, NEW m, NEW s
  PROVE  /\ RowsEntering(c, m, s) \subseteq 0..Total - 1
         /\ \A r \in 0..Total - 1 :
              r \in RowsEntering(c, m, s) <=>
                r \in RowsWhere(c, m, s) /\ (r > 0 => r - 1 \notin RowsWhere(c, m, s))
  <1> DEFINE cond == [kind |-> "enters", field |-> c, mask |-> m, value |-> s]
  <1>1. cond.field = c /\ cond.mask = m /\ cond.value = s /\ cond.kind = "enters"
    OBVIOUS
  <1>2. RowsEntering(c, m, s) = All(cond)
    BY DEF RowsEntering
  <1> HIDE DEF cond
  <1>3. ASSUME NEW r \in 0..Total - 1
        PROVE  Meets(rows, cond, r) <=> Enters(rows, cond, r)
    BY <1>1, <1>3, NumericCell DEF Meets
  <1>4. All(cond) = {r \in 0..Total - 1 : Meets(rows, cond, r)}
    BY WholeRange
  <1>5. ASSUME NEW r \in 0..Total - 1
        PROVE  Enters(rows, cond, r) <=>
                 r \in RowsWhere(c, m, s) /\ (r > 0 => r - 1 \notin RowsWhere(c, m, s))
    <2>1. r > 0 => r - 1 \in 0..Total - 1
      BY WholeRange
    <2>a. \A k \in 0..Total - 1 : k \in RowsWhere(c, m, s) <=> BitsOf(Num(rows, c, k)) \cap m = s
      BY MaskHolds, Zenon
    <2>2. /\ r \in RowsWhere(c, m, s) <=> BitsOf(Num(rows, c, r)) \cap m = s
          /\ r > 0 => (r - 1 \in RowsWhere(c, m, s) <=> BitsOf(Num(rows, c, r - 1)) \cap m = s)
      BY <2>1, <2>a
    <2>3. Enters(rows, cond, r) <=> /\ BitsOf(Num(rows, c, r)) \cap m = s
                                    /\ r > 0 => BitsOf(Num(rows, c, r - 1)) \cap m # s
      BY <1>1, Zenon DEF Masked, Enters
    <2> QED
      BY <2>2, <2>3
  <1> QED
    BY <1>2, <1>3, <1>4, <1>5, Zenon

\* The rows at which a column changes, and those of them with one old or new value.
LEMMA ValueChanges ==
  ASSUME RowsInv, NEW c \in Numeric
  PROVE  /\ All([kind |-> "changes", field |-> c]) =
              {r \in 0..Total - 1 : r > 0 /\ Num(rows, c, r) # Num(rows, c, r - 1)}
         /\ \A v : v # None =>
              /\ All([kind |-> "changes to", field |-> c, value |-> v]) =
                   {r \in 0..Total - 1 : /\ r > 0 /\ Num(rows, c, r) # Num(rows, c, r - 1)
                                         /\ Num(rows, c, r) = v}
              /\ All([kind |-> "changes from", field |-> c, value |-> v]) =
                   {r \in 0..Total - 1 : /\ r > 0 /\ Num(rows, c, r) # Num(rows, c, r - 1)
                                         /\ Num(rows, c, r - 1) = v}
  <1>0. Total \in Nat
    BY WholeRange
  <1>1. ASSUME NEW r \in 0..Total - 1
        PROVE  /\ Changes(rows, c, r) <=> r > 0 /\ Num(rows, c, r) # Num(rows, c, r - 1)
               /\ r > 0 => Reading(rows, c, r - 1) = Num(rows, c, r - 1)
    <2>1. r > 0 => r - 1 \in 0..Total - 1
      BY <1>0
    <2>2. r > 0 => Reading(rows, c, r - 1) = Num(rows, c, r - 1)
      BY <2>1, NumericCell, Zenon
    <2>3. Reading(rows, c, r) = Num(rows, c, r)
      BY NumericCell, Zenon
    <2> QED
      BY <2>2, <2>3, Zenon DEF Changes
  <1>a. ASSUME NEW cond, cond.field = c, cond.kind = "changes"
        PROVE  All(cond) = {r \in 0..Total - 1 : r > 0 /\ Num(rows, c, r) # Num(rows, c, r - 1)}
    <2>1. ASSUME NEW r \in 0..Total - 1
          PROVE  Meets(rows, cond, r) <=> Changes(rows, c, r)
      BY <1>a, <2>1, NumericCell DEF Meets
    <2>2. All(cond) = {r \in 0..Total - 1 : Meets(rows, cond, r)}
      BY WholeRange
    <2> QED
      BY <1>1, <2>1, <2>2, Zenon
  <1>b. ASSUME NEW v, v # None, NEW cond, cond.field = c, cond.kind = "changes to", cond.value = v
        PROVE  All(cond) = {r \in 0..Total - 1 : /\ r > 0 /\ Num(rows, c, r) # Num(rows, c, r - 1)
                                                 /\ Num(rows, c, r) = v}
    <2>1. ASSUME NEW r \in 0..Total - 1
          PROVE  Meets(rows, cond, r) <=> Changes(rows, c, r) /\ Reading(rows, c, r) = v
      BY <1>b, <2>1, NumericCell DEF Meets
    <2>2. All(cond) = {r \in 0..Total - 1 : Meets(rows, cond, r)}
      BY WholeRange
    <2>3. ASSUME NEW r \in 0..Total - 1 PROVE Reading(rows, c, r) = Num(rows, c, r)
      BY NumericCell, Zenon
    <2> QED
      BY <1>1, <2>1, <2>2, <2>3, Zenon
  <1>c. ASSUME NEW v, v # None, NEW cond, cond.field = c, cond.kind = "changes from", cond.value = v
        PROVE  All(cond) = {r \in 0..Total - 1 : /\ r > 0 /\ Num(rows, c, r) # Num(rows, c, r - 1)
                                                 /\ Num(rows, c, r - 1) = v}
    <2>1. ASSUME NEW r \in 0..Total - 1
          PROVE  Meets(rows, cond, r) <=> Changes(rows, c, r) /\ Reading(rows, c, r - 1) = v
      BY <1>c, <2>1, NumericCell DEF Meets
    <2>2. All(cond) = {r \in 0..Total - 1 : Meets(rows, cond, r)}
      BY WholeRange
    <2> QED
      BY <1>1, <2>1, <2>2, Zenon
  <1>2. /\ [kind |-> "changes", field |-> c].field = c
        /\ [kind |-> "changes", field |-> c].kind = "changes"
    OBVIOUS
  <1>3. ASSUME NEW v, NEW kind
        PROVE  /\ [kind |-> kind, field |-> c, value |-> v].field = c
               /\ [kind |-> kind, field |-> c, value |-> v].kind = kind
               /\ [kind |-> kind, field |-> c, value |-> v].value = v
    OBVIOUS
  <1>4. All([kind |-> "changes", field |-> c]) =
          {r \in 0..Total - 1 : r > 0 /\ Num(rows, c, r) # Num(rows, c, r - 1)}
    BY <1>a, <1>2, Zenon
  <1>5. ASSUME NEW v, v # None
        PROVE  All([kind |-> "changes to", field |-> c, value |-> v]) =
                 {r \in 0..Total - 1 : /\ r > 0 /\ Num(rows, c, r) # Num(rows, c, r - 1)
                                       /\ Num(rows, c, r) = v}
    BY <1>b, <1>3, <1>5, Zenon
  <1>6. ASSUME NEW v, v # None
        PROVE  All([kind |-> "changes from", field |-> c, value |-> v]) =
                 {r \in 0..Total - 1 : /\ r > 0 /\ Num(rows, c, r) # Num(rows, c, r - 1)
                                       /\ Num(rows, c, r - 1) = v}
    BY <1>c, <1>3, <1>6, Zenon
  <1> QED
    BY <1>4, <1>5, <1>6, Zenon

-----------------------------------------------------------------------------
Below == OpToRel(<, Nat)

LEMMA BelowWellFounded == IsWellFoundedOn(Below, Nat)
  BY NatLessThanWellFounded DEF Below

\* A set of numbers has a least one.
LEMMA LeastNat ==
  ASSUME NEW T \in SUBSET Nat, T # {}
  PROVE  \E m \in T : \A k \in T : m <= k
  <1>1. PICK m \in T : \A k \in T : ~(<<k, m>> \in Below)
    BY BelowWellFounded, WFMin
  <1>2. \A k \in T : ~(k < m)
    BY <1>1 DEF Below, OpToRel
  <1> QED BY <1>2

\* Between two beginnings of runs of rows in H a run ends.
LEMMA RunsEnd ==
  ASSUME NEW n \in Nat, NEW H \in SUBSET (0..n - 1),
         NEW p \in H, NEW q \in H, p < q, q - 1 \notin H
  PROVE  \E m \in 0..n - 1 : p < m /\ m < q /\ m \notin H /\ m - 1 \in H
  <1> DEFINE T == {m \in p + 1..q - 1 : m \notin H}
  <1>1. p \in Nat /\ q \in Nat /\ q < n
    OBVIOUS
  <1>2. q - 1 # p
    OBVIOUS
  <1>3. q - 1 \in T
    BY <1>1, <1>2
  <1>4. T \subseteq Nat
    BY <1>1
  <1>5. PICK m \in T : \A k \in T : m <= k
    BY <1>3, <1>4, LeastNat, Zenon
  <1>6. m - 1 \in H
    <2>1. CASE m = p + 1
      BY <2>1, <1>1
    <2>2. CASE m # p + 1
      <3>1. m - 1 \in p + 1..q - 1 /\ ~(m <= m - 1)
        BY <1>1, <1>5, <2>2
      <3> QED
        BY <1>5, <3>1
    <2> QED
      BY <2>1, <2>2
  <1> QED
    BY <1>1, <1>5, <1>6

\* A row in a run of rows in H is in one run, which has one first row.
LEMMA OneBeginning ==
  ASSUME NEW n \in Nat, NEW H \in SUBSET (0..n - 1), NEW r \in H
  PROVE  LET starts == {m \in 0..n - 1 : m \in H /\ (m > 0 => m - 1 \notin H)}
         IN  Cardinality({m \in starts : m <= r /\ m..r \subseteq H}) = 1
  <1> DEFINE starts == {m \in 0..n - 1 : m \in H /\ (m > 0 => m - 1 \notin H)}
             T == {m \in 0..r : m..r \subseteq H}
  <1>1. r \in Nat /\ r < n
    OBVIOUS
  <1>2. r \in T /\ T \subseteq Nat
    BY <1>1
  <1>3. PICK m \in T : \A k \in T : m <= k
    BY <1>2, LeastNat, Zenon
  <1>4. m \in starts
    <2>1. m \in 0..n - 1 /\ m \in H
      BY <1>1, <1>3
    <2>2. ASSUME m > 0, m - 1 \in H PROVE FALSE
      <3>1. m - 1 \in 0..r /\ ~(m <= m - 1)
        BY <1>1, <1>3, <2>2
      <3>2. (m - 1)..r \subseteq H
        <4>1. \A k \in (m - 1)..r : k = m - 1 \/ k \in m..r
          BY <1>1, <1>3
        <4> QED
          BY <1>3, <2>2, <4>1
      <3> QED
        BY <1>3, <3>1, <3>2
    <2> QED
      BY <2>1, <2>2
  <1>5. ASSUME NEW k \in starts, k <= r, k..r \subseteq H PROVE k = m
    <2>1. k \in T /\ k \in Nat /\ m \in Nat
      BY <1>1, <1>3, <1>5
    <2>2. m <= k
      BY <1>3, <2>1
    <2>3. m # k => k - 1 \in m..r
      BY <1>5, <2>1, <2>2, <1>1
    <2>4. m # k => k > 0
      BY <2>1, <2>2
    <2> QED
      BY <1>3, <1>5, <2>3, <2>4
  <1>6. {k \in starts : k <= r /\ k..r \subseteq H} = {m}
    BY <1>1, <1>3, <1>4, <1>5
  <1> QED
    BY <1>6, FS_Singleton, Zenon

\* A bit that turns twice in one direction turns back between.
LEMMA EdgesAlternate ==
  ASSUME RowsInv, NEW c \in Numeric, NEW b, NEW to \in BOOLEAN,
         NEW p \in RowsTurning(c, b, to), NEW q \in RowsTurning(c, b, to), p < q
  PROVE  \E m \in RowsTurning(c, b, ~to) : p < m /\ m < q
  <1> DEFINE H == {r \in 0..Total - 1 : (b \in BitsOf(Num(rows, c, r))) = to}
  <1>1. PICK n \in Nat : n = Total
    BY WholeRange
  <1>2. p \in H /\ q \in H /\ q - 1 \notin H
    <2>1. \A r \in RowsTurning(c, b, to) : /\ r \in 0..Total - 1
                                           /\ (b \in BitsOf(Num(rows, c, r))) = to
                                           /\ (b \in BitsOf(Num(rows, c, r - 1))) # to
      BY Transitions, SMT
    <2> QED
      BY <2>1, Zenon
  <1>3. H \in SUBSET (0..n - 1)
    BY <1>1
  <1>4. PICK m \in 0..n - 1 : p < m /\ m < q /\ m \notin H /\ m - 1 \in H
    <2> HIDE DEF H
    <2> QED
      BY <1>2, <1>3, RunsEnd
  <1>5. m > 0 /\ m \in 0..Total - 1
    BY <1>1, <1>2, <1>3, <1>4
  <1>6. PICK other \in BOOLEAN : other = ~to
    BY Zenon
  <1>7. /\ (b \in BitsOf(Num(rows, c, m))) = other
        /\ (b \in BitsOf(Num(rows, c, m - 1))) # other
    <2>1. (b \in BitsOf(Num(rows, c, m))) # to
      BY <1>4, <1>5, Zenon
    <2>2. (b \in BitsOf(Num(rows, c, m - 1))) = to
      BY <1>4, Zenon
    <2> QED
      BY <1>6, <2>1, <2>2
  <1>8. m \in RowsTurning(c, b, other)
    BY <1>5, <1>7, Transitions, Zenon
  <1> QED
    BY <1>4, <1>6, <1>8, Zenon

\* A row with a masked value is in one run of such rows, entered once.
LEMMA EnteredOnce ==
  ASSUME RowsInv, NEW c \in Numeric, NEW m, NEW s, NEW r \in RowsWhere(c, m, s)
  PROVE  Cardinality({k \in RowsEntering(c, m, s) : k <= r /\ k..r \subseteq RowsWhere(c, m, s)}) = 1
  <1> DEFINE holds == RowsWhere(c, m, s)
             enters == RowsEntering(c, m, s)
  <1>1. PICK n \in Nat : n = Total
    BY WholeRange
  <1>2. holds \in SUBSET (0..n - 1)
    BY <1>1, MaskHolds, Zenon
  <1>3. enters \subseteq 0..n - 1
    BY <1>1, MaskEnters, Zenon
  <1>4. \A k \in 0..n - 1 : k \in enters <=> k \in holds /\ (k > 0 => k - 1 \notin holds)
    BY <1>1, MaskEnters, Zenon
  <1> HIDE DEF holds, enters
  <1>5. enters = {k \in 0..n - 1 : k \in holds /\ (k > 0 => k - 1 \notin holds)}
    BY <1>3, <1>4
  <1>6. r \in holds
    BY DEF holds
  <1>7. Cardinality({k \in enters : k <= r /\ k..r \subseteq holds}) = 1
    BY <1>2, <1>5, <1>6, OneBeginning, Zenon
  <1> QED
    BY <1>7 DEF holds, enters

\* The edges of a bit are the entries into its two values, save that of row 0.
LEMMA EdgesEnter ==
  ASSUME RowsInv, NEW c \in Numeric, NEW b, NEW to \in BOOLEAN
  PROVE  RowsTurning(c, b, to) = RowsEntering(c, {b}, IF to THEN {b} ELSE {}) \ {0}
  <1> DEFINE s == IF to THEN {b} ELSE {}
  <1>1. \A S : S \cap {b} = s <=> ((b \in S) = to)
    <2>1. CASE to
      <3>1. s = {b}
        BY <2>1
      <3>2. \A S : S \cap {b} = {b} <=> b \in S
        OBVIOUS
      <3> QED
        BY <2>1, <3>1, <3>2
    <2>2. CASE ~to
      <3>1. s = {}
        BY <2>2
      <3>2. \A S : S \cap {b} = {} <=> b \notin S
        OBVIOUS
      <3> QED
        BY <2>2, <3>1, <3>2
    <2> QED
      BY <2>1, <2>2
  <1> HIDE DEF s
  <1>2. /\ RowsEntering(c, {b}, s) \subseteq 0..Total - 1
        /\ \A r \in 0..Total - 1 :
             r \in RowsEntering(c, {b}, s) <=>
               r \in RowsWhere(c, {b}, s) /\ (r > 0 => r - 1 \notin RowsWhere(c, {b}, s))
    BY MaskEnters, Zenon
  <1>3. \A r \in 0..Total - 1 : r \in RowsWhere(c, {b}, s) <=> ((b \in BitsOf(Num(rows, c, r))) = to)
    BY <1>1, MaskHolds, Zenon
  <1>4. \A r \in 0..Total - 1 : (r > 0 <=> r # 0) /\ (r > 0 => r - 1 \in 0..Total - 1)
    BY WholeRange
  <1>5. RowsTurning(c, b, to) = RowsEntering(c, {b}, s) \ {0}
    <2>1. ASSUME NEW r \in 0..Total - 1
          PROVE  r \in RowsTurning(c, b, to) <=> r \in RowsEntering(c, {b}, s) /\ r # 0
      <3>1. r \in RowsTurning(c, b, to) <=>
                /\ r > 0
                /\ (b \in BitsOf(Num(rows, c, r))) = to
                /\ (b \in BitsOf(Num(rows, c, r - 1))) # to
        <4>1. \A k \in 0..Total - 1 :
                k \in RowsTurning(c, b, to) <=>
                  /\ k > 0
                  /\ (b \in BitsOf(Num(rows, c, k))) = to
                  /\ (b \in BitsOf(Num(rows, c, k - 1))) # to
          BY Transitions, SMT
        <4> QED
          BY <4>1, Zenon
      <3>2. r > 0 => (r - 1 \in RowsWhere(c, {b}, s) <=> ((b \in BitsOf(Num(rows, c, r - 1))) = to))
        BY <1>3, <1>4, Zenon
      <3>3. r \in RowsTurning(c, b, to) <=>
               r > 0 /\ r \in RowsWhere(c, {b}, s) /\ r - 1 \notin RowsWhere(c, {b}, s)
        BY <1>3, <3>1, <3>2, Zenon
      <3> QED
        BY <1>2, <1>4, <3>3
    <2>2. RowsTurning(c, b, to) \subseteq 0..Total - 1
      BY Transitions, SMT
    <2> QED
      BY <1>2, <2>1, <2>2
  <1> QED
    BY <1>5 DEF s

\* The changes are those to some value, and those from some value.
LEMMA ChangesSplit ==
  ASSUME RowsInv, NEW c \in Numeric
  PROVE  LET by(kind, v) == All([kind |-> kind, field |-> c, value |-> v])
             values == {Num(rows, c, r) : r \in 0..Total - 1}
         IN  /\ All([kind |-> "changes", field |-> c]) = UNION {by("changes to", v) : v \in values}
             /\ All([kind |-> "changes", field |-> c]) = UNION {by("changes from", v) : v \in values}
  <1> DEFINE to(v) == All([kind |-> "changes to", field |-> c, value |-> v])
             from(v) == All([kind |-> "changes from", field |-> c, value |-> v])
             changes == All([kind |-> "changes", field |-> c])
             values == {Num(rows, c, r) : r \in 0..Total - 1}
             Change(r) == r > 0 /\ Num(rows, c, r) # Num(rows, c, r - 1)
  <1>1. \A v \in values : v # None
    BY NumericCell
  <1>2. /\ changes = {r \in 0..Total - 1 : Change(r)}
        /\ \A v \in values : to(v) = {r \in 0..Total - 1 : Change(r) /\ Num(rows, c, r) = v}
        /\ \A v \in values : from(v) = {r \in 0..Total - 1 : Change(r) /\ Num(rows, c, r - 1) = v}
    <2>1. changes = {r \in 0..Total - 1 : Change(r)}
      BY ValueChanges, Zenon
    <2>2. ASSUME NEW v, v # None
          PROVE  to(v) = {r \in 0..Total - 1 : Change(r) /\ Num(rows, c, r) = v}
      BY <2>2, ValueChanges, ZenonT(40)
    <2>3. ASSUME NEW v, v # None
          PROVE  from(v) = {r \in 0..Total - 1 : Change(r) /\ Num(rows, c, r - 1) = v}
      BY <2>3, ValueChanges, ZenonT(40)
    <2> QED
      BY <1>1, <2>1, <2>2, <2>3, Zenon
  <1>3. \A r \in 0..Total - 1 : r > 0 => r - 1 \in 0..Total - 1
    BY WholeRange
  <1>4. \A r \in 0..Total - 1 : Num(rows, c, r) \in values /\ (r > 0 => Num(rows, c, r - 1) \in values)
    BY <1>3
  <1> HIDE DEF to, from, changes, values
  <1>5. changes = UNION {to(v) : v \in values}
    <2>1. \A r \in changes : r \in to(Num(rows, c, r)) /\ Num(rows, c, r) \in values
      BY <1>2, <1>4, Zenon
    <2>2. \A v \in values : to(v) \subseteq changes
      BY <1>2, Zenon
    <2> QED
      BY <2>1, <2>2
  <1>6. changes = UNION {from(v) : v \in values}
    <2>1. \A r \in changes : r \in from(Num(rows, c, r - 1)) /\ Num(rows, c, r - 1) \in values
      BY <1>2, <1>4, Zenon
    <2>2. \A v \in values : from(v) \subseteq changes
      BY <1>2, Zenon
    <2> QED
      BY <2>1, <2>2
  <1> QED
    BY <1>5, <1>6 DEF to, from, changes, values

LEMMA ConditionsAlternate == RowsInv => TransitionsAlternate
  <1> SUFFICES ASSUME RowsInv, NEW c \in Numeric, NEW b \in {0, 7}
               PROVE
      LET by(kind, v) == All([kind |-> kind, field |-> c, value |-> v])
          values == {Num(rows, c, r) : r \in 0..Total - 1}
      IN  /\ \A to \in BOOLEAN : \A p, q \in RowsTurning(c, b, to) :
               p < q => \E m \in RowsTurning(c, b, ~to) : p < m /\ m < q
          /\ \A s \in {{}, {b}} : \A r \in RowsWhere(c, {b}, s) :
               Cardinality({m \in RowsEntering(c, {b}, s) :
                              m <= r /\ m..r \subseteq RowsWhere(c, {b}, s)}) = 1
          /\ \A to \in BOOLEAN :
               RowsTurning(c, b, to) = RowsEntering(c, {b}, IF to THEN {b} ELSE {}) \ {0}
          /\ All([kind |-> "changes", field |-> c]) = UNION {by("changes to", v) : v \in values}
          /\ All([kind |-> "changes", field |-> c]) = UNION {by("changes from", v) : v \in values}
    BY Zenon DEF TransitionsAlternate, RowsTurning, RowsWhere, RowsEntering
  <1>1. \A to \in BOOLEAN : \A p, q \in RowsTurning(c, b, to) :
          p < q => \E m \in RowsTurning(c, b, ~to) : p < m /\ m < q
    BY EdgesAlternate, Zenon
  <1>2. \A s : \A r \in RowsWhere(c, {b}, s) :
          Cardinality({m \in RowsEntering(c, {b}, s) :
                         m <= r /\ m..r \subseteq RowsWhere(c, {b}, s)}) = 1
    BY EnteredOnce, Zenon
  <1>3. \A to \in BOOLEAN :
          RowsTurning(c, b, to) = RowsEntering(c, {b}, IF to THEN {b} ELSE {}) \ {0}
    BY EdgesEnter, Zenon
  <1> QED
    BY <1>1, <1>2, <1>3, ChangesSplit, Zenon

-----------------------------------------------------------------------------
(* Numbers, and what is printed of rows.                                  *)

LEMMA Induction ==
  ASSUME NEW S \in SUBSET Nat, 0 \in S, \A n \in S : n + 1 \in S
  PROVE  S = Nat
  <1> SUFFICES ASSUME Nat \ S # {} PROVE FALSE
    OBVIOUS
  <1>1. PICK m \in Nat \ S : \A n \in Nat \ S : m <= n
    <2> DEFINE T == Nat \ S
    <2>1. T \subseteq Nat /\ T # {}
      OBVIOUS
    <2> HIDE DEF T
    <2>2. \E m \in T : \A n \in T : m <= n
      BY <2>1, LeastNat
    <2> QED BY <2>2 DEF T
  <1>2. m # 0 /\ m - 1 \in Nat /\ ~(m <= m - 1) /\ (m - 1) + 1 = m
    BY <1>1
  <1>3. m - 1 \in S
    BY <1>1, <1>2
  <1> QED BY <1>2, <1>3

\* A step for each of the first n numbers can be taken one after the other.
LEMMA Iterated ==
  ASSUME NEW X, NEW x \in X, NEW n \in Nat, NEW F \in [1..n -> [X -> X]]
  PROVE  \E g \in [0..n -> X] : g[0] = x /\ \A k \in 1..n : g[k] = F[k][g[k - 1]]
  <1> DEFINE Run(g, m) == g \in [0..m -> X] /\ g[0] = x /\ \A k \in 1..m : g[k] = F[k][g[k - 1]]
             S == {m \in Nat : m <= n => \E g : Run(g, m)}
  <1>1. 0 \in S
    <2>1. Run([k \in 0..0 |-> x], 0)
      OBVIOUS
    <2> QED BY <2>1
  <1>2. ASSUME NEW m \in S PROVE m + 1 \in S
    <2>1. m \in Nat
      OBVIOUS
    <2>2. SUFFICES ASSUME m + 1 <= n PROVE \E g : Run(g, m + 1)
      <3> HIDE DEF Run
      <3> QED BY <2>1
    <2>3. PICK g : Run(g, m)
      <3> HIDE DEF Run
      <3> QED BY <2>1, <2>2
    <2> DEFINE h == [k \in 0..m + 1 |-> IF k = m + 1 THEN F[m + 1][g[m]] ELSE g[k]]
    <2>4. g[m] \in X /\ m + 1 \in 1..n /\ F[m + 1] \in [X -> X]
      <3>1. m \in 0..m /\ m + 1 \in 1..n
        BY <2>1, <2>2
      <3> QED BY <2>3, <3>1
    <2>5. F[m + 1][g[m]] \in X
      BY <2>4
    <2>6. h \in [0..m + 1 -> X]
      <3>1. \A k \in 0..m + 1 : k # m + 1 => k \in 0..m
        BY <2>1
      <3>2. \A k \in 0..m + 1 : k # m + 1 => g[k] \in X
        BY <2>3, <3>1
      <3> QED BY <2>5, <3>2
    <2>7. h[0] = x
      BY <2>1, <2>3
    <2>8. ASSUME NEW k \in 1..m + 1 PROVE h[k] = F[k][h[k - 1]]
      <3>1. CASE k = m + 1
        <4>1. h[k] = F[m + 1][g[m]] /\ k - 1 = m /\ h[m] = g[m]
          BY <2>1, <3>1
        <4> QED BY <3>1, <4>1
      <3>2. CASE k # m + 1
        <4>1. k \in 1..m /\ k \in 0..m + 1 /\ k - 1 \in 0..m + 1 /\ k - 1 # m + 1
          BY <2>1, <3>2
        <4>2. h[k] = g[k] /\ h[k - 1] = g[k - 1]
          BY <3>2, <4>1
        <4> HIDE DEF h
        <4> QED BY <2>3, <4>1, <4>2
      <3> QED BY <3>1, <3>2
    <2> HIDE DEF h
    <2> QED BY <2>6, <2>7, <2>8
  <1>3. S = Nat
    <2> HIDE DEF S
    <2>1. S \in SUBSET Nat
      BY DEF S
    <2> QED BY <1>1, <1>2, <2>1, Induction
  <1>4. n \in S /\ n <= n
    BY <1>3
  <1> QED BY <1>4

-----------------------------------------------------------------------------
\* The rows of a set of rows, one by one.
LEMMA PlacesFilled ==
  ASSUME NEW n \in Nat, NEW S \in SUBSET (0..n - 1), NEW k \in 1..Cardinality(S)
  PROVE  InOrder(S)[k] \in S
  <1> DEFINE upto(m) == {q \in S : q <= m}
             T == {m \in Nat : k <= Cardinality(upto(m))}
  <1>1. IsFiniteSet(S) /\ Cardinality(S) \in Nat
    <2>1. IsFiniteSet(0..n - 1)
      BY FS_Interval
    <2> QED
      BY <2>1, FS_Subset, FS_CardinalityType
  <1>2. \A m : IsFiniteSet(upto(m)) /\ Cardinality(upto(m)) \in Nat
    <2>1. \A m : upto(m) \subseteq S
      OBVIOUS
    <2> QED
      BY <1>1, <2>1, FS_Subset, FS_CardinalityType
  <1>0. \A q \in S : q \in Nat /\ q <= n
    OBVIOUS
  <1>3. n \in T
    <2>1. upto(n) = S
      BY <1>0
    <2> QED
      BY <1>1, <2>1
  <1>4. PICK m \in T : \A j \in T : m <= j
    <2>1. T \subseteq Nat
      OBVIOUS
    <2> HIDE DEF T
    <2> QED
      BY <1>3, <2>1, LeastNat
  <1>5. m \in Nat /\ k \in Nat /\ k >= 1
    BY <1>1
  <1>6. Cardinality(upto(m - 1)) < k
    <2>1. CASE m = 0
      <3>1. upto(m - 1) = {}
        <4>1. m - 1 = -1 /\ \A q \in Nat : ~(q <= -1)
          BY <2>1
        <4> QED
          BY <1>0, <4>1
      <3> QED
        BY <1>5, <3>1, FS_EmptySet
    <2>2. CASE m # 0
      <3>1. m - 1 \in Nat /\ ~(m <= m - 1)
        BY <1>5, <2>2
      <3>2. m - 1 \notin T
        BY <1>4, <3>1
      <3> QED
        <4>1. PICK x \in Nat : x = Cardinality(upto(m - 1))
          BY <1>2
        <4>2. ~(k <= x)
          BY <3>1, <3>2, <4>1
        <4> HIDE DEF upto, T
        <4> QED
          BY <1>5, <4>1, <4>2
    <2> QED
      BY <2>1, <2>2
  <1>7. upto(m) = upto(m - 1) \cup (S \cap {m}) /\ m \notin upto(m - 1)
    <2>1. \A q \in Nat : (q <= m <=> q <= m - 1 \/ q = m) /\ ~(m <= m - 1)
      BY <1>5
    <2> QED
      BY <1>0, <1>5, <2>1
  <1>8. m \in S
    <2>1. m \notin S => upto(m) = upto(m - 1)
      BY <1>7
    <2>2. k <= Cardinality(upto(m))
      BY <1>4
    <2> HIDE DEF upto, T
    <2> QED
      BY <1>2, <1>5, <1>6, <2>1, <2>2
  <1>9. Cardinality(upto(m)) = k
    <2>1. upto(m) = upto(m - 1) \cup {m}
      BY <1>7, <1>8
    <2>2. Cardinality(upto(m)) = Cardinality(upto(m - 1)) + 1
      <3> HIDE DEF upto, T
      <3> QED
        BY <1>2, <1>7, <2>1, FS_AddElement
    <2>3. k <= Cardinality(upto(m))
      BY <1>4
    <2> HIDE DEF upto, T
    <2> QED
      BY <1>2, <1>5, <1>6, <2>2, <2>3
  <1>10. InOrder(S)[k] = CHOOSE r \in S : Cardinality({q \in S : q <= r}) = k
    BY DEF InOrder
  <1>11. \E r \in S : Cardinality({q \in S : q <= r}) = k
    BY <1>8, <1>9
  <1> QED
    BY <1>10, <1>11, Zenon

LEMMA UpToOneMore ==
  ASSUME NEW m \in Nat
  PROVE  1..m + 1 = (1..m) \cup {m + 1}
  OBVIOUS

\* The rows of two listings joined are those of either.
LEMMA JoinedElements ==
  ASSUME NEW s \in Seq(Nat), NEW t \in Seq(Nat)
  PROVE  s \o t \in Seq(Nat) /\ Elements(s \o t) = Elements(s) \cup Elements(t)
  <1>1. /\ Len(s) \in Nat /\ Len(t) \in Nat /\ Len(s \o t) = Len(s) + Len(t)
        /\ \A k \in 1..Len(s) : (s \o t)[k] = s[k]
        /\ \A k \in 1..Len(t) : (s \o t)[Len(s) + k] = t[k]
        /\ s \o t \in Seq(Nat)
    OBVIOUS
  <1>2. \A k \in 1..Len(s) + Len(t) : k \in 1..Len(s) \/ (k - Len(s) \in 1..Len(t) /\ k = Len(s) + (k - Len(s)))
    BY <1>1
  <1>3. \A k \in 1..Len(s) : k \in 1..Len(s) + Len(t)
    BY <1>1
  <1>4. \A k \in 1..Len(t) : Len(s) + k \in 1..Len(s) + Len(t)
    BY <1>1
  <1>5. \A x \in Elements(s \o t) : x \in Elements(s) \cup Elements(t)
    <2> SUFFICES ASSUME NEW k \in 1..Len(s) + Len(t)
                 PROVE  (s \o t)[k] \in Elements(s) \cup Elements(t)
      BY <1>1, Zenon DEF Elements
    <2>1. CASE k \in 1..Len(s)
      BY <1>1, <2>1, Zenon DEF Elements
    <2>2. CASE k - Len(s) \in 1..Len(t) /\ k = Len(s) + (k - Len(s))
      <3>1. (s \o t)[k] = t[k - Len(s)]
        BY <1>1, <2>2, Zenon
      <3> QED
        BY <2>2, <3>1, Zenon DEF Elements
    <2> QED
      BY <1>2, <2>1, <2>2
  <1>6. \A x \in Elements(s) : x \in Elements(s \o t)
    BY <1>1, <1>3, Zenon DEF Elements
  <1>7. \A x \in Elements(t) : x \in Elements(s \o t)
    BY <1>1, <1>4, Zenon DEF Elements
  <1> QED
    BY <1>1, <1>5, <1>6, <1>7, Zenon

LEMMA IntervalElements ==
  ASSUME NEW a \in Nat, NEW b \in Nat
  PROVE  Interval(a, b) \in Seq(Nat) /\ Elements(Interval(a, b)) = a..b - 1
  <1> DEFINE n == IF a < b THEN b - a ELSE 0
             s == [k \in 1..n |-> a + k - 1]
  <1>1. n \in Nat /\ \A k \in 1..n : a + k - 1 \in a..b - 1 /\ a + k - 1 \in Nat
    OBVIOUS
  <1>2. s \in Seq(Nat) /\ Len(s) = n
    <2> HIDE DEF n
    <2> QED
      BY <1>1
  <1>3. \A q \in a..b - 1 : q - a + 1 \in 1..n /\ a + (q - a + 1) - 1 = q
    OBVIOUS
  <1>4. {s[k] : k \in 1..n} = a..b - 1
    <2>1. \A k \in 1..n : s[k] = a + k - 1
      OBVIOUS
    <2>2. \A k \in 1..n : a + k - 1 \in a..b - 1
      BY <1>1
    <2>3. ASSUME NEW q \in a..b - 1 PROVE \E k \in 1..n : s[k] = q
      <3>1. q - a + 1 \in 1..n /\ a + (q - a + 1) - 1 = q
        BY <1>3
      <3> QED
        BY <2>1, <3>1
    <2>4. \A k \in 1..n : s[k] \in a..b - 1
      BY <2>1, <2>2
    <2> HIDE DEF s, n
    <2>5. \A q \in a..b - 1 : q \in {s[k] : k \in 1..n}
      BY <2>3
    <2>6. \A v \in {s[k] : k \in 1..n} : v \in a..b - 1
      BY <2>4
    <2> QED
      BY <2>5, <2>6, Zenon
  <1>5. Interval(a, b) = s
    BY DEF Interval
  <1>6. Elements(s) = a..b - 1
    <2> HIDE DEF s, n
    <2> QED
      BY <1>2, <1>4 DEF Elements
  <1> HIDE DEF s, n
  <1> QED
    BY <1>2, <1>5, <1>6

\* The rows around a row, within a trace.
Around(r, context, total) == {q \in 0..total - 1 : q \in r - context..r + context}

\* A match is printed with all the rows of the trace around it.
LEMMA ContextElements ==
  ASSUME NEW total \in Nat, NEW r \in 0..total - 1, NEW context \in Nat
  PROVE  /\ InContext(r, context, total) \in Seq(Nat)
         /\ Elements(InContext(r, context, total)) = Around(r, context, total)
  <1> DEFINE a == IF r >= context THEN r - context ELSE 0
             b == Lesser(r + context + 1, total)
             before == Interval(a, r)
             after == Interval(r + 1, b)
  <1>1. a \in Nat /\ b \in Nat /\ r \in Nat /\ r + 1 \in Nat
    BY DEF Lesser
  <1>2. before \in Seq(Nat) /\ Elements(before) = a..r - 1
    BY <1>1, IntervalElements, Zenon
  <1>3. after \in Seq(Nat) /\ Elements(after) = (r + 1)..b - 1
    BY <1>1, IntervalElements, Zenon
  <1>4. <<r>> \in Seq(Nat) /\ Elements(<<r>>) = {r}
    BY <1>1 DEF Elements
  <1>5. InContext(r, context, total) = (before \o <<r>>) \o after
    BY DEF InContext
  <1>6. (a..r - 1) \cup {r} \cup ((r + 1)..b - 1) = Around(r, context, total)
    BY DEF Around, Lesser
  <1> HIDE DEF before, after, a, b
  <1>7. before \o <<r>> \in Seq(Nat) /\ Elements(before \o <<r>>) = (a..r - 1) \cup {r}
    BY <1>2, <1>4, JoinedElements
  <1>8. /\ (before \o <<r>>) \o after \in Seq(Nat)
        /\ Elements((before \o <<r>>) \o after) = (a..r - 1) \cup {r} \cup ((r + 1)..b - 1)
    <2>1. PICK s \in Seq(Nat) : s = before \o <<r>>
      BY <1>7
    <2> QED
      BY <1>3, <1>7, <2>1, JoinedElements
  <1> QED
    BY <1>5, <1>6, <1>8

\* What is printed of some rows: they and those around them.
LEMMA ContextsElements ==
  ASSUME NEW total \in Nat, NEW context \in Nat, NEW matched \in Seq(0..total - 1)
  PROVE  /\ InContexts(matched, context, total) \in Seq(Nat)
         /\ Elements(InContexts(matched, context, total)) =
              UNION {Around(matched[k], context, total) : k \in 1..Len(matched)}
  <1> DEFINE X == Seq(Nat)
             body(k, s) == s \o InContext(matched[k], context, total)
             joined[k \in 0..Len(matched)] ==
               IF k = 0 THEN <<>> ELSE joined[k - 1] \o InContext(matched[k], context, total)
             F == [k \in 1..Len(matched) |-> [s \in X |-> body(k, s)]]
  <1>1. PICK n \in Nat : n = Len(matched)
    OBVIOUS
  <1>2. \A k \in 1..n : /\ matched[k] \in 0..total - 1
                        /\ InContext(matched[k], context, total) \in Seq(Nat)
                        /\ Elements(InContext(matched[k], context, total)) =
                             Around(matched[k], context, total)
    <2>1. \A k \in 1..n : matched[k] \in 0..total - 1
      BY <1>1
    <2> QED
      BY <2>1, ContextElements, Zenon
  <1>3. F \in [1..n -> [X -> X]]
    <2>1. ASSUME NEW k \in 1..n, NEW s \in X PROVE body(k, s) \in X
      BY <1>2, JoinedElements
    <2> HIDE DEF body, X
    <2> QED
      BY <1>1, <2>1
  <1>4. <<>> \in X /\ Elements(<<>>) = {}
    BY DEF Elements
  <1>5. PICK g \in [0..n -> X] : g[0] = <<>> /\ \A k \in 1..n : g[k] = F[k][g[k - 1]]
    <2>1. <<>> \in X
      BY <1>4
    <2>2. n \in Nat
      OBVIOUS
    <2>3. ASSUME NEW Y, <<>> \in Y, NEW G, G \in [1..n -> [Y -> Y]]
          PROVE  \E g \in [0..n -> Y] : g[0] = <<>> /\ \A k \in 1..n : g[k] = G[k][g[k - 1]]
      BY ONLY <2>2, <2>3, Iterated, SMTT(30)
    <2> HIDE DEF F, X, body, joined
    <2> QED
      BY ONLY <1>3, <2>1, <2>3, SMTT(30)
  <1>6. \A k \in 1..n : g[k - 1] \in X /\ g[k] = body(k, g[k - 1])
    <2>1. \A k \in 1..n : g[k - 1] \in X
      <3>1. \A k \in 1..n : k - 1 \in 0..n
        OBVIOUS
      <3> HIDE DEF X
      <3> QED
        BY <3>1
    <2> HIDE DEF body, X
    <2> QED
      BY <1>1, <1>5, <2>1 DEF F
  <1>7. g = [k \in 0..Len(matched) |->
               IF k = 0 THEN <<>> ELSE g[k - 1] \o InContext(matched[k], context, total)]
    <2>1. g = [k \in 0..Len(matched) |-> g[k]]
      BY <1>1, <1>5
    <2>2. \A k \in 0..Len(matched) : k # 0 => k \in 1..n
      BY <1>1
    <2> QED
      BY <1>5, <1>6, <2>1, <2>2, Zenon
  <1>8. joined = [k \in 0..Len(matched) |->
                    IF k = 0 THEN <<>> ELSE joined[k - 1] \o InContext(matched[k], context, total)]
    BY <1>7, Zenon
  <1> HIDE DEF F
  <1>9. /\ joined[0] = <<>>
        /\ \A k \in 1..n : joined[k] = body(k, joined[k - 1])
    <2> HIDE DEF joined
    <2>1. 0 \in 0..Len(matched)
      BY <1>1
    <2>2. \A k \in 1..n : k \in 0..Len(matched) /\ k # 0
      BY <1>1
    <2> QED
      BY <1>8, <2>1, <2>2, Zenon
  <1>10. InContexts(matched, context, total) = joined[n]
    BY <1>1, Zenon DEF InContexts
  <1> HIDE DEF joined
  <1> DEFINE near(k) == Around(matched[k], context, total)
             Covers(m) == /\ joined[m] \in Seq(Nat)
                          /\ Elements(joined[m]) = UNION {near(k) : k \in 1..m}
             S == {m \in Nat : m <= n => Covers(m)}
  <1>11. 0 \in S
    <2>1. UNION {near(k) : k \in 1..0} = {}
      OBVIOUS
    <2> QED
      BY <1>4, <1>9, <2>1
  <1>12. ASSUME NEW m \in S PROVE m + 1 \in S
    <2>0. m \in Nat
      OBVIOUS
    <2>1. SUFFICES ASSUME m + 1 <= n PROVE Covers(m + 1)
      <3> HIDE DEF Covers
      <3> QED
        BY <2>0
    <2>2. m + 1 \in 1..n /\ m <= n /\ (m + 1) - 1 = m
      BY <2>0, <2>1
    <2>3. joined[m + 1] = joined[m] \o InContext(matched[m + 1], context, total)
      BY <1>9, <2>2
    <2>4. joined[m] \in Seq(Nat) /\ Elements(joined[m]) = UNION {near(k) : k \in 1..m}
      <3>1. Covers(m)
        <4> HIDE DEF Covers
        <4> QED
          BY <2>2
      <3> QED
        BY <3>1
    <2>5. /\ InContext(matched[m + 1], context, total) \in Seq(Nat)
          /\ Elements(InContext(matched[m + 1], context, total)) = near(m + 1)
      BY <1>2, <2>2
    <2>6. /\ joined[m + 1] \in Seq(Nat)
          /\ Elements(joined[m + 1]) = (UNION {near(k) : k \in 1..m}) \cup near(m + 1)
      <3>1. PICK t \in Seq(Nat) : t = InContext(matched[m + 1], context, total)
        BY <2>5
      <3>2. PICK s \in Seq(Nat) : s = joined[m]
        BY <2>4
      <3>3. s \o t \in Seq(Nat) /\ Elements(s \o t) = Elements(s) \cup Elements(t)
        BY JoinedElements
      <3> HIDE DEF near
      <3> QED
        BY <2>3, <2>4, <2>5, <3>1, <3>2, <3>3, Zenon
    <2>7. 1..m + 1 = (1..m) \cup {m + 1}
      BY <2>0, UpToOneMore
    <2>8. UNION {near(k) : k \in 1..m + 1} = (UNION {near(k) : k \in 1..m}) \cup near(m + 1)
      <3> HIDE DEF near, S
      <3> QED
        BY <2>7
    <2> QED
      BY <2>6, <2>8
  <1>13. n \in S /\ n <= n
    <2>1. S \in SUBSET Nat
      OBVIOUS
    <2> HIDE DEF S
    <2>2. S = Nat
      BY <1>11, <1>12, <2>1, Induction
    <2> QED
      BY <2>2
  <1> QED
    BY <1>1, <1>10, <1>13

-----------------------------------------------------------------------------
(* The matches shown, with their context.                                 *)

\* What the first matches of a query show.
LEMMA MatchesShown ==
  ASSUME NEW total \in Nat, NEW context \in Nat, NEW max \in Nat \ {0},
         NEW found \in SUBSET (0..total - 1)
  PROVE  LET seen == ShownMatches(found, max, context, total)
         IN  \E few \in SUBSET found :
               /\ Elements(seen) = UNION {Around(r, context, total) : r \in few}
               /\ found # {} => few # {}
  <1> DEFINE all == InOrder(found)
             matched == First(all, max)
             few == {matched[k] : k \in 1..Len(matched)}
  <1>1. IsFiniteSet(found) /\ Cardinality(found) \in Nat
    <2>1. IsFiniteSet(0..total - 1)
      BY FS_Interval
    <2> QED
      BY <2>1, FS_Subset, FS_CardinalityType
  <1>2. PICK n \in Nat : n = Cardinality(found)
    BY <1>1
  <1>3. /\ all \in Seq(found) /\ Len(all) = n
    <2>1. \A k \in 1..n : InOrder(found)[k] \in found
      BY <1>2, PlacesFilled
    <2>2. InOrder(found) = [k \in 1..n |-> InOrder(found)[k]]
      BY <1>2 DEF InOrder
    <2> QED
      BY <2>1, <2>2
  <1>4. PICK m \in 0..n : m = Lesser(max, n) /\ (n > 0 => m > 0)
    BY DEF Lesser
  <1> HIDE DEF all
  <1>5. matched \in Seq(found) /\ Len(matched) = m
    BY <1>3, <1>4 DEF First
  <1>6. few \in SUBSET found
    BY <1>5
  <1>7. found # {} => few # {}
    <2>1. found # {} => n > 0
      BY <1>1, <1>2, FS_EmptySet
    <2>2. m > 0 => 1 \in 1..m
      OBVIOUS
    <2> HIDE DEF matched
    <2> QED
      BY <1>4, <1>5, <2>1, <2>2
  <1> HIDE DEF matched
  <1>8. matched \in Seq(0..total - 1)
    <2>1. found \subseteq 0..total - 1
      OBVIOUS
    <2> QED
      BY <1>5, <2>1, SeqMonotonic
  <1>9. Elements(InContexts(matched, context, total)) =
          UNION {Around(matched[k], context, total) : k \in 1..Len(matched)}
    BY <1>8, ContextsElements
  <1>10. UNION {Around(matched[k], context, total) : k \in 1..Len(matched)} =
           UNION {Around(r, context, total) : r \in few}
    OBVIOUS
  <1>11. ShownMatches(found, max, context, total) = InContexts(matched, context, total)
    BY DEF ShownMatches, matched, all
  <1> HIDE DEF few
  <1> QED
    BY <1>6, <1>7, <1>9, <1>10, <1>11, Zenon

Nearby(rs) == UNION {Near(r) : r \in rs}

ShownAround ==
  command = "query" =>
    /\ Printed \subseteq Nearby(matches)
    /\ \E few \in SUBSET matches : Printed = Nearby(few) /\ (matches # {} => few # {})

LEMMA ShownIsAround == ShownInContext <=> ShownAround
  BY DEF ShownInContext, ShownAround, Nearby

QueryShown == command = "query" => stage = "done" /\ ShownAround

\* A query shows what is around the first of its matches.
LEMMA QueryShows ==
  ASSUME RowsInv, NEW with \in Queries, NEW max \in {1, 2}, NEW context \in Contexts,
         Query(with, max, context)
  PROVE  QueryShown'
  <1>1. /\ command' = "query" /\ around' = context /\ UNCHANGED <<rows, stage>> /\ stage = "done"
        /\ matches' = QueryRange(rows, Parse(with), 0, Total)
        /\ shown' = ShownMatches(matches', max, context, Total)
    BY Zenon DEF Query, Ready, conversion
  <1>2. PICK n \in Nat : n = Total
    BY WholeRange
  <1>3. PICK found \in SUBSET (0..n - 1) : found = matches'
    <2>1. All(Parse(with)) = {r \in 0..Total - 1 : Meets(rows, Parse(with), r)}
      BY WholeRange
    <2>2. matches' = All(Parse(with))
      BY <1>1, Zenon DEF All
    <2> QED
      BY <1>2, <2>1, <2>2
  <1>4. context \in Nat /\ max \in Nat \ {0}
    BY QueryAssumption
  <1>5. PICK few \in SUBSET found :
          /\ Elements(ShownMatches(found, max, context, n)) = UNION {Around(r, context, n) : r \in few}
          /\ found # {} => few # {}
    <2>1. LET seen == ShownMatches(found, max, context, n)
          IN  \E few \in SUBSET found :
               /\ Elements(seen) = UNION {Around(r, context, n) : r \in few}
               /\ found # {} => few # {}
      BY <1>4, MatchesShown
    <2> QED
      BY <2>1, Zenon
  <1>6. Total' = n
    BY <1>1, <1>2, Zenon DEF Total
  <1>7. Elements(shown') = UNION {Around(r, context, n) : r \in few}
    BY <1>1, <1>2, <1>3, <1>5, Zenon
  <1>8. Elements(shown') \subseteq UNION {Around(r, context, n) : r \in found}
    BY <1>7
  <1>9. ShownAround'
    <2>1. around' = context /\ Total' = n /\ matches' = found
      BY <1>1, <1>3, <1>6
    <2>2. \A r : Near(r)' = Around(r, context, n)
      BY <2>1 DEF Near, Around
    <2>3. Printed' = Elements(shown')
      BY DEF Printed, Elements
    <2>4. \A rs : Nearby(rs)' = UNION {Around(r, context, n) : r \in rs}
      BY <2>2 DEF Nearby
    <2>5. Printed' \subseteq Nearby(matches)'
      <3>1. Nearby(matches)' = UNION {Around(r, context, n) : r \in found}
        BY <2>1, <2>2 DEF Nearby
      <3> QED
        BY <1>8, <2>3, <3>1
    <2>6. /\ few \in SUBSET matches' /\ Printed' = Nearby(few)'
          /\ matches' # {} => few # {}
      BY <1>5, <1>7, <2>1, <2>3, <2>4
    <2> QED
      BY <2>5, <2>6 DEF ShownAround
  <1> QED
    BY <1>1, <1>9 DEF QueryShown

\* What a query has shown stays, for the trace and the command end with it.
LEMMA QueryShownStep == RowsInv /\ QueryShown /\ [NextCommands]_everything => QueryShown'
  <1> SUFFICES ASSUME RowsInv, QueryShown, [NextCommands]_everything PROVE QueryShown'
    OBVIOUS
  <1>1. CASE UNCHANGED <<rows, stage, answers>>
    <2>1. UNCHANGED <<rows, stage, command, matches, around, shown>>
      BY <1>1, Zenon DEF answers
    <2>2. Printed' = Printed
      BY <2>1 DEF Printed
    <2>3. \A r : Near(r)' = Near(r)
      BY <2>1, Zenon DEF Near, Total
    <2>4. \A rs : Nearby(rs)' = Nearby(rs)
      BY <2>3 DEF Nearby
    <2>5. Nearby(matches)' = Nearby(matches)
      BY <2>1, <2>3 DEF Nearby
    <2>6. ShownAround => ShownAround'
      BY <2>1, <2>2, <2>4, <2>5 DEF ShownAround
    <2> QED
      BY <2>1, <2>6 DEF QueryShown
  <1>2. CASE Convert
    <2>1. stage # "done" /\ command' = command
      BY <1>2, Zenon DEF Convert, answers, NextConversion, SkipNoise, NoStart, ReadHeader,
         ReadHeaderless, PeekBlank, PeekEntry, PeekNothing, PeekFails, CreateWriter, CreateFails,
         CopyEntry, CopyFails, EndOfTrace, ReadFails, FinishFails
    <2> QED
      BY <2>1 DEF QueryShown
  <1>3. ASSUME NEW with \in Queries, NEW max \in {1, 2}, NEW context \in Contexts,
               Query(with, max, context)
        PROVE  QueryShown'
    BY <1>3, QueryShows
  <1>4. ASSUME command' \in {"error", "downsample", "range", "last"}
        PROVE  QueryShown'
    BY <1>4 DEF QueryShown
  <1>5. ASSUME NEW with, CommandFails(with) \/ DownsampleWith(with) PROVE QueryShown'
    BY <1>4, <1>5 DEF CommandFails, DownsampleWith, Sample
  <1>6. CASE DownsampleEveryFourth
    BY <1>4, <1>6 DEF DownsampleEveryFourth, Sample
  <1>7. ASSUME NEW start, NEW end, ShowRange(start, end) PROVE QueryShown'
    BY <1>4, <1>7 DEF ShowRange
  <1>8. ASSUME NEW n, ShowLast(n) PROVE QueryShown'
    BY <1>4, <1>8 DEF ShowLast
  <1>9. DownsampleStep \/ UNCHANGED everything => UNCHANGED <<rows, stage, answers>>
    BY Zenon DEF DownsampleStep, conversion, everything
  <1> QED
    BY <1>1, <1>2, <1>3, <1>5, <1>6, <1>7, <1>8, <1>9, Zenon DEF NextCommands

\* Conditions that look at the row before see each change once, whatever was
\* converted: edges of a bit alternate, a run of rows in a masked state is entered
\* at its first row, a change is from one value and to one value (eval_condition).
THEOREM ChangesSeenOnce == SpecCommands => []TransitionsAlternate
  <1>1. SpecCommands => []RowsInv
    BY RowsTypedInit, RowsTypedStep, PTL DEF SpecCommands
  <1> QED
    BY <1>1, ConditionsAlternate, PTL

\* Whatever is matched, how many are shown and whatever the context: the rows
\* printed are those around the matches that are shown, all of them and no others.
THEOREM MatchesInContext == SpecCommands => []ShownInContext
  <1>1. SpecCommands => []RowsInv
    BY RowsTypedInit, RowsTypedStep, PTL DEF SpecCommands
  <1>2. InitCommands => QueryShown
    BY DEF InitCommands, QueryShown
  <1>3. QueryShown => ShownInContext
    BY ShownIsAround DEF QueryShown, ShownAround
  <1> QED
    BY <1>1, <1>2, <1>3, QueryShownStep, PTL DEF SpecCommands

-----------------------------------------------------------------------------
(* Charts: the rows of a range dealt to buckets.                          *)

LEMMA Quotient ==
  ASSUME NEW x \in Nat, NEW n \in Nat \ {0}
  PROVE  /\ x \div n \in Nat
         /\ n * (x \div n) <= x
         /\ x < n * (x \div n) + n
  BY SMT

LEMMA Factor ==
  ASSUME NEW n \in Nat \ {0}, NEW a \in Nat, NEW b \in Nat
  PROVE  n * a < n * b + n => a < b + 1
  <1> SUFFICES ASSUME a >= b + 1 PROVE n * a >= n * b + n
    <2>1. n * a \in Nat /\ n * b + n \in Nat
      BY SMT
    <2> QED BY <2>1
  <1>1. PICK d \in Nat : a = b + 1 + d
    <2>1. a - (b + 1) \in Nat /\ a = b + 1 + (a - (b + 1))
      OBVIOUS
    <2> QED BY <2>1
  <1>2. n * a = n * b + n + n * d
    BY <1>1, SMT
  <1>3. n * d \in Nat /\ n * b \in Nat
    BY SMT
  <1> QED BY <1>2, <1>3

\* Division keeps order, and a whole divisor more is a quotient more.
LEMMA QuotientGrows ==
  ASSUME NEW x \in Nat, NEW y \in Nat, NEW n \in Nat \ {0}
  PROVE  /\ x <= y => x \div n <= y \div n
         /\ x + n <= y => x \div n < y \div n
  <1>1. PICK a \in Nat : a = x \div n /\ n * a <= x /\ x < n * a + n
    BY Quotient
  <1>2. PICK b \in Nat : b = y \div n /\ n * b <= y /\ y < n * b + n
    BY Quotient
  <1>3. n * a \in Nat /\ n * b \in Nat
    BY SMT
  <1>4. x <= y => a <= b
    <2>1. x <= y => n * a < n * b + n
      BY <1>1, <1>2, <1>3
    <2> QED
      BY <2>1, Factor
  <1>5. x + n <= y => a + 1 <= b
    <2>1. n * (a + 1) = n * a + n
      BY SMT
    <2>2. x + n <= y => n * (a + 1) < n * b + n
      BY <1>1, <1>2, <1>3, <2>1
    <2>3. n * (a + 1) < n * b + n => a + 1 < b + 1
      BY Factor
    <2> QED
      BY <2>2, <2>3
  <1> QED
    BY <1>1, <1>2, <1>4, <1>5

\* The rows of a range of R in B buckets: the first of each bucket.
LEMMA BucketsOfRange ==
  ASSUME NEW B \in Nat \ {0}, NEW R \in Nat \ {0}
  PROVE  LET D(b) == (b * R) \div B
         IN  /\ D(0) = 0 /\ D(B) = R
             /\ \A b \in 0..B : D(b) \in Nat
             /\ \A b \in 0..B - 1 : D(b) < R /\ D(b) <= D(b + 1) /\ D(b + 1) <= R
             /\ \A b, d \in 0..B : b < d => D(b + 1) <= D(d)
             /\ B <= R => \A b \in 0..B - 1 : D(b) < D(b + 1)
  <1> DEFINE D(b) == (b * R) \div B
  <1>1. \A b \in Nat : b * R \in Nat /\ (b + 1) * R = b * R + R
    BY SMT
  <1>2. \A b \in Nat : D(b) \in Nat
    BY <1>1, Quotient
  <1>3. \A b, d \in Nat : b <= d => D(b) <= D(d)
    <2> SUFFICES ASSUME NEW b \in Nat, NEW d \in Nat, b <= d PROVE D(b) <= D(d)
      OBVIOUS
    <2>1. PICK e \in Nat : d = b + e
      <3>1. d - b \in Nat /\ d = b + (d - b)
        OBVIOUS
      <3> QED BY <3>1
    <2>2. d * R = b * R + e * R
      BY <2>1, SMT
    <2>3. b * R <= d * R
      BY <1>1, <2>2
    <2> QED
      BY <1>1, <2>3, QuotientGrows
  <1>4. D(0) = 0
    <2>1. 0 * R = 0 /\ 0 \div B = 0
      BY SMT
    <2> QED BY <2>1
  <1>5. D(B) = R
    <2>1. B * R \in Nat
      BY SMT
    <2>2. PICK q \in Nat : q = (B * R) \div B /\ B * q <= B * R /\ B * R < B * q + B
      BY <2>1, Quotient
    <2>3. q < R + 1
      <3>1. B * q < B * R + B
        BY <2>1, <2>2, SMT
      <3> QED
        BY <3>1, Factor
    <2>4. R < q + 1
      BY <2>2, Factor
    <2> QED
      BY <2>2, <2>3, <2>4
  <1>6. \A b \in 0..B - 1 : D(b) < R
    <2> SUFFICES ASSUME NEW b \in 0..B - 1 PROVE D(b) < R
      OBVIOUS
    <2>1. b \in Nat /\ b + 1 <= B
      OBVIOUS
    <2>2. PICK e \in Nat : B = b + 1 + e
      <3>1. B - (b + 1) \in Nat /\ B = b + 1 + (B - (b + 1))
        OBVIOUS
      <3> QED BY <3>1
    <2>3. B * R = b * R + R + e * R
      BY <2>1, <2>2, SMT
    <2>4. PICK q \in Nat : q = (b * R) \div B /\ B * q <= b * R /\ b * R < B * q + B
      BY <1>1, <2>1, Quotient
    <2>5. q # R
      <3>1. q = R => B * q = B * R
        OBVIOUS
      <3>2. b * R \in Nat /\ e * R \in Nat
        BY <1>1, <2>1
      <3> QED
        BY <2>3, <2>4, <3>1, <3>2
    <2>6. q <= R
      BY <1>3, <1>5, <2>1, <2>4
    <2> QED
      BY <2>4, <2>5, <2>6
  <1>7. ASSUME B <= R, NEW b \in 0..B - 1 PROVE D(b) < D(b + 1)
    <2>1. b \in Nat /\ b + 1 \in Nat
      OBVIOUS
    <2>2. b * R + B <= (b + 1) * R
      BY <1>1, <1>7, <2>1
    <2> QED
      BY <1>1, <2>1, <2>2, QuotientGrows
  <1>8. \A b \in 0..B - 1 : b \in Nat /\ b + 1 \in Nat /\ b <= b + 1 /\ b + 1 <= B
    OBVIOUS
  <1>9. \A b, d \in 0..B : b \in Nat /\ d \in Nat /\ b + 1 \in Nat /\ (b < d => b + 1 <= d)
    OBVIOUS
  <1> HIDE DEF D
  <1>10. \A b \in 0..B - 1 : D(b) <= D(b + 1) /\ D(b + 1) <= R
    BY <1>3, <1>5, <1>8
  <1>11. \A b, d \in 0..B : b < d => D(b + 1) <= D(d)
    BY <1>3, <1>9
  <1>12. \A b \in 0..B : D(b) \in Nat
    BY <1>2, <1>9
  <1>13. B <= R => \A b \in 0..B - 1 : D(b) < D(b + 1)
    BY <1>7
  <1> QED
    BY <1>4, <1>5, <1>6, <1>10, <1>11, <1>12, <1>13 DEF D

\* Each place of the range is in one of the buckets.
LEMMA BucketOfPlace ==
  ASSUME NEW B \in Nat \ {0}, NEW R \in Nat \ {0}, NEW k \in 0..R - 1
  PROVE  \E b \in 0..B - 1 : (b * R) \div B <= k /\ k < ((b + 1) * R) \div B
  <1> DEFINE D(b) == (b * R) \div B
             T == {b \in 0..B - 1 : k < D(b + 1)}
  <1>1. D(0) = 0 /\ D(B) = R /\ \A b \in 0..B : D(b) \in Nat
    BY BucketsOfRange
  <1> HIDE DEF D
  <1>2. B - 1 \in T /\ T \subseteq Nat
    <2>1. B - 1 \in 0..B - 1 /\ (B - 1) + 1 = B
      OBVIOUS
    <2> QED BY <1>1, <2>1
  <1>3. PICK b \in T : \A d \in T : b <= d
    <2> HIDE DEF T
    <2> QED BY <1>2, LeastNat
  <1>4. D(b) <= k
    <2>1. CASE b = 0
      BY <1>1, <2>1
    <2>2. CASE b # 0
      <3>1. b - 1 \in 0..B - 1 /\ ~(b <= b - 1) /\ (b - 1) + 1 = b /\ b \in 0..B
        BY <2>2
      <3>2. b - 1 \notin T
        BY <1>3, <3>1
      <3>3. ~(k < D(b))
        BY <3>1, <3>2
      <3> QED
        BY <1>1, <3>1, <3>3
    <2> QED BY <2>1, <2>2
  <1> QED
    BY <1>3, <1>4 DEF D

\* A bounded set of numbers has a greatest one.
LEMMA GreatestNat ==
  ASSUME NEW T \in SUBSET Nat, T # {}, NEW n \in Nat, \A k \in T : k <= n
  PROVE  \E m \in T : \A k \in T : k <= m
  <1> DEFINE U == {n - k : k \in T}
  <1>1. U \in SUBSET Nat /\ U # {}
    <2>1. \A k \in T : n - k \in Nat
      OBVIOUS
    <2> QED BY <2>1
  <1>2. PICK u \in U : \A k \in U : u <= k
    <2> HIDE DEF U
    <2> QED BY <1>1, LeastNat
  <1>3. PICK m \in T : u = n - m
    BY <1>2
  <1>4. \A k \in T : n - m <= n - k
    BY <1>2, <1>3
  <1>5. \A k \in T : k \in Nat
    OBVIOUS
  <1> QED
    BY <1>3, <1>4, <1>5

\* The values of an interval of rows have a least and a greatest.
LEMMA ValuesBounded ==
  ASSUME NEW a \in Nat, NEW b \in Nat, NEW f, \A r \in a..b : f[r] \in Nat
  PROVE  \E n \in Nat : \A r \in a..b : f[r] <= n
  <1> DEFINE S == {m \in Nat : m <= b + 1 => \E n \in Nat : \A r \in a..m - 1 : r <= b => f[r] <= n}
  <1>1. 0 \in S
    BY SMT
  <1>2. ASSUME NEW m \in S PROVE m + 1 \in S
    <2>1. m \in Nat
      OBVIOUS
    <2>2. SUFFICES ASSUME m + 1 <= b + 1
                   PROVE  \E n \in Nat : \A r \in a..m + 1 - 1 : r <= b => f[r] <= n
      BY <2>1
    <2>3. PICK n \in Nat : \A r \in a..m - 1 : r <= b => f[r] <= n
      BY <2>1, <2>2
    <2>4. \A r \in a..m + 1 - 1 : r \in a..m - 1 \/ r = m
      BY <2>1
    <2>5. CASE m < a
      <3>1. \A r \in a..m + 1 - 1 : FALSE
        BY <2>1, <2>5
      <3> QED BY <3>1
    <2>6. CASE a <= m
      <3>1. m \in a..b
        BY <2>1, <2>2, <2>6
      <3>2. PICK v \in Nat : v = f[m]
        BY <3>1
      <3>3. \A r \in a..m + 1 - 1 : r <= b => f[r] <= n + v
        <4> TAKE r \in a..m + 1 - 1
        <4> HAVE r <= b
        <4>1. CASE r = m
          BY <3>2, <4>1
        <4>2. CASE r \in a..m - 1
          <5>1. f[r] \in Nat /\ f[r] <= n
            <6>1. r \in a..b
              BY <2>1
            <6> QED BY <2>3, <4>2, <6>1
          <5> QED BY <3>2, <5>1
        <4> QED BY <2>4, <4>1, <4>2
      <3>4. n + v \in Nat
        BY <3>2
      <3> QED BY <3>3, <3>4
    <2> QED BY <2>1, <2>5, <2>6
  <1>3. b + 1 \in S
    <2>1. S \in SUBSET Nat
      OBVIOUS
    <2> HIDE DEF S
    <2>2. S = Nat
      BY <1>1, <1>2, <2>1, Induction
    <2> QED BY <2>2
  <1>4. \A r \in a..b : r \in a..b + 1 - 1 /\ r <= b
    OBVIOUS
  <1>5. \E n \in Nat : \A r \in a..b + 1 - 1 : r <= b => f[r] <= n
    BY <1>3
  <1> QED
    BY <1>4, <1>5

\* All of a bounded set of numbers lies between its least and its greatest.
LEMMA LeastAndGreatest ==
  ASSUME NEW S \in SUBSET Nat, S # {}, NEW n \in Nat, \A v \in S : v <= n
  PROVE  /\ Least(S) \in S /\ Greatest(S) \in S
         /\ \A v \in S : v \in Least(S)..Greatest(S)
  <1>1. \E m \in S : \A k \in S : m <= k
    BY LeastNat
  <1>2. \E m \in S : \A k \in S : k <= m
    BY GreatestNat
  <1>3. Least(S) \in S /\ \A k \in S : Least(S) <= k
    BY <1>1, Zenon DEF Least
  <1>4. Greatest(S) \in S /\ \A k \in S : Greatest(S) >= k
    <2>1. \A m \in S : (\A k \in S : k <= m) <=> (\A k \in S : m >= k)
      OBVIOUS
    <2>2. \E m \in S : \A k \in S : m >= k
      BY <1>2, <2>1
    <2> QED
      BY <2>2, Zenon DEF Greatest
  <1> QED
    BY <1>3, <1>4

RowsBetween(first, next, n) ==
  IF first < next THEN first..next - 1
  ELSE IF first > 0 THEN {Lesser(first, n - 1)} ELSE {}

\* The rows a bucket of a chart shows: its share of the range, or one row of it,
\* or none where the range begins with row 0.
LEMMA BucketRows ==
  ASSUME NEW trace, NEW start \in Nat, NEW end \in Nat, NEW R \in Nat \ {0},
         NEW B \in Nat \ {0}, NEW b \in 0..B - 1,
         Len(trace) \in Nat, Lesser(end, Len(trace)) = start + R
  PROVE  LET D(k) == (k * R) \div B
             of == SummaryRows(trace, start, end, B, b)
         IN  \/ D(b) < D(b + 1) /\ of = start + D(b)..start + D(b + 1) - 1
             \/ D(b) = D(b + 1) /\ of = start + D(b)..start + D(b)
             \/ D(b) = D(b + 1) /\ start = 0 /\ of = {}
  <1> DEFINE D(k) == (k * R) \div B
             to == start + R
  <1>n. PICK n \in Nat : n = Len(trace)
    OBVIOUS
  <1>1. Lesser(start, to) = start /\ to - start = R
    BY DEF Lesser
  <1>2. BucketStart(b, start, R, B) = start + D(b) /\ BucketStart(b + 1, start, R, B) = start + D(b + 1)
    BY DEF BucketStart
  <1>0. /\ \A k \in 0..B : D(k) \in Nat
        /\ \A k \in 0..B - 1 : D(k) < R /\ D(k) <= D(k + 1)
    BY BucketsOfRange
  <1> HIDE DEF D
  <1>3. PICK p \in Nat : p = D(b)
    <2>1. b \in 0..B
      OBVIOUS
    <2> QED BY <1>0, <2>1
  <1>4. PICK q \in Nat : q = D(b + 1)
    <2>1. b + 1 \in 0..B
      OBVIOUS
    <2> QED BY <1>0, <2>1
  <1>5. p < R /\ p <= q
    BY <1>0, <1>3, <1>4
  <1>6. to <= n
    BY <1>n DEF Lesser
  <1>7. Lesser(start + p, n - 1) = start + p
    BY <1>5, <1>6 DEF Lesser
  <1>a. BucketStart(b, start, R, B) = start + p /\ BucketStart(b + 1, start, R, B) = start + q
    BY <1>2, <1>3, <1>4
  <1>b. Lesser(end, Len(trace)) = to /\ Len(trace) = n
    BY <1>n
  <1> HIDE DEF to
  <1> DEFINE from == Lesser(start, Lesser(end, Len(trace)))
             size == Lesser(end, Len(trace)) - from
  <1>c. SummaryRows(trace, start, end, B, b) =
          RowsBetween(BucketStart(b, from, size, B), BucketStart(b + 1, from, size, B), Len(trace))
    BY DEF SummaryRows, RowsBetween
  <1>d. SummaryRows(trace, start, end, B, b) = RowsBetween(start + p, start + q, n)
    <2>1. from = start /\ size = R
      BY <1>1, <1>b, Zenon
    <2> HIDE DEF from, size
    <2> QED
      BY <1>a, <1>c, <1>n, <2>1
  <1>8. SummaryRows(trace, start, end, B, b) =
          IF start + p < start + q THEN start + p..start + q - 1
          ELSE IF start + p > 0 THEN {start + p} ELSE {}
    <2>1. PICK x \in Nat : x = start + p
      OBVIOUS
    <2>2. PICK y \in Nat : y = start + q
      OBVIOUS
    <2>3. Lesser(x, n - 1) = x
      BY <1>7, <2>1
    <2>4. RowsBetween(x, y, n) = IF x < y THEN x..y - 1 ELSE IF x > 0 THEN {Lesser(x, n - 1)} ELSE {}
      BY DEF RowsBetween
    <2>5. RowsBetween(x, y, n) = IF x < y THEN x..y - 1 ELSE IF x > 0 THEN {x} ELSE {}
      BY <2>3, <2>4
    <2> QED
      BY <1>d, <2>1, <2>2, <2>5
  <1>9. {start + p} = start + p..start + p
    OBVIOUS
  <1>10. CASE p < q
    <2>1. start + p < start + q
      BY <1>10
    <2> QED
      BY <1>3, <1>4, <1>8, <1>10, <2>1 DEF D
  <1>11. CASE ~(p < q) /\ start + p > 0
    <2>1. ~(start + p < start + q) /\ p = q
      BY <1>5, <1>11
    <2> QED
      BY <1>3, <1>4, <1>8, <1>9, <1>11, <2>1, Zenon DEF D
  <1>12. CASE ~(p < q) /\ ~(start + p > 0)
    <2>1. ~(start + p < start + q) /\ p = q /\ start = 0
      BY <1>5, <1>12
    <2> QED
      BY <1>3, <1>4, <1>8, <1>12, <2>1, Zenon DEF D
  <1> QED
    BY <1>10, <1>11, <1>12

\* What the chart needs of its buckets: each is an interval of the range or
\* empty in front of row 0, every row is in one, and they are in order.
Bucketed(trace, start, end, B, to) ==
  /\ \A b \in 0..B - 1 : \/ SummaryRows(trace, start, end, B, b) = {} /\ start = 0
                        \/ \E p, q \in start..to - 1 : p <= q /\ SummaryRows(trace, start, end, B, b) = p..q
  /\ \A r \in start..to - 1 : \E b \in 0..B - 1 : r \in SummaryRows(trace, start, end, B, b)
  /\ \A b, d \in 0..B - 1 : b < d => \A p \in SummaryRows(trace, start, end, B, b), q \in SummaryRows(trace, start, end, B, d) :
       p < q \/ (p = q /\ B > to - start)

LEMMA BucketsInOrder ==
  ASSUME NEW trace, NEW start \in Nat, NEW end \in Nat, NEW B \in Nat \ {0},
         Len(trace) \in Nat, start < Lesser(end, Len(trace))
  PROVE  Bucketed(trace, start, end, B, Lesser(end, Len(trace)))
  <1> DEFINE of(b) == SummaryRows(trace, start, end, B, b)
  <1>0. PICK to \in Nat : to = Lesser(end, Len(trace)) /\ start < to
    BY DEF Lesser
  <1>1. PICK R \in Nat \ {0} : to = start + R
    <2>1. to - start \in Nat \ {0} /\ to = start + (to - start)
      BY <1>0
    <2> QED BY <2>1
  <1> DEFINE D(k) == (k * R) \div B
  <1>2. /\ \A b \in 0..B : D(b) \in Nat
        /\ \A b \in 0..B - 1 : D(b) < R /\ D(b) <= D(b + 1) /\ D(b + 1) <= R
        /\ \A b, d \in 0..B : b < d => D(b + 1) <= D(d)
        /\ B <= R => \A b \in 0..B - 1 : D(b) < D(b + 1)
    BY BucketsOfRange
  <1>3. \A b \in 0..B - 1 :
          \/ D(b) < D(b + 1) /\ of(b) = start + D(b)..start + D(b + 1) - 1
          \/ D(b) = D(b + 1) /\ of(b) = start + D(b)..start + D(b)
          \/ D(b) = D(b + 1) /\ start = 0 /\ of(b) = {}
    <2> SUFFICES ASSUME NEW b \in 0..B - 1
                 PROVE  \/ D(b) < D(b + 1) /\ of(b) = start + D(b)..start + D(b + 1) - 1
                        \/ D(b) = D(b + 1) /\ of(b) = start + D(b)..start + D(b)
                        \/ D(b) = D(b + 1) /\ start = 0 /\ of(b) = {}
      OBVIOUS
    <2>1. Lesser(end, Len(trace)) = start + R
      BY <1>0, <1>1, Zenon
    <2> QED
      BY <2>1, BucketRows, Zenon
  <1>4. \A k \in 0..R - 1 : \E b \in 0..B - 1 : D(b) <= k /\ k < D(b + 1)
    BY BucketOfPlace
  <1> HIDE DEF D, of
  <1>5. ASSUME NEW b \in 0..B - 1
        PROVE  \/ of(b) = {} /\ start = 0
               \/ \E p, q \in start..to - 1 : p <= q /\ of(b) = p..q
    <2>1. PICK x \in Nat : x = D(b) /\ x < R
      <3>1. b \in 0..B
        OBVIOUS
      <3> QED BY <1>2, <3>1
    <2>2. PICK y \in Nat : y = D(b + 1) /\ x <= y /\ y <= R
      <3>1. b + 1 \in 0..B
        OBVIOUS
      <3> QED BY <1>2, <2>1, <3>1
    <2>3. CASE x < y /\ of(b) = start + x..start + y - 1
      <3>1. start + x \in start..to - 1 /\ start + y - 1 \in start..to - 1 /\ start + x <= start + y - 1
        BY <1>1, <2>2, <2>3
      <3> QED BY <2>3, <3>1
    <2>4. CASE of(b) = start + x..start + x
      <3>1. start + x \in start..to - 1 /\ start + x <= start + x
        BY <1>1, <2>1
      <3> QED BY <2>4, <3>1
    <2> QED
      BY <1>3, <2>1, <2>2, <2>3, <2>4
  <1>6. ASSUME NEW r \in start..to - 1 PROVE \E b \in 0..B - 1 : r \in of(b)
    <2>1. r - start \in 0..R - 1
      BY <1>1
    <2>2. PICK b \in 0..B - 1 : D(b) <= r - start /\ r - start < D(b + 1)
      BY <1>4, <2>1
    <2>3. PICK x \in Nat : x = D(b)
      <3>1. b \in 0..B
        OBVIOUS
      <3> QED BY <1>2, <3>1
    <2>4. PICK y \in Nat : y = D(b + 1)
      <3>1. b + 1 \in 0..B
        OBVIOUS
      <3> QED BY <1>2, <3>1
    <2>5. x < y /\ r \in start + x..start + y - 1
      BY <2>2, <2>3, <2>4
    <2>6. of(b) = start + x..start + y - 1
      <3>1. D(b) # D(b + 1)
        BY <2>3, <2>4, <2>5
      <3>2. of(b) = start + D(b)..start + D(b + 1) - 1
        BY <1>3, <3>1, Zenon
      <3> QED
        BY <2>3, <2>4, <3>2
    <2> QED
      BY <2>5, <2>6
  <1>7. ASSUME NEW b \in 0..B - 1, NEW d \in 0..B - 1, b < d, NEW p \in of(b), NEW q \in of(d)
        PROVE  p < q \/ (p = q /\ B > to - start)
    <2>1. b \in 0..B /\ b + 1 \in 0..B /\ d \in 0..B /\ d + 1 \in 0..B
      OBVIOUS
    <2>2. PICK x \in Nat : x = D(b)
      BY <1>2, <2>1
    <2>3. PICK y \in Nat : y = D(b + 1) /\ x <= y
      BY <1>2, <2>1, <2>2
    <2>4. PICK u \in Nat : u = D(d) /\ y <= u
      BY <1>2, <1>7, <2>1, <2>3
    <2>5. PICK v \in Nat : v = D(d + 1) /\ u <= v
      BY <1>2, <2>1, <2>4
    <2>6. (x < y /\ p \in start + x..start + y - 1) \/ (x = y /\ p \in start + x..start + x)
      BY <1>3, <2>2, <2>3
    <2>7. (u < v /\ q \in start + u..start + v - 1) \/ (u = v /\ q \in start + u..start + u)
      BY <1>3, <2>4, <2>5
    <2>8. q >= start + u /\ q \in Nat /\ p \in Nat
      BY <2>6, <2>7
    <2>9. CASE x < y
      <3>1. p <= start + y - 1
        BY <2>6, <2>9
      <3> QED
        BY <2>4, <2>8, <3>1
    <2>10. CASE x = y
      <3>1. p = start + x
        BY <2>6, <2>10
      <3>2. ~(B <= R)
        <4>1. ~(D(b) < D(b + 1))
          BY <2>2, <2>3, <2>10
        <4> QED
          BY <1>2, <4>1, Zenon
      <3>3. B > to - start
        BY <1>1, <3>2
      <3> QED
        BY <2>4, <2>8, <2>10, <3>1, <3>3
    <2> QED
      BY <2>3, <2>9, <2>10
  <1> QED
    <2>1. Bucketed(trace, start, end, B, to)
      BY <1>5, <1>6, <1>7 DEF of, Bucketed
    <2> QED
      BY <1>0, <2>1

\* Each bucket shows the least and the greatest value of its rows.
LEMMA ChartsShowTheRange == RowsInv => SummaryOfTheRange
  <1> SUFFICES ASSUME RowsInv, NEW c \in Numeric, NEW start \in 0..Total + 1, NEW end \in 0..Total + 1,
                      NEW B \in 1..Total + 1, start..Lesser(end, Total) - 1 # {}
               PROVE
      LET chart == FieldSummary(rows, c, start, end, B)
          range == start..Lesser(end, Total) - 1
          of(b) == SummaryRows(rows, start, end, B, b)
          values == {Num(rows, c, r) : r \in range}
      IN  /\ \A b \in 1..B :
                 \/ {chart[b].min, chart[b].max} \subseteq values
                 \/ start = 0 /\ of(b - 1) = {}
          /\ \A r \in range : \E b \in 1..B :
                 r \in of(b - 1) /\ Num(rows, c, r) \in chart[b].min..chart[b].max
          /\ \A b, d \in 0..B - 1 : b < d => \A p \in of(b), q \in of(d) :
                 p < q \/ (p = q /\ B > Cardinality(range))
    BY Zenon DEF SummaryOfTheRange
  <1> DEFINE range == start..Lesser(end, Total) - 1
             of(b) == SummaryRows(rows, start, end, B, b)
             values == {Num(rows, c, r) : r \in range}
             chart == FieldSummary(rows, c, start, end, B)
             read(b) == {Num(rows, c, r) : r \in of(b)}
  <1>1. PICK n \in Nat : n = Total /\ n = Len(rows)
    BY WholeRange DEF Total
  <1>2. start \in Nat /\ end \in Nat /\ B \in Nat \ {0}
    BY <1>1
  <1>3. PICK to \in Nat : to = Lesser(end, n) /\ to <= n
    BY <1>1, <1>2 DEF Lesser
  <1>4. range = start..to - 1
    BY <1>1, <1>3
  <1>5. start < to
    <2>1. \A k \in start..to - 1 : start < to
      BY <1>2, <1>3
    <2>2. range # {}
      OBVIOUS
    <2> HIDE DEF range
    <2> QED
      BY <1>4, <2>1, <2>2
  <1>6. /\ \A b \in 0..B - 1 :
                  \/ of(b) = {} /\ start = 0
                  \/ \E p, q \in start..to - 1 : p <= q /\ of(b) = p..q
        /\ \A r \in start..to - 1 : \E b \in 0..B - 1 : r \in of(b)
        /\ \A b, d \in 0..B - 1 : b < d => \A p \in of(b), q \in of(d) :
                  p < q \/ (p = q /\ B > to - start)
    <2>1. to = Lesser(end, Len(rows)) /\ Len(rows) \in Nat
      BY <1>1, <1>3
    <2>2. start < Lesser(end, Len(rows))
      BY <1>5, <2>1, Zenon
    <2> QED
      <3>1. Bucketed(rows, start, end, B, Lesser(end, Len(rows)))
        BY <1>2, <2>1, <2>2, BucketsInOrder
      <3>2. Bucketed(rows, start, end, B, to)
        BY <2>1, <3>1
      <3> QED
        BY <3>2, Zenon DEF Bucketed
  <1> HIDE DEF of
  <1>7. chart = [b \in 1..B |-> IF read(b - 1) = {} THEN [min |-> 0, max |-> 0]
                                ELSE [min |-> Least(read(b - 1)), max |-> Greatest(read(b - 1))]]
    <2>1. Lesser(start, n) = start /\ ~(start >= to) /\ B # 0
      BY <1>2, <1>3, <1>5 DEF Lesser
    <2>2. chart = IF start >= to \/ B = 0 THEN <<>>
                  ELSE [b \in 1..B |-> IF read(b - 1) = {} THEN [min |-> 0, max |-> 0]
                                ELSE [min |-> Least(read(b - 1)), max |-> Greatest(read(b - 1))]]
      BY <1>1, <1>3, <2>1, Zenon DEF FieldSummary, of
    <2> QED
      BY <2>1, <2>2, Zenon
  <1>8. \A r \in range : r \in 0..Total - 1 /\ Num(rows, c, r) \in Nat
    <2>1. \A r \in range : r \in 0..Total - 1
      BY <1>1, <1>2, <1>3, <1>4
    <2> QED
      BY <2>1, NumericCell, Zenon
  <1> HIDE DEF chart
  <1>9. ASSUME NEW b \in 1..B, of(b - 1) # {}
        PROVE  /\ chart[b].min \in values /\ chart[b].max \in values
               /\ \A r \in of(b - 1) : Num(rows, c, r) \in chart[b].min..chart[b].max
    <2>1. b - 1 \in 0..B - 1
      BY <1>2
    <2>2. PICK p \in start..to - 1, q \in start..to - 1 : p <= q /\ of(b - 1) = p..q
      BY <1>6, <1>9, <2>1
    <2>3. p \in Nat /\ q \in Nat /\ p..q \subseteq range
      <3>1. p \in Nat /\ q \in Nat /\ p..q \subseteq start..to - 1
        BY <1>2, <1>3
      <3> QED
        BY <1>4, <3>1
    <2> DEFINE f == [r \in p..q |-> Num(rows, c, r)]
    <2>4. /\ \A r \in p..q : f[r] = Num(rows, c, r)
          /\ \A r \in p..q : f[r] \in Nat
      <3> HIDE DEF range
      <3> QED
        BY <1>8, <2>3
    <2>5. read(b - 1) = {f[r] : r \in p..q}
      BY <2>2, <2>4
    <2> HIDE DEF f
    <2>6. PICK m \in Nat : \A r \in p..q : f[r] <= m
      BY <2>3, <2>4, ValuesBounded
    <2>a. /\ read(b - 1) \in SUBSET Nat /\ read(b - 1) # {}
          /\ \A v \in read(b - 1) : v <= m
      <3>1. p \in p..q
        BY <2>2, <2>3
      <3> HIDE DEF read
      <3> QED
        BY <2>4, <2>5, <2>6, <3>1
    <2>7. /\ Least(read(b - 1)) \in read(b - 1) /\ Greatest(read(b - 1)) \in read(b - 1)
          /\ \A v \in read(b - 1) : v \in Least(read(b - 1))..Greatest(read(b - 1))
      <3> HIDE DEF read
      <3> QED
        BY <2>a, LeastAndGreatest
    <2>8. read(b - 1) \subseteq values /\ read(b - 1) # {}
      BY <2>2, <2>3, <1>9
    <2>9. chart[b] = [min |-> Least(read(b - 1)), max |-> Greatest(read(b - 1))]
      <3> HIDE DEF read
      <3> QED
        BY <1>7, <2>8, Zenon
    <2>10. chart[b].min = Least(read(b - 1)) /\ chart[b].max = Greatest(read(b - 1))
      <3> HIDE DEF read
      <3> QED
        BY <2>9
    <2> QED
      BY <2>7, <2>8, <2>10, Zenon
  <1>10. ASSUME NEW b \in 1..B
         PROVE  \/ {chart[b].min, chart[b].max} \subseteq values
                \/ start = 0 /\ of(b - 1) = {}
    <2>1. b - 1 \in 0..B - 1
      BY <1>2
    <2>2. CASE of(b - 1) # {}
      BY <1>9, <2>2
    <2>3. CASE of(b - 1) = {}
      <3>1. \A p, q \in start..to - 1 : p <= q => p \in p..q
        BY <1>2, <1>3
      <3>2. ASSUME NEW p \in start..to - 1, NEW q \in start..to - 1, p <= q, of(b - 1) = p..q
            PROVE  FALSE
        BY <2>3, <3>1, <3>2, Zenon
      <3> QED
        BY <1>6, <2>1, <2>3, <3>2, Zenon
    <2> QED
      BY <2>2, <2>3
  <1>11. ASSUME NEW r \in range
         PROVE  \E b \in 1..B : r \in of(b - 1) /\ Num(rows, c, r) \in chart[b].min..chart[b].max
    <2>1. PICK d \in 0..B - 1 : r \in of(d)
      BY <1>4, <1>6
    <2>2. d + 1 \in 1..B /\ (d + 1) - 1 = d
      BY <1>2
    <2>3. r \in of((d + 1) - 1)
      BY <2>1, <2>2
    <2> QED
      BY <1>9, <2>2, <2>3
  <1>12. Cardinality(range) = to - start
    <2>1. start \in Int /\ to - 1 \in Int /\ ~(start > to - 1)
      BY <1>2, <1>5
    <2>2. Cardinality(start..to - 1) = (to - 1) - start + 1
      BY <2>1, FS_Interval
    <2> QED
      BY <1>2, <1>4, <2>2
  <1>13. \A b, d \in 0..B - 1 : b < d => \A p \in of(b), q \in of(d) :
                 p < q \/ (p = q /\ B > Cardinality(range))
    BY <1>6, <1>12
  <1> QED
    BY <1>10, <1>11, <1>13 DEF of, chart

\* Whatever is converted and whatever is charted: each row of the range is in one
\* bucket, in order, and what a bucket shows are values of the range
\* (field_summary).
THEOREM ChartOfTheRange == SpecCommands => []SummaryOfTheRange
  <1>1. SpecCommands => []RowsInv
    BY RowsTypedInit, RowsTypedStep, PTL DEF SpecCommands
  <1> QED
    BY <1>1, ChartsShowTheRange, PTL
=============================================================================
