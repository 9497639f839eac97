------------------------- MODULE TraceReaderProofs -------------------------
(***************************************************************************)
(* Proofs about TraceReader, for every file a writer has finished, whole or*)
(* damaged, every order of queries and every size of the cache. ReaderInv  *)
(* says that position by position the cache is the beginning of the        *)
(* history, each entry with all that can be read of its chunk (Lru,        *)
(* EntryOK), and that the index counts the rows of the file (FileRead).    *)
(* From it: where a row is (RowLocated, ColumnRead), what asking for a     *)
(* chunk leaves in the cache (Ensured), what a walk over the chunks of a   *)
(* column collects (WalkReads, SegmentsJoined), and one step of each query.*)
(***************************************************************************)
EXTENDS TraceReader, FiniteSetTheorems, SequenceTheorems, WellFoundedInduction, TLAPS

-----------------------------------------------------------------------------
(* Induction over the naturals, from the library's well-founded minimum.   *)
Below == {p \in Nat \X Nat : p[1] < p[2]}

LEMMA BelowWellFounded == IsWellFoundedOn(Below, Nat)
BY NatLessThanWellFounded DEF Below, OpToRel

LEMMA Induction ==
  ASSUME NEW S \in SUBSET Nat, 0 \in S, \A n \in S : n + 1 \in S
  PROVE  S = Nat
<1> SUFFICES ASSUME Nat \ S # {} PROVE FALSE
  OBVIOUS
<1>1. \E m \in Nat \ S : \A n \in Nat \ S : ~(<<n, m>> \in Below)
  <2> DEFINE T == Nat \ S
  <2>1. T \subseteq Nat /\ T # {}
    OBVIOUS
  <2> HIDE DEF T
  <2>2. \E m \in T : \A n \in T : ~(<<n, m>> \in Below)
    BY <2>1, BelowWellFounded, WFMin, Zenon
  <2> QED  BY <2>2 DEF T
<1>2. PICK m \in Nat \ S : \A n \in Nat \ S : ~(<<n, m>> \in Below)
  BY <1>1
<1>3. \A n \in Nat \ S : ~(n < m)
  BY <1>2 DEF Below
<1>4. m # 0 /\ m - 1 \in Nat /\ m - 1 < m /\ (m - 1) + 1 = m
  BY <1>2
<1>5. m - 1 \in S
  BY <1>3, <1>4
<1>6. QED  BY <1>4, <1>5

LEMMA UpTo ==
  ASSUME NEW n \in Nat, NEW S, 0 \in S, \A k \in 0..n - 1 : k \in S => k + 1 \in S
  PROVE  \A k \in 0..n : k \in S
<1> DEFINE T == {k \in Nat : k <= n => k \in S}
<1>1. 0 \in T
  OBVIOUS
<1>2. ASSUME NEW k \in T PROVE k + 1 \in T
  <2>1. SUFFICES ASSUME k + 1 <= n PROVE k + 1 \in S
    OBVIOUS
  <2>2. k \in 0..n - 1 /\ k \in S
    BY <2>1
  <2> QED  BY <2>2
<1>3. T = Nat
  <2> HIDE DEF T
  <2>1. T \in SUBSET Nat
    BY DEF T
  <2> QED  BY <1>1, <1>2, <2>1, Induction
<1> QED  BY <1>3

\* A step for each of the first n numbers can be taken one after the other.
Iterates(g, X, x, n, F) ==
  g \in [0..n -> X] /\ g[0] = x /\ \A k \in 1..n : g[k] = F[k][g[k - 1]]

LEMMA Iterated ==
  ASSUME NEW X, NEW x \in X, NEW n \in Nat, NEW F \in [1..n -> [X -> X]]
  PROVE  \E g : Iterates(g, X, x, n, F)
  <1> DEFINE Run(g, m) == g \in [0..m -> X] /\ g[0] = x /\ \A k \in 1..m : g[k] = F[k][g[k - 1]]
             S == {m \in Nat : m <= n => \E g : Run(g, m)}
  <1>1. 0 \in S
    <2>1. Run([k \in 0..0 |-> x], 0)
      OBVIOUS
    <2> QED BY <2>1
  <1>2. ASSUME NEW m \in S PROVE m + 1 \in S
    <2>1. m \in Nat
      OBVIOUS
    <2>2. SUFFICES ASSUME m + 1 <= n PROVE \E g : Run(g, m + 1)
      <3> HIDE DEF Run
      <3> QED BY <2>1
    <2>3. PICK g : Run(g, m)
      <3> HIDE DEF Run
      <3> QED BY <2>1, <2>2
    <2> DEFINE h == [k \in 0..m + 1 |-> IF k = m + 1 THEN F[m + 1][g[m]] ELSE g[k]]
    <2>4. g[m] \in X /\ m + 1 \in 1..n /\ F[m + 1] \in [X -> X]
      <3>1. m \in 0..m /\ m + 1 \in 1..n
        BY <2>1, <2>2
      <3> QED BY <2>3, <3>1
    <2>5. F[m + 1][g[m]] \in X
      BY <2>4
    <2>6. h \in [0..m + 1 -> X]
      <3>1. \A k \in 0..m + 1 : k # m + 1 => k \in 0..m
        BY <2>1
      <3>2. \A k \in 0..m + 1 : k # m + 1 => g[k] \in X
        BY <2>3, <3>1
      <3> QED BY <2>5, <3>2
    <2>7. h[0] = x
      BY <2>1, <2>3
    <2>8. ASSUME NEW k \in 1..m + 1 PROVE h[k] = F[k][h[k - 1]]
      <3>1. CASE k = m + 1
        <4>1. h[k] = F[m + 1][g[m]] /\ k - 1 = m /\ h[m] = g[m]
          BY <2>1, <3>1
        <4> QED BY <3>1, <4>1
      <3>2. CASE k # m + 1
        <4>1. k \in 1..m /\ k \in 0..m + 1 /\ k - 1 \in 0..m + 1 /\ k - 1 # m + 1
          BY <2>1, <3>2
        <4>2. h[k] = g[k] /\ h[k - 1] = g[k - 1]
          BY <3>2, <4>1
        <4> HIDE DEF h
        <4> QED BY <2>3, <4>1, <4>2
      <3> QED BY <3>1, <3>2
    <2> HIDE DEF h
    <2> QED BY <2>6, <2>7, <2>8
  <1>3. S = Nat
    <2> HIDE DEF S
    <2>1. S \in SUBSET Nat
      BY DEF S
    <2> QED BY <1>1, <1>2, <2>1, Induction
  <1>4. n \in S /\ n <= n
    BY <1>3
  <1> QED BY <1>4 DEF Iterates

-----------------------------------------------------------------------------
(* The rows of a file: running totals, and the place of a row in them.     *)
LEMMA TotalsClimb ==
  ASSUME NEW n \in Nat, NEW t \in [0..n -> Nat], \A k \in 1..n : t[k - 1] <= t[k],
         NEW j \in 0..n, NEW m \in 0..n, j <= m
  PROVE  t[j] <= t[m]
<1> DEFINE S == {d \in Nat : j + d <= n => t[j] <= t[j + d]}
<1>1. 0 \in S
  OBVIOUS
<1>2. ASSUME NEW d \in S PROVE d + 1 \in S
  <2>1. SUFFICES ASSUME j + (d + 1) <= n PROVE t[j] <= t[j + (d + 1)]
    OBVIOUS
  <2>2. d \in Nat /\ j + (d + 1) \in 1..n /\ (j + (d + 1)) - 1 = j + d /\ j + d \in 0..n
    BY <2>1
  <2>3. t[j] <= t[j + d] /\ t[j + d] <= t[j + (d + 1)]
    BY <2>2
  <2>4. t[j] \in Nat /\ t[j + d] \in Nat /\ t[j + (d + 1)] \in Nat
    BY <2>2
  <2> QED  BY <2>3, <2>4
<1>3. S = Nat
  <2> HIDE DEF S
  <2>1. S \in SUBSET Nat
    BY DEF S
  <2> QED  BY <1>1, <1>2, <2>1, Induction
<1>4. m - j \in Nat /\ j + (m - j) = m
  OBVIOUS
<1>5. m - j \in S /\ j + (m - j) <= n
  <2> HIDE DEF S
  <2> QED  BY <1>3, <1>4
<1>6. t[j] <= t[j + (m - j)]
  BY <1>5
<1>7. QED  BY <1>4, <1>6

EndedBy(t, n, x) == {k \in 1..n : t[k] <= x}

LEMMA EndedByAgrees ==
  ASSUME NEW t, NEW u, NEW n, NEW x, \A k \in 1..n : t[k] = u[k]
  PROVE  EndedBy(t, n, x) = EndedBy(u, n, x)
BY DEF EndedBy

LEMMA Located ==
  ASSUME NEW n \in Nat, NEW t \in [0..n -> Nat], t[0] = 0,
         \A k \in 1..n : t[k - 1] <= t[k], NEW x \in Nat, x < t[n]
  PROVE  \E j \in 1..n :
           /\ Cardinality(EndedBy(t, n, x)) + 1 = j
           /\ t[j - 1] <= x /\ x < t[j]
<1> DEFINE T == {k \in 1..n : x < t[k]}
<1>1. n \in T /\ T \subseteq Nat
  <2>1. n # 0 /\ n \in 0..n
    OBVIOUS
  <2> QED  BY <2>1
<1>2. PICK j \in T : \A k \in T : ~(<<k, j>> \in Below)
  <2> HIDE DEF T
  <2> QED  BY <1>1, BelowWellFounded, WFMin, Zenon
<1>3. \A k \in T : ~(k < j)
  BY <1>1, <1>2 DEF Below
<1>4. j \in 1..n /\ x < t[j]
  OBVIOUS
<1>5. \A k \in 1..j - 1 : k \in 1..n /\ t[k] <= x
  <2> TAKE k \in 1..j - 1
  <2>1. k \in 1..n /\ k < j /\ k \in 0..n
    BY <1>4
  <2>2. k \notin T
    BY <1>3, <2>1
  <2> QED  BY <2>1, <2>2
<1>6. \A k \in 1..n : t[k] <= x => k \in 1..j - 1
  <2> TAKE k \in 1..n
  <2> HAVE t[k] <= x
  <2>1. k \in 0..n /\ j \in 0..n
    BY <1>4
  <2>2. ~(j <= k)
    <3>1. j <= k => t[j] <= t[k]
      BY <2>1, TotalsClimb
    <3>2. t[j] \in Nat /\ t[k] \in Nat
      BY <2>1
    <3> QED  BY <1>4, <3>1, <3>2
  <2> QED  BY <1>4, <2>2
<1>7. EndedBy(t, n, x) = 1..j - 1
  <2> HIDE DEF T
  <2> QED  BY <1>5, <1>6 DEF EndedBy
<1>8. Cardinality(1..j - 1) + 1 = j
  <2>1. 1 \in Int /\ j - 1 \in Int
    BY <1>4
  <2>2. Cardinality(1..j - 1) = IF 1 > j - 1 THEN 0 ELSE (j - 1) - 1 + 1
    BY <2>1, FS_Interval
  <2> QED  BY <1>4, <2>2
<1>9. t[j - 1] <= x
  <2>1. CASE j = 1
    BY <2>1
  <2>2. CASE j # 1
    <3>1. j - 1 \in 1..j - 1
      BY <1>4, <2>2
    <3> QED  BY <1>5, <3>1
  <2> QED  BY <2>1, <2>2
<1>10. QED  BY <1>4, <1>7, <1>8, <1>9

Chunks == [offset : 1..Len(disk.records), entry_count : Nat \ {0}]

LEMMA CountsTyped ==
  ASSUME NEW chunks \in Seq(Chunks)
  PROVE  /\ Len(chunks) \in Nat
         /\ \A k \in 1..Len(chunks) : chunks[k].entry_count \in Nat \ {0}
<1>1. \A chunk \in Chunks : chunk.entry_count \in Nat \ {0}
  BY DEF Chunks
<1>2. \A k \in 1..Len(chunks) : chunks[k] \in Chunks
  OBVIOUS
<1> QED  BY <1>1, <1>2

Running(t, chunks) ==
  /\ t \in [0..Len(chunks) -> Nat] /\ t[0] = 0
  /\ \A k \in 1..Len(chunks) : t[k] = t[k - 1] + chunks[k].entry_count

LEMMA TotalsRun ==
  ASSUME NEW chunks \in Seq(Chunks)
  PROVE  \E t : /\ Running(t, chunks)
                /\ Totals(chunks) = [k \in 1..Len(chunks) |-> t[k]]
                /\ EntriesIn(chunks) = t[Len(chunks)]
<1> DEFINE L == Len(chunks)
           F == [k \in 1..L |-> [v \in Nat |-> v + chunks[k].entry_count]]
           upto[k \in 0..L] == IF k = 0 THEN 0 ELSE upto[k - 1] + chunks[k].entry_count
<1>1. L \in Nat /\ \A k \in 1..L : chunks[k].entry_count \in Nat
  BY CountsTyped
<1>2. F \in [1..L -> [Nat -> Nat]] /\ 0 \in Nat
  BY <1>1
<1>3. PICK t : Iterates(t, Nat, 0, L, F)
  <2> HIDE DEF F, L
  <2> QED  BY <1>1, <1>2, Iterated, Zenon
<1>4. \A k \in 1..L : t[k] = t[k - 1] + chunks[k].entry_count
  <2>1. \A k \in 1..L : k - 1 \in 0..L /\ t[k - 1] \in Nat
    BY <1>1, <1>3 DEF Iterates
  <2> QED  BY <1>3, <2>1 DEF Iterates
<1>5. Running(t, chunks)
  BY <1>3, <1>4 DEF Running, Iterates
<1>6. t = [k \in 0..L |-> IF k = 0 THEN 0 ELSE t[k - 1] + chunks[k].entry_count]
  <2>1. \A k \in 0..L : t[k] = IF k = 0 THEN 0 ELSE t[k - 1] + chunks[k].entry_count
    BY <1>1, <1>5 DEF Running
  <2> QED  BY <1>5, <2>1 DEF Running
<1>7. upto = [k \in 0..L |-> IF k = 0 THEN 0 ELSE upto[k - 1] + chunks[k].entry_count]
  BY <1>6
<1>8. Totals(chunks) = [k \in 1..L |-> upto[k]]
  BY DEF Totals
<1> HIDE DEF upto
<1>9. \A k \in 0..L : upto[k] = t[k]
  <2> DEFINE S == {k \in 0..L : upto[k] = t[k]}
  <2>1. 0 \in S
    BY <1>1, <1>5, <1>7 DEF Running
  <2>2. ASSUME NEW k \in 0..L - 1, k \in S PROVE k + 1 \in S
    <3>1. k + 1 \in 1..L /\ k + 1 \in 0..L /\ k + 1 # 0 /\ (k + 1) - 1 = k
      BY <1>1
    <3>2. upto[k + 1] = upto[k] + chunks[k + 1].entry_count
      BY <1>7, <3>1
    <3>3. t[k + 1] = t[k] + chunks[k + 1].entry_count
      BY <1>4, <3>1
    <3> QED  BY <2>2, <3>1, <3>2, <3>3
  <2> HIDE DEF S
  <2>3. \A k \in 0..L : k \in S
    BY <1>1, <2>1, <2>2, UpTo
  <2> QED  BY <2>3 DEF S
<1>10. Totals(chunks) = [k \in 1..L |-> t[k]]
  BY <1>1, <1>8, <1>9
<1>11. EntriesIn(chunks) = t[L]
  <2>1. CASE chunks = <<>>
    <3>1. L = 0
      BY <2>1
    <3> QED  BY <1>5, <2>1, <3>1 DEF EntriesIn, Running
  <2>2. CASE chunks # <<>>
    <3>1. L \in 1..L
      BY <1>1, <2>2
    <3> QED  BY <1>10, <2>2, <3>1 DEF EntriesIn
  <2> QED  BY <2>1, <2>2
<1> QED  BY <1>5, <1>10, <1>11

\* What a reader knows of the file it has open.
FileRead ==
  /\ index \in Seq(Chunks)
  /\ cumulative = Totals(index) /\ total_entries = EntriesIn(index)
  /\ \A k \in 1..Len(index), c \in Columns :
       /\ Stored(k, c) \in Seq(Range(Stored(k, c)) \ {None})
       /\ Len(Stored(k, c)) >= index[k].entry_count

Counted(t) ==
  /\ Running(t, index)
  /\ cumulative = [k \in 1..Len(index) |-> t[k]] /\ total_entries = t[Len(index)]

LEMMA FileCounted == FileRead => \E t : Counted(t)
BY TotalsRun DEF FileRead, Counted

LEMMA CountsClimb ==
  ASSUME FileRead, NEW t, Counted(t)
  PROVE  /\ Len(index) \in Nat /\ t \in [0..Len(index) -> Nat] /\ t[0] = 0
         /\ total_entries \in Nat /\ total_entries = t[Len(index)]
         /\ \A k \in 1..Len(index) :
              /\ index[k].entry_count \in Nat \ {0} /\ k - 1 \in 0..Len(index) /\ k \in 0..Len(index)
              /\ t[k - 1] \in Nat /\ t[k] \in Nat
              /\ t[k] = t[k - 1] + index[k].entry_count
              /\ cumulative[k] = t[k] /\ ChunkBegin(k) = t[k - 1]
<1>1. Len(index) \in Nat /\ \A k \in 1..Len(index) : index[k].entry_count \in Nat \ {0}
  BY CountsTyped DEF FileRead
<1> DEFINE n == Len(index)
<1>2. /\ t \in [0..n -> Nat] /\ t[0] = 0
      /\ \A k \in 1..n : t[k] = t[k - 1] + index[k].entry_count
      /\ cumulative = [k \in 1..n |-> t[k]] /\ total_entries = t[n]
  BY DEF Counted, Running
<1> HIDE DEF n
<1>3. n \in Nat
  BY <1>1 DEF n
<1>4. \A k \in 1..n : k - 1 \in 0..n /\ k \in 0..n /\ t[k - 1] \in Nat /\ t[k] \in Nat
  BY <1>2, <1>3
<1>5. n \in 0..n /\ total_entries \in Nat
  BY <1>2, <1>3
<1>6. ASSUME NEW k \in 1..n PROVE ChunkBegin(k) = t[k - 1]
  <2>1. CASE k = 1
    BY <1>2, <2>1 DEF ChunkBegin
  <2>2. CASE k # 1
    <3>1. k - 1 \in 1..n
      BY <1>3, <2>2
    <3> QED  BY <1>2, <2>2, <3>1 DEF ChunkBegin
  <2> QED  BY <2>1, <2>2
<1> QED  BY <1>1, <1>2, <1>3, <1>4, <1>5, <1>6 DEF n

LEMMA RowLocated ==
  ASSUME FileRead, NEW t, Counted(t), NEW x \in Nat, x < total_entries
  PROVE  /\ LocateChunk(x) \in 1..Len(index)
         /\ t[LocateChunk(x) - 1] <= x /\ x < t[LocateChunk(x)]
         /\ Local(x) = x - t[LocateChunk(x) - 1]
<1> DEFINE n == Len(index)
<1>1. /\ n \in Nat /\ t \in [0..n -> Nat] /\ t[0] = 0 /\ total_entries = t[n]
      /\ \A k \in 1..n : t[k] \in Nat /\ t[k - 1] \in Nat /\ t[k - 1] <= t[k] /\ cumulative[k] = t[k]
  <2>1. \A k \in 1..n : t[k] = t[k - 1] + index[k].entry_count /\ index[k].entry_count \in Nat
    BY CountsClimb
  <2>2. \A k \in 1..n : t[k] \in Nat /\ t[k - 1] \in Nat /\ cumulative[k] = t[k]
    BY CountsClimb
  <2>3. \A k \in 1..n : t[k - 1] <= t[k]
    BY <2>1, <2>2
  <2>4. n \in Nat /\ t \in [0..n -> Nat] /\ t[0] = 0 /\ total_entries = t[n]
    BY CountsClimb
  <2> QED  BY <2>2, <2>3, <2>4
<1>2. Len(cumulative) = n
  BY <1>1 DEF Counted
<1>3. \A k \in 1..n : ChunkBegin(k) = t[k - 1]
  BY CountsClimb
<1> HIDE DEF n
<1>4. PICK j \in 1..n : /\ Cardinality(EndedBy(t, n, x)) + 1 = j
                        /\ t[j - 1] <= x /\ x < t[j]
  BY <1>1, Located
<1>5. EndedBy(cumulative, Len(cumulative), x) = EndedBy(t, n, x)
  <2>1. \A k \in 1..n : cumulative[k] = t[k]
    BY <1>1
  <2>2. EndedBy(cumulative, n, x) = EndedBy(t, n, x)
    BY <2>1, EndedByAgrees
  <2> QED  BY <1>2, <2>2, Zenon
<1>6. LocateChunk(x) = j
  <2>1. LocateChunk(x) = Cardinality(EndedBy(cumulative, Len(cumulative), x)) + 1
    BY Zenon DEF LocateChunk, EndedBy
  <2> QED  BY <1>4, <1>5, <2>1, Zenon
<1>7. Local(x) = x - t[j - 1]
  BY <1>3, <1>6 DEF Local
<1> QED  BY <1>4, <1>6, <1>7 DEF n

\* Totals never fall.
LEMMA Climbing ==
  ASSUME FileRead, NEW t, Counted(t), NEW j \in 0..Len(index), NEW m \in 0..Len(index), j <= m
  PROVE  t[j] \in Nat /\ t[m] \in Nat /\ t[j] <= t[m]
<1>1. Len(index) \in Nat /\ t \in [0..Len(index) -> Nat]
  BY CountsClimb
<1>2. \A k \in 1..Len(index) : t[k - 1] <= t[k]
  <2>1. \A k \in 1..Len(index) : t[k] = t[k - 1] + index[k].entry_count /\ index[k].entry_count \in Nat
    BY CountsClimb
  <2>2. \A k \in 1..Len(index) : t[k - 1] \in Nat /\ t[k] \in Nat
    BY CountsClimb
  <2> QED  BY <2>1, <2>2
<1>3. t[j] <= t[m]
  BY <1>1, <1>2, TotalsClimb
<1> QED  BY <1>1, <1>3

-----------------------------------------------------------------------------
(* A column, chunk after chunk.                                            *)
Piece(k, c) == [i \in 1..index[k].entry_count |-> ReadableCell(k, c, i)]

CellsRead(c) == {ReadableCell(k, c, i) : k \in 1..Len(index), i \in Nat}

\* What a column begins with: the cells of m chunks.
Begun(s, t, m, c) ==
  /\ s \in Seq(CellsRead(c)) /\ Len(s) = t[m]
  /\ \A k \in 1..m : \A i \in 1..index[k].entry_count :
       s[t[k - 1] + i] = ReadableCell(k, c, i)

LEMMA PieceTyped ==
  ASSUME FileRead, NEW k \in 1..Len(index), NEW c
  PROVE  Piece(k, c) \in Seq(CellsRead(c)) /\ Len(Piece(k, c)) = index[k].entry_count
<1>1. index[k].entry_count \in Nat
  BY CountsTyped DEF FileRead
<1>2. \A i \in 1..index[k].entry_count : ReadableCell(k, c, i) \in CellsRead(c)
  BY <1>1 DEF CellsRead
<1> QED  BY <1>1, <1>2 DEF Piece

Together(whole, s, p) ==
  /\ Len(whole) = Len(s) + Len(p)
  /\ \A q \in 1..Len(s) : whole[q] = s[q]
  /\ \A i \in 1..Len(p) : whole[Len(s) + i] = p[i]

LEMMA PutTogether ==
  ASSUME NEW V, NEW s \in Seq(V), NEW p \in Seq(V)
  PROVE  s \o p \in Seq(V) /\ Together(s \o p, s, p)
<1>1. Len(s) \in Nat /\ Len(p) \in Nat
  OBVIOUS
<1>2. /\ s \o p \in Seq(V) /\ Len(s \o p) = Len(s) + Len(p)
      /\ \A i \in 1..Len(s) + Len(p) :
           (s \o p)[i] = IF i <= Len(s) THEN s[i] ELSE p[i - Len(s)]
  BY ConcatProperties
<1>3. \A q \in 1..Len(s) : q \in 1..Len(s) + Len(p) /\ q <= Len(s)
  BY <1>1
<1>4. \A i \in 1..Len(p) : /\ Len(s) + i \in 1..Len(s) + Len(p)
                          /\ ~(Len(s) + i <= Len(s)) /\ (Len(s) + i) - Len(s) = i
  BY <1>1
<1> QED  BY <1>2, <1>3, <1>4 DEF Together

LEMMA NextChunkBegun ==
  ASSUME FileRead, NEW t, Counted(t), NEW c, NEW m \in 0..Len(index) - 1, NEW s, Begun(s, t, m, c)
  PROVE  Begun(s \o Piece(m + 1, c), t, m + 1, c)
<1>1. m \in Nat /\ m + 1 \in 1..Len(index) /\ (m + 1) - 1 = m /\ m \in 0..Len(index)
  BY CountsClimb
<1>2. PICK V : V = CellsRead(c)
  OBVIOUS
<1>3. PICK p \in Seq(V) : p = Piece(m + 1, c) /\ Len(p) = index[m + 1].entry_count
  BY <1>1, <1>2, PieceTyped
<1>4. s \in Seq(V) /\ Len(s) = t[m]
  BY <1>2 DEF Begun
<1>5. PICK a \in Nat : a = t[m]
  BY <1>1, CountsClimb
<1>6. PICK e \in Nat : e = index[m + 1].entry_count
  BY <1>1, CountsClimb
<1>7. t[m + 1] = a + e
  BY <1>1, <1>5, <1>6, CountsClimb
<1>8. /\ s \o p \in Seq(V) /\ Len(s \o p) = a + e
      /\ \A q \in 1..a : (s \o p)[q] = s[q]
      /\ \A i \in 1..e : (s \o p)[a + i] = p[i]
  <2>1. Len(s) = a /\ Len(p) = e
    BY <1>3, <1>4, <1>5, <1>6
  <2>2. s \o p \in Seq(V) /\ Together(s \o p, s, p)
    BY <1>3, <1>4, PutTogether
  <2> QED  BY <2>1, <2>2 DEF Together
<1>9. ASSUME NEW k \in 1..m, NEW i \in 1..index[k].entry_count
      PROVE  (s \o p)[t[k - 1] + i] = ReadableCell(k, c, i)
  <2>1. k \in 1..Len(index) /\ k \in 0..Len(index) /\ k <= m
    BY <1>1, CountsClimb
  <2>2. t[k - 1] \in Nat /\ t[k] = t[k - 1] + index[k].entry_count /\ index[k].entry_count \in Nat
    BY <2>1, CountsClimb
  <2>3. t[k] <= a /\ t[k] \in Nat
    BY <1>1, <1>5, <2>1, Climbing
  <2>4. t[k - 1] + i \in 1..a
    <3>1. PICK b \in Nat, h \in Nat : b = t[k - 1] /\ h = index[k].entry_count
      BY <2>2
    <3>2. i \in 1..h /\ b + h <= a
      BY <2>2, <2>3, <3>1
    <3>3. b + i \in 1..a
      BY <3>2
    <3> QED  BY <3>1, <3>3
  <2>5. s[t[k - 1] + i] = ReadableCell(k, c, i)
    BY DEF Begun
  <2> QED  BY <1>8, <2>4, <2>5
<1>10. ASSUME NEW i \in 1..index[m + 1].entry_count
       PROVE  (s \o p)[t[m] + i] = ReadableCell(m + 1, c, i)
  <2>1. p[i] = ReadableCell(m + 1, c, i)
    BY <1>3 DEF Piece
  <2> QED  BY <1>5, <1>6, <1>8, <2>1
<1>11. ASSUME NEW k \in 1..m + 1 PROVE k \in 1..m \/ k = m + 1
  BY <1>1
<1>12. \A k \in 1..m + 1 : \A i \in 1..index[k].entry_count :
         (s \o p)[t[k - 1] + i] = ReadableCell(k, c, i)
  BY <1>1, <1>9, <1>10, <1>11
<1> QED  BY <1>2, <1>3, <1>7, <1>8, <1>12 DEF Begun

LEMMA ColumnBegun ==
  ASSUME FileRead, NEW t, Counted(t), NEW c
  PROVE  Begun(ColumnOf(c), t, Len(index), c)
<1> DEFINE L == Len(index)
           V == CellsRead(c)
           F == [k \in 1..L |-> [s \in Seq(V) |-> s \o Piece(k, c)]]
           upto[k \in 0..L] ==
             IF k = 0 THEN <<>>
             ELSE upto[k - 1] \o [i \in 1..index[k].entry_count |-> ReadableCell(k, c, i)]
<1>1. L \in Nat
  BY CountsClimb
<1>2. F \in [1..L -> [Seq(V) -> Seq(V)]]
  <2>1. \A k \in 1..L : Piece(k, c) \in Seq(V)
    BY PieceTyped
  <2> HIDE DEF V, L
  <2>2. \A k \in 1..L : \A s \in Seq(V) : s \o Piece(k, c) \in Seq(V)
    BY <2>1
  <2> QED  BY <2>2
<1>3. <<>> \in Seq(V)
  OBVIOUS
<1>4. PICK g : Iterates(g, Seq(V), <<>>, L, F)
  <2> HIDE DEF F, L, V
  <2> QED  BY <1>1, <1>2, <1>3, Iterated, Zenon
<1>5. g \in [0..L -> Seq(V)] /\ g[0] = <<>> /\ \A k \in 1..L : g[k] = g[k - 1] \o Piece(k, c)
  <2>1. g \in [0..L -> Seq(V)] /\ g[0] = <<>> /\ \A k \in 1..L : g[k] = F[k][g[k - 1]]
    <3> HIDE DEF F, L, V
    <3> QED  BY <1>4 DEF Iterates
  <2>2. \A k \in 1..L : k - 1 \in 0..L
    BY <1>1
  <2> HIDE DEF L, V
  <2> QED  BY <2>1, <2>2
<1>6. g = [k \in 0..L |-> IF k = 0 THEN <<>>
                          ELSE g[k - 1] \o [i \in 1..index[k].entry_count |-> ReadableCell(k, c, i)]]
  <2>1. \A k \in 0..L : k # 0 => k \in 1..L
    BY <1>1
  <2>2. \A k \in 0..L : g[k] = IF k = 0 THEN <<>>
                          ELSE g[k - 1] \o [i \in 1..index[k].entry_count |-> ReadableCell(k, c, i)]
    <3> HIDE DEF L, V, F
    <3> QED  BY <1>5, <2>1 DEF Piece
  <2> HIDE DEF L, V, F
  <2> QED  BY <1>5, <2>2
<1>7. upto = [k \in 0..L |-> IF k = 0 THEN <<>>
                          ELSE upto[k - 1] \o [i \in 1..index[k].entry_count |-> ReadableCell(k, c, i)]]
  <2> HIDE DEF F, L, V
  <2> QED  BY <1>6
<1>8. ColumnOf(c) = upto[L]
  BY DEF ColumnOf
<1> HIDE DEF upto
<1>9. upto[0] = <<>> /\ \A k \in 1..L : upto[k] = upto[k - 1] \o Piece(k, c)
  <2>1. \A k \in 1..L : k \in 0..L /\ k # 0
    BY <1>1
  <2>2. 0 \in 0..L
    BY <1>1
  <2> HIDE DEF L, V, F
  <2> QED  BY <1>7, <2>1, <2>2 DEF Piece
<1> DEFINE S == {k \in 0..L : Begun(upto[k], t, k, c)}
<1>10. 0 \in S
  <2>1. Begun(<<>>, t, 0, c)
    BY CountsClimb DEF Begun
  <2> QED  BY <1>1, <1>9, <2>1
<1>11. ASSUME NEW k \in 0..L - 1, k \in S PROVE k + 1 \in S
  <2>1. k + 1 \in 1..L /\ k + 1 \in 0..L /\ (k + 1) - 1 = k
    BY <1>1
  <2>2. Begun(upto[k] \o Piece(k + 1, c), t, k + 1, c)
    BY <1>11, NextChunkBegun
  <2> QED  BY <1>9, <2>1, <2>2
<1>12. \A k \in 0..L : k \in S
  <2> HIDE DEF S, L
  <2> QED  BY <1>1, <1>10, <1>11, UpTo
<1>13. L \in 0..L
  BY <1>1
<1> QED  BY <1>8, <1>12, <1>13

LEMMA ColumnRead ==
  ASSUME FileRead, NEW t, Counted(t), NEW c
  PROVE  /\ ColumnOf(c) \in Seq(CellsRead(c)) /\ Len(ColumnOf(c)) = total_entries
         /\ \A k \in 1..Len(index) : \A i \in 1..index[k].entry_count :
              ColumnOf(c)[t[k - 1] + i] = ReadableCell(k, c, i)
BY ColumnBegun, CountsClimb DEF Begun

-----------------------------------------------------------------------------
(***************************************************************************)
(* The cache. Position by position it is the beginning of the history, and *)
(* a chunk asked for moves to the front of both.                           *)
(***************************************************************************)
MovedUp(new, old, p) ==
  /\ Len(new) = Len(old) /\ new[1] = old[p]
  /\ \A i \in 2..p : new[i] = old[i - 1]
  /\ \A i \in p + 1..Len(old) : new[i] = old[i]

LEMMA ToFrontMovesUp ==
  ASSUME NEW S, NEW s \in Seq(S), NEW p \in 1..Len(s)
  PROVE  ToFront(s, p) \in Seq(S) /\ MovedUp(ToFront(s, p), s, p)
<1> DEFINE n == Len(s)
           a == SubSeq(s, 1, p - 1)
           b == SubSeq(s, p + 1, n)
<1>1. n \in Nat /\ s[p] \in S
  OBVIOUS
<1>2. /\ a \in Seq(S) /\ Len(a) = p - 1
      /\ \A i \in 1..p - 1 : a[i] = s[i]
  BY <1>1
<1>3. /\ b \in Seq(S) /\ Len(b) = n - p
      /\ \A i \in 1..n - p : b[i] = s[p + i]
  BY <1>1
<1> HIDE DEF a, b
<1>4. a \o b \in Seq(S) /\ Together(a \o b, a, b)
  BY <1>2, <1>3, PutTogether, Zenon
<1>5. <<s[p]>> \in Seq(S) /\ Len(<<s[p]>>) = 1 /\ <<s[p]>>[1] = s[p]
  BY <1>1
<1>6. PICK r : r = a \o b
  OBVIOUS
<1>7. <<s[p]>> \o r \in Seq(S) /\ Together(<<s[p]>> \o r, <<s[p]>>, r)
  BY <1>4, <1>5, <1>6, PutTogether, Zenon
<1>8. ToFront(s, p) = <<s[p]>> \o r
  BY <1>6, Zenon DEF ToFront, RemoveAt, a, b, n
<1>9. PICK w : w = ToFront(s, p)
  OBVIOUS
<1> HIDE DEF n
<1>10. /\ Len(r) = n - 1 /\ \A i \in 1..p - 1 : r[i] = s[i]
       /\ \A i \in 1..n - p : r[p - 1 + i] = s[p + i]
  <2>1. Len(r) = (p - 1) + (n - p) /\ \A i \in 1..p - 1 : r[i] = a[i]
    BY <1>2, <1>3, <1>4, <1>6 DEF Together
  <2>2. \A i \in 1..n - p : r[(p - 1) + i] = b[i]
    BY <1>2, <1>3, <1>4, <1>6 DEF Together
  <2>3. (p - 1) + (n - p) = n - 1
    BY <1>1
  <2> QED  BY <1>2, <1>3, <2>1, <2>2, <2>3
<1>11. Len(w) = 1 + Len(r) /\ w[1] = s[p] /\ \A i \in 1..Len(r) : w[1 + i] = r[i]
  <2>1. 1 \in 1..1
    OBVIOUS
  <2> QED  BY <1>5, <1>7, <1>8, <1>9, <2>1 DEF Together
<1>12. Len(w) = n
  BY <1>1, <1>10, <1>11
<1>13. ASSUME NEW i \in 2..p PROVE w[i] = s[i - 1]
  <2>1. i - 1 \in 1..p - 1 /\ i - 1 \in 1..n - 1 /\ 1 + (i - 1) = i
    BY <1>1 DEF n
  <2> QED  BY <1>10, <1>11, <2>1
<1>14. ASSUME NEW i \in p + 1..n PROVE w[i] = s[i]
  <2>1. i - p \in 1..n - p /\ i - 1 \in 1..n - 1 /\ 1 + (i - 1) = i
        /\ p - 1 + (i - p) = i - 1 /\ p + (i - p) = i
    BY <1>1 DEF n
  <2>2. r[i - 1] = s[i]
    BY <1>10, <2>1
  <2>3. w[1 + (i - 1)] = r[i - 1]
    BY <1>10, <1>11, <2>1
  <2> QED  BY <2>1, <2>2, <2>3
<1> QED  BY <1>7, <1>8, <1>9, <1>11, <1>12, <1>13, <1>14 DEF MovedUp, n

Pushed(new, e, old) ==
  /\ Len(new) = Len(old) + 1 /\ new[1] = e
  /\ \A i \in 1..Len(old) : new[i + 1] = old[i]

LEMMA PushPushes ==
  ASSUME NEW S, NEW e \in S, NEW s \in Seq(S)
  PROVE  <<e>> \o s \in Seq(S) /\ Pushed(<<e>> \o s, e, s)
<1>1. <<e>> \in Seq(S) /\ Len(<<e>>) = 1 /\ <<e>>[1] = e
  OBVIOUS
<1>2. <<e>> \o s \in Seq(S) /\ Together(<<e>> \o s, <<e>>, s)
  BY <1>1, PutTogether, Zenon
<1>3. PICK w : w = <<e>> \o s
  OBVIOUS
<1>4. Len(w) = 1 + Len(s) /\ (\A q \in 1..1 : w[q] = <<e>>[q]) /\ \A i \in 1..Len(s) : w[1 + i] = s[i]
  BY <1>1, <1>2, <1>3 DEF Together
<1>5. Len(s) \in Nat /\ 1 \in 1..1 /\ \A i \in 1..Len(s) : 1 + i = i + 1
  OBVIOUS
<1>6. Len(w) = Len(s) + 1 /\ w[1] = e
  BY <1>1, <1>4, <1>5
<1>7. \A i \in 1..Len(s) : w[i + 1] = s[i]
  BY <1>4, <1>5
<1> QED  BY <1>2, <1>3, <1>6, <1>7 DEF Pushed

Distinct(s) == \A i, j \in 1..Len(s) : s[i] = s[j] => i = j

LEMMA MovedDistinct ==
  ASSUME NEW s, Len(s) \in Nat, Distinct(s), NEW p \in 1..Len(s), NEW w, MovedUp(w, s, p)
  PROVE  /\ Distinct(w)
         /\ \A i \in 1..Len(w) : \E j \in 1..Len(s) : w[i] = s[j]
<1> DEFINE from(i) == IF i = 1 THEN p ELSE IF i <= p THEN i - 1 ELSE i
<1>1. PICK n \in Nat : n = Len(s)
  OBVIOUS
<1>2. \A i \in 1..n : from(i) \in 1..n
  BY <1>1
<1>3. \A i, j \in 1..n : from(i) = from(j) => i = j
  BY <1>1
<1>4. \A i \in 1..n : w[i] = s[from(i)]
  <2> TAKE i \in 1..n
  <2>1. CASE i = 1
    BY <2>1 DEF MovedUp
  <2>2. CASE i # 1 /\ i <= p
    <3>1. i \in 2..p
      BY <1>1, <2>2
    <3> QED  BY <2>2, <3>1 DEF MovedUp
  <2>3. CASE i # 1 /\ ~(i <= p)
    <3>1. i \in p + 1..Len(s)
      BY <1>1, <2>3
    <3> QED  BY <2>3, <3>1 DEF MovedUp
  <2> QED  BY <2>1, <2>2, <2>3
<1>5. Len(w) = n
  BY <1>1 DEF MovedUp
<1> HIDE DEF from
<1>6. Distinct(w)
  <2>1. SUFFICES ASSUME NEW i \in 1..n, NEW j \in 1..n, w[i] = w[j] PROVE i = j
    BY <1>5 DEF Distinct
  <2>2. from(i) \in 1..n /\ from(j) \in 1..n /\ s[from(i)] = s[from(j)]
    BY <1>2, <1>4, <2>1
  <2>3. from(i) = from(j)
    BY <1>1, <2>2 DEF Distinct
  <2> QED  BY <1>3, <2>3
<1>7. \A i \in 1..Len(w) : \E j \in 1..Len(s) : w[i] = s[j]
  BY <1>1, <1>2, <1>4, <1>5
<1> QED  BY <1>6, <1>7

LEMMA PushedDistinct ==
  ASSUME NEW s, Len(s) \in Nat, Distinct(s), NEW e, NEW w, Pushed(w, e, s),
         \A i \in 1..Len(s) : s[i] # e
  PROVE  /\ Distinct(w)
         /\ \A i \in 1..Len(w) : w[i] = e \/ \E j \in 1..Len(s) : w[i] = s[j]
<1>1. PICK n \in Nat : n = Len(s)
  OBVIOUS
<1>2. Len(w) = n + 1 /\ w[1] = e
  BY <1>1 DEF Pushed
<1>3. \A i \in 1..n + 1 : i # 1 => i - 1 \in 1..n /\ (i - 1) + 1 = i
  BY <1>1
<1>4. \A i \in 1..n + 1 : i # 1 => w[i] = s[i - 1]
  <2> TAKE i \in 1..n + 1
  <2> HAVE i # 1
  <2>1. i - 1 \in 1..n /\ (i - 1) + 1 = i
    BY <1>3
  <2>2. w[(i - 1) + 1] = s[i - 1]
    BY <1>1, <2>1 DEF Pushed
  <2> QED  BY <2>1, <2>2
<1>5. Distinct(w)
  <2>1. SUFFICES ASSUME NEW i \in 1..n + 1, NEW j \in 1..n + 1, w[i] = w[j] PROVE i = j
    BY <1>2 DEF Distinct
  <2>2. CASE i = 1 /\ j = 1
    BY <2>2
  <2>3. CASE i = 1 /\ j # 1
    BY <1>1, <1>2, <1>3, <1>4, <2>1, <2>3
  <2>4. CASE i # 1 /\ j = 1
    BY <1>1, <1>2, <1>3, <1>4, <2>1, <2>4
  <2>5. CASE i # 1 /\ j # 1
    <3>1. i - 1 \in 1..n /\ j - 1 \in 1..n /\ s[i - 1] = s[j - 1]
      BY <1>3, <1>4, <2>1, <2>5
    <3>2. i - 1 = j - 1
      BY <1>1, <3>1 DEF Distinct
    <3> QED  BY <1>1, <3>2
  <2> QED  BY <2>2, <2>3, <2>4, <2>5
<1>6. \A i \in 1..n + 1 : w[i] = e \/ \E j \in 1..n : w[i] = s[j]
  BY <1>2, <1>3, <1>4
<1> QED  BY <1>1, <1>2, <1>5, <1>6

Readable(k, g) ==
  Loadable(k) /\ <<index[k].offset, g>> \notin disk.absent \cup disk.corrupt

Entries == [chunk : 1..Len(index), groups : SUBSET (1..Len(Groups)),
            raw : SUBSET (1..Len(Groups))]

\* Nothing readable is missing from an entry, and nothing else is decoded.
EntryOK(entry) ==
  LET offset == index[entry.chunk].offset
  IN  /\ entry.groups \cap entry.raw = {}
      /\ \A g \in 1..Len(Groups) :
           <<offset, g>> \notin disk.absent \cup disk.corrupt
             => g \in entry.groups \cup entry.raw
      /\ \A g \in entry.groups : <<offset, g>> \notin disk.absent \cup disk.corrupt
      /\ \A g \in entry.raw : <<offset, g>> \notin disk.absent

Lru(lru, used) ==
  /\ lru \in Seq(Entries) /\ used \in Seq(1..Len(index))
  /\ \A i \in 1..Len(used) : Loadable(used[i])
  /\ Distinct(used)
  /\ Len(lru) = IF Len(used) < Capacity THEN Len(used) ELSE Capacity
  /\ \A pos \in 1..Len(lru) : lru[pos].chunk = used[pos] /\ EntryOK(lru[pos])

LEMMA LoadedEntry ==
  ASSUME NEW k \in 1..Len(index)
  PROVE  LoadChunk(k) \in Entries /\ LoadChunk(k).chunk = k /\ EntryOK(LoadChunk(k))
BY DEF LoadChunk, Entries, EntryOK

LEMMA Inserted ==
  ASSUME NEW lru \in Seq(Entries), Len(lru) <= Capacity, NEW e \in Entries, ~Cached(lru, e.chunk)
  PROVE  LET w == Insert(lru, e)
         IN  /\ w \in Seq(Entries) /\ w[1] = e
             /\ Len(w) = IF Len(lru) < Capacity THEN Len(lru) + 1 ELSE Capacity
             /\ \A i \in 2..Len(w) : w[i] = lru[i - 1]
<1> DEFINE rest == IF Len(lru) >= Capacity THEN SubSeq(lru, 1, Len(lru) - 1) ELSE lru
           m == IF Len(lru) < Capacity THEN Len(lru) ELSE Capacity - 1
<1>1. Len(lru) \in Nat /\ Capacity \in Nat /\ Capacity >= 1 /\ m \in Nat
  BY CapacityAssumption
<1>2. Insert(lru, e) = <<e>> \o rest
  BY DEF Insert, Others, Front
<1>3. rest \in Seq(Entries) /\ Len(rest) = m /\ \A i \in 1..m : rest[i] = lru[i]
  BY <1>1
<1> HIDE DEF rest
<1>4. <<e>> \o rest \in Seq(Entries) /\ Pushed(<<e>> \o rest, e, rest)
  BY <1>3, PushPushes, Zenon
<1>5. PICK w : w = <<e>> \o rest
  OBVIOUS
<1>6. w \in Seq(Entries) /\ Len(w) = m + 1 /\ w[1] = e /\ \A i \in 1..m : w[i + 1] = lru[i]
  BY <1>3, <1>4, <1>5 DEF Pushed
<1>7. \A i \in 2..Len(w) : i - 1 \in 1..m /\ (i - 1) + 1 = i
  BY <1>1, <1>6
<1>8. \A i \in 2..Len(w) : w[i] = lru[i - 1]
  <2> TAKE i \in 2..Len(w)
  <2>1. w[(i - 1) + 1] = lru[i - 1]
    BY <1>6, <1>7
  <2> QED  BY <1>7, <2>1
<1>9. Len(w) = IF Len(lru) < Capacity THEN Len(lru) + 1 ELSE Capacity
  BY <1>1, <1>6
<1> QED  BY <1>2, <1>5, <1>6, <1>8, <1>9

LEMMA NotLoaded ==
  ASSUME NEW lru, NEW used, Lru(lru, used), NEW k, ~Loadable(k)
  PROVE  ~Cached(lru, k) /\ EnsureChunkLoaded(lru, k) = lru /\ Used(used, k) = used
<1>1. ASSUME NEW pos \in 1..Len(lru), lru[pos].chunk = k PROVE FALSE
  <2>1. pos \in 1..Len(used)
    <3>1. Len(used) \in Nat /\ Len(lru) \in Nat /\ Capacity \in Nat
      BY CapacityAssumption DEF Lru
    <3> QED  BY <3>1 DEF Lru
  <2> QED  BY <1>1, <2>1 DEF Lru
<1> QED  BY <1>1 DEF Cached, EnsureChunkLoaded, Used

\* The history, when chunk k is asked for.
LEMMA UsedIs ==
  ASSUME NEW lru, NEW used, Lru(lru, used), NEW k \in 1..Len(index), Loadable(k)
  PROVE  /\ Used(used, k) \in Seq(1..Len(index)) /\ Distinct(Used(used, k))
         /\ \A i \in 1..Len(Used(used, k)) : Loadable(Used(used, k)[i])
         /\ \/ \E p \in 1..Len(used) : used[p] = k /\ MovedUp(Used(used, k), used, p)
            \/ (\A p \in 1..Len(used) : used[p] # k) /\ Pushed(Used(used, k), k, used)
<1>1. used \in Seq(1..Len(index)) /\ Distinct(used) /\ \A i \in 1..Len(used) : Loadable(used[i])
  BY DEF Lru
<1>2. Len(used) \in Nat
  BY <1>1
<1>3. CASE \E p \in 1..Len(used) : used[p] = k
  <2>1. PICK p \in 1..Len(used) : p = CHOOSE pos \in 1..Len(used) : used[pos] = k
    BY <1>3
  <2>2. used[p] = k
    BY <1>3, <2>1
  <2>3. Used(used, k) = ToFront(used, p)
    BY <1>3, <2>1 DEF Used
  <2>4. Used(used, k) \in Seq(1..Len(index)) /\ MovedUp(Used(used, k), used, p)
    BY <1>1, <2>3, ToFrontMovesUp, Zenon
  <2>5. /\ Distinct(Used(used, k))
        /\ \A i \in 1..Len(Used(used, k)) : \E j \in 1..Len(used) : Used(used, k)[i] = used[j]
    BY <1>1, <1>2, <2>1, <2>4, MovedDistinct
  <2> QED  BY <1>1, <2>2, <2>4, <2>5, Zenon
<1>4. CASE \A p \in 1..Len(used) : used[p] # k
  <2>1. Used(used, k) = <<k>> \o used
    BY <1>4 DEF Used
  <2>2. Used(used, k) \in Seq(1..Len(index)) /\ Pushed(Used(used, k), k, used)
    BY <1>1, <2>1, PushPushes, Zenon
  <2>3. /\ Distinct(Used(used, k))
        /\ \A i \in 1..Len(Used(used, k)) :
             Used(used, k)[i] = k \/ \E j \in 1..Len(used) : Used(used, k)[i] = used[j]
    BY <1>1, <1>2, <1>4, <2>2, PushedDistinct
  <2> QED  BY <1>1, <1>4, <2>2, <2>3, Zenon
<1> QED  BY <1>3, <1>4

\* A chunk that can be loaded is at the front, once asked for.
LEMMA Loaded ==
  ASSUME NEW lru, NEW used, Lru(lru, used), NEW k \in 1..Len(index), Loadable(k)
  PROVE  /\ Lru(EnsureChunkLoaded(lru, k), Used(used, k))
         /\ Len(EnsureChunkLoaded(lru, k)) >= 1 /\ EnsureChunkLoaded(lru, k)[1].chunk = k
<1>1. /\ lru \in Seq(Entries) /\ used \in Seq(1..Len(index)) /\ Distinct(used)
      /\ \A pos \in 1..Len(lru) : lru[pos].chunk = used[pos] /\ EntryOK(lru[pos])
  BY DEF Lru
<1>2. PICK n \in Nat, m \in Nat : n = Len(used) /\ m = Len(lru)
  BY <1>1
<1>3. m = IF n < Capacity THEN n ELSE Capacity
  BY <1>2 DEF Lru
<1>4. Capacity \in Nat /\ Capacity >= 1
  BY CapacityAssumption
<1>5. PICK u \in Seq(1..Len(index)) : u = Used(used, k)
  BY UsedIs
<1>6. /\ Distinct(u) /\ \A i \in 1..Len(u) : Loadable(u[i])
      /\ \/ \E p \in 1..n : used[p] = k /\ MovedUp(u, used, p)
         \/ (\A p \in 1..n : used[p] # k) /\ Pushed(u, k, used)
  BY <1>2, <1>5, UsedIs
<1>7. PICK w : w = EnsureChunkLoaded(lru, k)
  OBVIOUS
<1>8. CASE Cached(lru, k)
  <2>1. PICK p \in 1..m : p = PlaceOf(lru, k) /\ lru[p].chunk = k
    BY <1>2, <1>8 DEF Cached, PlaceOf
  <2>2. w = ToFront(lru, p)
    BY <1>7, <1>8, <2>1 DEF EnsureChunkLoaded, Touch
  <2>3. w \in Seq(Entries) /\ MovedUp(w, lru, p)
    BY <1>1, <1>2, <2>2, ToFrontMovesUp, Zenon
  <2>4. p \in 1..n /\ used[p] = k
    BY <1>1, <1>2, <1>3, <1>4, <2>1
  <2>5. MovedUp(u, used, p)
    <3>1. PICK q \in 1..n : used[q] = k /\ MovedUp(u, used, q)
      BY <1>6, <2>4
    <3>2. p = q
      BY <1>1, <1>2, <2>4, <3>1 DEF Distinct
    <3> QED  BY <3>1, <3>2
  <2>6. Len(w) = m /\ Len(u) = n /\ w[1] = lru[p] /\ u[1] = k
    BY <1>2, <2>3, <2>4, <2>5 DEF MovedUp
  <2>7. ASSUME NEW pos \in 1..m PROVE w[pos].chunk = u[pos] /\ EntryOK(w[pos])
    <3>1. CASE pos = 1
      BY <1>1, <1>2, <2>1, <2>6, <3>1
    <3>2. CASE pos \in 2..p
      <4>1. w[pos] = lru[pos - 1] /\ u[pos] = used[pos - 1] /\ pos - 1 \in 1..m
        BY <1>2, <2>3, <2>5, <3>2 DEF MovedUp
      <4> QED  BY <1>1, <1>2, <4>1
    <3>3. CASE pos \in p + 1..m
      <4>1. pos \in p + 1..n
        BY <1>3, <1>4, <2>1, <3>3
      <4>2. w[pos] = lru[pos] /\ u[pos] = used[pos]
        BY <1>2, <2>3, <2>5, <3>3, <4>1 DEF MovedUp
      <4> QED  BY <1>1, <1>2, <4>2
    <3> QED  BY <3>1, <3>2, <3>3
  <2>8. Lru(w, u)
    BY <1>3, <1>5, <1>6, <2>3, <2>6, <2>7 DEF Lru
  <2>9. Len(w) >= 1 /\ w[1].chunk = k
    BY <2>1, <2>6
  <2> QED  BY <1>5, <1>7, <2>8, <2>9
<1>9. CASE ~Cached(lru, k)
  <2>1. PICK e \in Entries : e = LoadChunk(k) /\ e.chunk = k /\ EntryOK(e)
    BY LoadedEntry
  <2>2. w = Insert(lru, e)
    BY <1>7, <1>9, <2>1 DEF EnsureChunkLoaded
  <2>3. /\ w \in Seq(Entries) /\ w[1] = e
        /\ Len(w) = IF m < Capacity THEN m + 1 ELSE Capacity
        /\ \A i \in 2..Len(w) : w[i] = lru[i - 1]
    <3>1. Len(lru) <= Capacity
      BY <1>2, <1>3, <1>4
    <3> QED  BY <1>1, <1>2, <1>9, <2>1, <2>2, <3>1, Inserted
  <2>4. \A p \in 1..m : used[p] # k
    BY <1>1, <1>2, <1>9 DEF Cached
  <2>5. u[1] = k /\ Len(u) \in {n, n + 1} /\ Len(w) = (IF Len(u) < Capacity THEN Len(u) ELSE Capacity)
        /\ \A i \in 2..Len(w) : u[i] = used[i - 1]
    <3>1. CASE \A p \in 1..n : used[p] # k
      <4>1. Pushed(u, k, used)
        BY <1>6, <3>1
      <4>2. Len(u) = n + 1 /\ u[1] = k
        BY <1>2, <4>1 DEF Pushed
      <4>3. Len(w) = IF Len(u) < Capacity THEN Len(u) ELSE Capacity
        BY <1>3, <1>4, <2>3, <4>2
      <4>4. ASSUME NEW i \in 2..Len(w) PROVE u[i] = used[i - 1]
        <5>1. i - 1 \in 1..n /\ (i - 1) + 1 = i
          BY <1>4, <4>2, <4>3
        <5>2. u[(i - 1) + 1] = used[i - 1]
          BY <1>2, <4>1, <5>1 DEF Pushed
        <5> QED  BY <5>1, <5>2
      <4> QED  BY <4>2, <4>3, <4>4
    <3>2. CASE \E p \in 1..n : used[p] = k
      <4>1. PICK p \in 1..n : used[p] = k /\ MovedUp(u, used, p)
        BY <1>6, <3>2
      <4>2. p > m
        BY <1>2, <2>4, <4>1
      <4>3. m = Capacity /\ n >= Capacity
        BY <1>3, <1>4, <4>2
      <4>4. Len(u) = n /\ u[1] = k /\ Len(w) = Capacity
        BY <1>2, <1>4, <2>3, <4>1, <4>3 DEF MovedUp
      <4>5. ASSUME NEW i \in 2..Len(w) PROVE u[i] = used[i - 1]
        <5>1. i \in 2..p
          BY <1>4, <4>2, <4>3, <4>4
        <5> QED  BY <4>1, <5>1 DEF MovedUp
      <4> QED  BY <4>3, <4>4, <4>5, <1>4
    <3> QED  BY <3>1, <3>2
  <2>6. ASSUME NEW pos \in 1..Len(w) PROVE w[pos].chunk = u[pos] /\ EntryOK(w[pos])
    <3>1. CASE pos = 1
      BY <2>1, <2>3, <2>5, <3>1
    <3>2. CASE pos # 1
      <4>1. Len(w) \in Nat /\ Len(w) <= m + 1
        BY <1>3, <1>4, <2>3
      <4>2. pos \in 2..Len(w) /\ pos - 1 \in 1..m
        BY <3>2, <4>1
      <4>3. w[pos] = lru[pos - 1] /\ u[pos] = used[pos - 1]
        BY <2>3, <2>5, <4>2
      <4> QED  BY <1>1, <1>2, <4>2, <4>3
    <3> QED  BY <3>1, <3>2
  <2>7. Lru(w, u)
    BY <1>5, <1>6, <2>3, <2>5, <2>6 DEF Lru
  <2>8. Len(w) >= 1 /\ w[1].chunk = k
    BY <1>4, <2>1, <2>3
  <2> QED  BY <1>5, <1>7, <2>7, <2>8
<1> QED  BY <1>8, <1>9

\* A group of the entry at the front is decoded, if that can be done.
LEMMA Decoded ==
  ASSUME NEW e \in Entries, EntryOK(e), NEW g \in 1..Len(Groups)
  PROVE  /\ Decode(e, g) \in Entries /\ Decode(e, g).chunk = e.chunk /\ EntryOK(Decode(e, g))
         /\ g \in Decode(e, g).groups
              <=> <<index[e.chunk].offset, g>> \notin disk.absent \cup disk.corrupt
<1> DEFINE offset == index[e.chunk].offset
           good(h) == <<offset, h>> \notin disk.absent \cup disk.corrupt
<1>1. /\ e.groups \subseteq 1..Len(Groups) /\ e.raw \subseteq 1..Len(Groups)
      /\ e.chunk \in 1..Len(index)
  BY DEF Entries
<1>2. /\ e.groups \cap e.raw = {}
      /\ \A h \in 1..Len(Groups) : good(h) => h \in e.groups \cup e.raw
      /\ \A h \in e.groups : good(h)
      /\ \A h \in e.raw : <<offset, h>> \notin disk.absent
  BY DEF EntryOK
<1>3. CASE g \notin e.raw
  <2>1. Decode(e, g) = e
    BY <1>3 DEF Decode
  <2>2. g \in e.groups <=> good(g)
    BY <1>2, <1>3
  <2> QED  BY <2>1, <2>2
<1>4. CASE g \in e.raw
  <2>1. PICK groups \in SUBSET (1..Len(Groups)) :
          groups = IF Decodable(e.chunk, g) THEN e.groups \cup {g} ELSE e.groups
    BY <1>1
  <2>2. PICK d : d = [e EXCEPT !.raw = e.raw \ {g}, !.groups = groups]
    OBVIOUS
  <2>3. Decode(e, g) = d
    <3>1. Decode(e, g) = [e EXCEPT !.raw = e.raw \ {g},
                                   !.groups = IF Decodable(e.chunk, g) THEN e.groups \cup {g}
                                              ELSE e.groups]
      BY <1>4 DEF Decode
    <3> QED  BY <2>1, <2>2, <3>1
  <2>4. d \in Entries /\ d.chunk = e.chunk /\ d.groups = groups /\ d.raw = e.raw \ {g}
    BY <1>1, <2>2 DEF Entries
  <2>5. g \notin e.groups /\ (good(g) <=> Decodable(e.chunk, g))
    BY <1>2, <1>4 DEF Decodable
  <2> HIDE DEF good, offset
  <2>6. g \in groups <=> good(g)
    BY <2>1, <2>5
  <2>7. /\ groups \cap (e.raw \ {g}) = {}
        /\ \A h \in 1..Len(Groups) : good(h) => h \in groups \cup (e.raw \ {g})
        /\ \A h \in groups : good(h)
    BY <1>2, <2>1, <2>5
  <2>8. EntryOK(d)
    BY <1>2, <2>4, <2>7 DEF EntryOK, good, offset
  <2> QED  BY <2>3, <2>4, <2>6, <2>8 DEF good, offset
<1> QED  BY <1>3, <1>4

\* What a query that needs a group of a chunk finds, and leaves in the cache.
LEMMA Ensured ==
  ASSUME NEW lru, NEW used, Lru(lru, used), NEW k \in 1..Len(index), NEW g \in 1..Len(Groups)
  PROVE  /\ Lru(EnsureGroupDecoded(lru, k, g), Used(used, k))
         /\ Available(EnsureGroupDecoded(lru, k, g), k, g) <=> Readable(k, g)
<1>1. CASE ~Loadable(k)
  <2>1. ~Cached(lru, k) /\ EnsureChunkLoaded(lru, k) = lru /\ Used(used, k) = used
    BY <1>1, NotLoaded
  <2>2. EnsureGroupDecoded(lru, k, g) = lru
    BY <2>1 DEF EnsureGroupDecoded
  <2>3. ~Available(lru, k, g)
    BY <2>1 DEF Available, Cached
  <2> QED  BY <1>1, <2>1, <2>2, <2>3 DEF Readable
<1>2. CASE Loadable(k)
  <2>1. PICK w, u : w = EnsureChunkLoaded(lru, k) /\ u = Used(used, k)
    OBVIOUS
  <2>2. Lru(w, u) /\ Len(w) >= 1 /\ w[1].chunk = k
    BY <1>2, <2>1, Loaded
  <2>3. w \in Seq(Entries) /\ u \in Seq(1..Len(index)) /\ Distinct(u)
        /\ \A pos \in 1..Len(w) : w[pos].chunk = u[pos] /\ EntryOK(w[pos])
    BY <2>2 DEF Lru
  <2>4. Len(w) \in Nat /\ Len(u) \in Nat /\ 1 \in 1..Len(w) /\ Len(w) <= Len(u)
    <3>1. Len(w) \in Nat /\ Len(u) \in Nat /\ Capacity \in Nat
      BY <2>3, CapacityAssumption
    <3>2. Len(w) = IF Len(u) < Capacity THEN Len(u) ELSE Capacity
      BY <2>2 DEF Lru
    <3> QED  BY <2>2, <3>1, <3>2
  <2>5. Cached(w, k)
    BY <2>2, <2>4 DEF Cached
  <2>6. PICK d : d = Decode(w[1], g)
    OBVIOUS
  <2>7. /\ d \in Entries /\ d.chunk = k /\ EntryOK(d)
        /\ g \in d.groups <=> <<index[k].offset, g>> \notin disk.absent \cup disk.corrupt
    <3>1. w[1] \in Entries /\ EntryOK(w[1])
      BY <2>3, <2>4
    <3> QED  BY <2>2, <2>6, <3>1, Decoded
  <2>8. PICK v : v = [w EXCEPT ![1] = d]
    OBVIOUS
  <2>9. EnsureGroupDecoded(lru, k, g) = v
    BY <2>1, <2>5, <2>6, <2>8 DEF EnsureGroupDecoded
  <2>10. /\ v \in Seq(Entries) /\ Len(v) = Len(w) /\ v[1] = d
         /\ \A pos \in 1..Len(w) : pos # 1 => v[pos] = w[pos]
    <3> HIDE DEF Entries
    <3> QED  BY <2>3, <2>4, <2>7, <2>8
  <2>11. \A pos \in 1..Len(v) : v[pos].chunk = u[pos] /\ EntryOK(v[pos])
    <3> TAKE pos \in 1..Len(v)
    <3>1. CASE pos = 1
      BY <2>2, <2>3, <2>4, <2>7, <2>10, <3>1
    <3>2. CASE pos # 1
      BY <2>3, <2>10, <3>2
    <3> QED  BY <3>1, <3>2
  <2>12. Lru(v, u)
    BY <2>2, <2>3, <2>10, <2>11 DEF Lru
  <2>13. \A pos \in 1..Len(v) : v[pos].chunk = k => pos = 1
    <3> TAKE pos \in 1..Len(v)
    <3> HAVE v[pos].chunk = k
    <3>1. pos \in 1..Len(u) /\ 1 \in 1..Len(u) /\ 1 \in 1..Len(v)
      BY <2>4, <2>10
    <3>2. u[pos] = k /\ u[1] = k
      BY <2>7, <2>10, <2>11, <3>1
    <3> QED  BY <2>3, <3>1, <3>2 DEF Distinct
  <2>14. Available(v, k, g) <=> g \in d.groups
    BY <2>4, <2>7, <2>10, <2>13 DEF Available
  <2> QED  BY <1>2, <2>1, <2>7, <2>9, <2>12, <2>14 DEF Readable
<1> QED  BY <1>1, <1>2

-----------------------------------------------------------------------------
(* The invariant.                                                          *)
LEMMA GroupFound ==
  ASSUME NEW c \in Columns
  PROVE  GroupOf(c) \in 1..Len(Groups)
BY ReaderGroupsAssumption DEF GroupOf

\* What the answers rest on, wherever the file comes from.
Serving == FileRead /\ Lru(cache, recent)

ReaderInv ==
  /\ disk \in Disks
  /\ status \in {"closed", "open", "rejected"}
  /\ status # "open" => index = <<>> /\ cache = <<>> /\ recent = <<>> /\ answer = None
  /\ Serving

\* Where a row's cell is in the file and in the column.
LEMMA CellFound ==
  ASSUME FileRead, NEW c \in Columns, NEW x \in Nat, x < total_entries
  PROVE  /\ LocateChunk(x) \in 1..Len(index)
         /\ Local(x) \in Nat /\ Local(x) + 1 \in 1..index[LocateChunk(x)].entry_count
         /\ ColumnOf(c)[x + 1] = ReadableCell(LocateChunk(x), c, Local(x) + 1)
<1>1. PICK t : Counted(t)
  BY FileCounted
<1>2. PICK k : k = LocateChunk(x)
  OBVIOUS
<1>3. k \in 1..Len(index) /\ t[k - 1] <= x /\ x < t[k] /\ Local(x) = x - t[k - 1]
  BY <1>1, <1>2, RowLocated
<1>4. t[k - 1] \in Nat /\ t[k] = t[k - 1] + index[k].entry_count /\ index[k].entry_count \in Nat
  BY <1>1, <1>3, CountsClimb
<1>5. PICK a \in Nat, e \in Nat : a = t[k - 1] /\ e = index[k].entry_count
  BY <1>4
<1>6. Local(x) = x - a /\ a <= x /\ x < a + e
  BY <1>3, <1>4, <1>5
<1>7. Local(x) \in Nat /\ Local(x) + 1 \in 1..e /\ a + (Local(x) + 1) = x + 1
  BY <1>6
<1>8. \A i \in 1..index[k].entry_count : ColumnOf(c)[t[k - 1] + i] = ReadableCell(k, c, i)
  BY <1>1, <1>3, ColumnRead
<1>9. ColumnOf(c)[a + (Local(x) + 1)] = ReadableCell(k, c, Local(x) + 1)
  BY <1>5, <1>7, <1>8
<1> QED  BY <1>2, <1>3, <1>5, <1>7, <1>9

LEMMA CellStored ==
  ASSUME FileRead, NEW k \in 1..Len(index), NEW c \in Columns,
         NEW i \in 1..index[k].entry_count
  PROVE  /\ ~(i > Len(Stored(k, c))) /\ Len(Stored(k, c)) \in Nat
         /\ Stored(k, c)[i] # None
         /\ ReadableCell(k, c, i) = IF Readable(k, GroupOf(c)) THEN Stored(k, c)[i] ELSE None
<1>1. PICK V : V = Range(Stored(k, c)) \ {None}
  OBVIOUS
<1>2. Stored(k, c) \in Seq(V) /\ Len(Stored(k, c)) >= index[k].entry_count
  BY <1>1 DEF FileRead
<1>3. index[k].entry_count \in Nat
  BY CountsTyped DEF FileRead
<1>4. i \in 1..Len(Stored(k, c)) /\ Len(Stored(k, c)) \in Nat
  BY <1>2, <1>3
<1>5. Stored(k, c)[i] \in V
  BY <1>2, <1>4
<1>6. ReadableCell(k, c, i) = IF Readable(k, GroupOf(c)) THEN Stored(k, c)[i] ELSE None
  BY DEF ReadableCell, Readable
<1> QED  BY <1>1, <1>4, <1>5, <1>6

LEMMA GetAnswers ==
  ASSUME Serving, NEW c \in Columns, NEW x \in 0..total_entries - 1, Get(c, x)
  PROVE  /\ Lru(cache', recent') /\ UNCHANGED status
         /\ LET cell == ColumnOf(c)[x + 1]
            IN  answer' = [column |-> c, row |-> x,
                           value |-> IF cell \in {Null, None} THEN Default ELSE cell,
                           null |-> cell \in {Null, None}]
<1>1. FileRead /\ Lru(cache, recent) /\ x \in Nat /\ x < total_entries
  <2>1. total_entries \in Nat
    BY FileCounted, CountsClimb DEF Serving
  <2> QED  BY <2>1 DEF Serving
<1>2. PICK k, i : k = LocateChunk(x) /\ i = Local(x) + 1
  OBVIOUS
<1>3. /\ k \in 1..Len(index) /\ i \in 1..index[k].entry_count /\ Local(x) \in Nat
      /\ ColumnOf(c)[x + 1] = ReadableCell(k, c, i)
  BY <1>1, <1>2, CellFound
<1>4. PICK g \in 1..Len(Groups) : g = GroupOf(c)
  BY GroupFound
<1>5. PICK lru : lru = EnsureGroupDecoded(cache, k, g)
  OBVIOUS
<1>6. Lru(lru, Used(recent, k)) /\ (Available(lru, k, g) <=> Readable(k, g))
  BY <1>1, <1>3, <1>5, Ensured
<1>7. /\ ~(Local(x) >= Len(Stored(k, c))) /\ Stored(k, c)[i] # None
      /\ ReadableCell(k, c, i) = IF Readable(k, g) THEN Stored(k, c)[i] ELSE None
  <2>1. ~(i > Len(Stored(k, c))) /\ Len(Stored(k, c)) \in Nat
    BY <1>1, <1>3, CellStored
  <2> QED  BY <1>1, <1>2, <1>3, <1>4, <2>1, CellStored
<1>8. cache' = lru /\ recent' = Used(recent, k)
  BY <1>2, <1>4, <1>5 DEF Get
<1>9. /\ answer' = [column |-> c, row |-> x,
                    value |-> IF Available(lru, k, g) /\ Stored(k, c)[i] # Null
                              THEN Stored(k, c)[i] ELSE Default,
                    null |-> ~Available(lru, k, g) \/ Stored(k, c)[i] = Null]
      /\ UNCHANGED status
  BY <1>2, <1>4, <1>5, <1>7, Zenon DEF Get
<1>10. PICK cell : cell = ColumnOf(c)[x + 1]
  OBVIOUS
<1>11. /\ (IF Available(lru, k, g) /\ Stored(k, c)[i] # Null THEN Stored(k, c)[i] ELSE Default)
            = IF cell \in {Null, None} THEN Default ELSE cell
       /\ (~Available(lru, k, g) \/ Stored(k, c)[i] = Null) = (cell \in {Null, None})
  BY <1>3, <1>6, <1>7, <1>10
<1> QED  BY <1>6, <1>8, <1>9, <1>10, <1>11, Zenon

-----------------------------------------------------------------------------
(* The walk over the chunks of a column. Rows start..end-1 are cut where   *)
(* the chunks end: p[m] rows of the file are before what is left after m   *)
(* chunks.                                                                 *)
Cut(p, t, first, n, start, end) ==
  /\ p \in [0..n -> Nat] /\ p[0] = start /\ p[n] = end
  /\ \A m \in 1..n :
       /\ first + m - 1 \in 1..Len(index)
       /\ t[first + m - 2] <= p[m - 1] /\ p[m - 1] < p[m] /\ p[m] <= t[first + m - 1]
       /\ p[m] = IF t[first + m - 1] < end THEN t[first + m - 1] ELSE end
       /\ start <= p[m - 1] /\ p[m] <= end
       /\ m # 1 => p[m - 1] = t[first + m - 2]

LEMMA RowsCut ==
  ASSUME FileRead, NEW t, Counted(t), NEW start \in Nat, NEW end \in Nat,
         start < end, end <= total_entries
  PROVE  LET first == LocateChunk(start)
             chunks == LocateChunk(end - 1) - first + 1
         IN  /\ first \in Nat \ {0} /\ chunks \in Nat \ {0}
             /\ \E p : Cut(p, t, first, chunks, start, end)
<1>1. start < total_entries /\ end - 1 \in Nat /\ end - 1 < total_entries
  BY CountsClimb
<1>2. PICK first \in 1..Len(index) : first = LocateChunk(start)
  BY <1>1, RowLocated
<1>3. PICK last \in 1..Len(index) : last = LocateChunk(end - 1)
  BY <1>1, RowLocated
<1>4. t[first - 1] <= start /\ start < t[first] /\ t[last - 1] <= end - 1 /\ end - 1 < t[last]
  BY <1>1, <1>2, <1>3, RowLocated
<1>5. Len(index) \in Nat
  BY CountsClimb
<1>6. \A k \in 1..Len(index) : t[k - 1] \in Nat /\ t[k] \in Nat /\ t[k - 1] < t[k]
  <2>1. \A k \in 1..Len(index) : /\ t[k - 1] \in Nat /\ t[k] \in Nat
                                /\ t[k] = t[k - 1] + index[k].entry_count
                                /\ index[k].entry_count \in Nat \ {0}
    BY CountsClimb
  <2> TAKE k \in 1..Len(index)
  <2>2. PICK a \in Nat, e \in Nat \ {0} : t[k - 1] = a /\ t[k] = a + e
    BY <2>1
  <2> QED  BY <2>2
<1>7. first <= last
  <2>1. SUFFICES ASSUME last < first PROVE FALSE
    BY <1>5
  <2>2. last \in 0..Len(index) /\ first - 1 \in 0..Len(index) /\ last <= first - 1
    BY <1>5, <2>1
  <2>3. t[last] <= t[first - 1] /\ t[last] \in Nat /\ t[first - 1] \in Nat
    BY <2>2, Climbing
  <2> QED  BY <1>4, <2>3
<1>8. PICK n \in Nat \ {0} : n = last - first + 1
  BY <1>5, <1>7
<1> DEFINE p == [m \in 0..n |-> IF m = 0 THEN start
                                ELSE IF t[first + m - 1] < end THEN t[first + m - 1] ELSE end]
<1>9. ASSUME NEW m \in 1..n
      PROVE  first + m - 1 \in 1..Len(index) /\ first + m - 1 <= last /\ first <= first + m - 1
             /\ (first + m - 1) - 1 = first + m - 2
  BY <1>5, <1>7, <1>8
<1>10. ASSUME NEW k \in 1..Len(index), k < last PROVE t[k] < end
  <2>1. k \in 0..Len(index) /\ last - 1 \in 0..Len(index) /\ k <= last - 1
    BY <1>5, <1>10
  <2>2. t[k] <= t[last - 1] /\ t[k] \in Nat /\ t[last - 1] \in Nat
    BY <2>1, Climbing
  <2> QED  BY <1>4, <2>2
<1>11. p \in [0..n -> Nat]
  <2>1. ASSUME NEW m \in 0..n PROVE p[m] \in Nat
    <3>1. CASE m = 0
      BY <3>1
    <3>2. CASE m # 0
      <4>1. m \in 1..n
        BY <3>2
      <4>2. t[first + m - 1] \in Nat
        BY <1>6, <1>9, <4>1
      <4> QED  BY <3>2, <4>2
    <3> QED  BY <3>1, <3>2
  <2> QED  BY <2>1
<1>12. p[0] = start
  OBVIOUS
<1>13. \A m \in 1..n : p[m] = IF t[first + m - 1] < end THEN t[first + m - 1] ELSE end
  OBVIOUS
<1> HIDE DEF p
<1>14. p[n] = end
  <2>1. n \in 1..n /\ first + n - 1 = last
    BY <1>8
  <2>2. ~(t[last] < end)
    BY <1>4, <1>6
  <2> QED  BY <1>13, <2>1, <2>2
<1>15. ASSUME NEW m \in 1..n
       PROVE  /\ t[first + m - 2] <= p[m - 1] /\ p[m - 1] < p[m] /\ p[m] <= t[first + m - 1]
              /\ start <= p[m - 1] /\ p[m] <= end
              /\ m # 1 => p[m - 1] = t[first + m - 2]
  <2>1. PICK k \in 1..Len(index) : k = first + m - 1
    BY <1>9
  <2>2. k <= last /\ first <= k /\ k - 1 = first + m - 2
    BY <1>9, <2>1
  <2>3. t[k - 1] \in Nat /\ t[k] \in Nat /\ t[k - 1] < t[k]
    BY <1>6
  <2>4. p[m] = IF t[k] < end THEN t[k] ELSE end
    BY <1>13, <2>1
  <2>5. CASE m = 1
    <3>1. p[m - 1] = start /\ k = first
      BY <1>12, <2>1, <2>5
    <3> QED  BY <1>4, <2>1, <2>2, <2>3, <2>4, <2>5, <3>1
  <2>6. CASE m # 1
    <3>1. m - 1 \in 1..n /\ first + (m - 1) - 1 = k - 1
      BY <2>1, <2>6
    <3>2. k - 1 \in 1..Len(index) /\ k - 1 < last /\ first <= k - 1
      BY <1>5, <2>1, <2>2, <2>6
    <3>3. t[k - 1] < end /\ p[m - 1] = t[k - 1]
      BY <1>10, <1>13, <3>1, <3>2
    <3>4. start <= t[k - 1]
      <4>1. first \in 0..Len(index) /\ k - 1 \in 0..Len(index)
        BY <1>5, <3>2
      <4>2. t[first] <= t[k - 1] /\ t[first] \in Nat
        BY <3>2, <4>1, Climbing
      <4> QED  BY <1>4, <2>3, <4>2
    <3> QED  BY <2>1, <2>2, <2>3, <2>4, <3>3, <3>4
  <2> QED  BY <2>5, <2>6
<1>16. Cut(p, t, first, n, start, end)
  BY <1>9, <1>11, <1>12, <1>13, <1>14, <1>15 DEF Cut
<1> QED  BY <1>2, <1>3, <1>8, <1>16

Segments == [chunk : Nat, offset : Nat, len : Int]

Walks == {w \in [lru : Seq(Entries), segments : Seq(Segments), remaining : Int,
                 stopped : BOOLEAN, used : Seq(1..Len(index))] : Lru(w.lru, w.used)}

\* What one chunk adds to a walk: its rows from local on, as many as are wanted.
Walked(v, w, c, k, local, rows) ==
  LET len == IF rows - local < w.remaining THEN rows - local ELSE w.remaining
  IN  /\ v \in Walks
      /\ w.stopped => v = w
      /\ ~w.stopped =>
           /\ v.segments = Append(w.segments, [chunk |-> k, offset |-> local, len |-> len])
           /\ v.remaining = w.remaining - len
           /\ v.stopped <=> ~Readable(k, GroupOf(c))

\* One chunk of the walk, from any walk so far.
LEMMA ChunkWalked ==
  ASSUME FileRead, NEW c \in Columns, NEW first \in Nat, NEW offset \in Nat,
         NEW k \in 1..Len(index), NEW w \in Walks,
         NEW local, local = IF k = first THEN offset ELSE 0,
         NEW rows, rows = cumulative[k] - ChunkBegin(k),
         NEW u, u = WalkChunk(c, first, offset, w, k)
  PROVE  Walked(u, w, c, k, local, rows)
<1>1. CASE w.stopped
  <2>1. u = w
    BY <1>1 DEF WalkChunk
  <2> QED  BY <1>1, <2>1 DEF Walked
<1>2. CASE ~w.stopped
  <2>1. PICK g \in 1..Len(Groups) : g = GroupOf(c)
    BY GroupFound
  <2>2. local \in Nat
    OBVIOUS
  <2>3. rows \in Int
    <3>1. PICK t : Counted(t)
      BY FileCounted
    <3>2. cumulative[k] = t[k] /\ ChunkBegin(k) = t[k - 1] /\ t[k] \in Nat /\ t[k - 1] \in Nat
      BY <3>1, CountsClimb
    <3> QED  BY <3>2
  <2>5. w.remaining \in Int /\ w.segments \in Seq(Segments) /\ Lru(w.lru, w.used)
    BY DEF Walks
  <2>6. PICK len \in Int : len = IF rows - local < w.remaining THEN rows - local ELSE w.remaining
    BY <2>2, <2>3, <2>5
  <2>7. PICK lru : lru = EnsureGroupDecoded(w.lru, k, g)
    OBVIOUS
  <2>8. Lru(lru, Used(w.used, k)) /\ (Available(lru, k, g) <=> Readable(k, g))
    BY <2>5, <2>7, Ensured
  <2>9. lru \in Seq(Entries) /\ Used(w.used, k) \in Seq(1..Len(index))
    BY <2>8 DEF Lru
  <2>10. PICK s : s = [chunk |-> k, offset |-> local, len |-> len]
    OBVIOUS
  <2>11. s \in Segments /\ Append(w.segments, s) \in Seq(Segments)
    <3>1. k \in Nat
      OBVIOUS
    <3>2. s \in Segments
      BY <2>2, <2>10, <3>1 DEF Segments
    <3> HIDE DEF Segments
    <3> QED  BY <2>5, <3>2
  <2>12. PICK v : v = [lru |-> lru, segments |-> Append(w.segments, s),
                       remaining |-> w.remaining - len,
                       stopped |-> ~Available(lru, k, g), used |-> Used(w.used, k)]
    OBVIOUS
  <2>13. u = v
    BY <1>2, <2>1, <2>6, <2>7, <2>10, <2>12, Zenon DEF WalkChunk
  <2>14. /\ v.lru = lru /\ v.segments = Append(w.segments, s) /\ v.remaining = w.remaining - len
         /\ v.stopped = ~Available(lru, k, g) /\ v.used = Used(w.used, k)
    BY <2>12
  <2>15. v \in Walks
    <3>1. w.remaining - len \in Int
      BY <2>5
    <3> HIDE DEF Entries, Segments
    <3>2. v \in [lru : Seq(Entries), segments : Seq(Segments), remaining : Int,
                 stopped : BOOLEAN, used : Seq(1..Len(index))]
      BY <2>9, <2>11, <2>12, <3>1
    <3> QED  BY <2>8, <2>14, <3>2 DEF Walks
  <2>16. w.stopped => v = w
    BY <1>2
  <2>17. Walked(v, w, c, k, local, rows)
    BY <2>1, <2>6, <2>8, <2>10, <2>14, <2>15, <2>16, Zenon DEF Walked
  <2> QED  BY <2>13, <2>17
<1> QED  BY <1>1, <1>2

LEMMA ChunkKept ==
  ASSUME FileRead, NEW c \in Columns, NEW first \in Nat, NEW offset \in Nat,
         NEW k \in 1..Len(index), NEW w \in Walks,
         NEW u, u = WalkChunk(c, first, offset, w, k)
  PROVE  u \in Walks /\ (w.stopped => u = w)
<1>1. PICK local, rows : /\ local = IF k = first THEN offset ELSE 0
                        /\ rows = cumulative[k] - ChunkBegin(k)
  OBVIOUS
<1>2. Walked(u, w, c, k, local, rows)
  BY <1>1, ChunkWalked
<1> QED  BY <1>2 DEF Walked

\* The walks after each chunk.
WalkedBy(g, c, first, offset, n) ==
  /\ g \in [0..n -> Walks]
  /\ \A m \in 1..n : g[m] = WalkChunk(c, first, offset, g[m - 1], first + m - 1)

Setout(start, end) ==
  [lru |-> cache, segments |-> <<>>, remaining |-> end - start, stopped |-> FALSE, used |-> recent]

\* The whole walk, chunk by chunk.
WalkSteps(g, c, start, end, first, n) ==
  /\ WalkedBy(g, c, first, Local(start), n)
  /\ g[0] = Setout(start, end)
  /\ Walk(c, start, end) = g[n]

LEMMA WalkTaken ==
  ASSUME Serving, NEW c \in Columns, NEW start \in Nat, NEW end \in Nat,
         NEW first \in Nat, first = LocateChunk(start), Local(start) \in Nat,
         NEW n \in Nat, n = LocateChunk(end - 1) - first + 1,
         \A m \in 1..n : first + m - 1 \in 1..Len(index)
  PROVE  \E g : WalkSteps(g, c, start, end, first, n)
<1> DEFINE x == Setout(start, end)
           o == Local(start)
           F == [m \in 1..n |-> [w \in Walks |-> WalkChunk(c, first, o, w, first + m - 1)]]
           upto[m \in 0..n] ==
             IF m = 0
             THEN [lru |-> cache, segments |-> <<>>, remaining |-> end - start,
                   stopped |-> FALSE, used |-> recent]
             ELSE WalkChunk(c, first, Local(start), upto[m - 1], first + m - 1)
<1>1. FileRead /\ Lru(cache, recent)
  BY DEF Serving
<1>2. x \in Walks
  <2>1. cache \in Seq(Entries) /\ recent \in Seq(1..Len(index))
    BY <1>1 DEF Lru
  <2>2. end - start \in Int /\ <<>> \in Seq(Segments)
    OBVIOUS
  <2> HIDE DEF Entries, Segments
  <2>3. x \in [lru : Seq(Entries), segments : Seq(Segments), remaining : Int,
               stopped : BOOLEAN, used : Seq(1..Len(index))]
    BY <2>1, <2>2 DEF Setout
  <2>4. x.lru = cache /\ x.used = recent
    BY DEF Setout
  <2> HIDE DEF x
  <2> QED  BY <1>1, <2>3, <2>4 DEF Walks
<1>3. F \in [1..n -> [Walks -> Walks]]
  <2>1. ASSUME NEW m \in 1..n, NEW w \in Walks
        PROVE  WalkChunk(c, first, o, w, first + m - 1) \in Walks
    BY <1>1, ChunkKept
  <2> QED  BY <2>1
<1>4. PICK g : Iterates(g, Walks, x, n, F)
  <2> HIDE DEF F, x
  <2> QED  BY <1>2, <1>3, Iterated, Zenon
<1>5. /\ g \in [0..n -> Walks] /\ g[0] = x
      /\ \A m \in 1..n : g[m] = WalkChunk(c, first, o, g[m - 1], first + m - 1)
  <2>1. g \in [0..n -> Walks] /\ g[0] = x /\ \A m \in 1..n : g[m] = F[m][g[m - 1]]
    <3> HIDE DEF F, x
    <3> QED  BY <1>4 DEF Iterates
  <2>2. \A m \in 1..n : m - 1 \in 0..n
    OBVIOUS
  <2> HIDE DEF x, o
  <2> QED  BY <2>1, <2>2
<1>6. g = [m \in 0..n |->
             IF m = 0
             THEN [lru |-> cache, segments |-> <<>>, remaining |-> end - start,
                   stopped |-> FALSE, used |-> recent]
             ELSE WalkChunk(c, first, Local(start), g[m - 1], first + m - 1)]
  <2>1. \A m \in 0..n : m # 0 => m \in 1..n
    OBVIOUS
  <2>2. \A m \in 0..n : g[m] =
             IF m = 0
             THEN [lru |-> cache, segments |-> <<>>, remaining |-> end - start,
                   stopped |-> FALSE, used |-> recent]
             ELSE WalkChunk(c, first, Local(start), g[m - 1], first + m - 1)
    <3> HIDE DEF F
    <3> QED  BY <1>5, <2>1, Zenon DEF Setout
  <2> HIDE DEF F, x
  <2> QED  BY <1>5, <2>2
<1>7. upto = [m \in 0..n |->
             IF m = 0
             THEN [lru |-> cache, segments |-> <<>>, remaining |-> end - start,
                   stopped |-> FALSE, used |-> recent]
             ELSE WalkChunk(c, first, Local(start), upto[m - 1], first + m - 1)]
  <2> HIDE DEF F, x
  <2> QED  BY <1>6
<1>8. Walk(c, start, end) = upto[n]
  BY DEF Walk
<1> HIDE DEF upto
<1>9. \A m \in 0..n : upto[m] = g[m]
  <2> DEFINE S == {m \in 0..n : upto[m] = g[m]}
  <2>1. 0 \in S
    <3>1. 0 \in 0..n
      OBVIOUS
    <3>2. upto[0] = x
      BY <1>7, <3>1, Zenon DEF Setout
    <3> QED  BY <1>5, <3>1, <3>2
  <2>2. ASSUME NEW m \in 0..n - 1, m \in S PROVE m + 1 \in S
    <3>1. m + 1 \in 1..n /\ m + 1 \in 0..n /\ m + 1 # 0 /\ (m + 1) - 1 = m
      OBVIOUS
    <3>2. upto[m + 1] = WalkChunk(c, first, o, upto[(m + 1) - 1], first + (m + 1) - 1)
      BY <1>7, <3>1, Zenon
    <3>3. g[m + 1] = WalkChunk(c, first, o, g[(m + 1) - 1], first + (m + 1) - 1)
      BY <1>5, <3>1, Zenon
    <3> HIDE DEF o, x, F
    <3> QED  BY <2>2, <3>1, <3>2, <3>3
  <2> HIDE DEF S
  <2>3. \A m \in 0..n : m \in S
    BY <2>1, <2>2, UpTo
  <2> QED  BY <2>3 DEF S
<1>10. n \in 0..n
  OBVIOUS
<1>11. WalkedBy(g, c, first, o, n)
  BY <1>5 DEF WalkedBy
<1> HIDE DEF x
<1> QED  BY <1>5, <1>8, <1>9, <1>10, <1>11 DEF x, WalkSteps

SegmentAt(p, t, first, m) ==
  [chunk |-> first + m - 1, offset |-> p[m - 1] - t[first + m - 2], len |-> p[m] - p[m - 1]]

\* What the walk has after m chunks.
Reached(w, p, t, first, c, m, start, end) ==
  IF w.stopped THEN \E i \in start + 1..end : ColumnOf(c)[i] = None
  ELSE /\ Len(w.segments) = m /\ w.remaining = end - p[m]
       /\ \A j \in 1..m : /\ w.segments[j] = SegmentAt(p, t, first, j)
                          /\ Readable(first + j - 1, GroupOf(c))

LEMMA NextReached ==
  ASSUME FileRead, NEW t, Counted(t), NEW c \in Columns,
         NEW start \in Nat, NEW end \in Nat, NEW first \in Nat \ {0}, NEW n \in Nat,
         NEW p, Cut(p, t, first, n, start, end), NEW m \in 1..n,
         NEW offset \in Nat, offset = start - t[first - 1],
         NEW w \in Walks, Reached(w, p, t, first, c, m - 1, start, end)
  PROVE  Reached(WalkChunk(c, first, offset, w, first + m - 1), p, t, first, c, m, start, end)
<1>1. PICK k \in 1..Len(index) : k = first + m - 1 /\ k - 1 = first + m - 2 /\ (k = first <=> m = 1)
  BY DEF Cut
<1>2. PICK v : v = WalkChunk(c, first, offset, w, k)
  OBVIOUS
<1>3. CASE w.stopped
  <2>1. v = w
    <3>1. first \in Nat
      OBVIOUS
    <3> QED  BY <1>2, <1>3, <3>1, ChunkKept
  <2> QED  BY <1>1, <1>2, <1>3, <2>1 DEF Reached
<1>4. CASE ~w.stopped
  <2>1. PICK q \in Nat, r \in Nat, a \in Nat, b \in Nat :
          q = p[m - 1] /\ r = p[m] /\ a = t[k - 1] /\ b = t[k]
    <3>1. m - 1 \in 0..n /\ m \in 0..n
      OBVIOUS
    <3>2. p[m - 1] \in Nat /\ p[m] \in Nat
      BY <3>1 DEF Cut
    <3>3. t[k - 1] \in Nat /\ t[k] \in Nat
      BY CountsClimb
    <3> QED  BY <3>2, <3>3
  <2>2. /\ a <= q /\ q < r /\ r <= b /\ (r = IF b < end THEN b ELSE end)
        /\ start <= q /\ r <= end /\ (m # 1 => q = a)
    BY <1>1, <2>1 DEF Cut
  <2>3. m = 1 => q = start
    BY <2>1 DEF Cut
  <2>4. (IF k = first THEN offset ELSE 0) = q - a
    BY <1>1, <2>1, <2>2, <2>3
  <2>5. cumulative[k] - ChunkBegin(k) = b - a
    <3>1. cumulative[k] = t[k] /\ ChunkBegin(k) = t[k - 1]
      BY CountsClimb
    <3> QED  BY <2>1, <3>1
  <2>6. /\ Len(w.segments) = m - 1 /\ w.remaining = end - q
        /\ \A j \in 1..m - 1 : /\ w.segments[j] = SegmentAt(p, t, first, j)
                               /\ Readable(first + j - 1, GroupOf(c))
    BY <1>4, <2>1 DEF Reached
  <2>7. (IF (b - a) - (q - a) < end - q THEN (b - a) - (q - a) ELSE end - q) = r - q
    BY <2>2
  <2>8. v.segments = Append(w.segments, SegmentAt(p, t, first, m))
        /\ v.remaining = (end - q) - (r - q) /\ (v.stopped <=> ~Readable(k, GroupOf(c)))
    <3>1. SegmentAt(p, t, first, m) = [chunk |-> k, offset |-> q - a, len |-> r - q]
      BY <1>1, <2>1 DEF SegmentAt
    <3>2. /\ v.segments = Append(w.segments, [chunk |-> k, offset |-> q - a, len |-> r - q])
          /\ v.remaining = w.remaining - (r - q)
          /\ v.stopped <=> ~Readable(k, GroupOf(c))
      <4>1. Walked(v, w, c, k, q - a, b - a)
        <5>1. first \in Nat
          OBVIOUS
        <5> QED  BY <1>2, <2>4, <2>5, <5>1, ChunkWalked, Zenon
      <4>2. r - q = IF (b - a) - (q - a) < w.remaining THEN (b - a) - (q - a) ELSE w.remaining
        BY <2>6, <2>7
      <4> QED  BY <1>4, <4>1, <4>2, Zenon DEF Walked
    <3> QED  BY <2>6, <3>1, <3>2
  <2>9. CASE v.stopped
    <3>1. ~Readable(k, GroupOf(c))
      BY <2>8, <2>9
    <3>2. PICK i \in Nat : i = q - a + 1
      BY <2>2
    <3>3. i \in 1..index[k].entry_count /\ a + i = q + 1
      <4>1. b = a + index[k].entry_count /\ index[k].entry_count \in Nat
        BY <2>1, CountsClimb
      <4> QED  BY <2>2, <3>2, <4>1
    <3>4. ColumnOf(c)[a + i] = ReadableCell(k, c, i)
      <4>1. ColumnOf(c)[t[k - 1] + i] = ReadableCell(k, c, i)
        BY <3>3, ColumnRead
      <4> QED  BY <2>1, <4>1
    <3>5. ReadableCell(k, c, i) = None
      BY <3>1 DEF Readable, ReadableCell
    <3>6. q + 1 \in start + 1..end
      BY <2>2
    <3>7. \E j \in start + 1..end : ColumnOf(c)[j] = None
      BY <3>3, <3>4, <3>5, <3>6
    <3> QED  BY <1>1, <1>2, <2>9, <3>7 DEF Reached
  <2>10. CASE ~v.stopped
    <3>1. w.segments \in Seq(Segments)
      BY DEF Walks
    <3>2. /\ Len(v.segments) = m /\ v.segments[m] = SegmentAt(p, t, first, m)
          /\ \A j \in 1..m - 1 : v.segments[j] = w.segments[j]
      <4>1. PICK s, u, Q : s = w.segments /\ u = SegmentAt(p, t, first, m) /\ Q = Segments
        OBVIOUS
      <4>2. s \in Seq(Q) /\ Len(s) = m - 1 /\ v.segments = Append(s, u)
        BY <2>6, <2>8, <3>1, <4>1, Zenon
      <4>3. /\ Len(v.segments) = m /\ v.segments[m] = u
            /\ \A j \in 1..m - 1 : v.segments[j] = s[j]
        BY <4>2
      <4> QED  BY <4>1, <4>3
    <3>3. v.remaining = end - r /\ Readable(k, GroupOf(c))
      BY <2>8, <2>10
    <3>4. \A j \in 1..m : /\ v.segments[j] = SegmentAt(p, t, first, j)
                          /\ Readable(first + j - 1, GroupOf(c))
      <4> TAKE j \in 1..m
      <4>1. CASE j = m
        BY <1>1, <3>2, <3>3, <4>1
      <4>2. CASE j # m
        <5>1. j \in 1..m - 1
          BY <4>2
        <5> QED  BY <2>6, <3>2, <5>1
      <4> QED  BY <4>1, <4>2
    <3> QED  BY <1>1, <1>2, <2>1, <2>10, <3>2, <3>3, <3>4 DEF Reached
  <2> QED  BY <2>9, <2>10
<1> QED  BY <1>3, <1>4

\* A whole walk has the rows that were asked for, or has met an unreadable one.
LEMMA WalkReads ==
  ASSUME Serving, NEW c \in Columns, NEW start \in Nat, NEW end \in Nat,
         start < end, end <= total_entries, NEW t, Counted(t)
  PROVE  LET first == LocateChunk(start)
             n == LocateChunk(end - 1) - first + 1
             w == Walk(c, start, end)
         IN  /\ w \in Walks /\ n \in Nat \ {0} /\ first \in Nat \ {0}
             /\ \E p : Cut(p, t, first, n, start, end) /\ Reached(w, p, t, first, c, n, start, end)
<1>1. FileRead
  BY DEF Serving
<1>2. PICK first \in Nat \ {0}, n \in Nat \ {0} :
        first = LocateChunk(start) /\ n = LocateChunk(end - 1) - first + 1
  BY <1>1, RowsCut
<1>3. PICK p : Cut(p, t, first, n, start, end)
  BY <1>1, <1>2, RowsCut
<1>4. Local(start) \in Nat /\ Local(start) = start - t[first - 1]
  <2>1. start < total_entries
    BY <1>1, CountsClimb
  <2>2. Local(start) \in Nat
    BY <1>1, <2>1, GroupFound, CellFound
  <2>3. Local(start) = start - t[first - 1]
    BY <1>1, <1>2, <2>1, RowLocated
  <2> QED  BY <2>2, <2>3
<1>5. \A m \in 1..n : first + m - 1 \in 1..Len(index)
  BY <1>3 DEF Cut
<1>6. PICK g : /\ WalkedBy(g, c, first, Local(start), n)
               /\ g[0] = Setout(start, end)
               /\ Walk(c, start, end) = g[n]
  <2>1. first \in Nat /\ n \in Nat
    OBVIOUS
  <2>2. \E g : WalkSteps(g, c, start, end, first, n)
    BY <1>2, <1>4, <1>5, <2>1, WalkTaken
  <2> QED  BY <2>2 DEF WalkSteps
<1> DEFINE S == {m \in 0..n : Reached(g[m], p, t, first, c, m, start, end)}
<1>7. 0 \in S
  <2>1. p[0] = start
    BY <1>3 DEF Cut
  <2>2. /\ g[0].stopped = FALSE /\ g[0].segments = <<>> /\ g[0].remaining = end - start
    BY <1>6 DEF Setout
  <2>3. Len(g[0].segments) = 0
    BY <2>2
  <2>4. Reached(g[0], p, t, first, c, 0, start, end)
    BY <2>1, <2>2, <2>3 DEF Reached
  <2> QED  BY <2>4
<1>8. ASSUME NEW m \in 0..n - 1, m \in S PROVE m + 1 \in S
  <2>1. m + 1 \in 1..n /\ m + 1 \in 0..n /\ (m + 1) - 1 = m
    OBVIOUS
  <2>2. g[m] \in Walks
    <3>1. m \in 0..n
      OBVIOUS
    <3> QED  BY <1>6, <3>1 DEF WalkedBy
  <2>3. Reached(g[m], p, t, first, c, (m + 1) - 1, start, end)
    BY <1>8, <2>1
  <2>4. g[m + 1] = WalkChunk(c, first, Local(start), g[m], first + (m + 1) - 1)
    <3>1. g[m + 1] = WalkChunk(c, first, Local(start), g[(m + 1) - 1], first + (m + 1) - 1)
      BY <1>6, <2>1, Zenon DEF WalkedBy
    <3> QED  BY <2>1, <3>1
  <2>5. Reached(WalkChunk(c, first, Local(start), g[m], first + (m + 1) - 1),
                p, t, first, c, m + 1, start, end)
    <3> HIDE DEF S
    <3> QED  BY <1>1, <1>3, <1>4, <2>1, <2>2, <2>3, NextReached
  <2> QED  BY <2>1, <2>4, <2>5
<1>9. \A m \in 0..n : m \in S
  <2> HIDE DEF S
  <2> QED  BY <1>7, <1>8, UpTo
<1>10. n \in 0..n
  OBVIOUS
<1>11. g[n] \in Walks
  BY <1>6, <1>10 DEF WalkedBy
<1> QED  BY <1>2, <1>3, <1>6, <1>9, <1>10, <1>11

Slice(c, s) == SubSeq(Stored(s.chunk, c), s.offset + 1, s.offset + s.len)

\* The cells of rows start.. up to q, in order.
Collected(cells, c, start, q) ==
  /\ cells \in Seq(CellsRead(c)) /\ Len(cells) = q - start
  /\ \A i \in 1..q - start : cells[i] = ColumnOf(c)[start + i]

LEMMA SliceCollected ==
  ASSUME FileRead, NEW t, Counted(t), NEW c \in Columns,
         NEW start \in Nat, NEW end \in Nat, NEW first \in Nat \ {0}, NEW n \in Nat,
         NEW p, Cut(p, t, first, n, start, end), NEW m \in 1..n,
         Readable(first + m - 1, GroupOf(c))
  PROVE  Collected(Slice(c, SegmentAt(p, t, first, m)), c, p[m - 1], p[m])
<1>1. PICK k \in 1..Len(index) : k = first + m - 1 /\ k - 1 = first + m - 2
  BY DEF Cut
<1>2. PICK q \in Nat, r \in Nat, a \in Nat, e \in Nat :
        q = p[m - 1] /\ r = p[m] /\ a = t[k - 1] /\ e = index[k].entry_count
  <2>1. m - 1 \in 0..n /\ m \in 0..n
    OBVIOUS
  <2>2. p[m - 1] \in Nat /\ p[m] \in Nat
    BY <2>1 DEF Cut
  <2>3. t[k - 1] \in Nat /\ index[k].entry_count \in Nat
    BY CountsClimb
  <2> QED  BY <2>2, <2>3
<1>3. a <= q /\ q < r /\ r <= a + e
  <2>1. t[k] = a + e
    BY <1>2, CountsClimb
  <2> QED  BY <1>1, <1>2, <2>1 DEF Cut
<1>4. PICK stored : stored = Stored(k, c)
  OBVIOUS
<1>5. PICK V : stored \in Seq(V)
  BY <1>4 DEF FileRead
<1>6. Len(stored) \in Nat /\ Len(stored) >= e
  <2>1. Len(stored) >= index[k].entry_count
    BY <1>4 DEF FileRead
  <2> QED  BY <1>2, <1>5, <2>1
<1>7. PICK slice : slice = SubSeq(stored, (q - a) + 1, (q - a) + (r - q))
  OBVIOUS
<1>8. Slice(c, SegmentAt(p, t, first, m)) = slice
  BY <1>1, <1>2, <1>4, <1>7 DEF Slice, SegmentAt
<1>9. /\ slice \in Seq(V) /\ Len(slice) = r - q
      /\ \A i \in 1..r - q : slice[i] = stored[(q - a) + i]
  <2>1. PICK o \in Nat, l \in Nat : o = q - a /\ l = r - q
    BY <1>3
  <2>2. o + 1 \in 1..Len(stored) + 1 /\ o + l \in 0..Len(stored)
    BY <1>3, <1>6, <2>1
  <2>3. slice = SubSeq(stored, o + 1, o + l)
    BY <1>7, <2>1
  <2>4. slice \in Seq(V) /\ Len(slice) = l /\ \A i \in 1..l : slice[i] = stored[o + i]
    BY <1>5, <1>6, <2>2, <2>3
  <2> QED  BY <2>1, <2>4
<1>10. ASSUME NEW i \in 1..r - q
       PROVE  slice[i] = ColumnOf(c)[q + i] /\ slice[i] \in CellsRead(c)
  <2>1. PICK j \in Nat : j = (q - a) + i
    BY <1>3
  <2>2. j \in 1..e /\ a + j = q + i
    BY <1>3, <2>1
  <2>3. ColumnOf(c)[a + j] = ReadableCell(k, c, j)
    <3>1. \A z \in 1..Len(index) : \A h \in 1..index[z].entry_count :
            ColumnOf(c)[t[z - 1] + h] = ReadableCell(z, c, h)
      BY ColumnRead
    <3>2. j \in 1..index[k].entry_count
      BY <1>2, <2>2
    <3>3. ColumnOf(c)[t[k - 1] + j] = ReadableCell(k, c, j)
      BY <3>1, <3>2
    <3> QED  BY <1>2, <3>3
  <2>4. ReadableCell(k, c, j) = stored[j]
    BY <1>1, <1>4 DEF Readable, ReadableCell
  <2>5. slice[i] = stored[j]
    BY <1>9, <2>1
  <2>6. ReadableCell(k, c, j) \in CellsRead(c)
    BY DEF CellsRead
  <2> QED  BY <2>2, <2>3, <2>4, <2>5, <2>6
<1>11. slice \in Seq(CellsRead(c))
  <2>1. PICK W : W = CellsRead(c)
    OBVIOUS
  <2>2. slice \in Seq(V) /\ Len(slice) = r - q /\ \A i \in 1..r - q : slice[i] \in W
    BY <1>9, <1>10, <2>1
  <2>3. slice \in Seq(W)
    BY <2>2
  <2> QED  BY <2>1, <2>3
<1> QED  BY <1>2, <1>8, <1>9, <1>10, <1>11 DEF Collected

LEMMA NextCollected ==
  ASSUME NEW c, NEW start \in Nat, NEW q \in Nat, NEW r \in Nat, start <= q, q <= r,
         NEW s, Collected(s, c, start, q), NEW u, Collected(u, c, q, r)
  PROVE  Collected(s \o u, c, start, r)
<1>1. PICK V : V = CellsRead(c)
  OBVIOUS
<1>2. s \in Seq(V) /\ u \in Seq(V) /\ Len(s) = q - start /\ Len(u) = r - q
  BY <1>1 DEF Collected
<1>3. s \o u \in Seq(V) /\ Together(s \o u, s, u)
  BY <1>2, PutTogether
<1>4. PICK w : w = s \o u
  OBVIOUS
<1>5. /\ Len(w) = r - start
      /\ \A i \in 1..q - start : w[i] = s[i]
      /\ \A i \in 1..r - q : w[(q - start) + i] = u[i]
  <2>1. Len(w) = (q - start) + (r - q)
    BY <1>2, <1>3, <1>4 DEF Together
  <2>2. \A i \in 1..q - start : w[i] = s[i]
    BY <1>2, <1>3, <1>4 DEF Together
  <2>3. \A i \in 1..r - q : w[(q - start) + i] = u[i]
    BY <1>2, <1>3, <1>4 DEF Together
  <2> QED  BY <2>1, <2>2, <2>3
<1>6. ASSUME NEW i \in 1..r - start PROVE w[i] = ColumnOf(c)[start + i]
  <2>1. CASE i <= q - start
    <3>1. i \in 1..q - start
      BY <2>1
    <3> QED  BY <1>5, <3>1 DEF Collected
  <2>2. CASE ~(i <= q - start)
    <3>1. PICK j \in 1..r - q : i = (q - start) + j /\ start + i = q + j
      <4>1. i - (q - start) \in 1..r - q /\ i = (q - start) + (i - (q - start))
            /\ start + i = q + (i - (q - start))
        BY <2>2
      <4> QED  BY <4>1
    <3>2. w[i] = u[j] /\ u[j] = ColumnOf(c)[q + j]
      BY <1>5, <3>1 DEF Collected
    <3> QED  BY <3>1, <3>2
  <2> QED  BY <2>1, <2>2
<1> QED  BY <1>1, <1>3, <1>4, <1>5, <1>6 DEF Collected

\* Segments put end to end are the rows of the column they were cut from.
LEMMA SegmentsJoined ==
  ASSUME FileRead, NEW t, Counted(t), NEW c \in Columns,
         NEW start \in Nat, NEW end \in Nat, NEW first \in Nat \ {0}, NEW n \in Nat,
         NEW p, Cut(p, t, first, n, start, end),
         NEW segments, Len(segments) = n,
         \A j \in 1..n : /\ segments[j] = SegmentAt(p, t, first, j)
                         /\ Readable(first + j - 1, GroupOf(c))
  PROVE  Collected(Joined(c, segments), c, start, end)
<1> DEFINE S == Seq(CellsRead(c))
           F == [m \in 1..n |-> [s \in S |-> s \o Slice(c, segments[m])]]
           upto[m \in 0..n] ==
             IF m = 0 THEN <<>>
             ELSE upto[m - 1] \o SubSeq(Stored(segments[m].chunk, c), segments[m].offset + 1,
                                        segments[m].offset + segments[m].len)
<1>1. ASSUME NEW m \in 1..n PROVE Collected(Slice(c, segments[m]), c, p[m - 1], p[m])
  BY SliceCollected
<1>2. F \in [1..n -> [S -> S]]
  <2>1. ASSUME NEW m \in 1..n, NEW s \in S PROVE s \o Slice(c, segments[m]) \in S
    <3>1. Slice(c, segments[m]) \in Seq(CellsRead(c))
      BY <1>1 DEF Collected
    <3> QED  BY <3>1
  <2> QED  BY <2>1
<1>3. <<>> \in S
  OBVIOUS
<1>4. PICK g : Iterates(g, S, <<>>, n, F)
  <2> HIDE DEF F, S
  <2> QED  BY <1>2, <1>3, Iterated, Zenon
<1>5. g \in [0..n -> S] /\ g[0] = <<>> /\ \A m \in 1..n : g[m] = g[m - 1] \o Slice(c, segments[m])
  <2>1. g \in [0..n -> S] /\ g[0] = <<>> /\ \A m \in 1..n : g[m] = F[m][g[m - 1]]
    <3> HIDE DEF F, S
    <3> QED  BY <1>4 DEF Iterates
  <2>2. \A m \in 1..n : m - 1 \in 0..n
    OBVIOUS
  <2> HIDE DEF S
  <2> QED  BY <2>1, <2>2
<1>6. g = [m \in 0..n |->
             IF m = 0 THEN <<>>
             ELSE g[m - 1] \o SubSeq(Stored(segments[m].chunk, c), segments[m].offset + 1,
                                     segments[m].offset + segments[m].len)]
  <2>1. \A m \in 0..n : m # 0 => m \in 1..n
    OBVIOUS
  <2>2. \A m \in 0..n : g[m] =
             IF m = 0 THEN <<>>
             ELSE g[m - 1] \o SubSeq(Stored(segments[m].chunk, c), segments[m].offset + 1,
                                     segments[m].offset + segments[m].len)
    <3> HIDE DEF F, S
    <3> QED  BY <1>5, <2>1, Zenon DEF Slice
  <2> HIDE DEF F, S
  <2> QED  BY <1>5, <2>2
<1>7. upto = [m \in 0..n |->
             IF m = 0 THEN <<>>
             ELSE upto[m - 1] \o SubSeq(Stored(segments[m].chunk, c), segments[m].offset + 1,
                                        segments[m].offset + segments[m].len)]
  <2> HIDE DEF F, S
  <2> QED  BY <1>6
<1>8. Joined(c, segments) = upto[n]
  BY DEF Joined
<1> HIDE DEF upto
<1> DEFINE T == {m \in 0..n : Collected(upto[m], c, start, p[m])}
<1>9. 0 \in T
  <2>1. upto[0] = <<>>
    BY <1>7
  <2>2. p[0] = start
    BY DEF Cut
  <2>3. Collected(<<>>, c, start, start)
    BY DEF Collected
  <2> QED  BY <2>1, <2>2, <2>3
<1>10. ASSUME NEW m \in 0..n - 1, m \in T PROVE m + 1 \in T
  <2>1. m + 1 \in 1..n /\ m + 1 \in 0..n /\ m + 1 # 0 /\ (m + 1) - 1 = m /\ m \in 0..n
    OBVIOUS
  <2>2. upto[m + 1] = upto[m] \o Slice(c, segments[m + 1])
    BY <1>7, <2>1, Zenon DEF Slice
  <2>3. PICK q \in Nat, r \in Nat : q = p[m] /\ r = p[m + 1]
    BY <2>1 DEF Cut
  <2>4. start <= q /\ q <= r
    <3>1. start <= p[(m + 1) - 1] /\ p[(m + 1) - 1] < p[m + 1]
      BY <2>1 DEF Cut
    <3> QED  BY <2>1, <2>3, <3>1
  <2>5. Collected(upto[m], c, start, q)
    BY <1>10, <2>3
  <2>6. Collected(Slice(c, segments[m + 1]), c, q, r)
    <3>1. Collected(Slice(c, segments[m + 1]), c, p[(m + 1) - 1], p[m + 1])
      BY <1>1, <2>1
    <3> QED  BY <2>1, <2>3, <3>1
  <2>7. Collected(upto[m + 1], c, start, r)
    BY <2>2, <2>3, <2>4, <2>5, <2>6, NextCollected
  <2> QED  BY <2>1, <2>3, <2>7
<1>11. \A m \in 0..n : m \in T
  <2> HIDE DEF T
  <2> QED  BY <1>9, <1>10, UpTo
<1>12. n \in 0..n /\ p[n] = end
  BY DEF Cut
<1> QED  BY <1>8, <1>11, <1>12

LEMMA CollectedIs ==
  ASSUME FileRead, NEW c, NEW start \in Nat, NEW end \in Nat, start < end, end <= total_entries,
         NEW s, Collected(s, c, start, end)
  PROVE  s = SubSeq(ColumnOf(c), start + 1, end)
<1>1. PICK column : column = ColumnOf(c)
  OBVIOUS
<1>2. PICK V : column \in Seq(V) /\ Len(column) = total_entries /\ s \in Seq(V)
  <2>1. PICK t : Counted(t)
    BY FileCounted
  <2> QED  BY <1>1, <2>1, ColumnRead DEF Collected
<1>3. Len(s) = end - start /\ \A i \in 1..end - start : s[i] = column[start + i]
  BY <1>1 DEF Collected
<1>4. PICK u : u = SubSeq(column, start + 1, end)
  OBVIOUS
<1>5. u \in Seq(V) /\ Len(u) = end - start /\ \A i \in 1..end - start : u[i] = column[start + i]
  BY <1>2, <1>4
<1>6. s = u
  BY <1>2, <1>3, <1>5
<1> QED  BY <1>1, <1>4, <1>6

LEMMA SegmentsAnswered ==
  ASSUME Serving, NEW c \in Columns, NEW start \in 0..total_entries,
         NEW requested \in start..total_entries + 1, GetColumnSegments(c, start, requested)
  PROVE  /\ Lru(cache', recent')
         /\ LET end == IF requested < total_entries THEN requested ELSE total_entries
                rows == SubSeq(ColumnOf(c), start + 1, end)
            IN  \E segments :
                  /\ answer' = [column |-> c, from |-> start, to |-> requested,
                                segments |-> segments]
                  /\ segments = None \/ segments \in Seq([chunk : Nat, offset : Nat, len : Nat])
                  /\ IF segments = None THEN \E i \in 1..Len(rows) : rows[i] = None
                     ELSE rows = Joined(c, segments)
<1>1. PICK t : Counted(t)
  BY FileCounted DEF Serving
<1>2. FileRead /\ Lru(cache, recent) /\ total_entries \in Nat /\ start \in Nat /\ requested \in Nat
  BY <1>1, CountsClimb DEF Serving
<1>3. PICK end \in Nat : end = IF requested < total_entries THEN requested ELSE total_entries
  BY <1>2
<1>4. end <= total_entries
  BY <1>2, <1>3
<1>5. PICK column, V : column = ColumnOf(c) /\ column \in Seq(V) /\ Len(column) = total_entries
  BY <1>1, <1>2, ColumnRead
<1>6. PICK rows : rows = SubSeq(column, start + 1, end)
  OBVIOUS
<1>7. <<>> \in Seq([chunk : Nat, offset : Nat, len : Nat])
  OBVIOUS
<1>8. CASE start >= end
  <2>1. /\ cache' = cache /\ recent' = recent
        /\ answer' = [column |-> c, from |-> start, to |-> requested, segments |-> <<>>]
    BY <1>3, <1>8 DEF GetColumnSegments
  <2>2. <<>> # None
    BY <1>7, ReaderNoneAssumption
  <2>3. rows = <<>>
    BY <1>2, <1>5, <1>6, <1>8
  <2>4. Joined(c, <<>>) = <<>>
    <3>1. Len(<<>>) = 0
      OBVIOUS
    <3> DEFINE upto[n \in 0..Len(<<>>)] ==
                 IF n = 0 THEN <<>>
                 ELSE upto[n - 1] \o SubSeq(Stored(<<>>[n].chunk, c), <<>>[n].offset + 1,
                                            <<>>[n].offset + <<>>[n].len)
    <3> DEFINE g == [n \in 0..0 |-> <<>>]
    <3>2. Joined(c, <<>>) = upto[0]
      BY <3>1 DEF Joined
    <3>3. g = [n \in 0..Len(<<>>) |->
                 IF n = 0 THEN <<>>
                 ELSE g[n - 1] \o SubSeq(Stored(<<>>[n].chunk, c), <<>>[n].offset + 1,
                                         <<>>[n].offset + <<>>[n].len)]
      BY <3>1
    <3>4. upto = [n \in 0..Len(<<>>) |->
                 IF n = 0 THEN <<>>
                 ELSE upto[n - 1] \o SubSeq(Stored(<<>>[n].chunk, c), <<>>[n].offset + 1,
                                            <<>>[n].offset + <<>>[n].len)]
      <4> HIDE DEF g
      <4> QED  BY <3>3
    <3> HIDE DEF upto, g
    <3>5. upto[0] = <<>>
      BY <3>1, <3>4
    <3> QED  BY <3>2, <3>5
  <2> QED  BY <1>2, <1>3, <1>5, <1>6, <1>7, <2>1, <2>2, <2>3, <2>4
<1>9. CASE start < end
  <2>1. PICK w, first, n, p :
          /\ w \in Walks /\ first \in Nat \ {0} /\ n \in Nat \ {0}
          /\ w = Walk(c, start, end)
          /\ Cut(p, t, first, n, start, end) /\ Reached(w, p, t, first, c, n, start, end)
    BY <1>1, <1>2, <1>4, <1>9, WalkReads
  <2>2. /\ cache' = w.lru /\ recent' = w.used
        /\ answer' = [column |-> c, from |-> start, to |-> requested,
                      segments |-> IF w.stopped THEN None ELSE w.segments]
    <3>1. ~(start >= end)
      BY <1>2, <1>9
    <3> QED  BY <1>3, <2>1, <3>1, Zenon DEF GetColumnSegments
  <2>3. Lru(cache', recent')
    BY <2>1, <2>2 DEF Walks
  <2>4. Len(rows) = end - start /\ \A i \in 1..end - start : rows[i] = column[start + i]
    BY <1>2, <1>4, <1>5, <1>6, <1>9
  <2>5. CASE w.stopped
    <3>1. PICK i \in start + 1..end : column[i] = None
      BY <1>5, <2>1, <2>5 DEF Reached
    <3>2. i - start \in 1..end - start /\ start + (i - start) = i
      BY <1>2
    <3>3. \E j \in 1..Len(rows) : rows[j] = None
      BY <2>4, <3>1, <3>2
    <3> QED  BY <1>3, <1>5, <1>6, <2>2, <2>3, <2>5, <3>3
  <2>6. CASE ~w.stopped
    <3>1. /\ Len(w.segments) = n
          /\ \A j \in 1..n : /\ w.segments[j] = SegmentAt(p, t, first, j)
                             /\ Readable(first + j - 1, GroupOf(c))
      BY <2>1, <2>6 DEF Reached
    <3>2. w.segments # None /\ w.segments \in Seq([chunk : Nat, offset : Nat, len : Nat])
      <4>1. ASSUME NEW j \in 1..n PROVE w.segments[j] \in [chunk : Nat, offset : Nat, len : Nat]
        <5>1. /\ first + j - 1 \in 1..Len(index) /\ (first + j - 1) - 1 = first + j - 2
              /\ t[first + j - 2] <= p[j - 1] /\ p[j - 1] < p[j]
          BY <2>1 DEF Cut
        <5>2. p[j - 1] \in Nat /\ p[j] \in Nat
          <6>1. j - 1 \in 0..n /\ j \in 0..n
            BY <2>1
          <6> QED  BY <2>1, <6>1 DEF Cut
        <5>3. t[first + j - 2] \in Nat
          BY <1>1, <1>2, <2>1, <5>1, CountsClimb
        <5>4. PICK a \in Nat, q \in Nat, u \in Nat, x \in Nat :
                /\ a = t[first + j - 2] /\ q = p[j - 1] /\ u = p[j] /\ x = first + j - 1
                /\ a <= q /\ q < u
          <6>1. first + j - 1 \in Nat
            BY <5>1
          <6> QED  BY <5>1, <5>2, <5>3, <6>1
        <5>5. PICK y \in Nat, z \in Nat :
                SegmentAt(p, t, first, j) = [chunk |-> x, offset |-> y, len |-> z]
          <6>1. q - a \in Nat /\ u - q \in Nat
            BY <5>4
          <6> QED  BY <5>4, <6>1 DEF SegmentAt
        <5>6. SegmentAt(p, t, first, j) \in [chunk : Nat, offset : Nat, len : Nat]
          BY <5>5
        <5>7. w.segments[j] = SegmentAt(p, t, first, j)
          BY <3>1
        <5> QED  BY <5>6, <5>7, Zenon
      <4>2. w.segments \in Seq(Segments)
        BY <2>1 DEF Walks
      <4>3. PICK R : R = [chunk : Nat, offset : Nat, len : Nat]
        OBVIOUS
      <4>4. w.segments \in Seq(R)
        <5>1. PICK s, Q : s = w.segments /\ Q = Segments
          OBVIOUS
        <5>2. s \in Seq(Q) /\ Len(s) = n /\ \A j \in 1..n : s[j] \in R
          BY <3>1, <4>1, <4>2, <4>3, <5>1, Zenon
        <5>3. n \in Nat
          BY <2>1
        <5> QED  BY <5>1, <5>2, <5>3
      <4> QED  BY <4>3, <4>4, ReaderNoneAssumption
    <3>3. Collected(Joined(c, w.segments), c, start, end)
      <4>1. n \in Nat
        BY <2>1
      <4> QED  BY <1>1, <1>2, <2>1, <3>1, <4>1, SegmentsJoined
    <3>4. rows = Joined(c, w.segments)
      BY <1>2, <1>4, <1>5, <1>6, <1>9, <3>3, CollectedIs
    <3> QED  BY <1>3, <1>5, <1>6, <2>2, <2>3, <2>6, <3>2, <3>4
  <2> QED  BY <2>5, <2>6
<1> QED  BY <1>2, <1>3, <1>8, <1>9

-----------------------------------------------------------------------------
(* The steps. A query changes nothing of the file.                         *)
AnswerReads(a) ==
  /\ (a # None /\ "row" \in DOMAIN a) =>
       LET cell == ColumnOf(a.column)[a.row + 1]
       IN  /\ a.null = (cell \in {Null, None})
           /\ a.value = IF cell \in {Null, None} THEN Default ELSE cell
  /\ (a # None /\ "segments" \in DOMAIN a) =>
       LET end == IF a.to < total_entries THEN a.to ELSE total_entries
           rows == SubSeq(ColumnOf(a.column), a.from + 1, end)
       IN  IF a.segments = None THEN \E i \in 1..Len(rows) : rows[i] = None
           ELSE rows = Joined(a.column, a.segments)

LEMMA SameColumn ==
  ASSUME UNCHANGED <<disk, index>>, NEW c
  PROVE  ColumnOf(c)' = ColumnOf(c)
BY DEF ColumnOf, ReadableCell, Loadable, Stored

LEMMA SameJoined ==
  ASSUME UNCHANGED <<disk, index>>, NEW c, NEW s
  PROVE  Joined(c, s)' = Joined(c, s)
BY DEF Joined, Stored

LEMMA AnswerKept ==
  ASSUME UNCHANGED <<disk, index, total_entries>>, NEW a, a = answer', AnswerReads(a)
  PROVE  AnswersReadTheFile'
<1>1. \A c : ColumnOf(c)' = ColumnOf(c)
  BY SameColumn
<1>2. \A c, s : Joined(c, s)' = Joined(c, s)
  BY SameJoined
<1>3. AnswersReadTheFile' <=> AnswerReads(a)'
  BY DEF AnswersReadTheFile, GetReadsTheFile, SegmentsReadTheFile, AnswerReads
<1>4. AnswerReads(a)' <=> AnswerReads(a)
  BY <1>1, <1>2 DEF AnswerReads
<1> QED  BY <1>3, <1>4

LEMMA FileKept ==
  ASSUME UNCHANGED <<disk, index, cumulative, total_entries>>, FileRead
  PROVE  FileRead'
BY DEF FileRead, Chunks, Stored

LEMMA CacheKept ==
  ASSUME UNCHANGED <<disk, index>>, Lru(cache', recent')
  PROVE  Lru(cache, recent)'
BY DEF Lru, Entries, EntryOK, Loadable

LEMMA InvKept ==
  ASSUME ReaderInv, status = "open", UNCHANGED <<disk, status, index, cumulative, total_entries>>,
         Lru(cache', recent')
  PROVE  ReaderInv'
BY FileKept, CacheKept DEF ReaderInv, Serving

LEMMA EmptyCache == Lru(<<>>, <<>>)
<1>1. Len(<<>>) = 0 /\ 0 < Capacity /\ <<>> \in Seq(Entries) /\ <<>> \in Seq(1..Len(index))
  BY CapacityAssumption
<1> QED  BY <1>1 DEF Lru, Distinct

LEMMA ReaderInit == Init => ReaderInv /\ AnswersReadTheFile
<1> SUFFICES ASSUME Init PROVE ReaderInv /\ AnswersReadTheFile
  OBVIOUS
<1>1. disk \in Disks /\ status = "closed" /\ index = <<>> /\ cumulative = <<>>
      /\ total_entries = 0 /\ cache = <<>> /\ recent = <<>> /\ answer = None
  BY DEF Init
<1>2. <<>> \in Seq(Chunks)
  OBVIOUS
<1>3. Totals(<<>>) = <<>>
  <2>1. PICK t : Totals(<<>>) = [k \in 1..Len(<<>>) |-> t[k]]
    BY <1>2, TotalsRun
  <2> QED  BY <2>1
<1>4. EntriesIn(<<>>) = 0
  BY DEF EntriesIn
<1>5. FileRead
  <2>1. \A k \in 1..Len(index) : FALSE
    BY <1>1
  <2> QED  BY <1>1, <1>2, <1>3, <1>4, <2>1 DEF FileRead
<1>6. Lru(cache, recent)
  BY <1>1, EmptyCache
<1> QED  BY <1>1, <1>5, <1>6 DEF ReaderInv, Serving, AnswersReadTheFile, GetReadsTheFile, SegmentsReadTheFile

LEMMA OpenReads ==
  ASSUME ReaderInv, Open
  PROVE  ReaderInv' /\ AnswersReadTheFile'
<1>1. status = "closed" /\ disk \in Disks /\ cache = <<>> /\ recent = <<>> /\ answer = None
  BY DEF Open, ReaderInv
<1>2. PICK footer : footer = Last(disk.records)
  OBVIOUS
<1>3. /\ index' = footer.chunks /\ cumulative' = Totals(footer.chunks)
      /\ total_entries' = footer.total /\ status' = "open"
      /\ disk' = disk /\ cache' = <<>> /\ recent' = <<>> /\ answer' = None
  BY <1>1, <1>2 DEF Open
<1>4. IsWhole(disk.records)
  BY <1>1, DisksAssumption DEF Open, Finished
<1>5. /\ footer.chunks \in Seq(Chunks) /\ footer.total = EntriesIn(footer.chunks)
      /\ \A k \in 1..Len(footer.chunks), c \in Columns :
           LET cells == disk.records[footer.chunks[k].offset].data[c]
           IN  cells \in Seq(Range(cells) \ {None}) /\ Len(cells) >= footer.chunks[k].entry_count
  BY <1>2, <1>4 DEF IsWhole, Chunks
<1>6. FileRead'
  BY <1>3, <1>5 DEF FileRead, Chunks, Stored
<1>7. Lru(cache, recent)'
  <2>1. Lru(<<>>, <<>>)'
    BY EmptyCache, PTL
  <2> QED  BY <1>3, <2>1 DEF Lru, Entries, EntryOK, Loadable
<1> QED  BY <1>1, <1>3, <1>6, <1>7 DEF ReaderInv, Serving, AnswersReadTheFile, GetReadsTheFile,
                                     SegmentsReadTheFile

LEMMA ReaderStep ==
  ASSUME ReaderInv, AnswersReadTheFile, [Next]_readerVars
  PROVE  ReaderInv' /\ AnswersReadTheFile'
<1>1. CASE Open
  BY <1>1, OpenReads
<1>2. CASE OpenUnfinished
  <2>1. /\ status = "closed" /\ status' = "rejected"
        /\ UNCHANGED <<disk, index, cumulative, total_entries, cache, recent, answer>>
    BY <1>2 DEF OpenUnfinished
  <2>2. answer' = None
    BY <2>1 DEF ReaderInv, Serving
  <2>3. FileRead' /\ Lru(cache, recent)'
    BY <2>1, FileKept, CacheKept DEF ReaderInv, Serving
  <2>4. ReaderInv'
    BY <2>1, <2>3 DEF ReaderInv, Serving
  <2> QED  BY <2>2, <2>4 DEF AnswersReadTheFile, GetReadsTheFile, SegmentsReadTheFile
<1>3. ASSUME NEW c \in Columns, NEW row \in 0..total_entries - 1, Get(c, row)
      PROVE  ReaderInv' /\ AnswersReadTheFile'
  <2>1. status = "open" /\ UNCHANGED <<disk, index, cumulative, total_entries>>
    BY <1>3 DEF Get
  <2>2. PICK cell : cell = ColumnOf(c)[row + 1]
    OBVIOUS
  <2>3. /\ Lru(cache', recent') /\ UNCHANGED status
        /\ answer' = [column |-> c, row |-> row,
                      value |-> IF cell \in {Null, None} THEN Default ELSE cell,
                      null |-> cell \in {Null, None}]
    BY <1>3, <2>2, GetAnswers DEF ReaderInv
  <2>4. PICK a : a = answer'
    OBVIOUS
  <2>5. /\ "row" \in DOMAIN a /\ "segments" \notin DOMAIN a
        /\ a.column = c /\ a.row = row /\ a.null = (cell \in {Null, None})
        /\ a.value = IF cell \in {Null, None} THEN Default ELSE cell
    BY <2>3, <2>4
  <2>6. AnswerReads(a)
    BY <2>2, <2>5 DEF AnswerReads
  <2> QED  BY <2>1, <2>3, <2>4, <2>6, InvKept, AnswerKept
<1>4. ASSUME NEW c \in Columns, NEW start \in 0..total_entries,
             NEW end \in start..total_entries + 1, GetColumnSegments(c, start, end)
      PROVE  ReaderInv' /\ AnswersReadTheFile'
  <2>1. status = "open" /\ UNCHANGED <<disk, status, index, cumulative, total_entries>>
    BY <1>4 DEF GetColumnSegments
  <2>2. Lru(cache', recent')
    BY <1>4, SegmentsAnswered DEF ReaderInv
  <2>3. PICK cut, rows : /\ cut = IF end < total_entries THEN end ELSE total_entries
                         /\ rows = SubSeq(ColumnOf(c), start + 1, cut)
    OBVIOUS
  <2>4. PICK segments :
          /\ answer' = [column |-> c, from |-> start, to |-> end, segments |-> segments]
          /\ IF segments = None THEN \E i \in 1..Len(rows) : rows[i] = None
             ELSE rows = Joined(c, segments)
    BY <1>4, <2>3, SegmentsAnswered DEF ReaderInv
  <2>5. PICK a : a = answer'
    OBVIOUS
  <2>6. /\ "row" \notin DOMAIN a /\ a.column = c /\ a.from = start /\ a.to = end
        /\ a.segments = segments
    BY <2>4, <2>5
  <2>7. AnswerReads(a)
    BY <2>3, <2>4, <2>6, Zenon DEF AnswerReads
  <2> QED  BY <2>1, <2>2, <2>5, <2>7, InvKept, AnswerKept
<1>5. ASSUME status = "open",
             UNCHANGED <<disk, status, index, cumulative, total_entries, cache, recent>>,
             "row" \notin DOMAIN answer', "segments" \notin DOMAIN answer'
      PROVE  ReaderInv' /\ AnswersReadTheFile'
  <2>1. PICK a : a = answer'
    OBVIOUS
  <2>2. AnswerReads(a)
    BY <1>5, <2>1 DEF AnswerReads
  <2>3. Lru(cache', recent')
    BY <1>5 DEF ReaderInv, Serving
  <2> QED  BY <1>5, <2>1, <2>2, <2>3, InvKept, AnswerKept
<1>6. CASE FrameBoundaries
  <2>1. /\ status = "open" /\ UNCHANGED <<disk, status, index, cumulative, total_entries, cache, recent>>
        /\ DOMAIN answer' = {"boundaries"}
    BY <1>6 DEF FrameBoundaries
  <2> QED  BY <1>5, <2>1
<1>7. ASSUME NEW frame, Framebuffer(frame) PROVE ReaderInv' /\ AnswersReadTheFile'
  <2>1. /\ status = "open" /\ UNCHANGED <<disk, status, index, cumulative, total_entries, cache, recent>>
        /\ DOMAIN answer' = {"frame", "pixels"}
    BY <1>7 DEF Framebuffer
  <2> QED  BY <1>5, <2>1
<1>8. CASE UNCHANGED readerVars
  <2>1. UNCHANGED <<disk, status, index, cumulative, total_entries, cache, recent, answer>>
    BY <1>8 DEF readerVars
  <2>2. FileRead' /\ Lru(cache, recent)'
    BY <2>1, FileKept, CacheKept DEF ReaderInv, Serving
  <2>3. AnswersReadTheFile'
    <3>1. PICK a : a = answer
      OBVIOUS
    <3>2. AnswerReads(a)
      BY <3>1 DEF AnswersReadTheFile, GetReadsTheFile, SegmentsReadTheFile, AnswerReads
    <3> QED  BY <2>1, <3>1, <3>2, AnswerKept
  <2> QED  BY <2>1, <2>2, <2>3 DEF ReaderInv, Serving
<1> QED  BY <1>1, <1>2, <1>3, <1>4, <1>6, <1>7, <1>8 DEF Next

LEMMA ReaderAlways == Spec => [](ReaderInv /\ AnswersReadTheFile)
<1>1. ReaderInv /\ AnswersReadTheFile /\ [Next]_readerVars => (ReaderInv /\ AnswersReadTheFile)'
  BY ReaderStep
<1> QED  BY <1>1, ReaderInit, PTL DEF Spec

LEMMA InvSound == ReaderInv => CacheSound
<1> SUFFICES ASSUME ReaderInv PROVE CacheSound
  OBVIOUS
<1>1. FileRead /\ Lru(cache, recent) /\ disk \in Disks
  BY DEF ReaderInv, Serving
<1>2. index \in Seq([offset : 1..Len(disk.records), entry_count : Nat])
  <2>1. PICK R, C : R = [offset : 1..Len(disk.records), entry_count : Nat] /\ C = Chunks
    OBVIOUS
  <2>2. C \subseteq R
    BY <2>1 DEF Chunks
  <2>3. index \in Seq(C)
    BY <1>1, <2>1 DEF FileRead
  <2>4. index \in Seq(R)
    BY <2>2, <2>3
  <2> QED  BY <2>1, <2>4
<1>3. cumulative \in Seq(Nat) /\ total_entries \in Nat
  <2>1. PICK t : Counted(t)
    BY <1>1, FileCounted
  <2>2. total_entries \in Nat /\ Len(index) \in Nat /\ \A k \in 1..Len(index) : t[k] \in Nat
    BY <1>1, <2>1, CountsClimb
  <2>3. cumulative = [k \in 1..Len(index) |-> t[k]]
    BY <2>1 DEF Counted
  <2> QED  BY <2>2, <2>3
<1>4. TypeOK
  BY <1>1, <1>2, <1>3 DEF TypeOK, ReaderInv, Lru, Entries
<1>5. CacheKeepsTheMostRecent
  <2>1. PICK n \in Nat : n = Len(recent)
    BY <1>1 DEF Lru
  <2>2. PICK m \in Nat : m = IF n < Capacity THEN n ELSE Capacity
    BY CapacityAssumption
  <2>3. Len(cache) = m /\ \A pos \in 1..m : cache[pos].chunk = recent[pos]
    BY <1>1, <2>1, <2>2 DEF Lru
  <2>4. SubSeq(recent, 1, m) = [pos \in 1..m |-> recent[pos]]
    <3>1. recent \in Seq(1..Len(index)) /\ m <= n
      BY <1>1, <2>2, CapacityAssumption DEF Lru
    <3> QED  BY <2>1, <3>1
  <2>5. [pos \in 1..m |-> cache[pos].chunk] = [pos \in 1..m |-> recent[pos]]
    BY <2>3
  <2> QED  BY <2>1, <2>2, <2>3, <2>4, <2>5, Zenon DEF CacheKeepsTheMostRecent
<1>6. GroupsRawOrDecoded
  BY <1>1 DEF Lru, EntryOK, GroupsRawOrDecoded
<1> QED  BY <1>4, <1>5, <1>6 DEF CacheSound, ReaderInv

\* Whatever was asked, and in whatever order, the cache holds exactly the chunks
\* used last (ChunkCache::get and insert), of which nothing readable is lost
\* (ensure_group_decoded), and no query has panicked.
THEOREM ReaderCacheSound == Spec => []CacheSound
BY ReaderAlways, InvSound, PTL

\* Every cell read (read_group_value) and every run of rows read
\* (get_column_segments) is what the file itself has there, whatever the cache
\* kept, dropped or failed to decode before.
THEOREM ReaderAnswersReadTheFile == Spec => []AnswersReadTheFile
BY ReaderAlways, PTL
=============================================================================
