----------------------- MODULE TraceComparisonProofs -----------------------
(***************************************************************************)
(* Proofs about TraceComparison, for all pairs of traces and sync modes,   *)
(* and about SegmentWalk, for columns of any length however their files are*)
(* cut into chunks.                                                        *)
(***************************************************************************)
EXTENDS TraceComparison, SegmentWalk, FiniteSetTheorems, SequenceTheorems, WellFoundedInduction, TLAPS

-----------------------------------------------------------------------------
(* Induction over the naturals, from the library's well-founded minimum.   *)
Below == {p \in Nat \X Nat : p[1] < p[2]}

LEMMA BelowWellFounded == IsWellFoundedOn(Below, Nat)
BY NatLessThanWellFounded DEF Below, OpToRel

LEMMA Induction ==
  ASSUME NEW S \in SUBSET Nat, 0 \in S, \A n \in S : n + 1 \in S
  PROVE  S = Nat
<1> SUFFICES ASSUME Nat \ S # {} PROVE FALSE
  OBVIOUS
<1>1. \E m \in Nat \ S : \A n \in Nat \ S : ~(<<n, m>> \in Below)
  <2> DEFINE T == Nat \ S
  <2>1. T \subseteq Nat /\ T # {}
    OBVIOUS
  <2> HIDE DEF T
  <2>2. \E m \in T : \A n \in T : ~(<<n, m>> \in Below)
    BY <2>1, BelowWellFounded, WFMin, Zenon
  <2> QED  BY <2>2 DEF T
<1>2. PICK m \in Nat \ S : \A n \in Nat \ S : ~(<<n, m>> \in Below)
  BY <1>1
<1>3. \A n \in Nat \ S : ~(n < m)
  BY <1>2 DEF Below
<1>4. m # 0 /\ m - 1 \in Nat /\ m - 1 < m /\ (m - 1) + 1 = m
  BY <1>2
<1>5. m - 1 \in S
  BY <1>3, <1>4
<1>6. QED  BY <1>4, <1>5

-----------------------------------------------------------------------------
(* Collapsing.                                                             *)

\* Rows of a trace in ascending order.
InOrder(map, t) ==
  /\ map \in Seq(Nat)
  /\ \A d \in 1..Len(map) : map[d] \in Rows(t)
  /\ \A d, e \in 1..Len(map) : d < e => map[d] < map[e]

\* The address changes at each row of the map and nowhere in between.
Instructions(map, t) ==
  \A d \in 1..Len(map) - 1 :
    /\ \A r \in map[d]..map[d + 1] - 1 : Address(t, r) = Address(t, map[d])
    /\ Address(t, map[d + 1]) # Address(t, map[d + 1] - 1)

\* Each of the first n rows has the address of a row of the map before it.
Covers(map, t, n) ==
  \A r \in 0..n - 1 : \E d \in 1..Len(map) : map[d] <= r /\ Address(t, r) = Address(t, map[d])

\* The map of the first n rows.
Collapsed(map, t, n) ==
  /\ InOrder(map, t) /\ Instructions(map, t) /\ Covers(map, t, n)
  /\ \A d \in 1..Len(map) : map[d] < n
  /\ n > 0 =>
       /\ map # <<>> /\ map[1] = 0
       /\ \A r \in map[Len(map)]..n - 1 : Address(t, r) = Address(t, map[Len(map)])

LEMMA CollapsedAdds ==
  ASSUME NEW t, EntryCount(t) \in Nat, NEW n \in Rows(t), NEW map, Collapsed(map, t, n)
  PROVE  Collapsed(IF n \in Changes(t) THEN Append(map, n) ELSE map, t, n + 1)
<1>1. n \in Nat /\ n < t.count /\ t.count \in Nat /\ map \in Seq(Nat)
  BY DEF Rows, EntryCount, Collapsed, InOrder
<1>2. CASE n = 0
  <2>1. map = <<>>
    <3>1. Len(map) \in Nat /\ (Len(map) > 0 => map[1] \in Nat /\ map[1] < 0)
      BY <1>1, <1>2 DEF Collapsed, InOrder
    <3>2. Len(map) = 0
      BY <3>1
    <3> QED  BY <1>1, <3>2
  <2>2. n \in Changes(t)
    BY <1>2 DEF Changes
  <2>3. Len(<<0>>) = 1 /\ <<0>>[1] = 0 /\ Append(map, n) = <<0>> /\ <<0>> \in Seq(Nat)
    BY <1>2, <2>1
  <2>4. InOrder(<<0>>, t)
    BY <1>1, <1>2, <2>3 DEF InOrder, Rows
  <2>5. Instructions(<<0>>, t)
    BY <2>3 DEF Instructions
  <2>6. Covers(<<0>>, t, 1)
    BY <2>3 DEF Covers
  <2>7. Collapsed(<<0>>, t, 1)
    BY <2>3, <2>4, <2>5, <2>6 DEF Collapsed
  <2>8. n + 1 = 1 /\ (IF n \in Changes(t) THEN Append(map, n) ELSE map) = <<0>>
    BY <1>2, <2>2, <2>3
  <2> QED  BY <2>7, <2>8
<1>3. CASE n > 0 /\ n \in Changes(t)
  <2> DEFINE new == Append(map, n)
  <2>0. PICK L \in Nat : L = Len(map)
    BY <1>1
  <2>1. /\ Len(new) = L + 1 /\ new[L + 1] = n /\ new \in Seq(Nat)
        /\ \A d \in 1..L : new[d] = map[d] /\ map[d] \in Nat
        /\ L \in 1..L
    BY <1>1, <1>3, <2>0 DEF Collapsed
  <2> HIDE DEF new
  <2>2. InOrder(new, t)
    <3>1. \A d \in 1..L : map[d] \in Rows(t) /\ map[d] < n
      BY <2>0 DEF Collapsed, InOrder
    <3>2. \A d, e \in 1..L : d < e => map[d] < map[e]
      BY <2>0 DEF Collapsed, InOrder
    <3>3. ASSUME NEW d \in 1..Len(new), NEW e \in 1..Len(new), d < e PROVE new[d] < new[e]
      <4>1. d \in 1..L
        BY <2>1, <3>3
      <4>2. CASE e \in 1..L
        BY <2>1, <3>2, <3>3, <4>1, <4>2
      <4>3. CASE e = L + 1
        BY <2>1, <3>1, <4>1, <4>3
      <4> QED  BY <2>1, <4>2, <4>3
    <3>4. ASSUME NEW d \in 1..Len(new) PROVE new[d] \in Rows(t)
      <4>1. d \in 1..L \/ d = L + 1
        BY <2>1
      <4> QED  BY <2>1, <3>1, <4>1
    <3> QED  BY <2>1, <3>3, <3>4 DEF InOrder
  <2>3. Instructions(new, t)
    <3>0. Len(new) - 1 = L
      BY <2>1
    <3>1. SUFFICES ASSUME NEW d \in 1..L
                   PROVE  /\ \A r \in new[d]..new[d + 1] - 1 : Address(t, r) = Address(t, new[d])
                          /\ Address(t, new[d + 1]) # Address(t, new[d + 1] - 1)
      BY <3>0 DEF Instructions
    <3>2. CASE d = L
      <4>1. new[d] = map[L] /\ new[d + 1] = n
        BY <2>1, <3>2
      <4>2. \A r \in map[L]..n - 1 : Address(t, r) = Address(t, map[L])
        BY <1>3, <2>0 DEF Collapsed
      <4>3. Address(t, n) # Address(t, n - 1)
        BY <1>3 DEF Changes
      <4> QED  BY <4>1, <4>2, <4>3
    <3>3. CASE d # L
      <4>1. d \in 1..L - 1 /\ d + 1 \in 1..L
        BY <3>3
      <4>2. new[d] = map[d] /\ new[d + 1] = map[d + 1]
        BY <2>1, <4>1
      <4> QED  BY <2>0, <4>1, <4>2 DEF Collapsed, Instructions
    <3> QED  BY <3>2, <3>3
  <2>4. Covers(new, t, n + 1)
    <3>0. (n + 1) - 1 = n
      BY <1>1
    <3>1. SUFFICES ASSUME NEW r \in 0..n
                   PROVE \E d \in 1..L + 1 : new[d] <= r /\ Address(t, r) = Address(t, new[d])
      BY <3>0, <2>1 DEF Covers
    <3>2. CASE r = n
      BY <1>1, <2>1, <3>2
    <3>3. CASE r # n
      <4>1. r \in 0..n - 1
        BY <1>1, <3>3
      <4>2. PICK d \in 1..L : map[d] <= r /\ Address(t, r) = Address(t, map[d])
        BY <2>0, <4>1 DEF Collapsed, Covers
      <4>3. d \in 1..L + 1 /\ new[d] = map[d]
        BY <2>1
      <4> QED  BY <4>2, <4>3
    <3> QED  BY <3>2, <3>3
  <2>5. new # <<>> /\ new[1] = 0
    <3>1. map[1] = 0
      BY <1>3 DEF Collapsed
    <3> QED  BY <2>1, <3>1
  <2>6. \A d \in 1..Len(new) : new[d] < n + 1
    <3>1. \A d \in 1..L : map[d] < n
      BY <2>0 DEF Collapsed
    <3>2. \A d \in 1..Len(new) : d \in 1..L \/ d = L + 1
      BY <2>1
    <3>3. ASSUME NEW d \in 1..L PROVE new[d] < n + 1
      <4>1. new[d] = map[d] /\ map[d] \in Nat /\ map[d] < n
        BY <2>1, <3>1
      <4> QED  BY <1>1, <4>1
    <3>4. new[L + 1] < n + 1
      BY <1>1, <2>1
    <3> QED  BY <3>2, <3>3, <3>4
  <2>7. \A r \in new[Len(new)]..(n + 1) - 1 : Address(t, r) = Address(t, new[Len(new)])
    <3>1. \A r \in n..(n + 1) - 1 : r = n
      BY <1>1
    <3> QED  BY <2>1, <3>1
  <2>8. Collapsed(new, t, n + 1)
    BY <2>2, <2>3, <2>4, <2>5, <2>6, <2>7 DEF Collapsed
  <2> QED  BY <1>3, <2>8 DEF new
<1>4. CASE n > 0 /\ n \notin Changes(t)
  <2>0. PICK L \in Nat : L = Len(map)
    BY <1>1
  <2>1. L \in 1..L /\ map[L] \in Nat /\ map[L] < n
    BY <1>1, <1>4, <2>0 DEF Collapsed
  <2>2. Address(t, n) = Address(t, n - 1)
    BY <1>4 DEF Changes
  <2>3. \A r \in map[L]..n - 1 : Address(t, r) = Address(t, map[L])
    BY <1>4, <2>0 DEF Collapsed
  <2>4. Address(t, n - 1) = Address(t, map[L])
    BY <1>1, <2>1, <2>3
  <2>5. \A r \in map[L]..(n + 1) - 1 : Address(t, r) = Address(t, map[L])
    <3>1. \A r \in map[L]..(n + 1) - 1 : r \in map[L]..n - 1 \/ r = n
      BY <1>1, <2>1
    <3> QED  BY <2>2, <2>3, <2>4, <3>1
  <2>6. Covers(map, t, n + 1)
    <3>1. \A r \in 0..(n + 1) - 1 : r \in 0..n - 1 \/ r = n
      BY <1>1
    <3>2. Address(t, n) = Address(t, map[L]) /\ map[L] <= n /\ L \in 1..Len(map)
      BY <1>1, <2>0, <2>1, <2>2, <2>4
    <3> QED  BY <3>1, <3>2 DEF Collapsed, Covers
  <2>7. \A d \in 1..Len(map) : map[d] < n + 1
    <3>1. \A d \in 1..Len(map) : map[d] < n /\ map[d] \in Nat
      BY <1>1 DEF Collapsed
    <3> QED  BY <1>1, <3>1
  <2>8. Collapsed(map, t, n + 1)
    BY <1>4, <2>0, <2>5, <2>6, <2>7 DEF Collapsed
  <2> QED  BY <1>4, <2>8
<1>5. QED  BY <1>1, <1>2, <1>3, <1>4

\* The map the loop has built after n rows, as CollapseIndices defines it.
Building(g, t, n) ==
  /\ g \in [0..n -> Seq(Nat)] /\ g[0] = <<>>
  /\ \A k \in 1..n : g[k] = IF k - 1 \in Changes(t) THEN Append(g[k - 1], k - 1) ELSE g[k - 1]

LEMMA BuildingExists ==
  ASSUME NEW t, NEW N \in Nat
  PROVE  \E g : Building(g, t, N)
<1> DEFINE S == {n \in Nat : \E g : Building(g, t, n)}
<1>1. 0 \in S
  <2>1. Building([k \in 0..0 |-> <<>>], t, 0)
    BY DEF Building
  <2> QED  BY <2>1
<1>2. ASSUME NEW n \in S PROVE n + 1 \in S
  <2>1. n \in Nat
    OBVIOUS
  <2>2. PICK g : Building(g, t, n)
    OBVIOUS
  <2> DEFINE next == IF n \in Changes(t) THEN Append(g[n], n) ELSE g[n]
             h == [k \in 0..n + 1 |-> IF k = n + 1 THEN next ELSE g[k]]
  <2>3. g \in [0..n -> Seq(Nat)] /\ g[0] = <<>> /\ n \in 0..n /\ g[n] \in Seq(Nat)
    BY <2>1, <2>2 DEF Building
  <2>4. next \in Seq(Nat)
    BY <2>1, <2>3
  <2>5. h \in [0..n + 1 -> Seq(Nat)] /\ h[0] = <<>>
    <3> HIDE DEF next
    <3>1. ASSUME NEW k \in 0..n + 1, k # n + 1 PROVE g[k] \in Seq(Nat)
      <4>1. k \in 0..n
        BY <2>1, <3>1
      <4> QED  BY <2>3, <4>1
    <3> QED  BY <2>1, <2>3, <2>4, <3>1
  <2>6. ASSUME NEW k \in 1..n + 1
        PROVE  h[k] = IF k - 1 \in Changes(t) THEN Append(h[k - 1], k - 1) ELSE h[k - 1]
    <3>1. CASE k = n + 1
      <4>1. h[k] = next /\ h[k - 1] = g[n] /\ k - 1 = n
        BY <2>1, <3>1
      <4> QED  BY <4>1
    <3>2. CASE k # n + 1
      <4>1. k \in 1..n /\ k \in 0..n + 1 /\ k - 1 \in 0..n + 1 /\ k - 1 # n + 1
        BY <2>1, <3>2
      <4>2. h[k] = g[k] /\ h[k - 1] = g[k - 1]
        BY <3>2, <4>1
      <4> HIDE DEF h
      <4> QED  BY <2>2, <4>1, <4>2 DEF Building
    <3> QED  BY <3>1, <3>2
  <2> HIDE DEF h
  <2>7. Building(h, t, n + 1)
    BY <2>5, <2>6 DEF Building
  <2> QED  BY <2>7
<1>3. S = Nat
  <2> HIDE DEF S
  <2>1. S \in SUBSET Nat
    BY DEF S
  <2> QED  BY <1>1, <1>2, <2>1, Induction
<1>4. QED  BY <1>3

LEMMA CollapseIndicesCollapse ==
  ASSUME NEW t, EntryCount(t) \in Nat
  PROVE  Collapsed(CollapseIndices(t), t, EntryCount(t))
<1> DEFINE N == EntryCount(t)
           kept[n \in 0..N] ==
             IF n = 0 THEN <<>>
             ELSE IF n - 1 \in Changes(t) THEN Append(kept[n - 1], n - 1) ELSE kept[n - 1]
<1>1. PICK g : Building(g, t, N)
  BY BuildingExists
<1>2. g = [n \in 0..N |->
             IF n = 0 THEN <<>>
             ELSE IF n - 1 \in Changes(t) THEN Append(g[n - 1], n - 1) ELSE g[n - 1]]
  <2>1. g = [n \in 0..N |-> g[n]] /\ g[0] = <<>>
    BY <1>1 DEF Building
  <2>2. ASSUME NEW n \in 0..N, n # 0
        PROVE  g[n] = IF n - 1 \in Changes(t) THEN Append(g[n - 1], n - 1) ELSE g[n - 1]
    <3>1. n \in 1..N
      BY <2>2
    <3> QED  BY <1>1, <3>1 DEF Building
  <2> HIDE DEF N
  <2> QED  BY <2>1, <2>2, Zenon
<1>3. kept = [n \in 0..N |->
             IF n = 0 THEN <<>>
             ELSE IF n - 1 \in Changes(t) THEN Append(kept[n - 1], n - 1) ELSE kept[n - 1]]
  BY <1>2
<1>4. kept[0] = <<>>
  <2> HIDE DEF kept
  <2> QED  BY <1>3
<1>5. ASSUME NEW n \in Nat, n < N
      PROVE  kept[n + 1] = IF n \in Changes(t) THEN Append(kept[n], n) ELSE kept[n]
  <2> HIDE DEF kept
  <2>1. n + 1 \in 0..N /\ (n + 1) - 1 = n /\ n + 1 # 0
    BY <1>5
  <2> QED  BY <1>3, <2>1
<1>6. CollapseIndices(t) = kept[N]
  BY DEF CollapseIndices
<1> HIDE DEF kept
<1> DEFINE S == {n \in Nat : n <= N => Collapsed(kept[n], t, n)}
<1>7. 0 \in S
  <2>1. Collapsed(<<>>, t, 0)
    BY DEF Collapsed, InOrder, Instructions, Covers
  <2> QED  BY <1>4, <2>1
<1>8. ASSUME NEW n \in S PROVE n + 1 \in S
  <2>1. SUFFICES ASSUME n + 1 <= N PROVE Collapsed(kept[n + 1], t, n + 1)
    OBVIOUS
  <2>2. n \in Rows(t) /\ n \in Nat /\ n < N /\ Collapsed(kept[n], t, n)
    BY <2>1 DEF Rows, EntryCount
  <2> QED  BY <1>5, <2>2, CollapsedAdds
<1>9. S = Nat
  <2> HIDE DEF S
  <2>1. S \in SUBSET Nat
    BY DEF S
  <2> QED  BY <1>7, <1>8, <2>1, Induction
<1>10. QED  BY <1>6, <1>9

LEMMA StartMapStarts ==
  ASSUME NEW t, NEW u, EntryCount(t) \in Nat
  PROVE  /\ InOrder(StartMap(t, u), t) /\ Covers(StartMap(t, u), t, EntryCount(t))
         /\ Collapses(t, u) => Instructions(StartMap(t, u), t)
         /\ StartMap(t, u) # <<>> => StartMap(t, u)[1] = 0
<1> DEFINE N == EntryCount(t)
<1>1. CASE Collapses(t, u)
  <2>1. Collapsed(CollapseIndices(t), t, N) /\ StartMap(t, u) = CollapseIndices(t)
    BY <1>1, CollapseIndicesCollapse DEF StartMap
  <2>2. CollapseIndices(t) # <<>> => N > 0
    <3>1. SUFFICES ASSUME CollapseIndices(t) # <<>>, ~(N > 0) PROVE FALSE
      OBVIOUS
    <3>2. Len(CollapseIndices(t)) \in Nat /\ Len(CollapseIndices(t)) # 0
      BY <2>1, <3>1 DEF Collapsed, InOrder
    <3>3. CollapseIndices(t)[1] \in Rows(t)
      BY <2>1, <3>2 DEF Collapsed, InOrder
    <3> QED  BY <3>1, <3>3 DEF Rows, EntryCount
  <2> QED  BY <2>1, <2>2 DEF Collapsed
<1>2. CASE ~Collapses(t, u)
  <2> DEFINE map == AllRows(t)
  <2>1. /\ StartMap(t, u) = map /\ Len(map) = N /\ map \in Seq(Nat)
        /\ \A d \in 1..N : map[d] = d - 1
    BY <1>2 DEF StartMap, AllRows
  <2> HIDE DEF map
  <2>2. InOrder(map, t)
    BY <2>1 DEF InOrder, Rows, EntryCount
  <2>3. ASSUME NEW r \in 0..N - 1 PROVE \E d \in 1..Len(map) : map[d] <= r /\ Address(t, r) = Address(t, map[d])
    <3>1. r + 1 \in 1..Len(map) /\ map[r + 1] = r
      BY <2>1
    <3> QED  BY <3>1
  <2>4. map # <<>> => map[1] = 0
    BY <2>1
  <2> QED  BY <1>2, <2>1, <2>2, <2>3, <2>4 DEF Covers
<1>3. QED  BY <1>1, <1>2

-----------------------------------------------------------------------------
(* Cutting a map at both ends, and finding a place in it.                  *)
LEMMA CutIs ==
  ASSUME NEW map \in Seq(Nat), NEW p \in Nat \ {0}, NEW q \in 0..Len(map)
  PROVE  /\ SubSeq(map, p, q) \in Seq(Nat)
         /\ Len(SubSeq(map, p, q)) = IF p <= q THEN q - p + 1 ELSE 0
         /\ \A d \in 1..Len(SubSeq(map, p, q)) :
              d + p - 1 \in 1..Len(map) /\ SubSeq(map, p, q)[d] = map[d + p - 1]
<1>1. Len(map) \in Nat /\ q \in Nat /\ q <= Len(map) /\ \A d \in p..q : d \in 1..Len(map)
  OBVIOUS
<1>2. Len(SubSeq(map, p, q)) = IF p <= q THEN q - p + 1 ELSE 0
  BY <1>1
<1>3. ASSUME NEW d \in 1..Len(SubSeq(map, p, q))
      PROVE  d + p - 1 \in 1..Len(map) /\ SubSeq(map, p, q)[d] = map[d + p - 1]
  <2>1. p <= q /\ d \in 1..q - p + 1 /\ d + p - 1 \in p..q
    BY <1>1, <1>2
  <2>2. SubSeq(map, p, q)[d] = map[d + p - 1]
    BY <1>1, <2>1
  <2> QED  BY <1>1, <2>1, <2>2
<1>4. SubSeq(map, p, q) \in Seq(Nat)
  BY <1>1
<1>5. QED  BY <1>2, <1>3, <1>4

LEMMA CutPrefix ==
  ASSUME NEW map \in Seq(Nat), NEW len \in 0..Len(map), NEW cut, cut = SubSeq(map, 1, len)
  PROVE  Len(cut) = len /\ (len > 0 => cut # <<>> /\ cut[1] = map[1]) /\ (len = 0 => cut = <<>>)
<1>1. /\ cut \in Seq(Nat) /\ Len(cut) = (IF 1 <= len THEN len - 1 + 1 ELSE 0)
      /\ \A d \in 1..Len(cut) : cut[d] = map[d + 1 - 1]
  BY CutIs
<1>2. Len(cut) = len /\ len \in Nat
  BY <1>1
<1>3. len > 0 => 1 \in 1..Len(cut) /\ 1 + 1 - 1 = 1
  BY <1>2
<1>4. len > 0 => cut[1] = map[1]
  BY <1>1, <1>3
<1>5. QED  BY <1>1, <1>2, <1>4

LEMMA CutInOrder ==
  ASSUME NEW t, NEW map, InOrder(map, t), NEW p \in Nat \ {0}, NEW q \in 0..Len(map)
  PROVE  /\ InOrder(SubSeq(map, p, q), t)
         /\ Instructions(map, t) => Instructions(SubSeq(map, p, q), t)
<1>0. PICK cut : cut = SubSeq(map, p, q)
  OBVIOUS
<1>1. map \in Seq(Nat)
  BY DEF InOrder
<1>2. /\ cut \in Seq(Nat) /\ Len(cut) \in Nat
      /\ \A d \in 1..Len(cut) : d + p - 1 \in 1..Len(map) /\ cut[d] = map[d + p - 1]
  BY <1>0, <1>1, CutIs
<1>3. InOrder(cut, t)
  <2>1. \A d \in 1..Len(cut) : cut[d] \in Rows(t)
    BY <1>2 DEF InOrder
  <2>2. ASSUME NEW d \in 1..Len(cut), NEW e \in 1..Len(cut), d < e PROVE cut[d] < cut[e]
    <3>1. d + p - 1 < e + p - 1
      BY <2>2
    <3> QED  BY <1>2, <3>1 DEF InOrder
  <2> QED  BY <1>2, <2>1, <2>2 DEF InOrder
<1>4. ASSUME Instructions(map, t) PROVE Instructions(cut, t)
  <2>1. SUFFICES ASSUME NEW d \in 1..Len(cut) - 1
                 PROVE  /\ \A r \in cut[d]..cut[d + 1] - 1 : Address(t, r) = Address(t, cut[d])
                        /\ Address(t, cut[d + 1]) # Address(t, cut[d + 1] - 1)
    BY DEF Instructions
  <2>2. PICK e \in Nat : e = d + p - 1
    OBVIOUS
  <2>3. cut[d] = map[e] /\ cut[d + 1] = map[e + 1] /\ e \in 1..Len(map) - 1
    <3>1. d \in 1..Len(cut) /\ d + 1 \in 1..Len(cut) /\ (d + 1) + p - 1 = e + 1
      BY <1>2, <2>2
    <3>2. cut[d] = map[e] /\ cut[d + 1] = map[e + 1] /\ e \in 1..Len(map) /\ e + 1 \in 1..Len(map)
      BY <1>2, <2>2, <3>1
    <3> QED  BY <1>1, <3>2
  <2> QED  BY <1>4, <2>3 DEF Instructions
<1>5. QED  BY <1>0, <1>3, <1>4

LEMMA LeastPlace ==
  ASSUME NEW places \in SUBSET Nat, places # {}
  PROVE  \E d \in places : \A e \in places : d <= e
<1>1. PICK m \in places : \A n \in places : ~(<<n, m>> \in Below)
  BY BelowWellFounded, WFMin, Zenon
<1>2. ASSUME NEW n \in places PROVE m <= n
  <2>1. m \in Nat /\ n \in Nat /\ ~(<<n, m>> \in Below)
    BY <1>1
  <2>2. ~(n < m)
    BY <2>1 DEF Below
  <2> QED  BY <2>1, <2>2
<1>3. QED  BY <1>2

\* place is the first of those places of the map, 0 if there are none.
FirstOf(place, map, places) ==
  /\ place \in 0..Len(map)
  /\ place = 0 => places = {}
  /\ place # 0 => place \in places /\ \A e \in places : place <= e

LEMMA PlacesFirst ==
  ASSUME NEW map \in Seq(Nat), NEW places \in SUBSET (1..Len(map))
  PROVE  FirstOf(IF places = {} THEN 0 ELSE CHOOSE d \in places : \A e \in places : d <= e,
                 map, places)
<1>1. Len(map) \in Nat /\ places \in SUBSET Nat
  OBVIOUS
<1>2. CASE places = {}
  BY <1>1, <1>2 DEF FirstOf
<1>3. CASE places # {}
  <2> DEFINE m == CHOOSE d \in places : \A e \in places : d <= e
  <2>1. m \in places /\ \A e \in places : m <= e
    BY <1>1, <1>3, LeastPlace
  <2> HIDE DEF m
  <2>2. FirstOf(m, map, places)
    BY <1>1, <1>3, <2>1 DEF FirstOf
  <2> QED  BY <1>3, <2>2 DEF m
<1>4. QED  BY <1>2, <1>3

LEMMA AddressPlaceFirst ==
  ASSUME NEW t, NEW map \in Seq(Nat), NEW x
  PROVE  FirstOf(AddressPlace(t, map, x), map, {d \in 1..Len(map) : Address(t, map[d]) = x})
BY PlacesFirst DEF AddressPlace, FirstPlace

LEMMA ConditionPlaceFirst ==
  ASSUME NEW t, NEW map \in Seq(Nat)
  PROVE  FirstOf(ConditionPlace(t, map), map, {d \in 1..Len(map) : Matches(t, map[d])})
BY PlacesFirst DEF ConditionPlace, FirstPlace

LEMMA DrainedInOrder ==
  ASSUME NEW t, NEW map, InOrder(map, t), NEW place \in 0..Len(map)
  PROVE  /\ InOrder(DrainTo(map, place), t)
         /\ Instructions(map, t) => Instructions(DrainTo(map, place), t)
         /\ place # 0 => DrainTo(map, place) # <<>> /\ DrainTo(map, place)[1] = map[place]
         /\ place = 1 => DrainTo(map, place) = map
<1>1. map \in Seq(Nat) /\ Len(map) \in Nat
  BY DEF InOrder
<1>2. CASE place = 0
  BY <1>2 DEF DrainTo
<1>3. CASE place # 0
  <2>1. DrainTo(map, place) = SubSeq(map, place, Len(map))
    BY <1>3 DEF DrainTo
  <2>2. place \in Nat \ {0} /\ Len(map) \in 0..Len(map) /\ place <= Len(map)
    BY <1>1, <1>3
  <2>3. /\ InOrder(DrainTo(map, place), t)
        /\ Instructions(map, t) => Instructions(DrainTo(map, place), t)
    BY <2>1, <2>2, CutInOrder
  <2>4. DrainTo(map, place) # <<>> /\ DrainTo(map, place)[1] = map[place]
    <3> DEFINE cut == SubSeq(map, place, Len(map))
    <3>1. Len(cut) = Len(map) - place + 1 /\ \A d \in 1..Len(cut) : cut[d] = map[d + place - 1]
      BY <1>1, <2>2, CutIs
    <3>2. 1 \in 1..Len(cut) /\ 1 + place - 1 = place
      BY <1>1, <2>2, <3>1
    <3> HIDE DEF cut
    <3>3. cut # <<>> /\ cut[1] = map[place]
      BY <3>1, <3>2
    <3> QED  BY <2>1, <3>3 DEF cut
  <2>5. place = 1 => DrainTo(map, place) = map
    BY <1>1, <2>1
  <2> QED  BY <1>3, <2>3, <2>4, <2>5
<1>4. QED  BY <1>2, <1>3

-----------------------------------------------------------------------------
(* Alignment.                                                              *)
AddressFirst(t, map) ==
  /\ map # <<>>
  /\ Address(t, map[1]) = AfterEntry
  /\ Address(t, 0) = Entry
  /\ \A r \in 0..map[1] - 1 : Address(t, r) # AfterEntry

Apart(t, u, x) ==
  \A d \in 1..HeadRows : d <= Len(StartMap(t, u)) => Address(t, StartMap(t, u)[d]) # x

StartedTogether(a, b) ==
  LET x == Address(pair.a, a[1])
      y == Address(pair.b, b[1])
  IN  /\ a[1] = 0 \/ b[1] = 0
      /\ \/ x = y
         \/ /\ a[1] = 0 /\ b[1] = 0
            /\ Apart(pair.a, pair.b, y) /\ Apart(pair.b, pair.a, x)

Matching(t, u) == {r \in Range(StartMap(t, u)) : Matches(t, r)}

FirstMatch(map, rows) == map # <<>> /\ map[1] \in rows /\ \A r \in rows : map[1] <= r

\* What the sync mode asks of two maps a and b.
Started(a, b) ==
  /\ pair.sync.mode = "cartridge" => AddressFirst(pair.a, a) /\ AddressFirst(pair.b, b)
  /\ (pair.sync.mode = "pc" /\ HasAddresses /\ a # <<>> /\ b # <<>>) => StartedTogether(a, b)
  /\ (pair.sync.mode = "condition"
       /\ Matching(pair.a, pair.b) # {} /\ Matching(pair.b, pair.a) # {}) =>
        /\ FirstMatch(a, Matching(pair.a, pair.b))
        /\ FirstMatch(b, Matching(pair.b, pair.a))

MapIs(map, t, u) ==
  /\ InOrder(map, t)
  /\ Collapses(t, u) => Instructions(map, t)

AlignInv ==
  /\ pair \in Pairs
  /\ stage \in {"collapse", "sync", "truncate", "ready", "error", "panicked"}
  /\ MapIs(map_a, pair.a, pair.b) /\ MapIs(map_b, pair.b, pair.a)
  /\ stage = "sync" => map_a = StartMap(pair.a, pair.b) /\ map_b = StartMap(pair.b, pair.a)
  /\ stage = "ready" => Len(map_a) = Len(map_b)
  /\ stage \in {"truncate", "ready"} => Started(map_a, map_b)

LEMMA EmptyMap ==
  ASSUME NEW t, NEW u
  PROVE  MapIs(<<>>, t, u)
BY DEF MapIs, InOrder, Instructions

LEMMA StartMaps ==
  ASSUME pair \in Pairs
  PROVE  /\ EntryCount(pair.a) \in Nat /\ EntryCount(pair.b) \in Nat
         /\ MapIs(StartMap(pair.a, pair.b), pair.a, pair.b)
         /\ MapIs(StartMap(pair.b, pair.a), pair.b, pair.a)
<1>1. EntryCount(pair.a) \in Nat /\ EntryCount(pair.b) \in Nat
  BY TracesAssumption
<1>2. QED  BY <1>1, StartMapStarts DEF MapIs

LEMMA Drained ==
  ASSUME NEW t, NEW u, NEW map, MapIs(map, t, u), NEW place \in 0..Len(map)
  PROVE  MapIs(DrainTo(map, place), t, u)
BY DrainedInOrder DEF MapIs

\* Drained to the first row after the entry instruction.
LEMMA DrainedToEntry ==
  ASSUME NEW t, NEW u, EntryCount(t) \in Nat, NEW map, map = StartMap(t, u), map # <<>>,
         Address(t, map[1]) = Entry, AddressPlace(t, map, AfterEntry) > 0
  PROVE  /\ AddressFirst(t, DrainTo(map, AddressPlace(t, map, AfterEntry)))
         /\ AddressPlace(t, map, AfterEntry) \in 0..Len(map)
<1>1. InOrder(map, t) /\ Covers(map, t, EntryCount(t)) /\ map[1] = 0 /\ map \in Seq(Nat)
  BY StartMapStarts DEF InOrder
<1>2. PICK place \in 0..Len(map) : place = AddressPlace(t, map, AfterEntry)
  BY <1>1, AddressPlaceFirst DEF FirstOf
<1>3. PICK places : places = {d \in 1..Len(map) : Address(t, map[d]) = AfterEntry}
  OBVIOUS
<1>4. place # 0 /\ place \in places /\ \A e \in places : place <= e
  BY <1>1, <1>2, <1>3, AddressPlaceFirst DEF FirstOf
<1>5. place \in 1..Len(map) /\ Len(map) \in Nat /\ Address(t, map[place]) = AfterEntry
  BY <1>1, <1>3, <1>4
<1>6. DrainTo(map, place) # <<>> /\ DrainTo(map, place)[1] = map[place]
  BY <1>1, <1>2, <1>4, DrainedInOrder
<1>7. ASSUME NEW r \in 0..map[place] - 1, Address(t, r) = AfterEntry PROVE FALSE
  <2>1. map[place] \in Rows(t) /\ map[place] \in Nat
    BY <1>1, <1>5 DEF InOrder
  <2>2. r \in 0..EntryCount(t) - 1
    BY <2>1 DEF Rows, EntryCount
  <2>3. PICK d \in 1..Len(map) : map[d] <= r /\ Address(t, r) = Address(t, map[d])
    BY <1>1, <2>2 DEF Covers
  <2>4. d \in places /\ place <= d
    BY <1>3, <1>4, <1>7, <2>3
  <2>5. map[place] <= map[d] /\ map[d] \in Nat
    <3>1. place < d => map[place] < map[d]
      BY <1>1, <1>5 DEF InOrder
    <3>2. map[d] \in Nat /\ d \in Nat /\ place \in Nat
      BY <1>1
    <3>3. place < d \/ place = d
      BY <2>4, <3>2
    <3> QED  BY <2>1, <3>1, <3>2, <3>3
  <2> QED  BY <2>1, <2>3, <2>5
<1>8. Address(t, 0) = Entry
  BY <1>1
<1>9. AddressFirst(t, DrainTo(map, place))
  BY <1>5, <1>6, <1>7, <1>8 DEF AddressFirst
<1>10. QED  BY <1>2, <1>9

\* Drained to the first matching row.
LEMMA DrainedToMatch ==
  ASSUME NEW t, NEW u, EntryCount(t) \in Nat, NEW map, map = StartMap(t, u)
  PROVE  /\ Matching(t, u) # {} => FirstMatch(DrainTo(map, ConditionPlace(t, map)), Matching(t, u))
         /\ ConditionPlace(t, map) \in 0..Len(map)
<1>1. InOrder(map, t) /\ map \in Seq(Nat) /\ Len(map) \in Nat
  BY StartMapStarts DEF InOrder
<1>2. PICK place \in 0..Len(map) : place = ConditionPlace(t, map)
  BY <1>1, ConditionPlaceFirst DEF FirstOf
<1>3. PICK places : places = {d \in 1..Len(map) : Matches(t, map[d])}
  OBVIOUS
<1>4. FirstOf(place, map, places)
  BY <1>1, <1>2, <1>3, ConditionPlaceFirst
<1>5. ASSUME NEW r \in Matching(t, u) PROVE \E d \in places : map[d] = r
  BY <1>1, <1>3 DEF Matching, Range
<1>6. ASSUME Matching(t, u) # {} PROVE FirstMatch(DrainTo(map, place), Matching(t, u))
  <2>1. place # 0 /\ place \in places /\ \A e \in places : place <= e
    BY <1>4, <1>5, <1>6 DEF FirstOf
  <2>2. DrainTo(map, place) # <<>> /\ DrainTo(map, place)[1] = map[place]
    BY <1>1, <2>1, DrainedInOrder
  <2>3. map[place] \in Matching(t, u)
    BY <1>1, <1>3, <2>1 DEF Matching, Range
  <2>4. ASSUME NEW r \in Matching(t, u) PROVE map[place] <= r
    <3>1. PICK d \in places : map[d] = r
      BY <1>5
    <3>2. d \in 1..Len(map) /\ place \in 1..Len(map) /\ place <= d
      BY <1>3, <2>1
    <3>3. place < d => map[place] < map[d]
      BY <1>1, <3>2 DEF InOrder
    <3>4. map[d] \in Nat /\ map[place] \in Nat
      BY <1>1, <3>2
    <3>5. place < d \/ place = d
      BY <3>2
    <3> QED  BY <3>1, <3>3, <3>4, <3>5
  <2> QED  BY <2>2, <2>3, <2>4 DEF FirstMatch
<1>7. QED  BY <1>2, <1>6

LEMMA HeadPlace ==
  ASSUME NEW t, NEW map \in Seq(Nat), NEW x
  PROVE  /\ AddressPlace(t, FirstRows(map), x) \in Nat
         /\ AddressPlace(t, FirstRows(map), x) > 0 =>
              \E d \in 1..Len(map) : Address(t, map[d]) = x
         /\ AddressPlace(t, FirstRows(map), x) = 0 =>
              \A d \in 1..HeadRows : d <= Len(map) => Address(t, map[d]) # x
<1>1. PICK n \in 0..Len(map) : n = (IF Len(map) < HeadRows THEN Len(map) ELSE HeadRows)
  <2>1. Len(map) \in Nat
    OBVIOUS
  <2> QED  BY <2>1, HeadRowsAssumption
<1>2. PICK head : head = FirstRows(map)
  OBVIOUS
<1>3. /\ head \in Seq(Nat) /\ Len(head) = n
      /\ \A d \in 1..n : d \in 1..Len(map) /\ head[d] = map[d]
  <2>1. head = SubSeq(map, 1, n)
    BY <1>1, <1>2 DEF FirstRows
  <2>2. Len(SubSeq(map, 1, n)) = n
    BY CutIs
  <2>3. \A d \in 1..n : d + 1 - 1 = d
    OBVIOUS
  <2> QED  BY <2>1, <2>2, <2>3, CutIs
<1>4. PICK places : places = {d \in 1..Len(head) : Address(t, head[d]) = x}
  OBVIOUS
<1>5. FirstOf(AddressPlace(t, head, x), head, places)
  BY <1>3, <1>4, AddressPlaceFirst
<1>6. AddressPlace(t, head, x) \in Nat
  BY <1>3, <1>5 DEF FirstOf
<1>7. ASSUME AddressPlace(t, head, x) > 0 PROVE \E d \in 1..Len(map) : Address(t, map[d]) = x
  <2>1. AddressPlace(t, head, x) \in places
    BY <1>5, <1>6, <1>7 DEF FirstOf
  <2>2. PICK d \in 1..n : Address(t, head[d]) = x
    BY <1>3, <1>4, <2>1
  <2> QED  BY <1>3, <2>2
<1>8. ASSUME AddressPlace(t, head, x) = 0, NEW d \in 1..HeadRows, d <= Len(map)
      PROVE  Address(t, map[d]) # x
  <2>1. places = {}
    BY <1>5, <1>8 DEF FirstOf
  <2>2. d \in 1..n
    BY <1>1, <1>8, HeadRowsAssumption
  <2> QED  BY <1>3, <1>4, <2>1, <2>2
<1>9. QED  BY <1>2, <1>6, <1>7, <1>8

\* Drained to an address it has.
LEMMA DrainedToAddress ==
  ASSUME NEW t, NEW map, InOrder(map, t), NEW x, \E d \in 1..Len(map) : Address(t, map[d]) = x
  PROVE  LET place == AddressPlace(t, map, x)
         IN  /\ place \in 0..Len(map)
             /\ DrainTo(map, place) # <<>>
             /\ Address(t, DrainTo(map, place)[1]) = x
             /\ Address(t, map[1]) = x => DrainTo(map, place) = map
<1>1. map \in Seq(Nat) /\ Len(map) \in Nat
  BY DEF InOrder
<1>2. PICK place : place = AddressPlace(t, map, x)
  OBVIOUS
<1>3. PICK places : places = {d \in 1..Len(map) : Address(t, map[d]) = x}
  OBVIOUS
<1>4. FirstOf(place, map, places) /\ places # {}
  BY <1>1, <1>2, <1>3, AddressPlaceFirst
<1>5. place \in 0..Len(map) /\ place # 0 /\ place \in places /\ \A e \in places : place <= e
  BY <1>4 DEF FirstOf
<1>6. place \in 1..Len(map) /\ Address(t, map[place]) = x
  BY <1>3, <1>5
<1>7. Address(t, map[1]) = x => place = 1
  <2>1. Address(t, map[1]) = x => 1 \in places
    BY <1>1, <1>3, <1>6
  <2> QED  BY <1>1, <1>5, <1>6, <2>1
<1>8. QED  BY <1>2, <1>5, <1>6, <1>7, DrainedInOrder

\* What CommonAddress says of two whole maps that start differently.
LEMMA CommonAddressIs ==
  ASSUME AlignInv, stage = "sync", HasAddresses, BothNonEmpty
  PROVE  /\ map_a[1] = 0 /\ map_b[1] = 0
         /\ CommonAddress # None =>
              /\ \E d \in 1..Len(map_a) : Address(pair.a, map_a[d]) = CommonAddress
              /\ \E d \in 1..Len(map_b) : Address(pair.b, map_b[d]) = CommonAddress
              /\ CommonAddress \in {StartA, StartB}
         /\ CommonAddress = None =>
              Apart(pair.a, pair.b, StartB) /\ Apart(pair.b, pair.a, StartA)
<1>1. /\ map_a = StartMap(pair.a, pair.b) /\ map_b = StartMap(pair.b, pair.a)
      /\ map_a \in Seq(Nat) /\ map_b \in Seq(Nat) /\ map_a # <<>> /\ map_b # <<>>
      /\ map_a[1] = 0 /\ map_b[1] = 0 /\ pair \in Pairs
  BY StartMaps, StartMapStarts DEF AlignInv, MapIs, InOrder, BothNonEmpty
<1>2. 1 \in 1..Len(map_a) /\ 1 \in 1..Len(map_b)
  BY <1>1
<1>3. StartA # None /\ StartB # None
  <2>1. map_a[1] \in Rows(pair.a) /\ map_b[1] \in Rows(pair.b)
    BY <1>2 DEF AlignInv, MapIs, InOrder
  <2> QED  BY <1>1, <2>1, NoneAssumption DEF StartA, StartB, HasAddresses
<1>4. CASE AddressPlace(pair.a, FirstRows(map_a), StartB) > 0
  <2>1. CommonAddress = StartB
    BY <1>4 DEF CommonAddress
  <2>2. \E d \in 1..Len(map_a) : Address(pair.a, map_a[d]) = StartB
    <3>1. map_a \in Seq(Nat)
      BY <1>1
    <3>2. AddressPlace(pair.a, FirstRows(map_a), StartB) > 0 =>
            \E d \in 1..Len(map_a) : Address(pair.a, map_a[d]) = StartB
      BY <3>1, HeadPlace
    <3> QED  BY <1>4, <3>2
  <2>3. Address(pair.b, map_b[1]) = StartB
    BY DEF StartB
  <2> QED  BY <1>1, <1>2, <1>3, <2>1, <2>2, <2>3
<1>5. CASE /\ ~(AddressPlace(pair.a, FirstRows(map_a), StartB) > 0)
           /\ AddressPlace(pair.b, FirstRows(map_b), StartA) > 0
  <2>1. CommonAddress = StartA
    BY <1>5 DEF CommonAddress
  <2>2. \E d \in 1..Len(map_b) : Address(pair.b, map_b[d]) = StartA
    <3>1. map_b \in Seq(Nat)
      BY <1>1
    <3>2. AddressPlace(pair.b, FirstRows(map_b), StartA) > 0 =>
            \E d \in 1..Len(map_b) : Address(pair.b, map_b[d]) = StartA
      BY <3>1, HeadPlace
    <3> QED  BY <1>5, <3>2
  <2>3. Address(pair.a, map_a[1]) = StartA
    BY DEF StartA
  <2> QED  BY <1>1, <1>2, <1>3, <2>1, <2>2, <2>3
<1>6. CASE /\ ~(AddressPlace(pair.a, FirstRows(map_a), StartB) > 0)
           /\ ~(AddressPlace(pair.b, FirstRows(map_b), StartA) > 0)
  <2>1. CommonAddress = None
    BY <1>6 DEF CommonAddress
  <2>2. /\ AddressPlace(pair.a, FirstRows(map_a), StartB) \in Nat
        /\ AddressPlace(pair.b, FirstRows(map_b), StartA) \in Nat
    BY <1>1, HeadPlace
  <2>3. /\ AddressPlace(pair.a, FirstRows(map_a), StartB) = 0
        /\ AddressPlace(pair.b, FirstRows(map_b), StartA) = 0
    BY <1>6, <2>2
  <2>4. /\ \A d \in 1..HeadRows : d <= Len(map_a) => Address(pair.a, map_a[d]) # StartB
        /\ \A d \in 1..HeadRows : d <= Len(map_b) => Address(pair.b, map_b[d]) # StartA
    BY <1>1, <2>3, HeadPlace
  <2>5. Apart(pair.a, pair.b, StartB) /\ Apart(pair.b, pair.a, StartA)
    BY <1>1, <2>4 DEF Apart
  <2> QED  BY <1>1, <2>1, <2>5
<1>7. QED  BY <1>4, <1>5, <1>6

LEMMA PcAligns ==
  ASSUME AlignInv, SyncPc
  PROVE  AlignInv'
<1>1. /\ stage = "sync" /\ stage' = "truncate" /\ pair' = pair /\ pair \in Pairs
      /\ InOrder(map_a, pair.a) /\ InOrder(map_b, pair.b)
      /\ MapIs(map_a, pair.a, pair.b) /\ MapIs(map_b, pair.b, pair.a)
      /\ pair.sync.mode \notin {"cartridge", "condition"}
  BY DEF AlignInv, SyncPc, MapIs
<1>2. CASE HasAddresses /\ BothNonEmpty /\ StartA # StartB /\ CommonAddress # None
  <2>1. PICK x : x = CommonAddress
    OBVIOUS
  <2>2. /\ \E d \in 1..Len(map_a) : Address(pair.a, map_a[d]) = x
        /\ \E d \in 1..Len(map_b) : Address(pair.b, map_b[d]) = x
        /\ x \in {Address(pair.a, map_a[1]), Address(pair.b, map_b[1])}
        /\ map_a[1] = 0 /\ map_b[1] = 0
    BY <1>1, <1>2, <2>1, CommonAddressIs DEF StartA, StartB
  <2>3. PICK p : p = AddressPlace(pair.a, map_a, x)
    OBVIOUS
  <2>4. PICK q : q = AddressPlace(pair.b, map_b, x)
    OBVIOUS
  <2>5. map_a' = DrainTo(map_a, p) /\ map_b' = DrainTo(map_b, q)
    BY <1>2, <2>1, <2>3, <2>4 DEF SyncPc
  <2>6. /\ p \in 0..Len(map_a) /\ Address(pair.a, map_a'[1]) = x
        /\ Address(pair.a, map_a[1]) = x => map_a' = map_a
    BY <1>1, <2>2, <2>3, <2>5, DrainedToAddress
  <2>7. /\ q \in 0..Len(map_b) /\ Address(pair.b, map_b'[1]) = x
        /\ Address(pair.b, map_b[1]) = x => map_b' = map_b
    BY <1>1, <2>2, <2>4, <2>5, DrainedToAddress
  <2>8. StartedTogether(map_a', map_b')
    BY <2>2, <2>6, <2>7 DEF StartedTogether
  <2>9. Started(map_a', map_b')
    BY <1>1, <2>8 DEF Started
  <2>10. MapIs(map_a', pair.a, pair.b) /\ MapIs(map_b', pair.b, pair.a)
    BY <1>1, <2>5, <2>6, <2>7, Drained
  <2>11. Started(map_a, map_b)'
    BY <1>1, <2>9 DEF Started, StartedTogether, HasAddresses
  <2> QED  BY <1>1, <2>10, <2>11 DEF AlignInv
<1>3. CASE ~(HasAddresses /\ BothNonEmpty /\ StartA # StartB /\ CommonAddress # None)
  <2>1. UNCHANGED <<map_a, map_b>>
    BY <1>3 DEF SyncPc
  <2>2. ASSUME HasAddresses, map_a # <<>>, map_b # <<>> PROVE StartedTogether(map_a, map_b)
    <3>1. BothNonEmpty
      BY <2>2 DEF BothNonEmpty
    <3>2. map_a[1] = 0 /\ map_b[1] = 0
      BY <1>1, <2>2, <3>1, CommonAddressIs
    <3>3. StartA = StartB \/ (Apart(pair.a, pair.b, StartB) /\ Apart(pair.b, pair.a, StartA))
      BY <1>1, <1>3, <2>2, <3>1, CommonAddressIs
    <3> QED  BY <3>2, <3>3 DEF StartedTogether, StartA, StartB
  <2>3. Started(map_a, map_b)
    BY <1>1, <2>2 DEF Started
  <2>4. Started(map_a, map_b)'
    BY <1>1, <2>1, <2>3 DEF Started, StartedTogether, HasAddresses, Apart
  <2> QED  BY <1>1, <2>1, <2>4 DEF AlignInv
<1>4. QED  BY <1>2, <1>3

LEMMA CartridgeAligns ==
  ASSUME AlignInv, SyncCartridge
  PROVE  AlignInv'
<1>1. /\ stage' = "truncate" /\ pair' = pair /\ pair \in Pairs
      /\ map_a = StartMap(pair.a, pair.b) /\ map_b = StartMap(pair.b, pair.a)
      /\ map_a # <<>> /\ map_b # <<>>
      /\ MapIs(map_a, pair.a, pair.b) /\ MapIs(map_b, pair.b, pair.a)
      /\ pair.sync.mode \in {"auto", "cartridge"}
      /\ EntryCount(pair.a) \in Nat /\ EntryCount(pair.b) \in Nat
  BY StartMaps DEF AlignInv, SyncCartridge, AtCartridgeEntry, BothNonEmpty
<1>2. PICK a : a = DrainTo(map_a, AddressPlace(pair.a, map_a, AfterEntry))
  OBVIOUS
<1>3. PICK b : b = DrainTo(map_b, AddressPlace(pair.b, map_b, AfterEntry))
  OBVIOUS
<1>4. /\ Address(pair.a, map_a[1]) = Entry /\ AddressPlace(pair.a, map_a, AfterEntry) > 0
      /\ Address(pair.b, map_b[1]) = Entry /\ AddressPlace(pair.b, map_b, AfterEntry) > 0
  BY DEF SyncCartridge, AtCartridgeEntry, StartA, StartB
<1>5. map_a' = a /\ map_b' = b
  BY <1>2, <1>3 DEF SyncCartridge
<1>6. AddressFirst(pair.a, a) /\ MapIs(a, pair.a, pair.b)
  BY <1>1, <1>2, <1>4, DrainedToEntry, Drained
<1>7. AddressFirst(pair.b, b) /\ MapIs(b, pair.b, pair.a)
  BY <1>1, <1>3, <1>4, DrainedToEntry, Drained
<1>8. Started(a, b)
  BY <1>1, <1>6, <1>7 DEF Started
<1>9. Started(map_a, map_b)'
  BY <1>1, <1>5, <1>8 DEF Started
<1>10. QED  BY <1>1, <1>5, <1>6, <1>7, <1>9 DEF AlignInv

LEMMA ConditionAligns ==
  ASSUME AlignInv, SyncCondition
  PROVE  AlignInv'
<1>1. /\ stage' = "truncate" /\ pair' = pair /\ pair \in Pairs
      /\ map_a = StartMap(pair.a, pair.b) /\ map_b = StartMap(pair.b, pair.a)
      /\ MapIs(map_a, pair.a, pair.b) /\ MapIs(map_b, pair.b, pair.a)
      /\ pair.sync.mode = "condition"
      /\ EntryCount(pair.a) \in Nat /\ EntryCount(pair.b) \in Nat
  BY StartMaps DEF AlignInv, SyncCondition
<1>2. PICK a : a = DrainTo(map_a, ConditionPlace(pair.a, map_a))
  OBVIOUS
<1>3. PICK b : b = DrainTo(map_b, ConditionPlace(pair.b, map_b))
  OBVIOUS
<1>4. map_a' = a /\ map_b' = b
  BY <1>2, <1>3 DEF SyncCondition
<1>5. /\ MapIs(a, pair.a, pair.b)
      /\ Matching(pair.a, pair.b) # {} => FirstMatch(a, Matching(pair.a, pair.b))
  BY <1>1, <1>2, DrainedToMatch, Drained
<1>6. /\ MapIs(b, pair.b, pair.a)
      /\ Matching(pair.b, pair.a) # {} => FirstMatch(b, Matching(pair.b, pair.a))
  BY <1>1, <1>3, DrainedToMatch, Drained
<1>7. Started(a, b)
  BY <1>1, <1>5, <1>6 DEF Started
<1>8. Started(map_a, map_b)'
  BY <1>1, <1>4, <1>7 DEF Started, Matching, Matches
<1>9. QED  BY <1>1, <1>4, <1>5, <1>6, <1>8 DEF AlignInv

LEMMA TruncateAligns ==
  ASSUME AlignInv, Truncate
  PROVE  AlignInv'
<1>1. /\ stage' = "ready" /\ pair' = pair /\ pair \in Pairs /\ Started(map_a, map_b)
      /\ MapIs(map_a, pair.a, pair.b) /\ MapIs(map_b, pair.b, pair.a)
      /\ map_a \in Seq(Nat) /\ map_b \in Seq(Nat)
  BY DEF AlignInv, Truncate, MapIs, InOrder
<1>2. PICK len \in Nat : len = (IF Len(map_a) < Len(map_b) THEN Len(map_a) ELSE Len(map_b))
  <2>1. Len(map_a) \in Nat /\ Len(map_b) \in Nat
    BY <1>1
  <2> QED  BY <2>1
<1>3. len \in 0..Len(map_a) /\ len \in 0..Len(map_b)
  <2>1. Len(map_a) \in Nat /\ Len(map_b) \in Nat
    BY <1>1
  <2> QED  BY <1>2, <2>1
<1>4. PICK a : a = SubSeq(map_a, 1, len)
  OBVIOUS
<1>5. PICK b : b = SubSeq(map_b, 1, len)
  OBVIOUS
<1>6. map_a' = a /\ map_b' = b
  BY <1>2, <1>4, <1>5 DEF Truncate
<1>7. MapIs(a, pair.a, pair.b) /\ MapIs(b, pair.b, pair.a)
  BY <1>1, <1>3, <1>4, <1>5, CutInOrder DEF MapIs
<1>8. /\ Len(a) = len /\ (len > 0 => a # <<>> /\ a[1] = map_a[1])
      /\ Len(b) = len /\ (len > 0 => b # <<>> /\ b[1] = map_b[1])
      /\ (len = 0 => a = <<>> /\ b = <<>>)
  <2>2. Len(a) = len /\ (len > 0 => a # <<>> /\ a[1] = map_a[1]) /\ (len = 0 => a = <<>>)
    BY <1>1, <1>3, <1>4, CutPrefix
  <2>3. Len(b) = len /\ (len > 0 => b # <<>> /\ b[1] = map_b[1]) /\ (len = 0 => b = <<>>)
    BY <1>1, <1>3, <1>5, CutPrefix
  <2> QED  BY <2>2, <2>3
<1>9. (map_a # <<>> /\ map_b # <<>>) => len > 0
  BY <1>1, <1>2
<1>10. Started(a, b)
  <2>1. ASSUME pair.sync.mode = "cartridge" PROVE AddressFirst(pair.a, a) /\ AddressFirst(pair.b, b)
    BY <1>1, <1>8, <1>9, <2>1 DEF Started, AddressFirst
  <2>2. ASSUME pair.sync.mode = "pc", HasAddresses, a # <<>>, b # <<>> PROVE StartedTogether(a, b)
    <3>1. len > 0 /\ map_a # <<>> /\ map_b # <<>>
      BY <1>3, <1>8, <2>2
    <3>2. StartedTogether(map_a, map_b)
      BY <1>1, <2>2, <3>1 DEF Started
    <3> QED  BY <1>8, <3>1, <3>2 DEF StartedTogether
  <2>3. ASSUME pair.sync.mode = "condition",
               Matching(pair.a, pair.b) # {}, Matching(pair.b, pair.a) # {}
        PROVE  /\ FirstMatch(a, Matching(pair.a, pair.b))
               /\ FirstMatch(b, Matching(pair.b, pair.a))
    BY <1>1, <1>8, <1>9, <2>3 DEF Started, FirstMatch
  <2> QED  BY <2>1, <2>2, <2>3 DEF Started
<1>11. Started(map_a, map_b)'
  BY <1>1, <1>6, <1>10
     DEF Started, StartedTogether, HasAddresses, Apart, Matching, Matches
<1>12. QED  BY <1>1, <1>6, <1>7, <1>8, <1>11 DEF AlignInv

\* The steps that leave the maps alone, whatever the stage they lead to.
LEMMA MapsStay ==
  ASSUME AlignInv, UNCHANGED <<pair, map_a, map_b>>,
         \/ stage' \in {"error", "panicked"}
         \/ stage = "sync" /\ stage' = "truncate" /\ pair.sync.mode \notin {"cartridge", "pc", "condition"}
         \/ UNCHANGED stage
  PROVE  AlignInv'
<1>1. /\ pair' \in Pairs /\ stage' \in {"collapse", "sync", "truncate", "ready", "error", "panicked"}
      /\ MapIs(map_a', pair'.a, pair'.b) /\ MapIs(map_b', pair'.b, pair'.a)
      /\ stage' = "sync" => map_a' = StartMap(pair'.a, pair'.b) /\ map_b' = StartMap(pair'.b, pair'.a)
      /\ stage' = "ready" => Len(map_a') = Len(map_b')
  BY DEF AlignInv
<1>2. ASSUME stage' \in {"truncate", "ready"} PROVE Started(map_a, map_b)
  BY <1>2 DEF AlignInv, Started
<1>3. Started(map_a, map_b) => Started(map_a, map_b)'
  BY DEF Started, StartedTogether, HasAddresses, Apart, Matching, Matches
<1>4. QED  BY <1>1, <1>2, <1>3 DEF AlignInv

LEMMA AlignStep == AlignInv /\ [Next]_vars => AlignInv'
<1> SUFFICES ASSUME AlignInv, [Next]_vars PROVE AlignInv'
  OBVIOUS
<1>1. CASE Collapse
  <2>1. /\ pair' = pair /\ pair \in Pairs /\ stage' = "sync"
        /\ map_a' = StartMap(pair.a, pair.b) /\ map_b' = StartMap(pair.b, pair.a)
    BY <1>1 DEF AlignInv, Collapse
  <2>2. MapIs(map_a', pair.a, pair.b) /\ MapIs(map_b', pair.b, pair.a)
    BY <2>1, StartMaps
  <2> QED  BY <2>1, <2>2 DEF AlignInv
<1>2. CASE CollapseFails
  BY <1>2, MapsStay DEF CollapseFails
<1>3. CASE SyncNone
  BY <1>3, MapsStay DEF SyncNone
<1>4. CASE SyncCartridge
  BY <1>4, CartridgeAligns
<1>5. CASE SyncCartridgeFails
  BY <1>5, MapsStay DEF SyncCartridgeFails
<1>6. CASE SyncPc
  BY <1>6, PcAligns
<1>7. CASE SyncCondition
  BY <1>7, ConditionAligns
<1>8. CASE SyncMalformed
  BY <1>8, MapsStay DEF SyncMalformed
<1>9. CASE Truncate
  BY <1>9, TruncateAligns
<1>10. ASSUME NEW filter \in Filters, ComputeStatsFiltered(filter) PROVE AlignInv'
  BY <1>10, MapsStay DEF ComputeStatsFiltered
<1>11. ASSUME NEW filter \in Filters \cup {None}, ComputeStatsPanics(filter) PROVE AlignInv'
  BY <1>11, MapsStay DEF ComputeStatsPanics
<1>12. CASE OverallMatchPct
  BY <1>12, MapsStay DEF OverallMatchPct
<1>13. CASE UNCHANGED vars
  BY <1>13, MapsStay DEF vars
<1>14. QED
  BY <1>1, <1>2, <1>3, <1>4, <1>5, <1>6, <1>7, <1>8, <1>9, <1>10, <1>11, <1>12, <1>13 DEF Next

LEMMA AlignInit == Init => AlignInv
BY EmptyMap DEF Init, AlignInv

\* The invariant of alignment (TraceComparison::align): at every stage both maps
\* are rows of their traces in order, collapsed where the rates differ, and once
\* aligned they start where the sync mode says.
THEOREM ComparisonAligned == Spec => []AlignInv
BY AlignInit, AlignStep, PTL DEF Spec

LEMMA AlignedInOrder == AlignInv => MapsInOrder
<1> SUFFICES ASSUME AlignInv PROVE MapsInOrder
  OBVIOUS
<1>1. ASSUME NEW map, NEW t, InOrder(map, t) PROVE Increasing(map, t)
  <2>1. Len(map) \in Nat
    BY <1>1 DEF InOrder
  <2> QED  BY <1>1, <2>1 DEF InOrder, Increasing
<1>2. Increasing(map_a, pair.a) /\ Increasing(map_b, pair.b)
  BY <1>1 DEF AlignInv, MapIs
<1>3. pair.a.trigger # pair.b.trigger =>
        Instructions(map_a, pair.a) /\ Instructions(map_b, pair.b)
  BY DEF AlignInv, MapIs, Collapses
<1>4. stage = "ready" => Len(map_a) = Len(map_b)
  BY DEF AlignInv
<1>5. QED  BY <1>2, <1>3, <1>4 DEF MapsInOrder, Instructions

\* Every pair of traces and sync mode: comparing rows one for one compares
\* instructions one for one when the rates differ.
THEOREM ComparisonMapsInOrder == Spec => []MapsInOrder
BY ComparisonAligned, AlignedInOrder, PTL

LEMMA AlignedStarts == AlignInv => StartsWhereAsked
<1> SUFFICES ASSUME AlignInv PROVE StartsWhereAsked
  OBVIOUS
<1>1. StartsAfterEntry
  BY DEF AlignInv, Started, StartsAfterEntry, Ready, AddressFirst
<1>2. StartsTogether
  BY DEF AlignInv, Started, StartsTogether, Ready, StartedTogether, Apart, StartA, StartB, BothNonEmpty
<1>3. StartsAtCondition
  BY DEF AlignInv, Started, StartsAtCondition, Ready, Matching, FirstMatch
<1>4. QED  BY <1>1, <1>2, <1>3 DEF StartsWhereAsked

\* Every sync mode aligns the traces where it says, and drops rows of the side
\* that runs ahead only.
THEOREM ComparisonStartsWhereAsked == Spec => []StartsWhereAsked
BY ComparisonAligned, AlignedStarts, PTL

-----------------------------------------------------------------------------
(* Statistics.                                                             *)

\* The rows of a map climb at least as fast as its places.
LEMMA MapClimbs ==
  ASSUME NEW t, NEW map, InOrder(map, t), NEW d \in 1..Len(map), NEW e \in d..Len(map)
  PROVE  map[d] + (e - d) <= map[e]
<1> DEFINE S == {n \in Nat : d + n <= Len(map) => map[d] + n <= map[d + n]}
<1>1. map \in Seq(Nat) /\ Len(map) \in Nat /\ \A k \in 1..Len(map) : map[k] \in Nat
  BY DEF InOrder
<1>2. 0 \in S
  BY <1>1
<1>3. ASSUME NEW n \in S PROVE n + 1 \in S
  <2>1. SUFFICES ASSUME d + (n + 1) <= Len(map) PROVE map[d] + (n + 1) <= map[d + (n + 1)]
    OBVIOUS
  <2>2. PICK k \in Nat : k = d + n
    BY <1>1
  <2>3. k \in 1..Len(map) /\ k + 1 \in 1..Len(map) /\ k + 1 = d + (n + 1)
    BY <1>1, <2>1, <2>2
  <2>4. map[k] < map[k + 1]
    BY <2>3 DEF InOrder
  <2>5. map[d] + n <= map[k]
    BY <1>1, <2>2, <2>3
  <2>6. map[k] \in Nat /\ map[k + 1] \in Nat /\ map[d] \in Nat /\ n \in Nat
    BY <1>1, <2>3
  <2>7. PICK first \in Nat : first = map[d]
    BY <2>6
  <2>8. PICK this \in Nat : this = map[k]
    BY <2>6
  <2>9. PICK next \in Nat : next = map[k + 1]
    BY <2>6
  <2>10. first + n <= this /\ this < next
    BY <2>4, <2>5, <2>7, <2>8, <2>9
  <2>11. first + (n + 1) <= next
    BY <2>6, <2>10
  <2>12. map[d + (n + 1)] = next
    BY <2>3, <2>9
  <2> QED  BY <2>7, <2>11, <2>12
<1>4. S = Nat
  <2> HIDE DEF S
  <2>1. S \in SUBSET Nat
    BY DEF S
  <2> QED  BY <1>2, <1>3, <2>1, Induction
<1>5. e - d \in Nat /\ d + (e - d) = e /\ e <= Len(map)
  BY <1>1
<1>6. e - d \in S
  <2> HIDE DEF S
  <2> QED  BY <1>4, <1>5
<1>7. QED  BY <1>5, <1>6

LEMMA ContiguousIs ==
  ASSUME NEW t, NEW map, InOrder(map, t), IsContiguous(map), NEW d \in 1..Len(map)
  PROVE  map[d] = Start(map) + (d - 1)
<1>1. map \in Seq(Nat) /\ Len(map) \in Nat /\ \A k \in 1..Len(map) : map[k] \in Nat
  BY DEF InOrder
<1>2. map # <<>> /\ 1 \in 1..Len(map) /\ Len(map) \in 1..Len(map)
  BY <1>1
<1>3. map[Len(map)] = map[1] + Len(map) - 1 /\ Start(map) = map[1]
  BY <1>2 DEF IsContiguous, Start
<1>4. map[1] + (d - 1) <= map[d]
  BY <1>1, <1>2, MapClimbs
<1>5. map[d] + (Len(map) - d) <= map[Len(map)]
  BY <1>1, <1>2, MapClimbs
<1>6. map[1] \in Nat /\ map[d] \in Nat /\ map[Len(map)] \in Nat
  BY <1>1, <1>2
<1>7. PICK first \in Nat : first = map[1]
  BY <1>6
<1>8. PICK this \in Nat : this = map[d]
  BY <1>6
<1>9. PICK last \in Nat : last = map[Len(map)]
  BY <1>6
<1>10. PICK L \in Nat : L = Len(map)
  BY <1>1
<1>11. last = first + L - 1 /\ first + (d - 1) <= this /\ this + (L - d) <= last
  BY <1>3, <1>4, <1>5, <1>7, <1>8, <1>9, <1>10
<1>12. this = first + (d - 1)
  BY <1>11
<1>13. QED  BY <1>3, <1>7, <1>8, <1>12

LEMMA PartOfInterval ==
  ASSUME NEW L \in Nat, NEW low \in {0, 1}, NEW D \in SUBSET (low..low + L - 1)
  PROVE  IsFiniteSet(D) /\ Cardinality(D) \in Nat /\ Cardinality(D) <= L
<1>1. IsFiniteSet(low..low + L - 1) /\ Cardinality(low..low + L - 1) = L
  <2>1. low \in Int /\ low + L - 1 \in Int
    OBVIOUS
  <2> QED  BY <2>1, FS_Interval
<1>2. QED  BY <1>1, FS_Subset, FS_CardinalityType

\* Places of a map counted from 1 and rows of a range counted from 0.
LEMMA SameCount ==
  ASSUME NEW L \in Nat, NEW D \in SUBSET (1..L), NEW K \in SUBSET (0..L - 1),
         \A d \in 1..L : d \in D <=> d - 1 \in K
  PROVE  Cardinality(K) = Cardinality(D)
<1> DEFINE shift == [d \in D |-> d - 1]
<1>1. IsFiniteSet(D)
  <2>1. IsFiniteSet(1..L)
    BY FS_Interval
  <2> QED  BY <2>1, FS_Subset
<1>2. ASSUME NEW k \in K PROVE k + 1 \in D /\ (k + 1) - 1 = k
  <2>1. k \in 0..L - 1
    OBVIOUS
  <2>2. k + 1 \in 1..L /\ (k + 1) - 1 = k
    BY <2>1
  <2> QED  BY <2>2
<1>3. shift \in Bijection(D, K)
  <2>1. \A d \in D : d - 1 \in K
    OBVIOUS
  <2>2. \A d, e \in D : d - 1 = e - 1 => d = e
    OBVIOUS
  <2>3. shift \in [D -> K]
    BY <2>1
  <2>4. \A d, e \in D : shift[d] = shift[e] => d = e
    BY <2>2
  <2>5. \A k \in K : \E d \in D : shift[d] = k
    BY <1>2
  <2> HIDE DEF shift
  <2> QED  BY <2>3, <2>4, <2>5 DEF Bijection, Injection, Surjection, IsInjective
<1>4. ExistsBijection(D, K)
  BY <1>3 DEF ExistsBijection
<1>5. QED  BY <1>1, <1>4, FS_Bijection

\* Maps that are ranges have the rows of the ranges.
LEMMA RangesAre ==
  ASSUME AlignInv, stage = "ready", Contiguous, NEW d \in 1..Len(map_a)
  PROVE  /\ d \in 1..Len(map_b)
         /\ map_a[d] = Start(map_a) + (d - 1)
         /\ map_b[d] = Start(map_b) + (d - 1)
BY ContiguousIs DEF AlignInv, MapIs, Contiguous

\* Counting along ranges is counting along the maps.
LEMMA RangeIsScalar ==
  ASSUME AlignInv, stage = "ready", Contiguous, NEW f
  PROVE  RangeDiffs(f) = ScalarDiffs(f)
<1>1. PICK L \in Nat : L = Len(map_a)
  BY DEF AlignInv, MapIs, InOrder
<1> DEFINE D == {d \in 1..L : FieldDiffers(f, d)}
           K == {k \in 0..L - 1 : RowsDiffer(f, Start(map_a) + k, Start(map_b) + k)}
<1>2. ASSUME NEW d \in 1..L PROVE d \in D <=> d - 1 \in K
  <2>1. map_a[d] = Start(map_a) + (d - 1) /\ map_b[d] = Start(map_b) + (d - 1)
    BY <1>1, RangesAre
  <2>2. d - 1 \in 0..L - 1
    OBVIOUS
  <2> QED  BY <2>1, <2>2 DEF FieldDiffers
<1>3. D \in SUBSET (1..L) /\ K \in SUBSET (0..L - 1)
  OBVIOUS
<1>4. Cardinality(K) = Cardinality(D)
  <2> HIDE DEF D, K
  <2> QED  BY <1>2, <1>3, SameCount
<1>5. QED  BY <1>1, <1>4 DEF RangeDiffs, ScalarDiffs

\* What the buffers hold is what the accessors report, but for a null in a
\* dictionary.
LEMMA StoredIsReported ==
  ASSUME NEW kind, NEW cell, NEW first, kind = "dict" => cell # Null
  PROVE  Stored(kind, cell, first) = Reported(Accessor(kind), kind, cell)
BY DEF Stored, Reported

\* In bulk a column of a known type, without dictionary nulls, is counted like
\* row by row.
LEMMA BulkIsScalar ==
  ASSUME AlignInv, stage = "ready", Contiguous, NEW f, Counted(f), NoDictionaryNulls(f)
  PROVE  BulkDiffs(f) = ScalarDiffs(f)
<1>1. PICK L \in Nat : L = Len(map_a)
  BY DEF AlignInv, MapIs, InOrder
<1> DEFINE D == {d \in 1..L : FieldDiffers(f, d)}
           K == {k \in 0..L - 1 : Counted(f) =>
                   StoredAt(pair.a, f, Start(map_a) + k) # StoredAt(pair.b, f, Start(map_b) + k)}
<1>2. ASSUME NEW d \in 1..L PROVE d \in D <=> d - 1 \in K
  <2>1. /\ d \in 1..Len(map_b)
        /\ map_a[d] = Start(map_a) + (d - 1) /\ map_b[d] = Start(map_b) + (d - 1)
    BY <1>1, RangesAre
  <2>2. /\ pair.a.kinds[f] = "dict" => Cell(pair.a, f, map_a[d]) # Null
        /\ pair.b.kinds[f] = "dict" => Cell(pair.b, f, map_b[d]) # Null
    BY <1>1, <2>1 DEF NoDictionaryNulls
  <2>3. /\ StoredAt(pair.a, f, map_a[d])
             = Reported(Accessor(pair.a.kinds[f]), pair.a.kinds[f], Cell(pair.a, f, map_a[d]))
        /\ StoredAt(pair.b, f, map_b[d])
             = Reported(Accessor(pair.b.kinds[f]), pair.b.kinds[f], Cell(pair.b, f, map_b[d]))
    BY <2>2, StoredIsReported DEF StoredAt
  <2>4. FieldDiffers(f, d) <=> StoredAt(pair.a, f, map_a[d]) # StoredAt(pair.b, f, map_b[d])
    BY <2>3 DEF FieldDiffers, RowsDiffer, Counted
  <2>5. d - 1 \in 0..L - 1
    OBVIOUS
  <2> QED  BY <2>1, <2>4, <2>5
<1>3. D \in SUBSET (1..L) /\ K \in SUBSET (0..L - 1)
  OBVIOUS
<1>4. Cardinality(K) = Cardinality(D)
  <2> HIDE DEF D, K
  <2> QED  BY <1>2, <1>3, SameCount
<1>5. QED  BY <1>1, <1>4 DEF BulkDiffs, ScalarDiffs

\* In bulk a column of another type counts as different in every row.
LEMMA UnknownDiffers ==
  ASSUME AlignInv, NEW f, ~Counted(f)
  PROVE  BulkDiffs(f) = Len(map_a)
<1>1. PICK L \in Nat : L = Len(map_a)
  BY DEF AlignInv, MapIs, InOrder
<1>2. BulkDiffs(f) = Cardinality(0..L - 1)
  BY <1>1 DEF BulkDiffs
<1>3. Cardinality(0..L - 1) = L
  <2>1. 0 \in Int /\ L - 1 \in Int
    OBVIOUS
  <2> QED  BY <2>1, FS_Interval
<1>4. QED  BY <1>1, <1>2, <1>3

\* A count as the statistics promise it.
CountsField(f, n) ==
  /\ n \in Nat
  /\ (InBulk => Counted(f) /\ NoDictionaryNulls(f)) => n = ScalarDiffs(f)
  /\ NoDictionaryNulls(f) => n >= ScalarDiffs(f)
  /\ n <= Len(map_a)

LEMMA DiffCounts ==
  ASSUME AlignInv, stage = "ready", NEW f
  PROVE  CountsField(f, DiffCount(f)) /\ Len(map_a) \in Nat
<1>1. PICK L \in Nat : L = Len(map_a)
  BY DEF AlignInv, MapIs, InOrder
<1>2. ScalarDiffs(f) \in Nat /\ ScalarDiffs(f) <= L
  <2>1. {d \in 1..L : FieldDiffers(f, d)} \in SUBSET (1..1 + L - 1)
    OBVIOUS
  <2> QED  BY <1>1, <2>1, PartOfInterval DEF ScalarDiffs
<1>3. CASE InBulk
  <2>1. Contiguous /\ DiffCount(f) = BulkDiffs(f)
    BY <1>3 DEF InBulk, DiffCount
  <2>2. BulkDiffs(f) \in Nat /\ BulkDiffs(f) <= L
    <3>1. {k \in 0..L - 1 : Counted(f) =>
             StoredAt(pair.a, f, Start(map_a) + k) # StoredAt(pair.b, f, Start(map_b) + k)}
            \in SUBSET (0..0 + L - 1)
      OBVIOUS
    <3> QED  BY <1>1, <3>1, PartOfInterval DEF BulkDiffs
  <2>3. Counted(f) /\ NoDictionaryNulls(f) => BulkDiffs(f) = ScalarDiffs(f)
    BY <2>1, BulkIsScalar
  <2>4. ~Counted(f) => BulkDiffs(f) = L
    BY <1>1, UnknownDiffers
  <2> QED  BY <1>1, <1>2, <1>3, <2>1, <2>2, <2>3, <2>4 DEF CountsField
<1>4. CASE ~InBulk
  <2>1. DiffCount(f) = ScalarDiffs(f)
    BY <1>4, RangeIsScalar DEF DiffCount
  <2> QED  BY <1>1, <1>2, <1>4, <2>1 DEF CountsField
<1>5. QED  BY <1>3, <1>4

\* A sum over a set of fields, as SumOf takes it.
Summed(g, stats, fields, s) ==
  g[s] = IF s = {} THEN 0
         ELSE stats[CHOOSE f \in s : TRUE] + g[s \ {CHOOSE f \in s : TRUE}]

LEMMA Smaller ==
  ASSUME NEW s, s # {}, IsFiniteSet(s)
  PROVE  /\ (CHOOSE f \in s : TRUE) \in s
         /\ Cardinality(s) \in Nat /\ Cardinality(s) # 0
         /\ Cardinality(s \ {CHOOSE f \in s : TRUE}) = Cardinality(s) - 1
<1>1. (CHOOSE f \in s : TRUE) \in s
  OBVIOUS
<1>2. QED  BY <1>1, FS_RemoveElement, FS_CardinalityType, FS_EmptySet

LEMMA SumsExist ==
  ASSUME NEW fields, IsFiniteSet(fields), NEW stats \in [fields -> Nat]
  PROVE  \E g \in [SUBSET fields -> Nat] : \A s \in SUBSET fields : Summed(g, stats, fields, s)
<1> DEFINE S == {n \in Nat : \E g \in [SUBSET fields -> Nat] :
                   \A s \in SUBSET fields : Cardinality(s) <= n => Summed(g, stats, fields, s)}
<1>1. \A s \in SUBSET fields : IsFiniteSet(s) /\ Cardinality(s) \in Nat
  BY FS_Subset, FS_CardinalityType
<1>2. 0 \in S
  <2> DEFINE g == [s \in SUBSET fields |-> 0]
  <2>1. \A s \in SUBSET fields : Cardinality(s) <= 0 => s = {}
    BY <1>1, FS_EmptySet
  <2>2. \A s \in SUBSET fields : Cardinality(s) <= 0 => Summed(g, stats, fields, s)
    BY <2>1 DEF Summed
  <2>3. g \in [SUBSET fields -> Nat]
    OBVIOUS
  <2> HIDE DEF g
  <2> QED  BY <2>2, <2>3
<1>3. ASSUME NEW n \in S PROVE n + 1 \in S
  <2>1. PICK g \in [SUBSET fields -> Nat] :
               \A s \in SUBSET fields : Cardinality(s) <= n => Summed(g, stats, fields, s)
    OBVIOUS
  <2>2. n \in Nat
    OBVIOUS
  <2> DEFINE sum(s) == IF s = {} THEN 0
                       ELSE stats[CHOOSE f \in s : TRUE] + g[s \ {CHOOSE f \in s : TRUE}]
             h == [s \in SUBSET fields |-> IF Cardinality(s) = n + 1 THEN sum(s) ELSE g[s]]
  <2>3. \A s \in SUBSET fields : sum(s) \in Nat
    <3>1. SUFFICES ASSUME NEW s \in SUBSET fields, s # {} PROVE sum(s) \in Nat
      OBVIOUS
    <3>2. PICK f \in s : f = CHOOSE x \in s : TRUE
      BY <3>1
    <3>3. stats[f] \in Nat /\ g[s \ {f}] \in Nat
      OBVIOUS
    <3> QED  BY <3>1, <3>2, <3>3
  <2>4. h \in [SUBSET fields -> Nat]
    <3> HIDE DEF sum
    <3> QED  BY <2>3
  <2>5. ASSUME NEW s \in SUBSET fields, Cardinality(s) <= n + 1 PROVE Summed(h, stats, fields, s)
    <3>1. CASE s = {}
      <4>1. Cardinality(s) # n + 1 /\ Cardinality(s) <= n
        BY <2>2, <3>1, FS_EmptySet
      <4> QED  BY <2>1, <3>1, <4>1 DEF Summed
    <3>2. CASE s # {}
      <4>1. PICK f : f = CHOOSE x \in s : TRUE
        OBVIOUS
      <4>2. f \in s /\ Cardinality(s \ {f}) = Cardinality(s) - 1 /\ Cardinality(s) \in Nat
        BY <1>1, <3>2, <4>1, Smaller
      <4>3. s \ {f} \in SUBSET fields /\ Cardinality(s \ {f}) # n + 1
        BY <2>2, <2>5, <4>2
      <4>4. h[s \ {f}] = g[s \ {f}]
        BY <4>3
      <4>5. h[s] = stats[f] + g[s \ {f}]
        <5>1. CASE Cardinality(s) = n + 1
          BY <3>2, <4>1, <5>1
        <5>2. CASE Cardinality(s) # n + 1
          <6>1. Cardinality(s) <= n
            BY <2>2, <2>5, <4>2, <5>2
          <6>2. g[s] = stats[f] + g[s \ {f}]
            BY <2>1, <3>2, <4>1, <6>1 DEF Summed
          <6> QED  BY <5>2, <6>2
        <5> QED  BY <5>1, <5>2
      <4> HIDE DEF h
      <4> QED  BY <3>2, <4>1, <4>4, <4>5 DEF Summed
    <3> QED  BY <3>1, <3>2
  <2> HIDE DEF h
  <2> QED  BY <2>2, <2>4, <2>5
<1>4. S = Nat
  <2> HIDE DEF S
  <2>1. S \in SUBSET Nat
    BY DEF S
  <2> QED  BY <1>2, <1>3, <2>1, Induction
<1>5. Cardinality(fields) \in S
  BY <1>1, <1>4
<1>6. \A s \in SUBSET fields : Cardinality(s) <= Cardinality(fields)
  BY FS_Subset
<1>7. QED  BY <1>5, <1>6

\* A sum of counts none of which exceeds `most`.
LEMMA SumBounded ==
  ASSUME NEW stats, IsFiniteSet(DOMAIN stats), stats \in [DOMAIN stats -> Nat],
         NEW most \in Nat, \A f \in DOMAIN stats : stats[f] <= most
  PROVE  SumOf(stats) \in Nat /\ SumOf(stats) <= Cardinality(DOMAIN stats) * most
<1> DEFINE D == DOMAIN stats
           iter[s \in SUBSET D] ==
             IF s = {} THEN 0
             ELSE LET x == CHOOSE x \in s : TRUE IN stats[x] + iter[s \ {x}]
<1>1. PICK g \in [SUBSET D -> Nat] : \A s \in SUBSET D : Summed(g, stats, D, s)
  BY SumsExist
<1>2. g = [s \in SUBSET D |->
             IF s = {} THEN 0
             ELSE LET x == CHOOSE x \in s : TRUE IN stats[x] + g[s \ {x}]]
  BY <1>1 DEF Summed
<1>3. iter = [s \in SUBSET D |->
             IF s = {} THEN 0
             ELSE LET x == CHOOSE x \in s : TRUE IN stats[x] + iter[s \ {x}]]
  BY <1>2
<1>4. SumOf(stats) = iter[D]
  BY DEF SumOf, MapThenSumSet, MapThenFoldSet
<1> HIDE DEF iter
<1>5. \A s \in SUBSET D : IsFiniteSet(s) /\ Cardinality(s) \in Nat
  BY FS_Subset, FS_CardinalityType
<1> DEFINE S == {n \in Nat : \A s \in SUBSET D : Cardinality(s) = n =>
                   iter[s] \in Nat /\ iter[s] <= n * most}
<1>6. 0 \in S
  <2>1. \A s \in SUBSET D : Cardinality(s) = 0 => s = {}
    BY <1>5, FS_EmptySet
  <2>2. iter[{}] = 0
    <3>1. {} \in SUBSET D
      OBVIOUS
    <3> QED  BY <1>3, <3>1
  <2>3. 0 * most = 0
    OBVIOUS
  <2>4. ASSUME NEW s \in SUBSET D, Cardinality(s) = 0 PROVE iter[s] \in Nat /\ iter[s] <= 0 * most
    <3>1. s = {}
      BY <2>1, <2>4
    <3>2. iter[s] = 0
      BY <2>2, <3>1
    <3> QED  BY <2>3, <3>2
  <2> QED  BY <2>4
<1>7. ASSUME NEW n \in S PROVE n + 1 \in S
  <2>1. SUFFICES ASSUME NEW s \in SUBSET D, Cardinality(s) = n + 1
                 PROVE  iter[s] \in Nat /\ iter[s] <= (n + 1) * most
    OBVIOUS
  <2>2. s # {} /\ n \in Nat
    <3>1. n \in Nat
      OBVIOUS
    <3>2. Cardinality({}) = 0
      BY FS_EmptySet
    <3>3. n + 1 # 0 /\ Cardinality(s) = n + 1
      BY <2>1, <3>1
    <3> QED  BY <3>2, <3>3
  <2>3. PICK f : f = CHOOSE x \in s : TRUE
    OBVIOUS
  <2>4. f \in s /\ Cardinality(s \ {f}) = n /\ s \ {f} \in SUBSET D
    BY <1>5, <2>1, <2>2, <2>3, Smaller
  <2>5. iter[s] = stats[f] + iter[s \ {f}]
    BY <1>3, <2>2, <2>3
  <2>6. iter[s \ {f}] \in Nat /\ iter[s \ {f}] <= n * most
    BY <2>4
  <2>7. stats[f] \in Nat /\ stats[f] <= most
    BY <2>4
  <2>8. (n + 1) * most = n * most + most /\ n * most \in Nat
    BY <2>2
  <2> QED  BY <2>5, <2>6, <2>7, <2>8
<1>8. S = Nat
  <2> HIDE DEF S
  <2>1. S \in SUBSET Nat
    BY DEF S
  <2> QED  BY <1>6, <1>7, <2>1, Induction
<1>9. Cardinality(D) \in S
  BY <1>5, <1>8
<1>10. QED  BY <1>4, <1>9

StatsInv ==
  /\ (field_stats # None \/ overall # None) => stage = "ready"
  /\ field_stats # None =>
       field_stats = [f \in Common(first_filter.fields) |-> DiffCount(f)]
  /\ overall # None =>
       /\ field_stats # None
       /\ overall.total = Cardinality(Common(first_filter.fields)) * Len(map_a)
       /\ overall.diffs <= overall.total

LEMMA CommonFields ==
  ASSUME AlignInv, stage = "ready", NEW filter
  PROVE  /\ IsFiniteSet(Common(filter))
         /\ [f \in Common(filter) |-> DiffCount(f)] # None
<1>1. pair \in Pairs
  BY DEF AlignInv
<1>2. IsFiniteSet(Fields(pair.a)) /\ Common(filter) \in SUBSET Fields(pair.a)
  BY <1>1, TracesAssumption DEF Common
<1>3. [f \in Common(filter) |-> DiffCount(f)] \in [Common(filter) -> Nat]
  BY DiffCounts DEF CountsField
<1>4. None \notin [Common(filter) -> Nat]
  BY <1>1, <1>2, NoneAssumption
<1>5. QED  BY <1>2, <1>3, <1>4, FS_Subset

\* What a call that computes the statistics leaves.
LEMMA StatsComputed ==
  ASSUME AlignInv, StatsInv, stage = "ready", UNCHANGED <<pair, map_a, map_b>>,
         NEW filter, ComputeStats(filter)
  PROVE  /\ field_stats' # None
         /\ field_stats' = [f \in Common(first_filter'.fields) |-> DiffCount(f)]
         /\ (field_stats # None) => UNCHANGED <<field_stats, first_filter>>
<1>1. CASE field_stats = None
  <2>1. field_stats' = [f \in Common(filter) |-> DiffCount(f)] /\ first_filter' = [fields |-> filter]
    BY <1>1 DEF ComputeStats
  <2>2. field_stats' # None
    BY <2>1, CommonFields
  <2>3. first_filter'.fields = filter
    BY <2>1
  <2> QED  BY <1>1, <2>1, <2>2, <2>3
<1>2. CASE field_stats # None
  BY <1>2 DEF ComputeStats, StatsInv
<1>3. QED  BY <1>1, <1>2

LEMMA SameCounts ==
  ASSUME UNCHANGED <<pair, map_a, map_b>>
  PROVE  /\ \A filter : Common(filter)' = Common(filter)
         /\ \A f : DiffCount(f)' = DiffCount(f)
BY DEF Common, DiffCount, BulkDiffs, RangeDiffs, ScalarDiffs, FieldDiffers, RowsDiffer,
       StoredAt, FirstValue, Cell, Rows, Counted, InBulk, Contiguous, IsContiguous, Start

LEMMA StatsStep == AlignInv /\ StatsInv /\ [Next]_vars => StatsInv'
<1> SUFFICES ASSUME AlignInv, StatsInv, [Next]_vars PROVE StatsInv'
  OBVIOUS
<1>1. CASE (stage # "ready" \/ field_stats = None) /\ UNCHANGED <<field_stats, overall>>
  BY <1>1 DEF StatsInv
<1>2. ASSUME NEW filter \in Filters, ComputeStatsFiltered(filter) PROVE StatsInv'
  <2>1. /\ stage = "ready" /\ stage' = "ready" /\ UNCHANGED <<pair, map_a, map_b, overall>>
        /\ ComputeStats(filter)
    BY <1>2 DEF ComputeStatsFiltered, ComputeStats
  <2>2. /\ field_stats' # None
        /\ field_stats' = [f \in Common(first_filter'.fields) |-> DiffCount(f)]
        /\ (field_stats # None) => UNCHANGED <<field_stats, first_filter>>
    BY <2>1, StatsComputed
  <2>3. PICK fields : fields = first_filter'.fields
    OBVIOUS
  <2>4. [f \in Common(fields) |-> DiffCount(f)] = [f \in Common(fields)' |-> DiffCount(f)']
    BY <2>1, SameCounts
  <2>5. overall # None => first_filter' = first_filter
    BY <2>2 DEF StatsInv
  <2> QED  BY <2>1, <2>2, <2>3, <2>4, <2>5, SameCounts DEF StatsInv
<1>3. CASE OverallMatchPct
  <2>1. /\ stage = "ready" /\ stage' = "ready" /\ UNCHANGED <<pair, map_a, map_b>>
        /\ ComputeStats(None)
        /\ overall' = [diffs |-> SumOf(field_stats'),
                       total |-> Cardinality(DOMAIN field_stats') * Len(map_a)]
    BY <1>3 DEF OverallMatchPct, ComputeStats
  <2>2. PICK fields : fields = first_filter'.fields
    OBVIOUS
  <2>3. PICK stats : stats = [f \in Common(fields) |-> DiffCount(f)]
    OBVIOUS
  <2>4. field_stats' # None /\ field_stats' = stats
    BY <2>1, <2>2, <2>3, StatsComputed
  <2>5. IsFiniteSet(DOMAIN stats) /\ stats \in [DOMAIN stats -> Nat] /\ DOMAIN stats = Common(fields)
    BY <2>1, <2>3, CommonFields, DiffCounts DEF CountsField
  <2>6. PICK most \in Nat : most = Len(map_a)
    BY <2>1, DiffCounts
  <2>7. \A f \in DOMAIN stats : stats[f] <= most
    BY <2>1, <2>3, <2>6, DiffCounts DEF CountsField
  <2>8. SumOf(stats) <= Cardinality(DOMAIN stats) * most
    BY <2>5, <2>7, SumBounded
  <2>9. /\ overall'.total = Cardinality(Common(fields)) * Len(map_a)
        /\ overall'.diffs <= overall'.total
    BY <2>1, <2>4, <2>5, <2>6, <2>8
  <2>10. stats = [f \in Common(fields)' |-> DiffCount(f)'] /\ Common(fields)' = Common(fields)
    BY <2>1, <2>3, SameCounts
  <2> QED  BY <2>1, <2>2, <2>4, <2>9, <2>10 DEF StatsInv
<1>4. CASE UNCHANGED vars
  <2>1. UNCHANGED <<pair, stage, map_a, map_b, field_stats, first_filter, overall>>
    BY <1>4 DEF vars
  <2>2. PICK fields : fields = first_filter.fields
    OBVIOUS
  <2>3. [f \in Common(fields) |-> DiffCount(f)] = [f \in Common(fields)' |-> DiffCount(f)']
    BY <2>1, SameCounts
  <2> QED  BY <2>1, <2>2, <2>3, SameCounts DEF StatsInv
<1>5. ASSUME NEW filter \in Filters \cup {None}, ComputeStatsPanics(filter) PROVE StatsInv'
  BY <1>1, <1>5 DEF ComputeStatsPanics
<1>6. QED
  BY <1>1, <1>2, <1>3, <1>4, <1>5
     DEF Next, Collapse, CollapseFails, SyncNone, SyncCartridge, SyncCartridgeFails, SyncPc,
         SyncCondition, SyncMalformed, Truncate

LEMMA StatsFromInv == AlignInv /\ StatsInv => StatsCountPairs
<1> SUFFICES ASSUME AlignInv, StatsInv PROVE StatsCountPairs
  OBVIOUS
<1>1. ASSUME field_stats # None
      PROVE  /\ DOMAIN field_stats = Common(first_filter.fields)
             /\ \A f \in DOMAIN field_stats : CountsField(f, field_stats[f])
  BY <1>1, DiffCounts DEF StatsInv
<1>2. QED  BY <1>1 DEF StatsInv, StatsCountPairs, CountsField

\* For every pair of traces and whatever calls come first, the statistics are
\* those of the pairs that differ where the counting knows the columns' type and
\* meets no null in a dictionary, and miss no difference of another type.
THEOREM ComparisonCountsPairs == Spec => []StatsCountPairs
<1>1. Init => StatsInv
  BY DEF Init, StatsInv
<1>2. QED  BY <1>1, AlignInit, AlignStep, StatsStep, StatsFromInv, PTL DEF Spec

-----------------------------------------------------------------------------
(***************************************************************************)
(* The walk stays in lockstep, counts each differing row of a plain column *)
(* once and lists no other row. A batch takes both iterators on by as many *)
(* rows as it compares (AdvanceMoves), and the rows it finds different are *)
(* the ones missing so far (BatchFindsTheRest).                            *)
(***************************************************************************)

Iterators == [seg_idx : Nat, pos_in_seg : Nat]

\* A segment's numbers, and the iterator's within it.
LEMMA CurrentSegment ==
  ASSUME NEW c, IsColumn(c), NEW it \in Iterators, IterOK(c, it), HasCurrent(c, it)
  PROVE  /\ Len(c.segs) \in Nat
         /\ it.seg_idx \in 1..Len(c.segs)
         /\ c.segs[it.seg_idx].start \in Nat
         /\ c.segs[it.seg_idx].len \in Nat \ {0}
         /\ it.pos_in_seg \in Nat
         /\ it.pos_in_seg < c.segs[it.seg_idx].len
         /\ RowOf(c, it) = c.segs[it.seg_idx].start + it.pos_in_seg
         /\ RowOf(c, it) \in Nat
         /\ Remaining(c, it) \in Nat \ {0}
         /\ RowOf(c, it) + Remaining(c, it) = c.segs[it.seg_idx].start + c.segs[it.seg_idx].len
         /\ RowOf(c, it) + Remaining(c, it) <= Len(c.rows)
  <1>1. c.segs \in Seq(Segments) /\ Len(c.segs) \in Nat
    BY DEF IsColumn
  <1>2. it.seg_idx \in Nat /\ it.pos_in_seg \in Nat
    BY DEF Iterators
  <1>3. it.seg_idx \in 1..Len(c.segs)
    BY <1>1, <1>2, SMT DEF IterOK, HasCurrent
  <1>4. c.segs[it.seg_idx] \in Segments
    BY <1>1, <1>3, SMT
  <1>5. c.segs[it.seg_idx].start \in Nat /\ c.segs[it.seg_idx].len \in Nat \ {0}
    BY <1>4 DEF Segments
  <1>6. it.pos_in_seg \in 0..c.segs[it.seg_idx].len - 1
    BY DEF IterOK
  <1>7. RowOf(c, it) = c.segs[it.seg_idx].start + it.pos_in_seg
    BY DEF RowOf
  <1>8. Remaining(c, it) = c.segs[it.seg_idx].len - it.pos_in_seg
    BY DEF Remaining
  <1>9. c.segs[it.seg_idx].start + c.segs[it.seg_idx].len <= Len(c.rows)
    BY <1>3 DEF IsColumn
  <1>10. /\ it.pos_in_seg < c.segs[it.seg_idx].len
         /\ RowOf(c, it) \in Nat /\ Remaining(c, it) \in Nat \ {0}
         /\ RowOf(c, it) + Remaining(c, it) = c.segs[it.seg_idx].start + c.segs[it.seg_idx].len
    BY <1>2, <1>5, <1>6, <1>7, <1>8, SMT
  <1> QED
    BY <1>1, <1>2, <1>3, <1>5, <1>7, <1>9, <1>10

\* SegmentIter::advance takes the iterator on by n rows, into the next segment
\* when it has used this one up.
LEMMA AdvanceMoves ==
  ASSUME NEW c, IsColumn(c), NEW it \in Iterators, IterOK(c, it), HasCurrent(c, it),
         NEW n \in 1..Remaining(c, it)
  PROVE  /\ Advance(c, it, n) \in Iterators
         /\ IterOK(c, Advance(c, it, n))
         /\ RowOf(c, Advance(c, it, n)) = RowOf(c, it) + n
  <1> DEFINE i == it.seg_idx
             seg == c.segs[i]
             next == Advance(c, it, n)
  <1>1. /\ Len(c.segs) \in Nat /\ i \in 1..Len(c.segs)
        /\ seg.start \in Nat /\ seg.len \in Nat \ {0}
        /\ it.pos_in_seg \in Nat /\ it.pos_in_seg < seg.len
        /\ RowOf(c, it) = seg.start + it.pos_in_seg
    BY CurrentSegment
  <1>2. n \in Nat /\ n > 0 /\ it.pos_in_seg + n <= seg.len
    BY <1>1, SMT DEF Remaining
  <1>3. CASE it.pos_in_seg + n < seg.len
    <2>1. next = [it EXCEPT !.pos_in_seg = @ + n]
      BY <1>1, <1>2, <1>3, SMT DEF Advance
    <2>2. next \in Iterators /\ next.seg_idx = i /\ next.pos_in_seg = it.pos_in_seg + n
      BY <1>1, <1>2, <2>1, SMT DEF Iterators
    <2>3. HasCurrent(c, next)
      BY <2>2 DEF HasCurrent
    <2>4. next.pos_in_seg \in 0..seg.len - 1 /\ next.seg_idx \in 1..Len(c.segs) + 1
      BY <1>1, <1>2, <1>3, <2>2, SMTT(40)
    <2>5. RowOf(c, next) = seg.start + (it.pos_in_seg + n)
      BY <2>2, <2>3 DEF RowOf
    <2>6. IterOK(c, next)
      BY <2>2, <2>3, <2>4 DEF IterOK
    <2> QED BY <1>1, <1>2, <2>2, <2>5, <2>6, SMT
  <1>4. CASE it.pos_in_seg + n = seg.len
    <2>1. next = [seg_idx |-> i + 1, pos_in_seg |-> 0]
      BY <1>1, <1>2, <1>4, SMT DEF Advance
    <2>2. next \in Iterators /\ next.seg_idx = i + 1 /\ next.pos_in_seg = 0
      BY <1>1, <2>1, SMT DEF Iterators
    <2>3. RowOf(c, next) = seg.start + seg.len /\ IterOK(c, next)
      <3>1. CASE i = Len(c.segs)
        <4>1. ~HasCurrent(c, next) /\ Len(c.segs) # 0
          BY <1>1, <2>2, <3>1, SMT DEF HasCurrent
        <4>2. next.seg_idx \in 1..Len(c.segs) + 1
          BY <1>1, <2>2, SMT
        <4> QED BY <2>2, <3>1, <4>1, <4>2 DEF RowOf, Total, IterOK
      <3>2. CASE i # Len(c.segs)
        <4>1. i + 1 \in 1..Len(c.segs) /\ i + 1 # 1 /\ (i + 1) - 1 = i /\ HasCurrent(c, next)
          BY <1>1, <2>2, <3>2, SMT DEF HasCurrent
        <4>2. c.segs[i + 1].start = seg.start + seg.len
          BY <4>1 DEF IsColumn
        <4>3. c.segs[i + 1] \in Segments
          BY <1>1, <4>1, SMT DEF IsColumn
        <4>4. c.segs[i + 1].len \in Nat \ {0} /\ c.segs[i + 1].start \in Nat
          BY <4>3 DEF Segments
        <4>5. RowOf(c, next) = c.segs[i + 1].start + 0
          BY <2>2, <4>1 DEF RowOf
        <4>6. 0 \in 0..c.segs[i + 1].len - 1 /\ i + 1 \in 1..Len(c.segs) + 1
          BY <1>1, <4>1, <4>4, SMTT(40)
        <4>7. IterOK(c, next)
          BY <2>2, <4>1, <4>6 DEF IterOK
        <4> QED BY <4>2, <4>4, <4>5, <4>7, SMT
      <3> QED BY <3>1, <3>2
    <2> QED BY <1>1, <1>2, <1>4, <2>2, <2>3, SMT
  <1>5. it.pos_in_seg + n < seg.len \/ it.pos_in_seg + n = seg.len
    BY <1>1, <1>2, SMT
  <1> QED BY <1>3, <1>4, <1>5

\* As many rows differ d further on.
LEMMA ShiftedCount ==
  ASSUME NEW n \in Nat, NEW S \in SUBSET (0..n - 1), NEW d \in Nat
  PROVE  /\ IsFiniteSet({d + k : k \in S})
         /\ IsFiniteSet(S)
         /\ Cardinality({d + k : k \in S}) = Cardinality(S)
         /\ Cardinality(S) \in Nat
  <1> DEFINE T == {d + k : k \in S}
             shift == [k \in S |-> d + k]
  <1>1. IsFiniteSet(S)
    <2>1. IsFiniteSet(0..n - 1)
      BY FS_Interval, SMT
    <2> QED BY <2>1, FS_Subset
  <1>2. shift \in Bijection(S, T)
    <2>1. shift \in [S -> T] /\ \A t \in T : \E k \in S : shift[k] = t
      OBVIOUS
    <2>2. \A j, k \in S : shift[j] = shift[k] => j = k
      BY SMT
    <2> QED BY <2>1, <2>2 DEF Bijection, Injection, IsInjective, Surjection
  <1>3. ExistsBijection(S, T)
    BY <1>2 DEF ExistsBijection
  <1> QED
    BY <1>1, <1>3, FS_Bijection, FS_CardinalityType

\* The rows the next batch compares, one after the other in both columns.
LEMMA BatchShape ==
  ASSUME WalkTypeOK, InLockstep, Walking
  PROVE  /\ Batch \in 1..Remaining(walk.a, iter_a)
         /\ Batch \in 1..Remaining(walk.b, iter_b)
         /\ Done \in Nat /\ Batch \in Nat
         /\ RowOf(walk.b, iter_b) = Done
         /\ Done + Batch <= Len(walk.a.rows)
         /\ Done + Batch <= Len(walk.b.rows)
  <1>1. /\ IsColumn(walk.a) /\ iter_a \in Iterators /\ IterOK(walk.a, iter_a)
        /\ HasCurrent(walk.a, iter_a)
    BY DEF WalkTypeOK, IsWalk, InLockstep, Walking, Iterators
  <1>2. /\ IsColumn(walk.b) /\ iter_b \in Iterators /\ IterOK(walk.b, iter_b)
        /\ HasCurrent(walk.b, iter_b)
    BY DEF WalkTypeOK, IsWalk, InLockstep, Walking, Iterators
  <1>3. /\ Remaining(walk.a, iter_a) \in Nat \ {0} /\ Done \in Nat
        /\ Done + Remaining(walk.a, iter_a) <= Len(walk.a.rows)
    BY <1>1, CurrentSegment DEF Done
  <1>4. /\ Remaining(walk.b, iter_b) \in Nat \ {0}
        /\ RowOf(walk.b, iter_b) + Remaining(walk.b, iter_b) <= Len(walk.b.rows)
    BY <1>2, CurrentSegment
  <1>5. RowOf(walk.b, iter_b) = Done
    BY DEF InLockstep, Done
  <1>6. Len(walk.a.rows) \in Nat /\ Len(walk.b.rows) \in Nat
    BY <1>1, <1>2 DEF IsColumn
  <1>7. Batch = IF Remaining(walk.a, iter_a) < Remaining(walk.b, iter_b)
                THEN Remaining(walk.a, iter_a) ELSE Remaining(walk.b, iter_b)
    BY DEF Batch
  <1> QED
    BY <1>3, <1>4, <1>5, <1>6, <1>7, SMT

\* What the typed comparison reads of a plain column is what the accessors
\* report.
LEMMA RawIsValue ==
  ASSUME NEW c, NEW s, NEW r \in Nat, r < Len(c.rows), IsColumn(c),
         c.kind = "dict" => NullFree(c)
  PROVE  Raw(c, s, r) = Value(c, r)
  <1>1. r + 1 \in 1..Len(c.rows)
    BY SMT DEF IsColumn
  <1>2. CASE c.rows[r + 1] # Null
    BY <1>2 DEF Raw, Value, Stored, Reported
  <1>3. CASE c.rows[r + 1] = Null
    <2>1. c.kind # "dict"
      BY <1>1, <1>3 DEF NullFree
    <2> QED BY <1>3, <2>1 DEF Raw, Value, Stored, Reported
  <1> QED BY <1>2, <1>3

\* The rows a batch of a plain column finds different.
LEMMA DifferentInBatch ==
  ASSUME WalkTypeOK, InLockstep, Walking, Plain
  PROVE  Different(Batch) =
           {k \in 0..Batch - 1 : Value(walk.a, Done + k) # Value(walk.b, Done + k)}
  <1> SUFFICES ASSUME NEW k \in 0..Batch - 1
               PROVE  /\ RawA(k) = Value(walk.a, Done + k)
                      /\ RawB(k) = Value(walk.b, Done + k)
    BY DEF Different, Plain
  <1>1. /\ Done \in Nat /\ Batch \in Nat /\ RowOf(walk.b, iter_b) = Done
        /\ Done + Batch <= Len(walk.a.rows) /\ Done + Batch <= Len(walk.b.rows)
    BY BatchShape
  <1>2. IsColumn(walk.a) /\ IsColumn(walk.b)
    BY DEF WalkTypeOK, IsWalk
  <1>3. Len(walk.a.rows) \in Nat /\ Len(walk.b.rows) \in Nat
    BY <1>2 DEF IsColumn
  <1>4. Done + k \in Nat /\ Done + k < Len(walk.a.rows) /\ Done + k < Len(walk.b.rows)
    BY <1>1, <1>3, SMT
  <1>5. RawA(k) = Raw(walk.a, iter_a.seg_idx, Done + k)
        /\ RawB(k) = Raw(walk.b, iter_b.seg_idx, Done + k)
    BY <1>1 DEF RawA, RawB, Done
  <1>6. /\ walk.a.kind = "dict" => NullFree(walk.a)
        /\ walk.b.kind = "dict" => NullFree(walk.b)
    BY DEF Plain, Typed
  <1> QED
    BY <1>2, <1>4, <1>5, <1>6, RawIsValue

\* They are the differing rows that were not in the count before.
LEMMA BatchFindsTheRest ==
  ASSUME WalkTypeOK, InLockstep, Walking, Plain
  PROVE  LET found == {Done + k : k \in Different(Batch)}
         IN  /\ DifferentRows(Done + Batch) = DifferentRows(Done) \cup found
             /\ IsFiniteSet(DifferentRows(Done))
             /\ Cardinality(DifferentRows(Done + Batch)) =
                  Cardinality(DifferentRows(Done)) + Cardinality(Different(Batch))
             /\ Cardinality(Different(Batch)) \in Nat
  <1> DEFINE found == {Done + k : k \in Different(Batch)}
  <1>1. Done \in Nat /\ Batch \in Nat
    BY BatchShape
  <1>2. Different(Batch) =
          {k \in 0..Batch - 1 : Value(walk.a, Done + k) # Value(walk.b, Done + k)}
    BY DifferentInBatch
  <1>m. PICK m : m = Done + Batch
    OBVIOUS
  <1>0. \A n : \A r : r \in DifferentRows(n) <=>
          r \in 0..n - 1 /\ Value(walk.a, r) # Value(walk.b, r)
    BY DEF DifferentRows
  <1>3. DifferentRows(m) = DifferentRows(Done) \cup found
    <2>1. ASSUME NEW r \in DifferentRows(m)
          PROVE  r \in DifferentRows(Done) \/ r \in found
      <3>1. r \in 0..m - 1 /\ Value(walk.a, r) # Value(walk.b, r)
        BY <1>0, <2>1
      <3>2. CASE r < Done
        <4>1. r \in 0..Done - 1
          BY <1>1, <1>m, <3>1, <3>2, SMT
        <4> QED BY <1>0, <3>1, <4>1
      <3>3. CASE ~(r < Done)
        <4>1. PICK k \in 0..Batch - 1 : r = Done + k
          <5>1. r - Done \in 0..Batch - 1 /\ r = Done + (r - Done)
            BY <1>1, <1>m, <3>1, <3>3, SMT
          <5> QED BY <5>1
        <4>2. k \in Different(Batch)
          BY <1>2, <3>1, <4>1
        <4> QED BY <4>1, <4>2
      <3> QED BY <3>2, <3>3
    <2>2. ASSUME NEW r \in DifferentRows(Done) PROVE r \in DifferentRows(m)
      <3>1. r \in 0..Done - 1 /\ Value(walk.a, r) # Value(walk.b, r)
        BY <1>0, <2>2
      <3>2. r \in 0..m - 1
        BY <1>1, <1>m, <3>1, SMT
      <3> QED BY <1>0, <3>1, <3>2
    <2>3. ASSUME NEW k \in Different(Batch) PROVE Done + k \in DifferentRows(m)
      <3>1. k \in 0..Batch - 1 /\ Value(walk.a, Done + k) # Value(walk.b, Done + k)
        BY <1>2, <2>3
      <3>2. Done + k \in 0..m - 1
        BY <1>1, <1>m, <3>1, SMT
      <3> QED BY <1>0, <3>1, <3>2
    <2> QED BY <2>1, <2>2, <2>3
  <1>4. DifferentRows(Done) \cap found = {}
    <2> SUFFICES ASSUME NEW k \in Different(Batch), Done + k \in 0..Done - 1 PROVE FALSE
      BY DEF DifferentRows
    <2>1. k \in 0..Batch - 1
      BY <1>2
    <2> QED BY <1>1, <2>1, SMT
  <1>5. IsFiniteSet(DifferentRows(Done)) /\ Cardinality(DifferentRows(Done)) \in Nat
    <2>1. IsFiniteSet(0..Done - 1)
      BY <1>1, FS_Interval, SMT
    <2>2. DifferentRows(Done) \in SUBSET (0..Done - 1)
      BY DEF DifferentRows
    <2> QED BY <2>1, <2>2, FS_Subset, FS_CardinalityType
  <1>6. /\ IsFiniteSet(found) /\ Cardinality(found) = Cardinality(Different(Batch))
        /\ Cardinality(Different(Batch)) \in Nat
    <2>1. Different(Batch) \in SUBSET (0..Batch - 1)
      BY <1>2
    <2> QED BY <1>1, <2>1, ShiftedCount
  <1>7. Cardinality(DifferentRows(Done) \cup found) =
          Cardinality(DifferentRows(Done)) + Cardinality(found) - Cardinality({})
    BY <1>4, <1>5, <1>6, FS_Union
  <1>8. Cardinality({}) = 0
    BY FS_EmptySet
  <1>9. Cardinality(DifferentRows(Done) \cup found) =
          Cardinality(DifferentRows(Done)) + Cardinality(Different(Batch))
    BY <1>5, <1>6, <1>7, <1>8, SMT
  <1> QED BY <1>3, <1>m, <1>5, <1>6, <1>9

LEMMA WalkInitially == WalkInit => WalkInv
  <1> SUFFICES ASSUME WalkInit PROVE WalkInv
    OBVIOUS
  <1>1. /\ IsWalk(walk) /\ IsColumn(walk.a) /\ IsColumn(walk.b) /\ walk.start \in Nat
        /\ iter_a = [seg_idx |-> 1, pos_in_seg |-> 0]
        /\ iter_b = [seg_idx |-> 1, pos_in_seg |-> 0]
        /\ global_pos = walk.start /\ diffs = 0 /\ indices = {} /\ outcome = "walking"
    BY WalksAssumption DEF WalkInit, IsWalk
  <1>2. WalkTypeOK
    BY <1>1, SMT DEF WalkTypeOK
  <1>3. ASSUME NEW c, IsColumn(c), NEW it, it = [seg_idx |-> 1, pos_in_seg |-> 0]
        PROVE  IterOK(c, it) /\ RowOf(c, it) = 0
    <2>1. Len(c.segs) \in Nat /\ c.segs \in Seq(Segments)
      BY <1>3 DEF IsColumn
    <2>2. CASE Len(c.segs) = 0
      <3>1. ~HasCurrent(c, it) /\ it.seg_idx \in 1..Len(c.segs) + 1 /\ it.pos_in_seg \in {0}
        BY <1>3, <2>2, SMT DEF HasCurrent
      <3> QED BY <2>2, <3>1 DEF IterOK, RowOf, Total
    <2>3. CASE Len(c.segs) # 0
      <3>1. HasCurrent(c, it) /\ 1 \in 1..Len(c.segs) /\ it.seg_idx \in 1..Len(c.segs) + 1
        BY <1>3, <2>1, <2>3, SMT DEF HasCurrent
      <3>2. c.segs[1].start = 0 /\ c.segs[1] \in Segments
        BY <1>3, <2>1, <3>1, SMT DEF IsColumn
      <3>3. c.segs[1].len \in Nat \ {0}
        BY <3>2 DEF Segments
      <3>4. it.pos_in_seg \in 0..c.segs[it.seg_idx].len - 1
        BY <1>3, <3>3, SMT
      <3>5. IterOK(c, it)
        BY <3>1, <3>4 DEF IterOK
      <3>6. RowOf(c, it) = 0 + 0
        BY <1>3, <3>1, <3>2 DEF RowOf
      <3> QED BY <3>5, <3>6, SMT
    <2> QED BY <2>2, <2>3
  <1>4. IterOK(walk.a, iter_a) /\ IterOK(walk.b, iter_b)
        /\ RowOf(walk.a, iter_a) = 0 /\ RowOf(walk.b, iter_b) = 0
    BY <1>1, <1>3
  <1>5. Done = 0
    BY <1>4 DEF Done
  <1>6. global_pos = walk.start + Done
    BY <1>1, <1>5, SMT
  <1>7. InLockstep
    BY <1>4, <1>6 DEF InLockstep
  <1>8. DifferentRows(Done) = {}
    <2>1. 0..Done - 1 = {}
      BY <1>5, SMT
    <2> QED BY <2>1 DEF DifferentRows
  <1>9. Cardinality(DifferentRows(Done)) = 0
    BY <1>8, FS_EmptySet
  <1>10. CountsEachDifference /\ ListsTheDifferences
    BY <1>1, <1>8, <1>9 DEF CountsEachDifference, ListsTheDifferences
  <1> QED BY <1>2, <1>7, <1>10 DEF WalkInv

LEMMA CompareBatchStep == ASSUME WalkInv, CompareBatch PROVE WalkInv'
  <1>1. WalkTypeOK /\ InLockstep /\ Walking /\ walk' = walk /\ outcome' = outcome
    BY DEF WalkInv, CompareBatch
  <1>2. /\ Batch \in 1..Remaining(walk.a, iter_a) /\ Batch \in 1..Remaining(walk.b, iter_b)
        /\ Done \in Nat /\ Batch \in Nat /\ RowOf(walk.b, iter_b) = Done
        /\ Done = RowOf(walk.a, iter_a)
    BY <1>1, BatchShape DEF Done
  <1>3. /\ iter_a' \in Iterators /\ IterOK(walk.a, iter_a')
        /\ RowOf(walk.a, iter_a') = Done + Batch
    <2>1. /\ IsColumn(walk.a) /\ iter_a \in Iterators /\ IterOK(walk.a, iter_a)
          /\ HasCurrent(walk.a, iter_a) /\ iter_a' = Advance(walk.a, iter_a, Batch)
      BY <1>1 DEF WalkTypeOK, IsWalk, InLockstep, Walking, Iterators, CompareBatch
    <2> QED BY <1>2, <2>1, AdvanceMoves
  <1>4. /\ iter_b' \in Iterators /\ IterOK(walk.b, iter_b')
        /\ RowOf(walk.b, iter_b') = Done + Batch
    <2>1. /\ IsColumn(walk.b) /\ iter_b \in Iterators /\ IterOK(walk.b, iter_b)
          /\ HasCurrent(walk.b, iter_b) /\ iter_b' = Advance(walk.b, iter_b, Batch)
      BY <1>1 DEF WalkTypeOK, IsWalk, InLockstep, Walking, Iterators, CompareBatch
    <2> QED BY <1>2, <2>1, AdvanceMoves
  <1>5. Done' = Done + Batch
    BY <1>1, <1>3 DEF Done
  <1>6. /\ InLockstep' <=>
             /\ IterOK(walk.a, iter_a') /\ IterOK(walk.b, iter_b')
             /\ RowOf(walk.a, iter_a') = RowOf(walk.b, iter_b')
             /\ walk.wants = "indices" => global_pos' = walk.start + Done'
        /\ Plain' <=> Plain
        /\ \A n : DifferentRows(n)' = DifferentRows(n)
    BY <1>1 DEF InLockstep, IterOK, HasCurrent, RowOf, Total, Plain, Typed, NullFree,
                DifferentRows, Value
  <1>7. Different(Batch) \in SUBSET (0..Batch - 1)
    BY DEF Different
  <1>8. Cardinality(Different(Batch)) \in Nat
    BY <1>2, <1>7, ShiftedCount
  <1>9. CASE walk.wants = "count"
    <2>1. diffs' = diffs + Cardinality(Different(Batch)) /\ global_pos' = global_pos
          /\ indices' = indices
      BY <1>9 DEF CompareBatch
    <2>2. WalkTypeOK'
      <3>1. diffs' \in Nat
        BY <1>1, <1>8, <2>1, SMT DEF WalkTypeOK
      <3> QED BY <1>1, <1>3, <1>4, <2>1, <3>1 DEF WalkTypeOK, Iterators
    <2>3. InLockstep'
      BY <1>3, <1>4, <1>6, <1>9
    <2>4. CountsEachDifference'
      <3> SUFFICES ASSUME Plain
                   PROVE  diffs' = Cardinality(DifferentRows(Done'))
        BY <1>1, <1>6 DEF CountsEachDifference
      <3>1. diffs = Cardinality(DifferentRows(Done))
        BY <1>9 DEF WalkInv, CountsEachDifference
      <3>2. Cardinality(DifferentRows(Done + Batch)) =
              Cardinality(DifferentRows(Done)) + Cardinality(Different(Batch))
        BY <1>1, BatchFindsTheRest
      <3> QED BY <1>5, <2>1, <3>1, <3>2
    <2>5. ListsTheDifferences'
      BY <1>1, <1>9 DEF ListsTheDifferences
    <2> QED BY <2>2, <2>3, <2>4, <2>5 DEF WalkInv
  <1>10. CASE walk.wants # "count"
    <2>1. /\ indices' = indices \cup Listed(Batch)
          /\ global_pos' = global_pos + Batch /\ diffs' = diffs
      BY <1>10 DEF CompareBatch
    <2>2. /\ walk.wants = "indices" /\ walk.start \in Nat
          /\ global_pos = walk.start + Done /\ global_pos \in Nat
      BY <1>1, <1>10 DEF WalkTypeOK, IsWalk, InLockstep
    <2>3. Listed(Batch) = {k + global_pos : k \in Different(Batch)}
      BY DEF Listed
    <2>4. WalkTypeOK'
      <3>1. global_pos' \in Nat
        BY <1>2, <2>1, <2>2, SMT
      <3>2. \A k \in Different(Batch) : k + global_pos \in Nat
        BY <1>2, <1>7, <2>2, SMT
      <3>3. indices' \subseteq Nat
        BY <1>1, <2>1, <2>3, <3>2 DEF WalkTypeOK
      <3> QED BY <1>1, <1>3, <1>4, <2>1, <3>1, <3>3 DEF WalkTypeOK, Iterators
    <2>5. InLockstep'
      <3>1. global_pos' = walk.start + (Done + Batch)
        BY <1>2, <2>1, <2>2, SMT
      <3> QED BY <1>3, <1>4, <1>5, <1>6, <3>1
    <2>6. ListsTheDifferences'
      <3> SUFFICES ASSUME Plain
                   PROVE  indices' = {r + walk.start : r \in DifferentRows(Done')}
        BY <1>1, <1>6 DEF ListsTheDifferences
      <3>1. indices = {r + walk.start : r \in DifferentRows(Done)}
        BY <2>2 DEF WalkInv, ListsTheDifferences
      <3>2. DifferentRows(Done + Batch) =
              DifferentRows(Done) \cup {Done + k : k \in Different(Batch)}
        BY <1>1, BatchFindsTheRest
      <3>3. \A k \in Different(Batch) : k + global_pos = (Done + k) + walk.start
        BY <1>2, <1>7, <2>2, SMT
      <3>4. Listed(Batch) = {(Done + k) + walk.start : k \in Different(Batch)}
        BY <2>3, <3>3
      <3> QED BY <1>5, <2>1, <3>1, <3>2, <3>4
    <2>7. CountsEachDifference'
      BY <1>1, <1>10 DEF CountsEachDifference
    <2> QED BY <2>4, <2>5, <2>6, <2>7 DEF WalkInv
  <1> QED BY <1>9, <1>10

\* The walk's end and the steps that change nothing.
LEMMA WalkUnchanged ==
  ASSUME WalkInv, UNCHANGED <<walk, iter_a, iter_b, global_pos, diffs, indices>>,
         outcome' \in {"walking", "done", "panic"}
  PROVE  WalkInv'
  <1>1. WalkTypeOK'
    BY DEF WalkInv, WalkTypeOK
  <1>2. Done' = Done /\ (Plain' <=> Plain) /\ \A n : DifferentRows(n)' = DifferentRows(n)
    BY DEF Done, RowOf, HasCurrent, Total, Plain, Typed, NullFree, DifferentRows, Value
  <1>3. InLockstep'
    BY <1>2 DEF WalkInv, InLockstep, IterOK, HasCurrent, RowOf, Total
  <1>4. CountsEachDifference' /\ ListsTheDifferences'
    BY <1>2 DEF WalkInv, CountsEachDifference, ListsTheDifferences
  <1> QED BY <1>1, <1>3, <1>4 DEF WalkInv

LEMMA WalkStep == WalkInv /\ [WalkNext]_walkVars => WalkInv'
  <1> SUFFICES ASSUME WalkInv, [WalkNext]_walkVars PROVE WalkInv'
    OBVIOUS
  <1>1. CASE CompareBatch
    BY <1>1, CompareBatchStep
  <1>2. CASE ReadEmptyDictionary
    BY <1>2, WalkUnchanged DEF ReadEmptyDictionary
  <1>3. CASE WalkEnds
    BY <1>3, WalkUnchanged DEF WalkEnds
  <1>4. CASE UNCHANGED walkVars
    <2>1. outcome' \in {"walking", "done", "panic"}
      BY <1>4 DEF walkVars, WalkInv, WalkTypeOK
    <2> QED BY <1>4, <2>1, WalkUnchanged DEF walkVars
  <1> QED BY <1>1, <1>2, <1>3, <1>4 DEF WalkNext

\* Two columns are compared row by row however they are cut into segments:
\* SegmentIter (comparison.rs 394).
THEOREM WalkInvariant == WalkSpec => []WalkInv
  BY WalkInitially, WalkStep, PTL DEF WalkSpec

\* compare_segments counts each differing row of two plain columns once.
THEOREM WalkCountsEachDifference == WalkSpec => []CountsEachDifference
  <1>1. WalkInv => CountsEachDifference
    BY DEF WalkInv
  <1> QED BY <1>1, WalkInvariant, PTL

\* diff_indices_from_segments lists the differing rows of two plain columns, by
\* their numbers in the trace.
THEOREM WalkListsTheDifferences == WalkSpec => []ListsTheDifferences
  <1>1. WalkInv => ListsTheDifferences
    BY DEF WalkInv
  <1> QED BY <1>1, WalkInvariant, PTL
=============================================================================
