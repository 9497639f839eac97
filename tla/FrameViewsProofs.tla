-------------------------- MODULE FrameViewsProofs --------------------------
(***************************************************************************)
(* Proofs about InstructionView and FrameViews: for every trace, of        *)
(* whatever length, the view's map splits it where the instruction address *)
(* changes, the instruction reported for a row is the one that contains    *)
(* it, and every instruction stays in its frame. What a binary search of   *)
(* the map finds follows from Covering, that every row has its             *)
(* instruction, which the pass keeps up step by step. The scans of a view  *)
(* leave it alone; their cursors count the pixels pushed, so that what is  *)
(* drawn and noted is what the rows say, read without a cursor.            *)
(***************************************************************************)
EXTENDS FrameViews, FiniteSetTheorems, WellFoundedInduction, TLAPS

\* The types of the state, spelled out for the arithmetic below.
LEMMA Shapes ==
  ASSUME TypeOK
  PROVE  /\ inner.count \in Nat
         /\ row \in Nat /\ row <= inner.count
         /\ Rows \subseteq Nat
         /\ Len(index_map) \in Nat
         /\ \A d \in 1..Len(index_map) : index_map[d] \in Nat
         /\ DOMAIN index_map = 1..Len(index_map)
  BY TracesAssumption, SMT DEF TypeOK, Rows

\* Before the pass nothing is kept and nothing was asked.
LEMMA ViewInitially == Init => IInv
  <1> SUFFICES ASSUME Init PROVE IInv
    OBVIOUS
  <1>1. inner \in Traces /\ inner.count \in Nat /\ row = 0 /\ index_map = <<>> /\ answer = None
        /\ prev_addr = None /\ built = FALSE
    BY TracesAssumption DEF Init
  <1>2. Len(index_map) = 0 /\ index_map \in Seq(Rows)
    BY <1>1, SMT
  <1>3. row \in 0..inner.count
    BY <1>1, SMT
  <1>4. TypeOK
    BY <1>1, <1>2, <1>3 DEF TypeOK
  <1>5. SplitsAtChanges /\ Covering
    BY <1>1, <1>2, SMT DEF SplitsAtChanges, Growing, OneAddress, Changing, Covering
  <1>6. ~(row > 0)
    BY <1>1, SMT
  <1>7. Passing /\ AnswerContainsRow
    BY <1>1, <1>6 DEF Passing, AnswerContainsRow
  <1> QED
    BY <1>4, <1>5, <1>7 DEF IInv

\* The steps that leave the pass alone leave what it built alone.
LEMMA MapUnchanged ==
  ASSUME IInv, UNCHANGED <<inner, row, prev_addr, index_map>>
  PROVE  /\ SplitsAtChanges' /\ Covering'
         /\ inner' \in Traces /\ row' \in 0..inner'.count
         /\ prev_addr' \in Addresses \cup {None} /\ index_map' \in Seq(Rows')
         /\ row' = 0 => index_map' = <<>>
         /\ (row' > 0 /\ inner'.addr # None) => prev_addr' = (Address(row - 1))'
  <1>1. Rows' = Rows /\ \A r : Address(r)' = Address(r)
    BY DEF Rows, Address
  <1>2. \A d : End(d)' = End(d)
    BY DEF End
  <1>3. \A d : InstructionRows(d)' = InstructionRows(d)
    BY <1>2 DEF InstructionRows
  <1>4. Growing' /\ OneAddress' /\ Changing'
    BY <1>1, <1>3 DEF IInv, SplitsAtChanges, Growing, OneAddress, Changing
  <1> QED
    BY <1>1, <1>3, <1>4 DEF IInv, TypeOK, SplitsAtChanges, Covering, Passing

LEMMA FirstRowStep == ASSUME IInv, FirstRow PROVE IInv'
  <1>1. inner.count \in Nat /\ inner.addr \in Seq(Addresses) /\ Len(inner.addr) = inner.count
    BY TracesAssumption DEF IInv, TypeOK, FirstRow
  <1>2. inner' = inner /\ index_map' = <<0>> /\ row' = 1 /\ prev_addr' = Address(0)
        /\ built' = FALSE /\ answer' = answer /\ built = FALSE /\ row = 0
    BY DEF FirstRow, IInv, TypeOK
  <1>3. Address(0) \in Addresses /\ (Address(row - 1))' = Address(0)
    BY <1>1, <1>2, SMT DEF Address, FirstRow
  <1>4. TypeOK'
    BY <1>1, <1>2, <1>3, SMT DEF IInv, TypeOK, Rows, FirstRow
  <1>5. Len(index_map') = 1 /\ index_map'[1] = 0
    BY <1>2, SMT
  <1>6. InstructionRows(1)' = 0..0
    BY <1>2, <1>5, SMT DEF InstructionRows, End
  <1>7. SplitsAtChanges'
    BY <1>2, <1>5, <1>6, SMT DEF SplitsAtChanges, Growing, OneAddress, Changing
  <1>8. Covering'
    BY <1>2, <1>5, <1>6, SMT DEF Covering
  <1>9. Passing' /\ AnswerContainsRow'
    <2>1. row' # 0 /\ answer = None
      BY <1>2 DEF IInv, Passing
    <2> QED BY <1>2, <1>3, <2>1 DEF Passing, AnswerContainsRow, FirstRow
  <1> QED
    BY <1>4, <1>7, <1>8, <1>9 DEF IInv

\* Without an address column the map is every row.
LEMMA PassThroughStep == ASSUME IInv, PassThrough PROVE IInv'
  <1>1. inner.count \in Nat \ {0} /\ inner.addr = None
    BY TracesAssumption DEF IInv, TypeOK, PassThrough
  <1>2. inner' = inner /\ index_map' = [d \in 1..inner.count |-> d - 1]
        /\ row' = inner.count /\ prev_addr' = prev_addr
        /\ built' = FALSE /\ answer' = answer /\ built = FALSE
    BY DEF PassThrough, IInv, TypeOK
  <1>3. Len(index_map') = inner.count /\ \A d \in 1..inner.count : index_map'[d] = d - 1
    BY <1>1, <1>2, SMT
  <1>4. index_map' \in Seq(Rows')
    BY <1>1, <1>2, SMT DEF Rows
  <1>5. TypeOK'
    <2>1. row' \in 0..inner'.count
      BY <1>1, <1>2, SMT
    <2> QED BY <1>2, <1>4, <2>1 DEF IInv, TypeOK
  <1>6. \A d \in 1..inner.count : InstructionRows(d)' = d - 1..d - 1
    BY <1>1, <1>2, <1>3, SMT DEF InstructionRows, End
  <1>7. \A r : Address(r)' = r
    BY <1>1, <1>2 DEF Address
  <1>8. Growing'
    BY <1>1, <1>2, <1>3, SMT DEF Growing
  <1>9. OneAddress' /\ Changing'
    BY <1>1, <1>2, <1>3, <1>6, <1>7, SMT DEF OneAddress, Changing
  <1>10. Covering'
    <2> SUFFICES ASSUME NEW r \in 0..inner.count - 1
                 PROVE  r + 1 \in 1..inner.count /\ r \in InstructionRows(r + 1)'
      BY <1>2, <1>3 DEF Covering
    <2> QED BY <1>1, <1>6, SMT
  <1>11. Passing' /\ AnswerContainsRow'
    BY <1>1, <1>2, SMT DEF Passing, AnswerContainsRow, IInv
  <1> QED
    BY <1>5, <1>8, <1>9, <1>10, <1>11 DEF IInv, SplitsAtChanges

\* One more row of the pass, at the address of the row before or at another.
LEMMA NextRowStep == ASSUME IInv, NextRow PROVE IInv'
  <1>n. PICK n \in Nat : n = Len(index_map)
    BY Shapes DEF IInv
  <1>1. row \in Nat /\ row > 0 /\ row < inner.count /\ inner.count \in Nat
    BY Shapes DEF IInv, NextRow, Rows
  <1>a. inner.addr # None
    BY <1>n, <1>1, SMT DEF IInv, Passing
  <1>2. inner' = inner /\ row' = row + 1 /\ built' = FALSE /\ built = FALSE
        /\ answer' = answer /\ Rows' = Rows
    BY <1>n DEF NextRow, IInv, TypeOK, Rows
  <1>3. n \in Nat /\ n > 0 /\ index_map \in Seq(Nat) /\ index_map[1] = 0
        /\ \A d \in 1..n : index_map[d] \in Nat
    BY Shapes, <1>1, <1>n, SMT DEF IInv, TypeOK, SplitsAtChanges, Growing, Rows
  <1>4. \A r : Address(r)' = Address(r)
    BY <1>n, <1>2 DEF Address
  <1>5. AnswerContainsRow'
    BY <1>n, <1>2 DEF AnswerContainsRow, IInv, Passing
  <1>6. n \in 1..n /\ index_map[n] < row /\ InstructionRows(n) = index_map[n]..row - 1
    BY <1>1, <1>3, <1>n, SMT DEF IInv, SplitsAtChanges, Growing, InstructionRows, End
  <1>7. \A d \in 1..n - 1 : InstructionRows(d) = index_map[d]..index_map[d + 1] - 1
    BY <1>n, <1>3, SMT DEF InstructionRows, End
  <1>8. CASE Address(row) = prev_addr
    <2>1. index_map' = index_map /\ prev_addr' = prev_addr
      BY <1>n, <1>8 DEF NextRow
    <2>2. TypeOK'
      <3>1. row' \in 0..inner'.count
        BY <1>n, <1>1, <1>2, SMT
      <3> QED BY <1>n, <1>2, <2>1, <3>1 DEF IInv, TypeOK
    <2>3. InstructionRows(n)' = index_map[n]..row
      BY <1>n, <1>1, <1>2, <1>3, <2>1, SMT DEF InstructionRows, End
    <2>4. \A d \in 1..n - 1 : InstructionRows(d)' = InstructionRows(d)
      BY <1>n, <1>3, <1>7, <2>1, SMT DEF InstructionRows, End
    <2>5. Address(row) = Address(row - 1)
      BY <1>n, <1>1, <1>a, <1>8 DEF IInv, Passing
    <2>7. Growing'
      BY <1>n, <1>1, <1>2, <1>3, <2>1, SMT DEF IInv, SplitsAtChanges, Growing
    <2>8. OneAddress'
      <3> SUFFICES ASSUME NEW d \in 1..n, NEW r \in InstructionRows(d)'
                   PROVE  Address(r) = Address(index_map[d])
        BY <1>n, <1>4, <2>1 DEF OneAddress
      <3>1. CASE d # n
        BY <1>n, <1>3, <2>4, <3>1, SMT DEF IInv, SplitsAtChanges, OneAddress
      <3>2. CASE d = n /\ r # row
        <4>1. r \in InstructionRows(n)
          <5>1. r \in index_map[n]..row /\ r # row
            BY <1>n, <2>3, <3>2
          <5>2. index_map[n] \in Nat
            BY <1>n, <1>3, <1>6
          <5>3. r \in index_map[n]..row - 1
            BY <1>n, <1>1, <5>1, <5>2, SMT
          <5> QED BY <1>n, <1>6, <5>3
        <4> QED BY <1>n, <3>2, <4>1 DEF IInv, SplitsAtChanges, OneAddress
      <3>3. CASE d = n /\ r = row
        <4>1. row - 1 \in InstructionRows(n)
          BY <1>n, <1>1, <1>3, <1>6, SMT
        <4> QED BY <1>n, <1>6, <2>5, <3>3, <4>1 DEF IInv, SplitsAtChanges, OneAddress
      <3> QED BY <1>n, <3>1, <3>2, <3>3
    <2>9. Changing'
      BY <1>n, <1>4, <2>1 DEF IInv, SplitsAtChanges, Changing
    <2>10. Covering'
      <3> SUFFICES ASSUME NEW r \in 0..row
                   PROVE  \E d \in 1..n : r \in InstructionRows(d)'
        BY <1>n, <1>1, <1>2, <2>1, SMT DEF Covering
      <3>0. index_map[n] \in Nat
        BY <1>n, <1>3, <1>6
      <3>1. CASE r = row
        <4>1. row \in index_map[n]..row
          BY <1>n, <1>1, <1>6, <3>0, SMT
        <4> QED BY <1>n, <1>6, <2>3, <3>1, <4>1
      <3>2. CASE r # row
        <4>1. r \in 0..row - 1
          BY <1>n, <1>1, <3>2, SMT
        <4>2. PICK d \in 1..n : r \in InstructionRows(d)
          BY <1>n, <4>1 DEF IInv, Covering
        <4>3. CASE d = n
          <5>1. r \in index_map[n]..row - 1
            BY <1>n, <1>6, <4>2, <4>3
          <5>2. r \in index_map[n]..row
            BY <1>n, <1>1, <3>0, <5>1, SMT
          <5> QED BY <1>n, <1>6, <2>3, <5>2
        <4>4. CASE d # n
          BY <1>n, <1>3, <2>4, <4>2, <4>4, SMT
        <4> QED BY <1>n, <4>3, <4>4
      <3> QED BY <1>n, <3>1, <3>2
    <2>11. Passing'
      BY <1>n, <1>1, <1>2, <1>4, <1>8, <2>1, SMT DEF IInv, Passing, Address
    <2> QED
      BY <1>n, <1>5, <2>2, <2>7, <2>8, <2>9, <2>10, <2>11 DEF IInv, SplitsAtChanges
  <1>9. CASE Address(row) # prev_addr
    <2> DEFINE m == n + 1
    <2>1. index_map' = Append(index_map, row) /\ prev_addr' = Address(row)
      BY <1>n, <1>9 DEF NextRow
    <2>2. Len(index_map') = m /\ index_map'[m] = row
          /\ \A d \in 1..n : index_map'[d] = index_map[d]
      BY <1>n, <1>1, <1>3, <2>1, SMT
    <2>3. TypeOK'
      <3>1. index_map' \in Seq(Rows)
        BY <1>n, <1>1, <2>1, SMT DEF IInv, TypeOK, Rows
      <3>2. Address(row) \in Addresses
        <4>1. inner.addr \in Seq(Addresses) /\ Len(inner.addr) = inner.count
          BY <1>n, <1>a, TracesAssumption DEF IInv, TypeOK
        <4> QED BY <1>n, <1>1, <1>a, <4>1, SMT DEF Address
      <3>3. row' \in 0..inner'.count
        BY <1>n, <1>1, <1>2, SMT
      <3> QED BY <1>n, <1>2, <2>1, <3>1, <3>2, <3>3 DEF IInv, TypeOK
    <2>4. InstructionRows(m)' = row..row
      <3>1. End(m)' = row + 1
        BY <1>n, <1>2, <2>2 DEF End
      <3>2. row + 1 - 1 = row
        BY <1>n, <1>1, SMT
      <3>3. InstructionRows(m)' = row..(row + 1) - 1
        BY <2>2, <3>1 DEF InstructionRows
      <3> QED BY <1>1, <3>3, SMT
    <2>5. \A d \in 1..n : InstructionRows(d)' = InstructionRows(d)
      <3> SUFFICES ASSUME NEW d \in 1..n PROVE InstructionRows(d)' = InstructionRows(d)
        OBVIOUS
      <3>1. d # m /\ (d # n => d + 1 \in 1..n) /\ (d = n => d + 1 = m)
        BY <1>n, <1>3, SMT
      <3>2. End(d)' = End(d)
        BY <1>n, <2>2, <3>1 DEF End
      <3> QED BY <1>n, <2>2, <3>2 DEF InstructionRows
    <2>6. Growing'
      BY <1>n, <1>1, <1>2, <1>3, <2>2, SMTT(40) DEF IInv, SplitsAtChanges, Growing
    <2>7. OneAddress'
      <3> SUFFICES ASSUME NEW d \in 1..m, NEW r \in InstructionRows(d)'
                   PROVE  Address(r) = Address(index_map'[d])
        BY <1>n, <1>4, <2>2 DEF OneAddress
      <3>1. CASE d = m
        <4>1. r \in row..row
          BY <1>n, <2>4, <3>1
        <4>2. r = row
          BY <1>n, <1>1, <4>1, SMT
        <4> QED BY <1>n, <2>2, <3>1, <4>2
      <3>2. CASE d # m
        <4>1. d \in 1..n
          BY <1>n, <1>3, <3>2, SMT
        <4> QED BY <1>n, <2>2, <2>5, <4>1 DEF IInv, SplitsAtChanges, OneAddress
      <3> QED BY <1>n, <3>1, <3>2
    <2>8. Changing'
      <3>1. Address(row - 1) = Address(index_map[n])
        <4>1. row - 1 \in InstructionRows(n)
          BY <1>n, <1>1, <1>3, <1>6, SMT
        <4> QED BY <1>n, <1>6, <4>1 DEF IInv, SplitsAtChanges, OneAddress
      <3>2. prev_addr = Address(row - 1)
        BY <1>n, <1>1, <1>a DEF IInv, Passing
      <3> SUFFICES ASSUME NEW d \in 1..n
                   PROVE  Address(index_map'[d]) # Address(index_map'[d + 1])
        BY <1>n, <1>3, <1>4, <2>2, SMT DEF Changing
      <3>3. CASE d = n
        BY <1>n, <1>9, <2>2, <3>1, <3>2, <3>3
      <3>4. CASE d # n
        <4>1. d \in 1..n - 1 /\ d + 1 \in 1..n
          BY <1>n, <1>3, <3>4, SMT
        <4> QED BY <1>n, <2>2, <4>1 DEF IInv, SplitsAtChanges, Changing
      <3> QED BY <1>n, <3>3, <3>4
    <2>9. Covering'
      <3> SUFFICES ASSUME NEW r \in 0..row
                   PROVE  \E d \in 1..m : r \in InstructionRows(d)'
        BY <1>n, <1>1, <1>2, <2>2, SMT DEF Covering
      <3>1. CASE r = row
        <4>1. m \in 1..m /\ row \in row..row
          BY <1>n, <1>1, <1>3, SMT
        <4> QED BY <1>n, <2>4, <3>1, <4>1
      <3>2. CASE r # row
        <4>1. r \in 0..row - 1
          BY <1>n, <1>1, <3>2, SMT
        <4>2. PICK d \in 1..n : r \in InstructionRows(d)
          BY <1>n, <4>1 DEF IInv, Covering
        <4> QED BY <1>n, <1>3, <2>5, <4>2, SMT
      <3> QED BY <1>n, <3>1, <3>2
    <2>10. Passing'
      <3>1. (Address(row - 1))' = Address(row)
        BY <1>n, <1>1, <1>2, SMT DEF Address
      <3> QED BY <1>n, <1>1, <1>2, <2>1, <3>1, SMT DEF IInv, Passing
    <2> QED
      BY <1>n, <1>5, <2>3, <2>6, <2>7, <2>8, <2>9, <2>10 DEF IInv, SplitsAtChanges
  <1> QED BY <1>n, <1>8, <1>9

\* The binary search has a result for every row of the trace.
LEMMA BeforeIsPlace ==
  ASSUME IInv, built, NEW r \in Rows
  PROVE  /\ Before(r) \in 0..Len(index_map)
         /\ \A d \in 1..Len(index_map) : index_map[d] < r <=> d <= Before(r)
  <1> DEFINE n == Len(index_map)
             Place(k) == \A d \in 1..n : index_map[d] < r <=> d <= k
  <1>1. r \in 0..row - 1 /\ row \in Nat /\ n \in Nat /\ \A d \in 1..n : index_map[d] \in Nat
    BY Shapes DEF IInv, Passing, Rows
  <1>2. PICK d \in 1..n : r \in InstructionRows(d)
    BY <1>1 DEF IInv, Covering
  <1>3. index_map[d] <= r /\ (d = n \/ r < index_map[d + 1])
    BY <1>1, <1>2, SMT DEF InstructionRows, End
  <1>4. \A e, f \in 1..n : e < f => index_map[e] < index_map[f]
    BY DEF IInv, SplitsAtChanges, Growing
  <1>5. \A e \in 1..n : e > d => r < index_map[e]
    BY <1>1, <1>3, <1>4, SMT
  <1>6. \E k \in 0..n : Place(k)
    <2>0. r \in Nat /\ d \in 0..n /\ d - 1 \in 0..n
      BY <1>1, SMT
    <2>1. CASE index_map[d] < r
      <3>1. Place(d)
        BY <1>1, <1>4, <1>5, <2>0, <2>1, SMT
      <3> QED BY <2>0, <3>1
    <2>2. CASE index_map[d] = r
      <3>1. Place(d - 1)
        BY <1>1, <1>4, <1>5, <2>0, <2>2, SMT
      <3> QED BY <2>0, <3>1
    <2>3. index_map[d] < r \/ index_map[d] = r
      BY <1>1, <1>3, <2>0, SMT
    <2> QED BY <2>1, <2>2, <2>3
  <1> QED BY <1>6 DEF Before

\* The instruction reported for a row has it.
LEMMA InstructionHasRow ==
  ASSUME IInv, built, NEW r \in Rows
  PROVE  /\ InstructionOf(r) + 1 \in 1..Len(index_map)
         /\ r \in InstructionRows(InstructionOf(r) + 1)
  <1> DEFINE n == Len(index_map)
             k == Before(r)
  <1>1. r \in 0..row - 1 /\ row \in Nat /\ n \in Nat /\ \A d \in 1..n : index_map[d] \in Nat
    BY Shapes DEF IInv, Passing, Rows
  <1>2. k \in 0..n /\ \A d \in 1..n : index_map[d] < r <=> d <= k
    BY BeforeIsPlace
  <1>3. n > 0 /\ index_map[1] = 0 /\ \A d \in 1..n : index_map[d] < row
    BY <1>1, SMT DEF IInv, SplitsAtChanges, Growing
  <1>4. \A d, e \in 1..n : d < e => index_map[d] < index_map[e]
    BY DEF IInv, SplitsAtChanges, Growing
  <1> HIDE DEF k
  <1>5. CASE k < n /\ index_map[k + 1] = r
    <2>1. InstructionOf(r) = k
      BY <1>5 DEF InstructionOf, Found, k
    <2>2. k + 1 \in 1..n
      BY <1>1, <1>2, <1>5, SMT
    <2>3. r \in InstructionRows(k + 1)
      BY <1>1, <1>2, <1>4, <1>5, <2>2, SMT DEF InstructionRows, End
    <2> QED BY <2>1, <2>2, <2>3
  <1>6. CASE ~(k < n /\ index_map[k + 1] = r)
    <2>1. k > 0
      BY <1>1, <1>2, <1>3, <1>6, SMT
    <2>2. InstructionOf(r) = k - 1
      BY <1>6, <2>1 DEF InstructionOf, Found, k
    <2>3. k \in 1..n /\ index_map[k] < r
      BY <1>1, <1>2, <2>1, SMT
    <2>4. r \in InstructionRows(k)
      <3>1. CASE k = n
        BY <1>1, <2>3, <3>1, SMT DEF InstructionRows, End
      <3>2. CASE k # n
        <4>1. k + 1 \in 1..n /\ ~(index_map[k + 1] < r) /\ index_map[k + 1] # r
          BY <1>1, <1>2, <1>6, <2>3, <3>2, SMT
        <4> QED BY <1>1, <2>3, <3>2, <4>1, SMT DEF InstructionRows, End
      <3> QED BY <3>1, <3>2
    <2>5. InstructionOf(r) + 1 = k
      BY <1>1, <1>2, <2>2, SMT
    <2> QED BY <2>3, <2>4, <2>5
  <1> QED BY <1>5, <1>6

LEMMA DownsampledIndexStep ==
  ASSUME IInv, NEW r \in Rows, DownsampledIndex(r) PROVE IInv'
  <1>1. UNCHANGED <<inner, row, prev_addr, index_map>> /\ built /\ built' = built
        /\ answer' = [row |-> r, instruction |-> InstructionOf(r)]
    BY DEF DownsampledIndex
  <1>d. PICK d : d = InstructionOf(r) + 1
    OBVIOUS
  <1>2. d \in 1..Len(index_map) /\ r \in InstructionRows(d)
    BY <1>1, <1>d, InstructionHasRow
  <1>3. \A q \in index_map[d]..r : Address(q) = Address(r)
    <2>1. row \in Nat /\ \A e \in 1..Len(index_map) : index_map[e] \in Nat
      BY Shapes DEF IInv
    <2>2. End(d) \in Int /\ index_map[d] \in Nat /\ r \in Nat /\ r < End(d) /\ index_map[d] <= r
      <3>1. End(d) \in Int
        <4>1. d # Len(index_map) => d + 1 \in 1..Len(index_map)
          <5>1. Len(index_map) \in Nat
            BY Shapes DEF IInv
          <5> QED BY <1>2, <5>1, SMT
        <4> QED BY <2>1, <4>1, SMT DEF End
      <3>2. r \in Nat
        BY Shapes DEF IInv
      <3> QED BY <1>2, <2>1, <3>1, <3>2, SMT DEF InstructionRows
    <2>3. \A q \in index_map[d]..r : q \in InstructionRows(d)
      BY <2>2, SMT DEF InstructionRows
    <2> QED BY <1>2, <2>3 DEF IInv, SplitsAtChanges, OneAddress
  <1>4. AnswerContainsRow'
    <2>1. answer'.row = r /\ answer'.instruction + 1 = d
      BY <1>1, <1>d
    <2>2. index_map' = index_map
          /\ \A e : InstructionRows(e)' = InstructionRows(e)
          /\ \A q : Address(q)' = Address(q)
      BY <1>1 DEF InstructionRows, End, Address
    <2> QED BY <1>2, <1>3, <2>1, <2>2 DEF AnswerContainsRow
  <1>5. TypeOK' /\ SplitsAtChanges' /\ Covering' /\ Passing'
    BY <1>1, MapUnchanged DEF IInv, TypeOK, Passing
  <1> QED BY <1>4, <1>5 DEF IInv

\* The queries whose answer is no row, and the end of the pass.
LEMMA OtherQueryStep ==
  ASSUME IInv, UNCHANGED <<inner, row, prev_addr, index_map, built>>, built,
         "row" \notin DOMAIN answer'
  PROVE  IInv'
  <1>1. TypeOK' /\ SplitsAtChanges' /\ Covering' /\ Passing'
    BY MapUnchanged DEF IInv, TypeOK, Passing
  <1> QED BY <1>1 DEF IInv, AnswerContainsRow

LEMMA BuildStep == ASSUME IInv, Build PROVE IInv'
  <1>1. UNCHANGED <<inner, row, prev_addr, index_map, answer>> /\ built' = TRUE
        /\ row = inner.count
    BY DEF Build
  <1>2. TypeOK' /\ SplitsAtChanges' /\ Covering' /\ Passing'
    BY <1>1, MapUnchanged DEF IInv, TypeOK, Passing
  <1>3. ~(answer # None)
    BY DEF IInv, Passing, Build
  <1> QED BY <1>1, <1>2, <1>3 DEF IInv, AnswerContainsRow

LEMMA ViewStep == IInv /\ [Next]_vars => IInv'
  <1> SUFFICES ASSUME IInv, [Next]_vars PROVE IInv'
    OBVIOUS
  <1>1. CASE FirstRow
    BY <1>1, FirstRowStep
  <1>2. CASE PassThrough
    BY <1>2, PassThroughStep
  <1>3. CASE NextRow
    BY <1>3, NextRowStep
  <1>4. CASE Build
    BY <1>4, BuildStep
  <1>5. ASSUME NEW d \in 0..Len(index_map), OriginalIndex(d) PROVE IInv'
    BY <1>5, OtherQueryStep DEF OriginalIndex
  <1>6. ASSUME NEW r \in Rows, DownsampledIndex(r) PROVE IInv'
    BY <1>6, DownsampledIndexStep
  <1>7. CASE FrameBoundaries
    <2>1. "row" \notin DOMAIN answer'
      BY <1>7 DEF FrameBoundaries
    <2> QED BY <1>7, <2>1, OtherQueryStep DEF FrameBoundaries
  <1>8. CASE UNCHANGED vars
    <2>1. UNCHANGED <<inner, row, prev_addr, index_map>> /\ built' = built /\ answer' = answer
      BY <1>8 DEF vars
    <2>2. TypeOK' /\ SplitsAtChanges' /\ Covering' /\ Passing'
      BY <2>1, MapUnchanged DEF IInv, TypeOK, Passing
    <2>3. \A d : InstructionRows(d)' = InstructionRows(d) /\ Address(d)' = Address(d)
      BY <2>1 DEF InstructionRows, End, Address
    <2> QED BY <2>1, <2>2, <2>3 DEF IInv, AnswerContainsRow
  <1> QED BY <1>1, <1>2, <1>3, <1>4, <1>5, <1>6, <1>7, <1>8 DEF Next

\* The pass keeps one row per instruction and its invariant, for every trace:
\* the constructor of DownsampledStore (downsample.rs 27).
THEOREM ViewInvariant == Spec => []IInv
  BY ViewInitially, ViewStep, PTL DEF Spec

\* The map splits every trace at the changes of the instruction address.
THEOREM ViewSplitsAtChanges == Spec => []SplitsAtChanges
  <1>1. IInv => SplitsAtChanges
    BY DEF IInv
  <1> QED BY <1>1, ViewInvariant, PTL

\* downsampled_index returns "the instruction that contains this T-cycle"
\* (downsample.rs 58), for every row of every trace.
THEOREM ViewAnswerContainsRow == Spec => []AnswerContainsRow
  <1>1. IInv => AnswerContainsRow
    BY DEF IInv
  <1> QED BY <1>1, ViewInvariant, PTL

-----------------------------------------------------------------------------
(* Frames of the view.                                                     *)

Below == OpToRel(<, Nat)

LEMMA BelowWellFounded == IsWellFoundedOn(Below, Nat)
  BY NatLessThanWellFounded DEF Below

LEMMA LeastNat ==
  ASSUME NEW T \in SUBSET Nat, T # {}
  PROVE  \E m \in T : \A k \in T : m <= k
  <1>1. PICK m \in T : \A k \in T : ~(<<k, m>> \in Below)
    BY BelowWellFounded, WFMin
  <1>2. \A k \in T : ~(k < m)
    BY <1>1 DEF Below, OpToRel
  <1> QED BY <1>2

\* A set of positions that has every position before one of its own is a prefix.
LEMMA InitialSegment ==
  ASSUME NEW n \in Nat, NEW S \in SUBSET (1..n), \A p \in S : \A q \in 1..p : q \in S
  PROVE  S = 1..Cardinality(S)
  <1> DEFINE T == {k \in Nat : k + 1 \notin S}
  <1>1. n \in T
    BY SMT
  <1>2. PICK m \in T : \A k \in T : m <= k
    BY <1>1, LeastNat
  <1>3. S = 1..m
    <2>1. ASSUME NEW q \in S PROVE q \in 1..m
      <3>1. q > m => m + 1 \in S
        BY <1>2
      <3> QED BY <1>2, <3>1
    <2>2. ASSUME NEW q \in 1..m PROVE q \in S
      <3>1. q - 1 \in Nat /\ ~(m <= q - 1) /\ q - 1 + 1 = q
        BY <1>2
      <3> QED BY <1>2, <3>1
    <2> QED BY <2>1, <2>2
  <1>4. Cardinality(1..m) = m
    BY <1>2, FS_Interval
  <1> QED BY <1>3, <1>4

\* The binary search has a result for every boundary too, the end included.
LEMMA BoundaryPlace ==
  ASSUME IInv, built, NEW b \in 0..inner.count
  PROVE  /\ Before(b) \in 0..Len(index_map)
         /\ \A d \in 1..Len(index_map) : index_map[d] < b <=> d <= Before(b)
  <1>1. inner.count \in Nat /\ row = inner.count /\ Len(index_map) \in Nat
        /\ \A d \in 1..Len(index_map) : index_map[d] < row
    BY Shapes DEF IInv, Passing, SplitsAtChanges, Growing
  <1>2. CASE b \in Rows
    BY <1>2, BeforeIsPlace
  <1>3. CASE b \notin Rows
    <2>1. b = row
      BY <1>1, <1>3 DEF Rows
    <2>2. \E k \in 0..Len(index_map) : \A d \in 1..Len(index_map) : index_map[d] < b <=> d <= k
      <3>1. Len(index_map) \in 0..Len(index_map)
            /\ \A d \in 1..Len(index_map) : index_map[d] < b <=> d <= Len(index_map)
        BY <1>1, <2>1
      <3> QED BY <3>1
    <2> QED BY <2>2 DEF Before
  <1> QED BY <1>2, <1>3

\* The boundaries of the view are those at which an instruction is left, and an
\* instruction is behind as many of them as its first row is.
LEMMA BoundariesMapped == ASSUME IInv, FrameBoundaries PROVE InstructionsStayInTheirFrame'
  <1> DEFINE n == Len(index_map)
             kept == {f \in 1..Len(inner.boundaries) : MappedBoundary(inner.boundaries[f]) < n}
             K == Cardinality(kept)
             Behind(d) == {f \in 1..K : MappedBoundary(inner.boundaries[f]) <= d}
             Original(d) == {f \in 1..Len(inner.boundaries) : inner.boundaries[f] <= index_map[d + 1]}
  <1>1. /\ built /\ UNCHANGED <<inner, index_map>>
        /\ answer' = [boundaries |-> [f \in 1..K |-> MappedBoundary(inner.boundaries[f])]]
    BY DEF FrameBoundaries
  <1>2. /\ n \in Nat /\ inner.count \in Nat /\ \A d \in 1..n : index_map[d] \in Nat
        /\ Len(inner.boundaries) \in Nat
        /\ \A f \in 1..Len(inner.boundaries) : inner.boundaries[f] \in 0..inner.count
        /\ \A f, g \in 1..Len(inner.boundaries) : f < g => inner.boundaries[f] <= inner.boundaries[g]
    <2>1. inner \in Traces /\ inner.boundaries \in Seq(0..inner.count)
      BY TracesAssumption DEF IInv, TypeOK
    <2>2. Len(inner.boundaries) \in Nat
          /\ \A f \in 1..Len(inner.boundaries) : inner.boundaries[f] \in 0..inner.count
      <3>1. \A S : \A s \in Seq(S) : Len(s) \in Nat /\ \A f \in 1..Len(s) : s[f] \in S
        OBVIOUS
      <3> QED BY <2>1, <3>1, Zenon
    <2> QED BY <2>1, <2>2, Shapes, TracesAssumption DEF IInv
  <1>3. ASSUME NEW f \in 1..Len(inner.boundaries)
        PROVE  /\ MappedBoundary(inner.boundaries[f]) \in 0..n
               /\ \A d \in 1..n :
                    index_map[d] < inner.boundaries[f] <=> d <= MappedBoundary(inner.boundaries[f])
    BY <1>1, <1>2, BoundaryPlace DEF MappedBoundary
  <1>4. kept = 1..K
    <2>1. ASSUME NEW p \in kept, NEW q \in 1..p PROVE q \in kept
      <3>1. p \in 1..Len(inner.boundaries) /\ q \in 1..Len(inner.boundaries)
            /\ inner.boundaries[q] <= inner.boundaries[p]
        BY <1>2
      <3>2. MappedBoundary(inner.boundaries[q]) \in 0..n /\ MappedBoundary(inner.boundaries[p]) \in 0..n
            /\ MappedBoundary(inner.boundaries[p]) < n
        BY <1>3, <3>1
      <3>3. MappedBoundary(inner.boundaries[q]) # n
        <4> SUFFICES ASSUME MappedBoundary(inner.boundaries[q]) = n PROVE FALSE
          OBVIOUS
        <4>1. n \in 1..n
          BY <1>2, <3>2
        <4>2. index_map[n] < inner.boundaries[q]
          BY <1>2, <1>3, <3>1, <4>1
        <4>3. index_map[n] < inner.boundaries[p]
          <5>1. index_map[n] \in Nat /\ inner.boundaries[q] \in Nat /\ inner.boundaries[p] \in Nat
            BY <1>2, <3>1, <4>1
          <5> QED BY <3>1, <4>2, <5>1
        <4>4. n <= MappedBoundary(inner.boundaries[p])
          BY <1>3, <3>1, <4>1, <4>3
        <4> QED BY <1>2, <3>2, <4>4
      <3> QED BY <1>2, <3>1, <3>2, <3>3
    <2> HIDE DEF kept
    <2>2. kept \in SUBSET (1..Len(inner.boundaries))
      BY DEF kept
    <2> QED BY <1>2, <2>1, <2>2, InitialSegment
  <1>5. ASSUME NEW d \in 0..n - 1 PROVE Behind(d) = Original(d)
    <2>1. d + 1 \in 1..n /\ d \in Nat /\ index_map[d + 1] \in Nat
      BY <1>2
    <2>2. ASSUME NEW f \in 1..Len(inner.boundaries)
          PROVE  inner.boundaries[f] <= index_map[d + 1] <=> MappedBoundary(inner.boundaries[f]) <= d
      <3>1. index_map[d + 1] < inner.boundaries[f] <=> d + 1 <= MappedBoundary(inner.boundaries[f])
        BY <1>3, <2>1
      <3>2. inner.boundaries[f] \in Nat /\ MappedBoundary(inner.boundaries[f]) \in Nat
        BY <1>2, <1>3
      <3> QED BY <2>1, <3>1, <3>2
    <2>3. \A f \in 1..Len(inner.boundaries) : MappedBoundary(inner.boundaries[f]) <= d => f \in 1..K
      <3>1. \A f \in 1..Len(inner.boundaries) :
              MappedBoundary(inner.boundaries[f]) <= d => MappedBoundary(inner.boundaries[f]) < n
        <4> SUFFICES ASSUME NEW f \in 1..Len(inner.boundaries), MappedBoundary(inner.boundaries[f]) <= d
                     PROVE  MappedBoundary(inner.boundaries[f]) < n
          OBVIOUS
        <4>1. MappedBoundary(inner.boundaries[f]) \in Nat
          BY <1>3
        <4> QED BY <1>2, <4>1
      <3> QED BY <1>4, <3>1
    <2>4. 1..K \subseteq 1..Len(inner.boundaries)
      BY <1>4
    <2> HIDE DEF kept, K
    <2> QED BY <2>2, <2>3, <2>4
  <1> HIDE DEF kept, K
  <1>6. ASSUME NEW d \in 0..n - 1
        PROVE  Cardinality({f \in 1..Len(answer'.boundaries) : answer'.boundaries[f] <= d})
                 = Cardinality(Original(d))
    <2>1. K \in Nat
      <3>1. kept \subseteq 1..Len(inner.boundaries)
        BY DEF kept
      <3>2. IsFiniteSet(1..Len(inner.boundaries))
        <4>1. PICK m \in Nat : m = Len(inner.boundaries)
          BY <1>2
        <4> QED BY <4>1, FS_Interval
      <3>3. IsFiniteSet(kept)
        BY <3>1, <3>2, FS_Subset
      <3> QED BY <3>3, FS_CardinalityType DEF K
    <2>2. answer'.boundaries = [f \in 1..K |-> MappedBoundary(inner.boundaries[f])]
      BY <1>1
    <2>3. Len(answer'.boundaries) = K
      BY <2>1, <2>2
    <2>4. {f \in 1..Len(answer'.boundaries) : answer'.boundaries[f] <= d} = Behind(d)
      BY <2>2, <2>3
    <2> QED BY <1>5, <2>4
  <1>7. \A d \in 0..Len(index_map') - 1 :
          Cardinality({f \in 1..Len(answer'.boundaries) : answer'.boundaries[f] <= d})
            = Cardinality({f \in 1..Len(inner'.boundaries) : inner'.boundaries[f] <= index_map'[d + 1]})
    BY <1>1, <1>6, Zenon
  <1> QED BY <1>7, Zenon DEF InstructionsStayInTheirFrame

LEMMA FramesStep ==
  IInv /\ InstructionsStayInTheirFrame /\ [Next]_vars => InstructionsStayInTheirFrame'
  <1> SUFFICES ASSUME IInv, InstructionsStayInTheirFrame, [Next]_vars
               PROVE  InstructionsStayInTheirFrame'
    OBVIOUS
  <1>1. CASE FirstRow \/ PassThrough \/ NextRow \/ Build
    <2>1. ~built /\ answer' = answer
      BY <1>1 DEF FirstRow, PassThrough, NextRow, Build
    <2>2. answer' = None
      BY <2>1 DEF IInv, Passing
    <2> QED BY <2>2 DEF InstructionsStayInTheirFrame
  <1>2. ASSUME \/ \E d \in 0..Len(index_map) : OriginalIndex(d)
               \/ \E r \in Rows : DownsampledIndex(r)
        PROVE  InstructionsStayInTheirFrame'
    <2>1. "boundaries" \notin DOMAIN answer'
      BY <1>2 DEF OriginalIndex, DownsampledIndex
    <2> QED BY <2>1 DEF InstructionsStayInTheirFrame
  <1>3. CASE FrameBoundaries
    BY <1>3, BoundariesMapped
  <1>4. CASE UNCHANGED vars
    BY <1>4 DEF vars, InstructionsStayInTheirFrame
  <1> QED BY <1>1, <1>2, <1>3, <1>4 DEF Next

\* frame_boundaries (downsample.rs): whatever the boundaries of the trace, each
\* instruction of the view is in the frame its first row is in.
THEOREM ViewKeepsFrames == Spec => []InstructionsStayInTheirFrame
  <1>1. Init => InstructionsStayInTheirFrame
    BY DEF Init, InstructionsStayInTheirFrame
  <1> QED BY <1>1, FramesStep, ViewInvariant, PTL DEF Spec

-----------------------------------------------------------------------------
(* Recursive functions over the naturals.                                  *)

LEMMA Induction ==
  ASSUME NEW S \in SUBSET Nat, 0 \in S, \A n \in S : n + 1 \in S
  PROVE  S = Nat
  <1> SUFFICES ASSUME Nat \ S # {} PROVE FALSE
    OBVIOUS
  <1>1. PICK m \in Nat \ S : \A n \in Nat \ S : m <= n
    <2> DEFINE T == Nat \ S
    <2>1. T \subseteq Nat /\ T # {}
      OBVIOUS
    <2> HIDE DEF T
    <2>2. \E m \in T : \A n \in T : m <= n
      BY <2>1, LeastNat
    <2> QED BY <2>2 DEF T
  <1>2. m # 0 /\ m - 1 \in Nat /\ ~(m <= m - 1) /\ (m - 1) + 1 = m
    BY <1>1
  <1>3. m - 1 \in S
    BY <1>1, <1>2
  <1> QED BY <1>2, <1>3

\* A step for each of the first n numbers can be taken one after the other.
LEMMA Iterated ==
  ASSUME NEW X, NEW x \in X, NEW n \in Nat, NEW F \in [1..n -> [X -> X]]
  PROVE  \E g \in [0..n -> X] : g[0] = x /\ \A k \in 1..n : g[k] = F[k][g[k - 1]]
  <1> DEFINE Run(g, m) == g \in [0..m -> X] /\ g[0] = x /\ \A k \in 1..m : g[k] = F[k][g[k - 1]]
             S == {m \in Nat : m <= n => \E g : Run(g, m)}
  <1>1. 0 \in S
    <2>1. Run([k \in 0..0 |-> x], 0)
      OBVIOUS
    <2> QED BY <2>1
  <1>2. ASSUME NEW m \in S PROVE m + 1 \in S
    <2>1. m \in Nat
      OBVIOUS
    <2>2. SUFFICES ASSUME m + 1 <= n PROVE \E g : Run(g, m + 1)
      BY <2>1
    <2>3. PICK g : Run(g, m)
      BY <2>1, <2>2
    <2> DEFINE h == [k \in 0..m + 1 |-> IF k = m + 1 THEN F[m + 1][g[m]] ELSE g[k]]
    <2>4. g[m] \in X /\ m + 1 \in 1..n /\ F[m + 1] \in [X -> X]
      <3>1. m \in 0..m /\ m + 1 \in 1..n
        BY <2>1, <2>2
      <3> QED BY <2>3, <3>1
    <2>5. F[m + 1][g[m]] \in X
      BY <2>4
    <2>6. h \in [0..m + 1 -> X]
      <3>1. \A k \in 0..m + 1 : k # m + 1 => k \in 0..m
        BY <2>1
      <3>2. \A k \in 0..m + 1 : k # m + 1 => g[k] \in X
        BY <2>3, <3>1
      <3> QED BY <2>5, <3>2
    <2>7. h[0] = x
      BY <2>1, <2>3
    <2>8. ASSUME NEW k \in 1..m + 1 PROVE h[k] = F[k][h[k - 1]]
      <3>1. CASE k = m + 1
        <4>1. h[k] = F[m + 1][g[m]] /\ k - 1 = m /\ h[m] = g[m]
          BY <2>1, <3>1
        <4> QED BY <3>1, <4>1
      <3>2. CASE k # m + 1
        <4>1. k \in 1..m /\ k \in 0..m + 1 /\ k - 1 \in 0..m + 1 /\ k - 1 # m + 1
          BY <2>1, <3>2
        <4>2. h[k] = g[k] /\ h[k - 1] = g[k - 1]
          BY <3>2, <4>1
        <4> HIDE DEF h
        <4> QED BY <2>3, <4>1, <4>2
      <3> QED BY <3>1, <3>2
    <2> HIDE DEF h
    <2> QED BY <2>6, <2>7, <2>8
  <1>3. S = Nat
    <2> HIDE DEF S
    <2>1. S \in SUBSET Nat
      BY DEF S
    <2> QED BY <1>1, <1>2, <2>1, Induction
  <1>4. n \in S /\ n <= n
    BY <1>3
  <1> QED BY <1>4

\* The pixels of a value are colours.
LEMMA ValidAreColours ==
  ASSUME NEW pix \in Seq(Colours \cup {Invalid})
  PROVE  Valid(pix) \in Seq(Colours)
  <1> DEFINE X == Seq(Colours)
             body(k, v) == IF pix[k] # Invalid THEN Append(v, pix[k]) ELSE v
             kept[n \in 0..Len(pix)] == IF n = 0 THEN <<>>
                                        ELSE IF pix[n] # Invalid THEN Append(kept[n - 1], pix[n])
                                        ELSE kept[n - 1]
             F == [k \in 1..Len(pix) |-> [v \in X |-> body(k, v)]]
  <1>1. PICK n \in Nat : n = Len(pix)
    OBVIOUS
  <1>2. F \in [1..n -> [X -> X]]
    <2>1. ASSUME NEW k \in 1..n, NEW v \in X PROVE body(k, v) \in X
      <3>1. pix[k] \in Colours \cup {Invalid}
        BY <1>1
      <3> QED BY <3>1
    <2> HIDE DEF body, X
    <2> QED BY <1>1, <2>1
  <1>3. <<>> \in X
    OBVIOUS
  <1>4. PICK g \in [0..n -> X] : g[0] = <<>> /\ \A k \in 1..n : g[k] = F[k][g[k - 1]]
    <2> HIDE DEF F, X
    <2> QED BY ONLY <1>2, <1>3, Iterated, SMTT(30)
  <1>5. \A k \in 1..n : g[k] = body(k, g[k - 1])
    <2>1. \A k \in 1..n : g[k - 1] \in X
      <3>1. \A k \in 1..n : k - 1 \in 0..n
        OBVIOUS
      <3> HIDE DEF X
      <3> QED BY <3>1
    <2> HIDE DEF body, X
    <2> QED BY <1>1, <1>4, <2>1 DEF F
  <1>6. g = [k \in 0..Len(pix) |-> IF k = 0 THEN <<>>
                                   ELSE IF pix[k] # Invalid THEN Append(g[k - 1], pix[k])
                                   ELSE g[k - 1]]
    <2>1. g = [k \in 0..Len(pix) |-> g[k]]
      BY <1>1, <1>4
    <2>2. \A k \in 0..Len(pix) : k # 0 => k \in 1..n
      BY <1>1
    <2> QED BY <1>4, <1>5, <2>1, <2>2, Zenon
  <1>7. kept = [k \in 0..Len(pix) |-> IF k = 0 THEN <<>>
                                      ELSE IF pix[k] # Invalid THEN Append(kept[k - 1], pix[k])
                                      ELSE kept[k - 1]]
    BY <1>6
  <1> HIDE DEF kept
  <1> DEFINE S == {k \in Nat : k <= n => kept[k] \in Seq(Colours)}
  <1>8. 0 \in S
    <2>1. 0 \in 0..Len(pix)
      BY <1>1
    <2>2. kept[0] = <<>>
      BY <1>7, <2>1
    <2>3. kept[0] \in Seq(Colours)
      BY <1>3, <2>2
    <2> QED BY <2>3
  <1>9. ASSUME NEW k \in S PROVE k + 1 \in S
    <2>1. k \in Nat
      OBVIOUS
    <2>2. SUFFICES ASSUME k + 1 <= n PROVE kept[k + 1] \in Seq(Colours)
      BY <2>1
    <2>3. k + 1 \in 0..Len(pix) /\ k + 1 # 0 /\ (k + 1) - 1 = k /\ k <= n /\ k + 1 \in 1..Len(pix)
      BY <1>1, <2>1, <2>2
    <2>4. kept[k + 1] = IF pix[k + 1] # Invalid THEN Append(kept[k], pix[k + 1]) ELSE kept[k]
      <3>1. kept[k + 1] = IF pix[k + 1] # Invalid THEN Append(kept[(k + 1) - 1], pix[k + 1])
                          ELSE kept[(k + 1) - 1]
        BY <1>7, <2>3, Zenon
      <3> QED BY <2>3, <3>1, Zenon
    <2>5. pix[k + 1] \in Colours \cup {Invalid} /\ kept[k] \in Seq(Colours)
      BY <2>3
    <2> QED BY <2>4, <2>5
  <1>10. S = Nat
    <2> HIDE DEF S
    <2>1. S \in SUBSET Nat
      BY DEF S
    <2> QED BY <1>8, <1>9, <2>1, Induction
  <1>11. kept[Len(pix)] \in Seq(Colours)
    <2>1. n \in S /\ n <= n
      <3> HIDE DEF S
      <3> QED BY <1>10
    <2> QED BY <1>1, <2>1
  <1> QED BY <1>11 DEF Valid, kept

-----------------------------------------------------------------------------
(* The scans.                                                              *)
ScanInvariant == Asking /\ ViewsTyped

\* A scan stops within the trace.
LEMMA StopTyped ==
  ASSUME ScanInvariant, scan \in Scans
  PROVE  Stop \in Nat /\ Stop <= inner.count
  <1>1. inner.count \in Nat /\ index_map \in Seq(Rows)
    BY Shapes DEF ScanInvariant, ViewsTyped, IInv, TypeOK
  <1>2. \A d \in Nat : RawEnd(d) \in Nat
    <2> SUFFICES ASSUME NEW d \in Nat, RowOf(d) # None PROVE RowOf(d) \in Rows
      BY <1>1 DEF RawEnd, Rows
    <2>1. d < Len(index_map) /\ RowOf(d) = index_map[d + 1]
      BY DEF RowOf
    <2>2. d + 1 \in 1..Len(index_map)
      BY <1>1, <2>1
    <2> QED BY <1>1, <2>1, <2>2
  <1>3. asked.from \in Nat /\ asked.to \in Nat
    BY DEF ScanInvariant, Asking, Scans
  <1>4. PictureEnd \in Nat /\ MapsEnd \in Nat
    BY <1>2, <1>3 DEF PictureEnd, MapsEnd
  <1> QED BY <1>1, <1>4 DEF Stop, LowerOf

\* What the scans read at a row, and where they leave the cursor.
LEMMA RowRead ==
  ASSUME ScanInvariant, scan \in Scans, at < Stop
  PROVE  /\ at \in Rows /\ at + 1 \in 0..inner.count /\ inner.count \in Nat
         /\ inner.pix[at + 1] \in Seq(Colours \cup {Invalid})
         /\ Pixels(at) \in Seq(Colours)
         /\ inner.ly # None => Ly(at) \in LyValues /\ Ly(at) \in Nat
  <1>1. inner \in Traces /\ inner.count \in Nat /\ at \in Nat
    BY TracesAssumption DEF ScanInvariant, ViewsTyped, IInv, TypeOK
  <1>2. at < inner.count
    BY <1>1, StopTyped
  <1>3. at \in Rows /\ at + 1 \in 1..inner.count
    BY <1>1, <1>2 DEF Rows
  <1>4. inner.pix[at + 1] \in Seq(Colours \cup {Invalid})
    <2>1. inner.pix \in Seq(Seq(Colours \cup {Invalid})) /\ Len(inner.pix) = inner.count
      BY <1>1, PixelsAssumption DEF ScanInvariant, Asking
    <2>2. \A S : \A s \in Seq(S) : \A f \in 1..Len(s) : s[f] \in S
      OBVIOUS
    <2> QED BY <1>3, <2>1, <2>2, Zenon
  <1>5. inner.ly # None => Ly(at) \in LyValues
    <2>1. inner.ly # None => inner.ly \in Seq(LyValues) /\ Len(inner.ly) = inner.count
      BY <1>1, PixelsAssumption
    <2>2. \A S : \A s \in Seq(S) : \A f \in 1..Len(s) : s[f] \in S
      OBVIOUS
    <2> QED BY <1>3, <2>1, <2>2, Zenon DEF Ly
  <1>6. Pixels(at) \in Seq(Colours)
    BY <1>4, ValidAreColours DEF Pixels
  <1>7. inner.ly # None => Ly(at) \in Nat
    BY <1>5, LcdAssumption
  <1>8. at + 1 \in 0..inner.count
    BY <1>1, <1>3
  <1> QED BY <1>1, <1>3, <1>4, <1>5, <1>6, <1>7, <1>8

LEMMA OnScreen ==
  ASSUME NEW y \in Nat, NEW x \in Nat, y < LCD_HEIGHT, x < LCD_WIDTH
  PROVE  y * LCD_WIDTH + x \in Cells
  <1>1. PICK w \in Nat, h \in Nat : w = LCD_WIDTH /\ h = LCD_HEIGHT
    BY LcdAssumption
  <1>2. y * w \in Nat /\ w * h \in Nat
    OBVIOUS
  <1>3. (h - 1) * w = h * w - w /\ h * w = w * h
    OBVIOUS
  <1>4. y * w <= (h - 1) * w
    <2>1. y <= h - 1 /\ h - 1 \in Nat
      BY <1>1
    <2> QED BY <2>1
  <1>5. y * w + x < w * h
    BY <1>1, <1>2, <1>3, <1>4
  <1> QED BY <1>1, <1>2, <1>5 DEF Cells, SIZE

\* Every pixel that is placed is on the screen, and a row's pixels on a line end
\* where the line does.
LEMMA PixelsPlaced ==
  ASSUME ScanInvariant, scan \in Scans, at < Stop
  PROVE  /\ Placed(at) \subseteq 1..Len(Pixels(at))
         /\ \A k \in Placed(at) : CellOf(at, k) \in Cells
         /\ IsFiniteSet(Placed(at))
         /\ inner.ly # None => Column(at) + Cardinality(Placed(at)) \in 0..LCD_WIDTH
  <1> DEFINE n == Len(Pixels(at))
  <1>1. n \in Nat /\ (inner.ly # None => Ly(at) \in Nat)
    BY RowRead
  <1>2. pixel_idx \in Nat /\ scanline_x \in 0..LCD_WIDTH /\ LCD_WIDTH \in Nat /\ LCD_HEIGHT \in Nat
        /\ SIZE \in Nat
    <2>1. LCD_WIDTH \in Nat /\ LCD_HEIGHT \in Nat
      BY LcdAssumption
    <2> QED BY <2>1 DEF ScanInvariant, ViewsTyped, SIZE
  <1> HIDE DEF n
  <1>3. Placed(at) \subseteq 1..n
    BY DEF Placed, n
  <1>4. Column(at) \in 0..LCD_WIDTH
    BY <1>2 DEF Column
  <1>5. ASSUME NEW k \in Placed(at) PROVE CellOf(at, k) \in Cells
    <2>1. k \in 1..n /\ k \in Nat /\ k >= 1 /\ CellOf(at, k) # None
      BY <1>1, <1>3 DEF Placed
    <2>2. CASE inner.ly = None
      <3>1. pixel_idx + k - 1 < SIZE /\ CellOf(at, k) = pixel_idx + k - 1
        BY <2>1, <2>2 DEF CellOf
      <3> QED BY <1>2, <2>1, <3>1 DEF Cells
    <2>3. CASE inner.ly # None
      <3>1. Ly(at) < LCD_HEIGHT /\ Column(at) + k - 1 < LCD_WIDTH
            /\ CellOf(at, k) = Ly(at) * LCD_WIDTH + Column(at) + k - 1
        BY <2>1, <2>3 DEF CellOf
      <3>2. PICK x \in Nat : x = Column(at) + k - 1
        BY <1>4, <2>1
      <3>3. Ly(at) * LCD_WIDTH + x \in Cells
        BY <1>1, <2>3, <3>1, <3>2, OnScreen
      <3>4. CellOf(at, k) = Ly(at) * LCD_WIDTH + x
        <4>1. PICK y \in Nat : y = Ly(at) * LCD_WIDTH
          BY <1>1, <1>2, <2>3
        <4> QED BY <1>4, <2>1, <3>1, <3>2, <4>1
      <3> QED BY <3>3, <3>4
    <2> QED BY <2>2, <2>3
  <1>6. IsFiniteSet(Placed(at))
    <2>1. IsFiniteSet(1..n)
      BY <1>1, FS_Interval
    <2> QED BY <1>3, <2>1, FS_Subset
  <1>7. ASSUME inner.ly # None PROVE Column(at) + Cardinality(Placed(at)) \in 0..LCD_WIDTH
    <2>1. PICK c \in Nat, w \in Nat : c = Column(at) /\ w = LCD_WIDTH /\ c <= w
      BY <1>2, <1>4
    <2>2. Placed(at) \subseteq 1..w - c
      <3> SUFFICES ASSUME NEW k \in Placed(at) PROVE k \in 1..w - c
        OBVIOUS
      <3>1. k \in 1..n /\ k \in Nat /\ k >= 1 /\ CellOf(at, k) # None
        BY <1>1, <1>3 DEF Placed
      <3>2. Column(at) + k - 1 < LCD_WIDTH
        BY <1>7, <3>1 DEF CellOf
      <3> QED BY <2>1, <3>1, <3>2
    <2>3. IsFiniteSet(1..w - c) /\ Cardinality(1..w - c) = w - c
      <3>1. PICK m \in Nat : m = w - c
        BY <2>1
      <3>2. IsFiniteSet(1..m) /\ Cardinality(1..m) = m
        BY FS_Interval
      <3> QED BY <3>1, <3>2
    <2>4. Cardinality(Placed(at)) \in Nat /\ Cardinality(Placed(at)) <= w - c
      BY <1>6, <2>2, <2>3, FS_Subset, FS_CardinalityType
    <2> QED BY <2>1, <2>4
  <1> QED BY <1>3, <1>5, <1>6, <1>7 DEF n

\* A set of positions that is not empty has a last.
LEMMA LastIsThere ==
  ASSUME NEW n \in Nat, NEW S \in SUBSET (0..n), S # {}
  PROVE  LastOf(S) \in S /\ \A k \in S : k <= LastOf(S)
  <1> DEFINE T == {k \in Nat : \A q \in S : q <= k}
  <1>1. n \in T
    OBVIOUS
  <1>2. PICK m \in T : \A k \in T : m <= k
    <2>1. T \in SUBSET Nat /\ T # {}
      BY <1>1
    <2> HIDE DEF T
    <2> QED BY <2>1, LeastNat
  <1>3. m \in S
    <2> SUFFICES ASSUME m \notin S PROVE FALSE
      OBVIOUS
    <2>1. \A q \in S : q <= m - 1
      BY <1>2
    <2>2. m - 1 \in Nat
      <3>1. PICK q \in S : q <= m - 1
        BY <2>1
      <3> QED BY <1>2, <3>1
    <2>3. m - 1 \in T
      BY <2>1, <2>2
    <2> QED BY <1>2, <2>3
  <1>4. \E k \in S : \A q \in S : q <= k
    BY <1>2, <1>3
  <1> QED BY <1>4 DEF LastOf

\* The map has no more instructions than the trace has rows.
LEMMA MapNoLonger == ASSUME IInv PROVE Len(index_map) <= inner.count
  <1>1. Len(index_map) \in Nat /\ inner.count \in Nat /\ index_map \in Seq(Rows)
    BY Shapes DEF IInv, TypeOK
  <1>2. PICK n \in Nat, m \in Nat : n = Len(index_map) /\ m = inner.count
    BY <1>1
  <1>3. IsFiniteSet(0..m - 1) /\ Cardinality(0..m - 1) = m
        /\ IsFiniteSet(1..n) /\ Cardinality(1..n) = n
    BY FS_Interval
  <1>4. [d \in 1..n |-> index_map[d]] \in Injection(1..n, 0..m - 1)
    <2>1. \A d \in 1..n : index_map[d] \in 0..m - 1
      BY <1>1, <1>2 DEF Rows
    <2>2. \A d, e \in 1..n : d # e => index_map[d] # index_map[e]
      BY <1>2, <2>1 DEF IInv, SplitsAtChanges, Growing
    <2> QED BY <2>1, <2>2 DEF Injection, IsInjective
  <1>5. n <= m
    BY <1>3, <1>4, FS_Injection DEF ExistsInjection
  <1> QED BY <1>2, <1>5

LEMMA PlaceTyped ==
  ASSUME IInv, built, NEW r \in Rows
  PROVE  PlaceOf(r) \in Rows
  <1>1. InstructionOf(r) + 1 \in 1..Len(index_map)
    BY InstructionHasRow
  <1>2. InstructionOf(r) \in Nat
    <2>1. Before(r) \in Nat
      BY BeforeIsPlace, Shapes DEF IInv
    <2> QED BY <2>1 DEF InstructionOf
  <1>3. Len(index_map) <= inner.count /\ Len(index_map) \in Nat /\ inner.count \in Nat
    BY MapNoLonger, Shapes DEF IInv
  <1> QED BY <1>1, <1>2, <1>3 DEF PlaceOf, Rows

LEMMA SizeTyped == SIZE \in Nat
  <1>1. PICK w \in Nat, h \in Nat : w = LCD_WIDTH /\ h = LCD_HEIGHT
    BY LcdAssumption
  <1>2. w * h \in Nat
    OBVIOUS
  <1> QED BY <1>1, <1>2 DEF SIZE

\* A scan begins at a row of the trace, or at its end.
LEMMA StartTyped ==
  ASSUME IInv, NEW instructions \in BOOLEAN, NEW from \in Nat,
         ~instructions => from <= inner.count
  PROVE  RawStart(instructions, from) \in 0..inner.count
  <1>1. index_map \in Seq(Rows) /\ inner.count \in Nat
    BY Shapes DEF IInv, TypeOK
  <1>2. RowOf(from) # None => RowOf(from) \in Rows
    <2>1. from < Len(index_map) => from + 1 \in 1..Len(index_map)
      BY <1>1
    <2> QED BY <1>1, <2>1 DEF RowOf
  <1> QED BY <1>1, <1>2 DEF RawStart, Rows

\* Nothing a scan does is a step of the view.
LEMMA ViewLeftAlone ==
  ASSUME ScanInvariant, UNCHANGED vars
  PROVE  IInv'
  BY ViewStep DEF ScanInvariant, ViewsTyped

\* A row of a scan: the cursor goes on, and what is noted is on the screen.
LEMMA RowOfScan ==
  ASSUME ScanInvariant, scan \in Scans, at < Stop, ScanUnchanged, NextRowOfScan,
         pixel_idx' \in Nat, scanline_x' \in 0..LCD_WIDTH, last_ly' \in LyValues \cup {None},
         picture' \in [Cells -> Colours \cup {None}],
         painters' \in [Cells -> Rows \cup {None}],
         \A p \in DOMAIN positions' : positions'[p] \in Cells \cup {None},
         DOMAIN positions' = DOMAIN positions
  PROVE  ScanInvariant'
  <1>1. UNCHANGED <<vars, asked, scan>> /\ at' = at + 1
    BY DEF ScanUnchanged, NextRowOfScan
  <1>2. UNCHANGED <<inner, built, answer, index_map>>
    BY <1>1 DEF vars
  <1>3. IInv'
    BY <1>1, ViewLeftAlone
  <1>4. Asking'
    BY <1>1, <1>2 DEF ScanInvariant, Asking
  <1>5. at' \in 0..inner'.count
    BY <1>1, <1>2, RowRead
  <1>6. Rows' = Rows
    BY <1>2 DEF Rows
  <1> QED
    BY <1>1, <1>3, <1>4, <1>5, <1>6 DEF ScanInvariant, ViewsTyped

LEMMA LineAdvanced ==
  ASSUME ScanInvariant, scan \in Scans, at < Stop,
         \/ inner.ly # None /\ AdvanceLine(at)
         \/ inner.ly = None /\ pixel_idx' \in Nat /\ UNCHANGED <<scanline_x, last_ly>>
  PROVE  pixel_idx' \in Nat /\ scanline_x' \in 0..LCD_WIDTH /\ last_ly' \in LyValues \cup {None}
  <1>1. pixel_idx \in Nat /\ scanline_x \in 0..LCD_WIDTH /\ last_ly \in LyValues \cup {None}
    BY DEF ScanInvariant, ViewsTyped
  <1>2. CASE inner.ly # None
    <2>1. scanline_x' = Column(at) + Cardinality(Placed(at)) /\ last_ly' = Ly(at) /\ pixel_idx' = pixel_idx
      BY <1>2 DEF AdvanceLine
    <2> QED BY <1>1, <1>2, <2>1, PixelsPlaced, RowRead
  <1>3. CASE inner.ly = None
    BY <1>1, <1>3
  <1> QED BY <1>2, <1>3

LEMMA PictureRowStep == ASSUME ScanInvariant, PictureRow PROVE ScanInvariant'
  <1>1. scan \in Scans /\ at < Stop /\ ScanUnchanged /\ NextRowOfScan
        /\ picture' = Painted(at) /\ UNCHANGED <<positions, painters>>
    BY DEF PictureRow, Scans
  <1>2. pixel_idx' \in Nat /\ scanline_x' \in 0..LCD_WIDTH /\ last_ly' \in LyValues \cup {None}
    <2>1. Len(Pixels(at)) \in Nat /\ pixel_idx \in Nat
      BY <1>1, RowRead DEF ScanInvariant, ViewsTyped
    <2>2. inner.ly = None => pixel_idx' \in Nat /\ UNCHANGED <<scanline_x, last_ly>>
      BY <2>1, SizeTyped DEF PictureRow, LowerOf
    <2>3. inner.ly # None => AdvanceLine(at)
      BY DEF PictureRow
    <2> QED BY <1>1, <2>2, <2>3, LineAdvanced
  <1>3. Painted(at) \in [Cells -> Colours \cup {None}]
    <2>1. picture \in [Cells -> Colours \cup {None}]
      BY DEF ScanInvariant, ViewsTyped
    <2>2. ASSUME NEW c \in CellsOf(at)
          PROVE  Pixels(at)[CHOOSE k \in Placed(at) : CellOf(at, k) = c] \in Colours
      <3>1. \E k \in Placed(at) : CellOf(at, k) = c
        BY <2>2 DEF CellsOf
      <3>2. (CHOOSE k \in Placed(at) : CellOf(at, k) = c) \in 1..Len(Pixels(at))
        BY <1>1, <3>1, PixelsPlaced
      <3>3. Pixels(at) \in Seq(Colours)
        BY <1>1, RowRead
      <3> QED BY <3>2, <3>3
    <2> QED BY <2>1, <2>2 DEF Painted
  <1>4. painters' \in [Cells -> Rows \cup {None}] /\ DOMAIN positions' = DOMAIN positions
        /\ \A p \in DOMAIN positions' : positions'[p] \in Cells \cup {None}
    BY <1>1 DEF ScanInvariant, ViewsTyped
  <1> QED BY <1>1, <1>2, <1>3, <1>4, RowOfScan

LEMMA PictureDumpStep == ASSUME ScanInvariant, PictureDump PROVE ScanInvariant'
  <1>1. scan \in Scans /\ at < Stop /\ ScanUnchanged /\ NextRowOfScan /\ pixel_idx' = SIZE
        /\ picture' = [c \in Cells |-> IF c < Len(Pixels(at)) THEN Pixels(at)[c + 1] ELSE picture[c]]
        /\ UNCHANGED <<scanline_x, last_ly, positions, painters>>
    BY DEF PictureDump, Scans
  <1>2. picture' \in [Cells -> Colours \cup {None}]
    <2>1. picture \in [Cells -> Colours \cup {None}]
      BY DEF ScanInvariant, ViewsTyped
    <2>2. Pixels(at) \in Seq(Colours)
      BY <1>1, RowRead
    <2>3. \A c \in Cells : c < Len(Pixels(at)) => Pixels(at)[c + 1] \in Colours
      <3>1. \A c \in Cells : c \in Nat
        BY SizeTyped DEF Cells
      <3>2. \A c \in Cells : c < Len(Pixels(at)) => c + 1 \in 1..Len(Pixels(at))
        BY <2>2, <3>1
      <3> QED BY <2>2, <3>2
    <2> QED BY <1>1, <2>1, <2>3
  <1>3. /\ pixel_idx' \in Nat /\ scanline_x' \in 0..LCD_WIDTH /\ last_ly' \in LyValues \cup {None}
        /\ painters' \in [Cells -> Rows \cup {None}] /\ DOMAIN positions' = DOMAIN positions
        /\ \A p \in DOMAIN positions' : positions'[p] \in Cells \cup {None}
    BY <1>1, SizeTyped DEF ScanInvariant, ViewsTyped
  <1> QED BY <1>1, <1>2, <1>3, RowOfScan

LEMMA MapRowStep == ASSUME ScanInvariant, PositionsRow \/ PaintersRow PROVE ScanInvariant'
  <1>1. scan \in Scans /\ at < Stop /\ ScanUnchanged /\ NextRowOfScan /\ AdvanceMaps
        /\ picture' = picture
    BY DEF PositionsRow, PaintersRow, Scans
  <1>2. pixel_idx' \in Nat /\ scanline_x' \in 0..LCD_WIDTH /\ last_ly' \in LyValues \cup {None}
    <2>1. Len(Pixels(at)) \in Nat /\ pixel_idx \in Nat
      BY <1>1, RowRead DEF ScanInvariant, ViewsTyped
    <2>2. \/ inner.ly # None /\ AdvanceLine(at)
          \/ inner.ly = None /\ pixel_idx' \in Nat /\ UNCHANGED <<scanline_x, last_ly>>
      BY <1>1, <2>1 DEF AdvanceMaps
    <2> QED BY <1>1, <2>2, LineAdvanced
  <1>3. picture' \in [Cells -> Colours \cup {None}] /\ painters \in [Cells -> Rows \cup {None}]
        /\ \A p \in DOMAIN positions : positions[p] \in Cells \cup {None}
    BY <1>1 DEF ScanInvariant, ViewsTyped
  <1>4. painters' \in [Cells -> Rows \cup {None}]
    <2>1. CASE PositionsRow
      BY <1>3, <2>1 DEF PositionsRow
    <2>2. CASE PaintersRow
      <3>1. PlaceOf(at) \in Rows
        BY <1>1, RowRead, PlaceTyped DEF ScanInvariant, ViewsTyped, Asking, Scans
      <3> QED BY <1>3, <2>2, <3>1 DEF PaintersRow
    <2> QED BY <2>1, <2>2
  <1>5. /\ DOMAIN positions' = DOMAIN positions
        /\ \A p \in DOMAIN positions' : positions'[p] \in Cells \cup {None}
    <2>1. CASE PositionsRow
      <3>1. Placed(at) # {} => CellOf(at, LastOf(Placed(at))) \in Cells
        <4>1. Len(Pixels(at)) \in Nat
          BY <1>1, RowRead
        <4> QED BY <1>1, <4>1, PixelsPlaced, LastIsThere
      <3> QED BY <1>3, <2>1, <3>1 DEF PositionsRow
    <2>2. CASE PaintersRow
      BY <1>3, <2>2 DEF PaintersRow
    <2> QED BY <2>1, <2>2
  <1> QED BY <1>1, <1>2, <1>3, <1>4, <1>5, RowOfScan

LEMMA ScanStep == ScanInvariant /\ [NextViews]_<<vars, fvars>> => ScanInvariant'
  <1> SUFFICES ASSUME ScanInvariant, [NextViews]_<<vars, fvars>> PROVE ScanInvariant'
    OBVIOUS
  <1>1. CASE Next /\ scan = "idle" /\ UNCHANGED fvars
    <2>1. IInv'
      BY <1>1, ViewStep DEF ScanInvariant, ViewsTyped
    <2>2. UNCHANGED <<asked, scan, at, cursor, views>>
      BY <1>1 DEF fvars
    <2>3. inner' = inner
      BY <1>1 DEF Next, FirstRow, PassThrough, NextRow, Build, OriginalIndex, DownsampledIndex, FrameBoundaries
    <2>4. Rows' = Rows
      BY <2>3 DEF Rows
    <2>5. Asking'
      BY <1>1, <2>2 DEF ScanInvariant, Asking, Scans
    <2> QED
      BY <2>1, <2>2, <2>3, <2>4, <2>5 DEF ScanInvariant, ViewsTyped, cursor, views
  <1>2. ASSUME NEW instructions \in BOOLEAN, NEW from \in Nat, NEW to \in Nat,
               Ask(instructions, from, to), from <= to,
               IF instructions THEN from < Len(index_map) ELSE to <= inner.count
        PROVE  ScanInvariant'
    <2>1. /\ UNCHANGED <<vars, cursor, picture, painters>> /\ built
          /\ asked' = [instructions |-> instructions, from |-> from, to |-> to]
          /\ positions' = [p \in from..to - 1 |-> None]
          /\ at' = RawStart(instructions, from)
          /\ scan' = IF inner.pix = None THEN "done" ELSE "picture"
      BY <1>2 DEF Ask
    <2>2. UNCHANGED <<inner, built, index_map>> /\ inner.count \in Nat
      BY <2>1, Shapes DEF vars, ScanInvariant, ViewsTyped, IInv
    <2>3. IInv'
      BY <2>1, ViewLeftAlone
    <2>4. Asking'
      BY <1>2, <2>1, <2>2 DEF Asking, Scans
    <2>5. at' \in 0..inner'.count
      <3>1. ~instructions => from <= inner.count
        BY <1>2, <2>2
      <3> QED BY <2>1, <2>2, <3>1, StartTyped DEF ScanInvariant, ViewsTyped
    <2>6. Rows' = Rows
      BY <2>2 DEF Rows
    <2> QED
      BY <2>1, <2>3, <2>4, <2>5, <2>6 DEF ScanInvariant, ViewsTyped, cursor, Asking, Scans
  <1>3. inner.count \in Nat /\ Len(index_map) \in Nat
    BY Shapes DEF ScanInvariant, ViewsTyped, IInv
  <1>4. ASSUME NEW from \in 0..inner.count, NEW to \in from..inner.count, Ask(FALSE, from, to)
        PROVE  ScanInvariant'
    <2>1. from \in Nat /\ to \in Nat /\ from <= to /\ to <= inner.count /\ FALSE \in BOOLEAN
      BY <1>3
    <2> QED BY <1>2, <1>4, <2>1
  <1>5. ASSUME NEW f \in 1..Len(inner.boundaries), AskFrame(f) PROVE ScanInvariant'
    <2>1. inner.boundaries \in Seq(0..inner.count)
      BY TracesAssumption DEF ScanInvariant, ViewsTyped, IInv, TypeOK
    <2>2. \A S : \A s \in Seq(S) : Len(s) \in Nat /\ \A g \in 1..Len(s) : s[g] \in S
      OBVIOUS
    <2>3. Len(inner.boundaries) \in Nat
          /\ \A g \in 1..Len(inner.boundaries) : inner.boundaries[g] \in 0..inner.count
      BY <2>1, <2>2, Zenon
    <2>4. /\ inner.boundaries[f] \in Nat /\ FrameEnd(f) \in Nat
          /\ inner.boundaries[f] <= FrameEnd(f) /\ FrameEnd(f) <= inner.count
      <3>1. f < Len(inner.boundaries) =>
              f + 1 \in 1..Len(inner.boundaries) /\ inner.boundaries[f] <= inner.boundaries[f + 1]
        <4>1. \A g, h \in 1..Len(inner.boundaries) : g < h => inner.boundaries[g] <= inner.boundaries[h]
          BY TracesAssumption DEF ScanInvariant, ViewsTyped, IInv, TypeOK
        <4>2. f < Len(inner.boundaries) => f + 1 \in 1..Len(inner.boundaries) /\ f < f + 1
          BY <2>3
        <4> QED BY <4>1, <4>2
      <3> QED BY <1>3, <2>3, <3>1 DEF FrameEnd
    <2> QED BY <1>2, <1>5, <2>4 DEF AskFrame
  <1>6. ASSUME NEW from \in 0..Len(index_map) - 1, NEW to \in from..Len(index_map),
               Ask(TRUE, from, to)
        PROVE  ScanInvariant'
    <2>1. from \in Nat /\ to \in Nat /\ from <= to /\ from < Len(index_map) /\ TRUE \in BOOLEAN
      BY <1>3
    <2> QED BY <1>2, <1>6, <2>1
  <1>7. CASE EmptyRow \/ SkipDump
    <2>1. scan \in Scans /\ at < Stop /\ ScanUnchanged /\ NextRowOfScan /\ UNCHANGED <<cursor, views>>
      BY <1>7 DEF EmptyRow, SkipDump, Scans
    <2> QED BY <2>1, RowOfScan DEF cursor, views, ScanInvariant, ViewsTyped
  <1>8. CASE PictureDump
    BY <1>8, PictureDumpStep
  <1>9. CASE PictureRow
    BY <1>9, PictureRowStep
  <1>10. CASE PositionsRow \/ PaintersRow
    BY <1>10, MapRowStep
  <1>11. CASE ScanOver
    <2>1. /\ scan \in Scans /\ scan' \in {"positions", "painters", "done"}
          /\ at' = RawStart(asked.instructions, asked.from)
          /\ pixel_idx' = 0 /\ scanline_x' = 0 /\ last_ly' = None
          /\ UNCHANGED <<vars, asked, views>>
      BY <1>11 DEF ScanOver, Scans, ResetCursor
    <2>2. UNCHANGED <<inner, built, answer, index_map, positions>>
      BY <2>1 DEF vars, views
    <2>3. IInv'
      BY <2>1, ViewLeftAlone
    <2>4. Asking'
      BY <2>1, <2>2 DEF ScanInvariant, Asking, Scans
    <2>5. at' \in 0..inner'.count
      <3>1. inner.count \in Nat
        BY Shapes DEF ScanInvariant, ViewsTyped, IInv
      <3>2. /\ asked.instructions \in BOOLEAN /\ asked.from \in Nat
            /\ ~asked.instructions => asked.from <= inner.count
        BY <2>1, <3>1 DEF ScanInvariant, Asking, Scans
      <3> QED BY <2>1, <2>2, <3>2, StartTyped DEF ScanInvariant, ViewsTyped
    <2>6. Rows' = Rows /\ 0 \in 0..LCD_WIDTH
      BY <2>2, LcdAssumption DEF Rows
    <2> QED
      BY <2>1, <2>3, <2>4, <2>5, <2>6 DEF ScanInvariant, ViewsTyped, views, Asking, Scans
  <1>12. CASE UNCHANGED <<vars, fvars>>
    <2>1. UNCHANGED <<inner, built, index_map, asked, scan, at, cursor, views>>
      BY <1>12 DEF vars, fvars
    <2>2. IInv' /\ Rows' = Rows
      BY <1>12, <2>1, ViewLeftAlone DEF Rows
    <2> QED BY <2>1, <2>2 DEF ScanInvariant, ViewsTyped, Asking, cursor, views
  <1> QED
    BY <1>1, <1>4, <1>5, <1>6, <1>7, <1>8, <1>9, <1>10, <1>11, <1>12 DEF NextViews

LEMMA ScanInit == InitViews => ScanInvariant
  <1> SUFFICES ASSUME InitViews PROVE ScanInvariant
    OBVIOUS
  <1>1. IInv /\ inner.count \in Nat
    BY ViewInitially, TracesAssumption DEF InitViews, Init
  <1>2. Asking
    BY DEF InitViews, Asking, Scans
  <1>3. 0 \in 0..inner.count /\ 0 \in 0..LCD_WIDTH
    BY <1>1, LcdAssumption
  <1>4. \A p \in DOMAIN <<>> : <<>>[p] \in Cells \cup {None}
    OBVIOUS
  <1> QED
    BY <1>1, <1>2, <1>3, <1>4 DEF InitViews, ScanInvariant, ViewsTyped, Unrendered, Asking, Scans

-----------------------------------------------------------------------------
(* Counting pixels.                                                        *)

\* What the pix and ly columns hold at a row.
LEMMA RowTyped ==
  ASSUME ScanInvariant, inner.pix # None, NEW r \in Rows
  PROVE  /\ r \in Nat /\ r < inner.count /\ inner.count \in Nat
         /\ Pixels(r) \in Seq(Colours) /\ Len(Pixels(r)) \in Nat
         /\ inner.ly # None => Ly(r) \in LyValues /\ Ly(r) \in Nat
  <1>1. inner \in Traces /\ inner.count \in Nat
    BY TracesAssumption DEF ScanInvariant, ViewsTyped, IInv, TypeOK
  <1>2. r \in Nat /\ r < inner.count /\ r + 1 \in 1..inner.count
    BY <1>1 DEF Rows
  <1>3. \A S : \A s \in Seq(S) : \A f \in 1..Len(s) : s[f] \in S
    OBVIOUS
  <1>4. Pixels(r) \in Seq(Colours)
    <2>1. inner.pix \in Seq(Seq(Colours \cup {Invalid})) /\ Len(inner.pix) = inner.count
      BY <1>1, PixelsAssumption
    <2>2. inner.pix[r + 1] \in Seq(Colours \cup {Invalid})
      BY <1>2, <1>3, <2>1, Zenon
    <2> QED BY <2>2, ValidAreColours DEF Pixels
  <1>5. inner.ly # None => Ly(r) \in LyValues
    <2>1. inner.ly # None => inner.ly \in Seq(LyValues) /\ Len(inner.ly) = inner.count
      BY <1>1, PixelsAssumption
    <2> QED BY <1>2, <1>3, <2>1, Zenon DEF Ly
  <1>6. inner.ly # None => Ly(r) \in Nat
    BY <1>5, LcdAssumption
  <1>7. Len(Pixels(r)) \in Nat
    BY <1>4
  <1> QED BY <1>1, <1>2, <1>4, <1>5, <1>6, <1>7

\* The count of the pixels of the rows before k that are in S.
Counts(g, S) ==
  /\ g \in [0..inner.count -> Nat]
  /\ g[0] = 0
  /\ \A k \in 1..inner.count :
       g[k] = g[k - 1] + (IF k - 1 \in S THEN Len(Pixels(k - 1)) ELSE 0)

LEMMA PixelsCounted ==
  ASSUME inner.count \in Nat, \A r \in Rows : Len(Pixels(r)) \in Nat, NEW S
  PROVE  \E g : Counts(g, S) /\ PixelCount(S) = g[inner.count]
  <1> DEFINE count[n \in 0..inner.count] ==
               IF n = 0 THEN 0
               ELSE count[n - 1] + (IF n - 1 \in S THEN Len(Pixels(n - 1)) ELSE 0)
             more(k) == IF k - 1 \in S THEN Len(Pixels(k - 1)) ELSE 0
             X == Nat
             F == [k \in 1..inner.count |-> [v \in X |-> v + more(k)]]
  <1>1. PICK n \in Nat : n = inner.count
    OBVIOUS
  <1>2. \A k \in 1..n : more(k) \in Nat
    <2>1. \A k \in 1..n : k - 1 \in Rows
      BY <1>1 DEF Rows
    <2> QED BY <2>1
  <1> HIDE DEF more
  <1>3. F \in [1..n -> [X -> X]]
    BY <1>1, <1>2
  <1>4. PICK g \in [0..n -> X] : g[0] = 0 /\ \A k \in 1..n : g[k] = F[k][g[k - 1]]
    <2>1. 0 \in X
      OBVIOUS
    <2> HIDE DEF F, X
    <2> QED BY ONLY <1>3, <2>1, Iterated, SMTT(30)
  <1>5. \A k \in 1..n : g[k] = g[k - 1] + more(k)
    <2>1. \A k \in 1..n : g[k - 1] \in Nat
      <3>1. \A k \in 1..n : k - 1 \in 0..n
        OBVIOUS
      <3> QED BY <3>1
    <2> QED BY <1>1, <1>4, <2>1 DEF F
  <1>6. g = [k \in 0..inner.count |->
               IF k = 0 THEN 0
               ELSE g[k - 1] + (IF k - 1 \in S THEN Len(Pixels(k - 1)) ELSE 0)]
    <2>1. g = [k \in 0..inner.count |-> g[k]]
      BY <1>1, <1>4
    <2>2. \A k \in 0..inner.count : k # 0 => k \in 1..n
      BY <1>1
    <2> QED BY <1>4, <1>5, <2>1, <2>2, Zenon DEF more
  <1>7. count = [k \in 0..inner.count |->
                   IF k = 0 THEN 0
                   ELSE count[k - 1] + (IF k - 1 \in S THEN Len(Pixels(k - 1)) ELSE 0)]
    BY <1>6
  <1>8. PixelCount(S) = count[inner.count]
    BY DEF PixelCount
  <1> HIDE DEF count, F
  <1>9. \A k \in 0..n : count[k] = g[k]
    <2> DEFINE T == {k \in Nat : k <= n => count[k] = g[k]}
    <2>1. 0 \in T
      <3>1. 0 \in 0..inner.count
        BY <1>1
      <3>2. count[0] = 0
        BY <1>7, <3>1
      <3> QED BY <1>4, <3>2
    <2>2. ASSUME NEW k \in T PROVE k + 1 \in T
      <3>1. k \in Nat
        OBVIOUS
      <3>2. SUFFICES ASSUME k + 1 <= n PROVE count[k + 1] = g[k + 1]
        BY <3>1
      <3>3. k + 1 \in 0..inner.count /\ k + 1 # 0 /\ (k + 1) - 1 = k /\ k <= n
            /\ k + 1 \in 1..inner.count
        BY <1>1, <3>1, <3>2
      <3>4. count[k + 1] = count[(k + 1) - 1] + (IF (k + 1) - 1 \in S THEN Len(Pixels((k + 1) - 1)) ELSE 0)
        BY <1>7, <3>3, Zenon
      <3>5. g[k + 1] = g[(k + 1) - 1] + (IF (k + 1) - 1 \in S THEN Len(Pixels((k + 1) - 1)) ELSE 0)
        BY <1>6, <3>3, Zenon
      <3>6. count[(k + 1) - 1] = g[(k + 1) - 1]
        BY <3>3
      <3> QED BY <3>4, <3>5, <3>6, Zenon
    <2>3. T = Nat
      <3> HIDE DEF T
      <3>1. T \in SUBSET Nat
        BY DEF T
      <3> QED BY <2>1, <2>2, <3>1, Induction
    <2> QED BY <2>3
  <1>10. Counts(g, S)
    BY <1>1, <1>4, <1>5 DEF Counts, more
  <1> QED BY <1>1, <1>8, <1>9, <1>10

\* One row more adds its pixels.
LEMMA OneRowMore ==
  ASSUME inner.count \in Nat, \A r \in Rows : Len(Pixels(r)) \in Nat,
         NEW S, NEW m \in Rows, m \notin S
  PROVE  PixelCount(S) \in Nat /\ PixelCount(S \cup {m}) = PixelCount(S) + Len(Pixels(m))
  <1>1. PICK g : Counts(g, S) /\ PixelCount(S) = g[inner.count]
    BY PixelsCounted
  <1>2. PICK h : Counts(h, S \cup {m}) /\ PixelCount(S \cup {m}) = h[inner.count]
    BY PixelsCounted
  <1>3. PICK n \in Nat, l \in Nat : n = inner.count /\ l = Len(Pixels(m)) /\ m \in Nat /\ m < n
    BY DEF Rows
  <1> DEFINE T == {k \in Nat : k <= n => h[k] = g[k] + (IF k > m THEN l ELSE 0)}
  <1>4. 0 \in T
    BY <1>1, <1>2, <1>3 DEF Counts
  <1>5. ASSUME NEW k \in T PROVE k + 1 \in T
    <2>1. k \in Nat
      OBVIOUS
    <2>2. SUFFICES ASSUME k + 1 <= n PROVE h[k + 1] = g[k + 1] + (IF k + 1 > m THEN l ELSE 0)
      BY <2>1
    <2>3. k + 1 \in 1..n /\ (k + 1) - 1 = k /\ k \in 0..n /\ k <= n /\ k \in Rows
      BY <1>3, <2>1, <2>2 DEF Rows
    <2>4. h[k + 1] = h[k] + (IF k \in S \cup {m} THEN Len(Pixels(k)) ELSE 0)
      BY <1>2, <1>3, <2>3 DEF Counts
    <2>5. g[k + 1] = g[k] + (IF k \in S THEN Len(Pixels(k)) ELSE 0)
      BY <1>1, <1>3, <2>3 DEF Counts
    <2>6. PICK a \in Nat, b \in Nat : a = g[k] /\ b = Len(Pixels(k))
      BY <1>1, <1>3, <2>3 DEF Counts
    <2>7. h[k] = a + (IF k > m THEN l ELSE 0)
      BY <2>3, <2>6
    <2>8. h[k + 1] = h[k] + (IF k \in S \/ k = m THEN b ELSE 0) /\ g[k + 1] = a + (IF k \in S THEN b ELSE 0)
      BY <2>4, <2>5, <2>6
    <2>9. k = m => b = l /\ k \notin S
      BY <1>3, <2>6
    <2>10. CASE k \in S
      <3>1. h[k + 1] = h[k] + b /\ g[k + 1] = a + b /\ k # m
        BY <2>8, <2>9, <2>10
      <3> QED BY <1>3, <2>1, <2>6, <2>7, <3>1
    <2>11. CASE k = m
      <3>1. h[k + 1] = h[k] + l /\ g[k + 1] = a /\ h[k] = a
        BY <1>3, <2>7, <2>8, <2>9, <2>11
      <3> QED BY <1>3, <2>1, <2>11, <3>1
    <2>12. CASE k \notin S /\ k # m
      <3>1. h[k + 1] = h[k] /\ g[k + 1] = a
        BY <2>7, <2>8, <2>12
      <3> QED BY <1>3, <2>1, <2>7, <2>12, <3>1
    <2> QED BY <2>10, <2>11, <2>12
  <1>6. T = Nat
    <2> HIDE DEF T
    <2>1. T \in SUBSET Nat
      BY DEF T
    <2> QED BY <1>4, <1>5, <2>1, Induction
  <1>7. n \in T /\ n <= n /\ n > m
    BY <1>3, <1>6
  <1>8. h[n] = g[n] + l /\ g[n] \in Nat
    BY <1>1, <1>3, <1>7 DEF Counts
  <1> QED BY <1>1, <1>2, <1>3, <1>8

LEMMA NoRows ==
  ASSUME inner.count \in Nat, \A r \in Rows : Len(Pixels(r)) \in Nat
  PROVE  PixelCount({}) = 0
  <1>1. PICK g : Counts(g, {}) /\ PixelCount({}) = g[inner.count]
    BY PixelsCounted
  <1>2. PICK n \in Nat : n = inner.count
    OBVIOUS
  <1> DEFINE T == {k \in Nat : k <= n => g[k] = 0}
  <1>3. 0 \in T
    BY <1>1 DEF Counts
  <1>4. ASSUME NEW k \in T PROVE k + 1 \in T
    <2>1. k + 1 <= n => k + 1 \in 1..n /\ (k + 1) - 1 = k /\ k <= n
      BY <1>2
    <2> QED BY <1>1, <1>2, <2>1 DEF Counts
  <1>5. T = Nat
    <2> HIDE DEF T
    <2>1. T \in SUBSET Nat
      BY DEF T
    <2> QED BY <1>3, <1>4, <2>1, Induction
  <1> QED BY <1>1, <1>2, <1>5

LEMMA LastIs ==
  ASSUME NEW S \in SUBSET Nat, NEW m \in S, \A k \in S : k <= m
  PROVE  LastOf(S) = m
  <1>1. LastOf(S) \in S /\ \A k \in S : k <= LastOf(S)
    BY DEF LastOf
  <1>2. PICK l \in Nat : l = LastOf(S) /\ l <= m /\ m <= l
    BY <1>1
  <1> QED BY <1>2

-----------------------------------------------------------------------------
(* A range of rows that grows by one.                                      *)

\* Row m has pixels to place, one by one.
Pushes(m) == inner.pix[m + 1] # <<>> /\ ~IsDump(m)

\* Row m, after the rows A, paints cell c.
Reaches(A, m, c) == \E k \in 1..Len(Pixels(m)) : Paints(A \cup {m}, m, k, c)

\* Row m, after the rows A, gives cell c its colour.
Shows(A, m, c) ==
  \/ IsDump(m) /\ c < Len(Pixels(m))
  \/ Pushes(m) /\ Reaches(A, m, c) /\ (inner.ly = None => \A q \in A : ~IsDump(q))

LEMMA PushingMore ==
  ASSUME NEW A, NEW m
  PROVE  \A q : q \in Pushing(A \cup {m}) <=> q \in Pushing(A) \/ (q = m /\ Pushes(m))
  BY DEF Pushing, Pushes

\* What a row paints depends on no later row.
LEMMA PaintsTheSame ==
  ASSUME NEW A \in SUBSET Nat, NEW m \in Nat, \A a \in A : a < m, NEW r \in A, NEW k, NEW c
  PROVE  Paints(A \cup {m}, r, k, c) <=> Paints(A, r, k, c)
  <1>1. r \in Nat /\ r < m /\ ~(m < r) /\ \A q \in Nat : m \notin q..r
    OBVIOUS
  <1>2. {q \in Pushing(A \cup {m}) : q < r} = {q \in Pushing(A) : q < r}
    <2>1. ASSUME NEW q, q < r
          PROVE  q \in Pushing(A \cup {m}) <=> q \in Pushing(A)
      BY <1>1, <2>1, PushingMore, Zenon
    <2> QED BY <2>1, Zenon
  <1>3. SameLine(A \cup {m}, r) = SameLine(A, r)
    <2>1. \A q : q \in Pushing(A) => q \in Nat
      BY DEF Pushing
    <2>2. ASSUME NEW q \in Pushing(A), q < r
          PROVE  (\A p \in Pushing(A \cup {m}) : p \in q..r => Ly(p) = Ly(r))
                   <=> (\A p \in Pushing(A) : p \in q..r => Ly(p) = Ly(r))
      <3>1. m \notin q..r
        BY <1>1, <2>1
      <3>2. \A p \in q..r : p \in Pushing(A \cup {m}) <=> p \in Pushing(A)
        BY <3>1, PushingMore, Zenon
      <3> QED BY <3>2, Zenon
    <2>3. ASSUME NEW q, q < r
          PROVE  q \in Pushing(A \cup {m}) <=> q \in Pushing(A)
      BY <1>1, <2>3, PushingMore, Zenon
    <2> QED BY <2>2, <2>3, Zenon DEF SameLine
  <1> QED BY <1>2, <1>3, Zenon DEF Paints

LEMMA PaintersMore ==
  ASSUME NEW A \in SUBSET Nat, NEW m \in Nat, \A a \in A : a < m, NEW c
  PROVE  \A q : q \in PaintersOf(A \cup {m}, c)
                  <=> q \in PaintersOf(A, c) \/ (q = m /\ Pushes(m) /\ Reaches(A, m, c))
  <1>1. Pushing(A) \subseteq A /\ m \notin A
    BY DEF Pushing
  <1>2. ASSUME NEW q \in Pushing(A), NEW k
        PROVE  Paints(A \cup {m}, q, k, c) <=> Paints(A, q, k, c)
    BY <1>1, PaintsTheSame
  <1>3. \A q : q \in PaintersOf(A \cup {m}, c)
                 <=> q \in Pushing(A \cup {m}) /\ \E k \in 1..Len(Pixels(q)) : Paints(A \cup {m}, q, k, c)
    BY DEF PaintersOf
  <1>4. \A q : q \in PaintersOf(A, c)
                 <=> q \in Pushing(A) /\ \E k \in 1..Len(Pixels(q)) : Paints(A, q, k, c)
    BY DEF PaintersOf
  <1> QED BY <1>2, <1>3, <1>4, PushingMore, ZenonT(60) DEF Reaches

LEMMA SourcesMore ==
  ASSUME NEW A \in SUBSET Nat, NEW m \in Nat, \A a \in A : a < m, NEW c
  PROVE  \A q : q \in SourcesOf(A \cup {m}, c) <=> q \in SourcesOf(A, c) \/ (q = m /\ Shows(A, m, c))
  <1>1. PaintersOf(A, c) \subseteq A /\ m \notin A
    BY DEF PaintersOf, Pushing
  <1>2. \A r \in A : ~(m < r)
    OBVIOUS
  <1>3. ~(m < m) /\ \A q \in A : q < m
    OBVIOUS
  <1>4. ASSUME NEW r \in PaintersOf(A, c)
        PROVE  (inner.ly = None => \A q \in A \cup {m} : q < r => ~IsDump(q))
                 <=> (inner.ly = None => \A q \in A : q < r => ~IsDump(q))
    BY <1>1, <1>2
  <1>5. (inner.ly = None => \A q \in A \cup {m} : q < m => ~IsDump(q))
          <=> (inner.ly = None => \A q \in A : ~IsDump(q))
    BY <1>3
  <1>6. \A q : q \in SourcesOf(A \cup {m}, c)
                 <=> \/ q \in A \cup {m} /\ IsDump(q) /\ c < Len(Pixels(q))
                     \/ /\ q \in PaintersOf(A \cup {m}, c)
                        /\ inner.ly = None => \A p \in A \cup {m} : p < q => ~IsDump(p)
    BY Zenon DEF SourcesOf
  <1>7. \A q : q \in SourcesOf(A, c)
                 <=> \/ q \in A /\ IsDump(q) /\ c < Len(Pixels(q))
                     \/ /\ q \in PaintersOf(A, c)
                        /\ inner.ly = None => \A p \in A : p < q => ~IsDump(p)
    BY Zenon DEF SourcesOf
  <1>8. \A q : q \in PaintersOf(A \cup {m}, c)
                 <=> q \in PaintersOf(A, c) \/ (q = m /\ Pushes(m) /\ Reaches(A, m, c))
    BY PaintersMore
  <1>9. ASSUME NEW q
        PROVE  q \in SourcesOf(A \cup {m}, c) <=> q \in SourcesOf(A, c) \/ (q = m /\ Shows(A, m, c))
    <2>1. CASE q = m
      <3>1. m \notin PaintersOf(A, c) /\ m \in A \cup {m}
        BY <1>1
      <3> QED BY <1>1, <1>5, <1>6, <1>7, <1>8, <2>1, <3>1, Zenon DEF Shows
    <2>2. CASE q # m
      <3>1. q \in A \cup {m} <=> q \in A
        BY <2>2
      <3> QED BY <1>4, <1>6, <1>7, <1>8, <2>2, <3>1, Zenon
    <2> QED BY <2>1, <2>2
  <1> QED BY <1>9

\* A new source gives the cell its colour, and without one the cell keeps it.
LEMMA ColourMore ==
  ASSUME NEW n \in Nat, NEW A \in SUBSET (0..n), NEW m \in Nat, \A a \in A : a < m, NEW c
  PROVE  /\ Shows(A, m, c) => ColourOf(A \cup {m}, c) = ColourBy(A \cup {m}, m, c)
         /\ ~Shows(A, m, c) => ColourOf(A \cup {m}, c) = ColourOf(A, c)
  <1>1. A \in SUBSET Nat
    OBVIOUS
  <1>2. SourcesOf(A, c) \subseteq A
    BY DEF SourcesOf, PaintersOf, Pushing
  <1>3. \A q : q \in SourcesOf(A \cup {m}, c) <=> q \in SourcesOf(A, c) \/ (q = m /\ Shows(A, m, c))
    BY <1>1, SourcesMore
  <1>4. ASSUME Shows(A, m, c) PROVE ColourOf(A \cup {m}, c) = ColourBy(A \cup {m}, m, c)
    <2> DEFINE S == SourcesOf(A \cup {m}, c)
    <2>1. m \in S
      BY <1>3, <1>4
    <2>2. S \in SUBSET Nat /\ \A k \in S : k <= m
      <3>1. \A k \in S : k \in A \/ k = m
        BY <1>2, <1>3
      <3>2. \A k \in A \cup {m} : k \in Nat /\ k <= m
        BY <1>1
      <3> HIDE DEF S
      <3> QED BY <3>1, <3>2, Zenon
    <2>3. LastOf(S) = m
      <3> HIDE DEF S
      <3> QED BY <2>1, <2>2, LastIs
    <2> QED BY <2>1, <2>3, Zenon DEF ColourOf
  <1>5. ASSUME ~Shows(A, m, c) PROVE ColourOf(A \cup {m}, c) = ColourOf(A, c)
    <2>1. SourcesOf(A \cup {m}, c) = SourcesOf(A, c)
      BY <1>3, <1>5
    <2>2. SourcesOf(A, c) # {} => LastOf(SourcesOf(A, c)) \in A
      BY <1>2, LastIsThere
    <2>3. ASSUME NEW r \in A PROVE ColourBy(A \cup {m}, r, c) = ColourBy(A, r, c)
      <3>1. \A k : Paints(A \cup {m}, r, k, c) <=> Paints(A, r, k, c)
        BY <1>1, PaintsTheSame
      <3>2. PixelFor(A \cup {m}, r, c) = PixelFor(A, r, c)
        BY <3>1, Zenon DEF PixelFor
      <3> QED BY <3>2, Zenon DEF ColourBy
    <2> QED BY <2>1, <2>2, <2>3, Zenon DEF ColourOf
  <1> QED BY <1>4, <1>5

-----------------------------------------------------------------------------
(* The cursor.                                                             *)

\* The rows a scan has read come before the one it is at.
LEMMA ScannedRows ==
  ASSUME ScanInvariant, scan \in Scans
  PROVE  /\ Start \in 0..inner.count /\ at \in Nat /\ inner.count \in Nat
         /\ Scanned \in SUBSET (0..inner.count) /\ Scanned \in SUBSET Nat /\ Scanned \subseteq Rows
         /\ \A q \in Scanned : q < at
         /\ at >= Start => Start..(at + 1) - 1 = Scanned \cup {at}
  <1>1. at \in 0..inner.count /\ inner.count \in Nat
    BY Shapes DEF ScanInvariant, ViewsTyped, IInv
  <1>2. Start \in 0..inner.count
    <2>1. /\ asked.instructions \in BOOLEAN /\ asked.from \in Nat
          /\ ~asked.instructions => asked.from <= inner.count
      BY <1>1 DEF ScanInvariant, Asking, Scans
    <2> QED BY <2>1, StartTyped DEF Start, ScanInvariant, ViewsTyped
  <1>3. PICK a \in Nat, n \in Nat, b \in Nat : a = at /\ n = inner.count /\ b = Start /\ a <= n
    BY <1>1, <1>2
  <1> QED BY <1>2, <1>3 DEF Scanned, Rows

LEMMA PixelCountTyped ==
  ASSUME ScanInvariant, inner.pix # None
  PROVE  /\ inner.count \in Nat /\ \A r \in Rows : Len(Pixels(r)) \in Nat
         /\ \A S : PixelCount(S) \in Nat
  <1>1. inner.count \in Nat /\ \A r \in Rows : Len(Pixels(r)) \in Nat
    BY RowTyped, Shapes DEF ScanInvariant, ViewsTyped, IInv
  <1>2. ASSUME NEW S PROVE PixelCount(S) \in Nat
    <2>1. PICK g : Counts(g, S) /\ PixelCount(S) = g[inner.count]
      BY <1>1, PixelsCounted
    <2> QED BY <1>1, <2>1 DEF Counts
  <1> QED BY <1>1, <1>2

\* The cursor's column at a row is how many pixels its line has had.
LEMMA LineOfRow ==
  ASSUME ScanInvariant, CursorCounts, scan \in Scans, at < Stop, inner.ly # None,
         NEW B, B = Scanned \cup {at}
  PROVE  /\ SameLine(B, at) = IF last_ly = Ly(at) THEN LineRun ELSE {}
         /\ Ly(at) < LCD_HEIGHT =>
              Column(at) = LowerOf(LCD_WIDTH, PixelCount(SameLine(B, at)))
  <1>1. /\ Scanned \in SUBSET Nat /\ (\A q \in Scanned : q < at) /\ at \in Nat
        /\ \A q \in Pushing(Scanned) : q \in Nat /\ q < at
    BY ScannedRows DEF Pushing
  <1>2. Ly(at) \in Nat /\ LCD_WIDTH \in Nat /\ LCD_HEIGHT \in Nat /\ inner.pix # None
        /\ last_ly \in Nat \cup {None} /\ Ly(at) # None
    BY RowRead, LcdAssumption DEF ScanInvariant, ViewsTyped, Asking
  <1>3. \A q : q \in Pushing(B) <=> q \in Pushing(Scanned) \/ (q = at /\ Pushes(at))
    BY PushingMore
  <1>4. ASSUME NEW q
        PROVE  q \in SameLine(B, at) <=>
                 q \in Pushing(Scanned) /\ \A p \in Pushing(Scanned) : p >= q => Ly(p) = Ly(at)
    <2>1. q \in SameLine(B, at) <=>
            /\ q \in Pushing(B) /\ q < at
            /\ \A p \in Pushing(B) : p \in q..at => Ly(p) = Ly(at)
      BY DEF SameLine
    <2>2. q \in Pushing(B) /\ q < at <=> q \in Pushing(Scanned)
      BY <1>1, <1>3
    <2>3. ASSUME q \in Pushing(Scanned)
          PROVE  (\A p \in Pushing(B) : p \in q..at => Ly(p) = Ly(at))
                   <=> (\A p \in Pushing(Scanned) : p >= q => Ly(p) = Ly(at))
      <3>1. \A p \in Pushing(Scanned) : p \in q..at <=> p >= q
        BY <1>1, <2>3
      <3> QED BY <1>3, <3>1, Zenon
    <2> QED BY <2>1, <2>2, <2>3, Zenon
  <1>5. ASSUME last_ly = Ly(at) PROVE SameLine(B, at) = LineRun
    BY <1>4, <1>5, Zenon DEF LineRun
  <1>6. ASSUME last_ly # Ly(at) PROVE SameLine(B, at) = {}
    <2> SUFFICES ASSUME NEW q \in SameLine(B, at) PROVE FALSE
      OBVIOUS
    <2>1. q \in Pushing(Scanned) /\ \A p \in Pushing(Scanned) : p >= q => Ly(p) = Ly(at)
      BY <1>4
    <2>2. PICK l \in LineRun : TRUE
      BY <1>2, <2>1 DEF CursorCounts
    <2>3. l \in Pushing(Scanned) /\ \A p \in Pushing(Scanned) : p >= l => Ly(p) = last_ly
      BY <2>2 DEF LineRun
    <2>4. \E p \in Pushing(Scanned) : p >= q /\ p >= l
      BY <1>1, <2>1, <2>3
    <2> QED BY <1>6, <2>1, <2>3, <2>4
  <1>7. ASSUME Ly(at) < LCD_HEIGHT
        PROVE  Column(at) = LowerOf(LCD_WIDTH, PixelCount(SameLine(B, at)))
    <2>1. CASE last_ly = Ly(at)
      <3>1. last_ly \in 0..LCD_HEIGHT - 1
        BY <1>2, <1>7, <2>1
      <3>2. scanline_x = LowerOf(LCD_WIDTH, PixelCount(LineRun))
        BY <3>1 DEF CursorCounts
      <3> QED BY <1>5, <2>1, <3>2 DEF Column
    <2>2. CASE last_ly # Ly(at)
      <3>1. PixelCount(SameLine(B, at)) = 0
        BY <1>2, <1>6, <2>2, NoRows, PixelCountTyped
      <3>2. 0 = LowerOf(LCD_WIDTH, 0)
        BY LcdAssumption DEF LowerOf
      <3> QED BY <2>2, <3>1, <3>2 DEF Column
    <2> QED BY <2>1, <2>2
  <1> QED BY <1>5, <1>6, <1>7

LEMMA Quotient ==
  ASSUME NEW x \in Nat, NEW n \in Nat \ {0}
  PROVE  x \div n \in Nat /\ x % n \in 0..n - 1 /\ x = (x \div n) * n + (x % n)
  OBVIOUS

LEMMA Factor ==
  ASSUME NEW n \in Nat \ {0}, NEW a \in Nat, NEW b \in Nat
  PROVE  n * a < n * b + n => a < b + 1
  <1> SUFFICES ASSUME a >= b + 1 PROVE n * a >= n * b + n
    <2>1. n * a \in Nat /\ n * b + n \in Nat
      BY SMT
    <2> QED BY <2>1
  <1>1. PICK d \in Nat : a = b + 1 + d
    <2>1. a - (b + 1) \in Nat /\ a = b + 1 + (a - (b + 1))
      OBVIOUS
    <2> QED BY <2>1
  <1>2. n * a = n * b + n + n * d
    BY <1>1, SMT
  <1>3. n * d \in Nat /\ n * b \in Nat
    BY SMT
  <1> QED BY <1>2, <1>3

\* A cell is at one line and column only.
LEMMA LineAndColumn ==
  ASSUME NEW w \in Nat \ {0}, NEW c \in Nat, NEW y \in Nat, NEW x \in Nat
  PROVE  (x < w /\ y * w + x = c) <=> (c \div w = y /\ c % w = x)
  <1>1. PICK a \in Nat, b \in Nat : a = c \div w /\ b = c % w /\ b < w /\ c = w * a + b
    <2>1. c \div w \in Nat /\ c % w \in 0..w - 1 /\ c = (c \div w) * w + (c % w)
      BY Quotient
    <2>2. PICK a \in Nat, b \in Nat : a = c \div w /\ b = c % w /\ b < w /\ c = a * w + b
      BY <2>1
    <2>3. a * w = w * a
      OBVIOUS
    <2> QED BY <2>2, <2>3
  <1>2. w * a \in Nat /\ w * y \in Nat /\ y * w = w * y
    BY SMT
  <1>3. ASSUME x < w, y * w + x = c PROVE a = y /\ b = x
    <2>1. w * a < w * y + w /\ w * y < w * a + w
      BY <1>1, <1>2, <1>3
    <2>2. a < y + 1 /\ y < a + 1
      BY <2>1, Factor
    <2>3. a = y
      BY <2>2
    <2> QED BY <1>1, <1>2, <1>3, <2>3
  <1>4. ASSUME a = y, b = x PROVE x < w /\ y * w + x = c
    BY <1>1, <1>2, <1>4
  <1> QED BY <1>1, <1>3, <1>4

\* The cell the cursor gives a pixel is the one that line and count give it.
LEMMA CellPainted ==
  ASSUME ScanInvariant, CursorCounts, scan \in Scans, at < Stop, Pushes(at),
         NEW B, B = Scanned \cup {at},
         NEW c \in Cells, NEW k \in 1..Len(Pixels(at)),
         (inner.ly = None /\ scan = "picture") => \A q \in Scanned : ~IsDump(q)
  PROVE  CellOf(at, k) = c <=> Paints(B, at, k, c)
  <1>1. /\ Scanned \in SUBSET Nat /\ (\A q \in Scanned : q < at) /\ at \in Nat
        /\ \A q \in Pushing(Scanned) : q \in Nat /\ q < at
    BY ScannedRows DEF Pushing
  <1>2. /\ Len(Pixels(at)) \in Nat /\ inner.pix # None /\ SIZE \in Nat
        /\ inner.ly # None => Ly(at) \in Nat
    BY RowRead, SizeTyped DEF ScanInvariant, Asking
  <1>3. c \in Nat /\ c < SIZE /\ k \in Nat /\ k >= 1 /\ c # None
    BY <1>2, LcdAssumption DEF Cells
  <1>4. \A S : PixelCount(S) \in Nat
    BY <1>2, PixelCountTyped
  <1>5. CASE inner.ly = None
    <2>1. {q \in Pushing(B) : q < at} = Pushing(Scanned)
      BY <1>1, PushingMore
    <2>2. PICK n \in Nat : n = PixelCount(Pushing(Scanned))
      BY <1>4
    <2>3. Paints(B, at, k, c) <=> c = n + k - 1
      BY <1>5, <2>1, <2>2 DEF Paints
    <2>4. pixel_idx = n \/ pixel_idx = LowerOf(SIZE, n)
      BY <1>5, <2>2 DEF CursorCounts
    <2>5. CellOf(at, k) = IF pixel_idx + k - 1 < SIZE THEN pixel_idx + k - 1 ELSE None
      BY <1>5 DEF CellOf
    <2> QED BY <1>2, <1>3, <2>2, <2>3, <2>4, <2>5 DEF LowerOf
  <1>6. CASE inner.ly # None
    <2>1. PICK n \in Nat, y \in Nat, w \in Nat \ {0}, h \in Nat :
            n = PixelCount(SameLine(B, at)) /\ y = Ly(at) /\ w = LCD_WIDTH /\ h = LCD_HEIGHT
      BY <1>2, <1>4, <1>6, LcdAssumption
    <2>2. y < h => Column(at) = LowerOf(w, n)
      BY <1>6, <2>1, LineOfRow
    <2>3. CellOf(at, k) = IF y < h /\ Column(at) + k - 1 < w THEN y * w + Column(at) + k - 1 ELSE None
      BY <1>6, <2>1 DEF CellOf
    <2>4. PICK x \in Nat : x = n + k - 1
      BY <1>3, <2>1
    <2>5. Paints(B, at, k, c) <=> (x < w /\ y * w + x = c)
      <3>1. Paints(B, at, k, c) <=> (c \div w = y /\ c % w = x)
        BY <1>6, <2>1, <2>4 DEF Paints
      <3> QED BY <1>3, <3>1, LineAndColumn, SMTT(30)
    <2>6. (x < w /\ y * w + x = c) => y < h
      <3>1. SIZE = w * h
        BY <2>1 DEF SIZE
      <3>2. w * y \in Nat /\ y * w = w * y
        BY SMT
      <3>3. h > 0 => w * (h - 1) + w = w * h
        BY SMT
      <3>4. h = 0 => w * h = 0
        BY SMT
      <3>5. (x < w /\ y * w + x = c) => w * y < w * h
        BY <1>3, <3>1, <3>2
      <3>6. ASSUME x < w, y * w + x = c PROVE y < h
        <4>1. h > 0 /\ h - 1 \in Nat
          BY <3>2, <3>4, <3>5, <3>6
        <4>2. w * y < w * (h - 1) + w
          BY <3>3, <3>5, <3>6, <4>1
        <4>3. y < (h - 1) + 1
          BY <4>1, <4>2, Factor
        <4> QED BY <4>3
      <3> QED BY <3>6
    <2>7. y * w \in Nat
      BY SMT
    <2>8. PICK o \in Nat : o = y * w
      BY <2>7
    <2>9. CellOf(at, k) = c <=> (y < h /\ x < w /\ o + x = c)
      <3>1. CASE y < h
        <4>1. PICK m \in Nat : m = Column(at) /\ m = LowerOf(w, n)
          BY <2>1, <2>2, <3>1 DEF LowerOf
        <4>2. CellOf(at, k) = IF m + k - 1 < w THEN o + m + k - 1 ELSE None
          BY <2>3, <2>8, <3>1, <4>1
        <4> QED BY <1>3, <2>1, <2>4, <3>1, <4>1, <4>2, SMTT(30) DEF LowerOf
      <3>2. CASE ~(y < h)
        BY <1>3, <2>3, <3>2
      <3> QED BY <3>1, <3>2
    <2> QED BY <2>5, <2>6, <2>8, <2>9
  <1> QED BY <1>5, <1>6

\* After a dump nothing is placed where cells are counted.
LEMMA NothingAfterDump ==
  ASSUME ScanInvariant, CursorCounts, scan = "picture", at < Stop, inner.ly = None,
         \E q \in Scanned : IsDump(q), NEW k \in 1..Len(Pixels(at))
  PROVE  CellOf(at, k) = None
  <1>1. k \in Nat /\ k >= 1 /\ SIZE \in Nat
    BY RowRead, SizeTyped DEF Scans
  <1>2. pixel_idx = SIZE
    BY DEF CursorCounts, Scans
  <1> QED BY <1>1, <1>2 DEF CellOf

\* So row at paints a cell just when one of its pixels is placed there.
LEMMA CellsReached ==
  ASSUME ScanInvariant, CursorCounts, scan \in Scans, at < Stop, Pushes(at), NEW c \in Cells,
         (inner.ly = None /\ scan = "picture") => \A q \in Scanned : ~IsDump(q)
  PROVE  c \in CellsOf(at) <=> Reaches(Scanned, at, c)
  <1>1. c # None
    BY SizeTyped, LcdAssumption DEF Cells
  <1>2. \A k \in 1..Len(Pixels(at)) : CellOf(at, k) = c <=> Paints(Scanned \cup {at}, at, k, c)
    BY CellPainted
  <1> QED BY <1>1, <1>2, Zenon DEF CellsOf, Placed, Reaches

\* Of a row's pixels on a line of the screen, as many are placed as fit.
LEMMA PlacedFit ==
  ASSUME ScanInvariant, scan \in Scans, at < Stop, inner.ly # None, Ly(at) < LCD_HEIGHT
  PROVE  Cardinality(Placed(at)) = LowerOf(Len(Pixels(at)), LCD_WIDTH - Column(at))
  <1>1. PICK l \in Nat, y \in Nat, w \in Nat : l = Len(Pixels(at)) /\ y = Ly(at) /\ w = LCD_WIDTH
    BY RowRead, LcdAssumption
  <1>2. PICK m \in Nat : m = Column(at) /\ m <= w
    BY <1>1 DEF ScanInvariant, ViewsTyped, Column
  <1>3. PICK n \in Nat : n = LowerOf(l, w - m)
    BY <1>1, <1>2 DEF LowerOf
  <1>4. PICK o \in Nat : o = y * w
    BY SMT
  <1>5. \A k \in 1..l : CellOf(at, k) = IF m + k - 1 < w THEN o + m + k - 1 ELSE None
    BY <1>1, <1>2, <1>4 DEF CellOf
  <1>6. ASSUME NEW k \in 1..l PROVE CellOf(at, k) # None <=> k \in 1..n
    <2>1. k \in Nat /\ o + m + k - 1 # None
      BY LcdAssumption
    <2>2. k \in 1..n <=> m + k - 1 < w
      BY <1>1, <1>2, <1>3 DEF LowerOf
    <2> QED BY <1>5, <2>1, <2>2
  <1>7. 1..n \subseteq 1..l
    BY <1>1, <1>3 DEF LowerOf
  <1>8. Placed(at) = 1..n
    BY <1>1, <1>6, <1>7 DEF Placed
  <1>9. Cardinality(1..n) = n
    BY FS_Interval
  <1> QED BY <1>1, <1>2, <1>3, <1>8, <1>9

LEMMA DumpHasPixels == \A r : IsDump(r) => inner.pix[r + 1] # <<>>
  <1>1. PICK w \in Nat \ {0}, h \in Nat \ {0} : w = LCD_WIDTH /\ h = LCD_HEIGHT
    BY LcdAssumption
  <1>2. SIZE > 0
    <2>1. h - 1 \in Nat /\ w * h = w * (h - 1) + w /\ w * (h - 1) \in Nat
      BY SMT
    <2> QED BY <1>1, <2>1 DEF SIZE
  <1>3. Len(<<>>) = 0
    OBVIOUS
  <1> QED BY <1>2, <1>3, SizeTyped DEF IsDump

\* The steps of the scans change neither the trace nor what is asked.
LEMMA AskedTheSame ==
  ASSUME UNCHANGED <<vars, asked>>
  PROVE  /\ inner' = inner /\ index_map' = index_map /\ Start' = Start /\ Rows' = Rows
         /\ scan' = scan => Stop' = Stop
         /\ RowsAsked' = RowsAsked /\ PictureRows' = PictureRows
         /\ \A r : PlaceOf(r)' = PlaceOf(r)
  <1>1. inner' = inner /\ index_map' = index_map
    BY DEF vars
  <1>2. \A d : RowOf(d)' = RowOf(d)
    BY <1>1 DEF RowOf
  <1>3. \A d : RawEnd(d)' = RawEnd(d)
    BY <1>1, <1>2 DEF RawEnd
  <1>4. Start' = Start
    BY <1>1 DEF Start, RawStart, RowOf
  <1>5. PictureEnd' = PictureEnd /\ MapsEnd' = MapsEnd
    BY <1>1 DEF PictureEnd, MapsEnd, RawEnd, RowOf
  <1>6. scan' = scan => Stop' = Stop
    BY <1>1, <1>5 DEF Stop
  <1>7. Rows' = Rows /\ \A r : InstructionOf(r)' = InstructionOf(r)
    BY <1>1 DEF Rows, InstructionOf, Found, Before
  <1>8. RowsAsked' = RowsAsked /\ PictureRows' = PictureRows
    BY <1>7 DEF RowsAsked, PictureRows
  <1>9. \A r : PlaceOf(r)' = PlaceOf(r)
    BY <1>7 DEF PlaceOf
  <1> QED BY <1>1, <1>4, <1>6, <1>7, <1>8, <1>9

LEMMA TraceTheSame ==
  ASSUME UNCHANGED inner, NEW R, NEW c
  PROVE  /\ Pushing(R)' = Pushing(R) /\ PixelCount(R)' = PixelCount(R)
         /\ IsDump(c)' = IsDump(c) /\ Ly(c)' = Ly(c)
         /\ PaintersOf(R, c)' = PaintersOf(R, c) /\ ColourOf(R, c)' = ColourOf(R, c)
  <1>1. Pushing(R)' = Pushing(R) /\ PixelCount(R)' = PixelCount(R)
        /\ IsDump(c)' = IsDump(c) /\ Ly(c)' = Ly(c)
    BY DEF Pushing, PixelCount, IsDump, Ly, Pixels
  <1>2. PaintersOf(R, c)' = PaintersOf(R, c)
    BY DEF PaintersOf, Paints, SameLine, Pushing, PixelCount, IsDump, Ly, Pixels
  <1>3. ColourOf(R, c)' = ColourOf(R, c)
    BY DEF ColourOf, ColourBy, PixelFor, SourcesOf, PaintersOf, Paints, SameLine, Pushing, PixelCount,
           IsDump, Ly, Pixels
  <1> QED BY <1>1, <1>2, <1>3

\* What a row does to the cursor, whichever scan reads it.
Moves ==
  \/ ~Pushes(at) /\ (scan = "picture" => ~IsDump(at)) /\ UNCHANGED cursor
  \/ scan = "picture" /\ IsDump(at) /\ pixel_idx' = SIZE /\ UNCHANGED <<scanline_x, last_ly>>
  \/ /\ Pushes(at)
     /\ IF inner.ly # None THEN AdvanceLine(at)
        ELSE pixel_idx' = IF scan = "picture" THEN LowerOf(SIZE, pixel_idx + Len(Pixels(at)))
                          ELSE pixel_idx + Len(Pixels(at))

\* A row read, for CursorCounts and what the scans note.
RowScanned ==
  /\ ScanInvariant /\ CursorCounts /\ NotedSoFar
  /\ scan \in Scans /\ at < Stop /\ ScanUnchanged /\ NextRowOfScan /\ Moves

LEMMA ScanGoesOn ==
  ASSUME RowScanned
  PROVE  /\ Scanned' = Scanned \cup {at} /\ at' \in (Start..Stop)' /\ scan' = scan
         /\ inner' = inner /\ index_map' = index_map /\ asked' = asked /\ inner.pix # None
  <1>1. /\ at' = at + 1 /\ scan' = scan /\ asked' = asked /\ inner' = inner /\ index_map' = index_map
        /\ Start' = Start /\ Stop' = Stop
    BY AskedTheSame DEF RowScanned, ScanUnchanged, NextRowOfScan
  <1>2. at \in Start..Stop /\ at < Stop /\ Start \in Nat /\ at \in Nat
    BY ScannedRows DEF RowScanned, CursorCounts
  <1>3. Scanned' = Start..(at + 1) - 1
    BY <1>1 DEF Scanned
  <1>4. Scanned' = Scanned \cup {at}
    BY <1>2, <1>3, ScannedRows DEF RowScanned
  <1>5. at' \in (Start..Stop)'
    <2>1. PICK e \in Nat : e = Stop
      BY StopTyped DEF RowScanned
    <2>2. at + 1 \in Start..e
      BY <1>2, <2>1
    <2> QED BY <1>1, <2>1, <2>2
  <1> QED BY <1>1, <1>4, <1>5 DEF RowScanned, ScanInvariant, Asking

LEMMA CursorGoesOn == ASSUME RowScanned PROVE CursorCounts'
  <1> DEFINE B == Scanned \cup {at}
  <1>1. /\ Scanned' = B /\ at' \in (Start..Stop)' /\ scan' = scan /\ inner' = inner /\ inner.pix # None
    BY ScanGoesOn
  <1>2. /\ ScanInvariant /\ CursorCounts /\ scan \in Scans /\ at < Stop
        /\ at \in Rows /\ at \in Nat /\ SIZE \in Nat /\ pixel_idx \in Nat
    BY ScannedRows, RowRead, SizeTyped DEF RowScanned, ScanInvariant, ViewsTyped
  <1>3. /\ Scanned \in SUBSET Nat /\ at \notin Scanned
        /\ \A q \in Pushing(Scanned) : q \in Nat /\ q < at
    BY <1>2, ScannedRows DEF Pushing
  <1>4. PICK l \in Nat : l = Len(Pixels(at))
    BY <1>2, RowRead
  <1>5. (\A S : PixelCount(S) \in Nat) /\ \A S : at \notin S => PixelCount(S \cup {at}) = PixelCount(S) + l
    <2>1. inner.count \in Nat /\ (\A r \in Rows : Len(Pixels(r)) \in Nat) /\ \A S : PixelCount(S) \in Nat
      BY <1>1, <1>2, PixelCountTyped
    <2> QED BY <1>2, <1>4, <2>1, OneRowMore
  <1>6. /\ ~Pushes(at) => Pushing(B) = Pushing(Scanned)
        /\ Pushes(at) => Pushing(B) = Pushing(Scanned) \cup {at}
    <2>1. \A q : q \in Pushing(B) <=> q \in Pushing(Scanned) \/ (q = at /\ Pushes(at))
      BY PushingMore
    <2> HIDE DEF B
    <2> QED BY <2>1
  <1>7. Pushes(at) => ~IsDump(at)
    BY DEF Pushes
  <1> HIDE DEF B
  <1>8. /\ Pushing(Scanned)' = Pushing(B)
        /\ \A S : PixelCount(S)' = PixelCount(S)
        /\ \A q : IsDump(q)' = IsDump(q) /\ Ly(q)' = Ly(q)
    BY <1>1, TraceTheSame
  <1>12. scan' # "idle"
    BY <1>1, <1>2 DEF Scans
  <1>9. CASE inner.ly = None
    <2>1. pixel_idx' = IF scan # "picture" THEN PixelCount(Pushing(B))
                       ELSE IF \E q \in B : IsDump(q) THEN SIZE
                       ELSE LowerOf(SIZE, PixelCount(Pushing(B)))
      <3>1. PICK n \in Nat : n = PixelCount(Pushing(Scanned))
        BY <1>5
      <3>2. pixel_idx = IF scan # "picture" THEN n
                        ELSE IF \E q \in Scanned : IsDump(q) THEN SIZE
                        ELSE LowerOf(SIZE, n)
        BY <1>2, <1>9, <3>1 DEF CursorCounts
      <3>3. (\E q \in B : IsDump(q)) <=> (\E q \in Scanned : IsDump(q)) \/ IsDump(at)
        BY DEF B
      <3>4. CASE ~Pushes(at) /\ (scan = "picture" => ~IsDump(at)) /\ UNCHANGED cursor
        BY <1>6, <3>1, <3>2, <3>3, <3>4 DEF cursor
      <3>5. CASE scan = "picture" /\ IsDump(at) /\ pixel_idx' = SIZE
        BY <3>3, <3>5
      <3>6. CASE /\ Pushes(at)
                 /\ pixel_idx' = IF scan = "picture" THEN LowerOf(SIZE, pixel_idx + l) ELSE pixel_idx + l
        <4>1. PixelCount(Pushing(B)) = n + l
          BY <1>3, <1>5, <1>6, <3>1, <3>6
        <4>2. CASE scan # "picture"
          BY <3>2, <3>6, <4>1, <4>2
        <4>3. CASE scan = "picture" /\ \E q \in Scanned : IsDump(q)
          <5>1. pixel_idx' = SIZE
            BY <1>2, <3>2, <3>6, <4>3 DEF LowerOf
          <5> QED BY <3>3, <4>3, <5>1
        <4>4. CASE scan = "picture" /\ ~\E q \in Scanned : IsDump(q)
          <5>1. pixel_idx' = LowerOf(SIZE, LowerOf(SIZE, n) + l)
            BY <3>2, <3>6, <4>4
          <5>2. LowerOf(SIZE, LowerOf(SIZE, n) + l) = LowerOf(SIZE, n + l)
            BY <1>2 DEF LowerOf
          <5>3. ~\E q \in B : IsDump(q)
            BY <1>7, <3>3, <3>6, <4>4
          <5> QED BY <4>1, <4>4, <5>1, <5>2, <5>3
        <4> QED BY <4>2, <4>3, <4>4
      <3> QED BY <1>4, <1>9, <3>4, <3>5, <3>6 DEF RowScanned, Moves
    <2> QED BY <1>1, <1>8, <1>9, <2>1, <1>12, Zenon DEF CursorCounts
  <1>10. CASE inner.ly # None
    <2> DEFINE Run == {q \in Pushing(B) : \A p \in Pushing(B) : p >= q => Ly(p) = last_ly'}
    <2>1. LineRun' = Run
      BY <1>8, Zenon DEF LineRun
    <2>2. IF last_ly' = None THEN Pushing(B) = {} ELSE Run # {}
      <3>1. CASE ~Pushes(at)
        <4>1. last_ly' = last_ly
          BY <1>7, <3>1 DEF RowScanned, Moves, cursor
        <4>2. Pushing(B) = Pushing(Scanned)
          BY <1>6, <3>1
        <4> QED BY <1>2, <1>10, <4>1, <4>2, Zenon DEF CursorCounts, LineRun
      <3>2. CASE Pushes(at)
        <4>1. last_ly' = Ly(at) /\ Ly(at) \in Nat /\ Ly(at) # None
          BY <1>2, <1>7, <1>10, <3>2, RowRead, LcdAssumption DEF RowScanned, Moves, AdvanceLine
        <4>2. at \in Run
          <5>1. at \in Pushing(B)
            BY <1>6, <3>2
          <5>2. \A p \in Pushing(B) : p >= at => p = at
            BY <1>2, <1>3, <1>6
          <5> QED BY <4>1, <5>1, <5>2
        <4> QED BY <4>1, <4>2
      <3> QED BY <3>1, <3>2
    <2>3. ASSUME last_ly' \in 0..LCD_HEIGHT - 1
          PROVE  scanline_x' = LowerOf(LCD_WIDTH, PixelCount(Run))
      <3>1. CASE ~Pushes(at)
        <4>1. last_ly' = last_ly /\ scanline_x' = scanline_x
          BY <1>7, <3>1 DEF RowScanned, Moves, cursor
        <4>2. Run = LineRun
          BY <1>6, <3>1, <4>1, Zenon DEF LineRun
        <4> QED BY <1>2, <1>10, <2>3, <4>1, <4>2 DEF CursorCounts
      <3>2. CASE Pushes(at)
        <4>1. AdvanceLine(at) /\ Ly(at) \in Nat /\ Ly(at) < LCD_HEIGHT /\ last_ly' = Ly(at)
          <5>1. AdvanceLine(at) /\ Ly(at) \in Nat
            BY <1>2, <1>7, <1>10, <3>2, RowRead DEF RowScanned, Moves
          <5> QED BY <2>3, <5>1, LcdAssumption DEF AdvanceLine
        <4>2. Column(at) = LowerOf(LCD_WIDTH, PixelCount(SameLine(B, at)))
          BY <1>2, <1>10, <4>1, LineOfRow DEF B
        <4>3. Run = SameLine(B, at) \cup {at}
          <5>1. \A p \in Pushing(B) : p \in Nat /\ p <= at
            BY <1>2, <1>3, <1>6
          <5>2. ASSUME NEW q \in Pushing(B)
                PROVE  (\A p \in Pushing(B) : p >= q => Ly(p) = Ly(at))
                         <=> (\A p \in Pushing(B) : p \in q..at => Ly(p) = Ly(at))
            BY <5>1
          <5>3. \A q \in Pushing(B) : q < at <=> q # at
            BY <1>2, <5>1
          <5>4. at \in Pushing(B) /\ \A p \in Pushing(B) : p \in at..at => Ly(p) = Ly(at)
            BY <1>2, <1>6, <3>2
          <5> QED BY <4>1, <5>2, <5>3, <5>4, Zenon DEF SameLine
        <4>4. at \notin SameLine(B, at)
          BY <1>2 DEF SameLine
        <4>5. PICK n \in Nat, w \in Nat : n = PixelCount(SameLine(B, at)) /\ w = LCD_WIDTH
          BY <1>5, LcdAssumption
        <4>6. PixelCount(Run) = n + l
          BY <1>5, <4>3, <4>4, <4>5
        <4>7. scanline_x' = Column(at) + LowerOf(l, w - Column(at))
          BY <1>2, <1>4, <1>10, <4>1, <4>5, PlacedFit DEF AdvanceLine
        <4> HIDE DEF Run
        <4> QED BY <4>2, <4>5, <4>6, <4>7 DEF LowerOf
      <3> QED BY <3>1, <3>2
    <2> HIDE DEF Run
    <2> QED BY <1>1, <1>8, <1>10, <2>1, <2>2, <2>3, <1>12, Zenon DEF CursorCounts
  <1> QED BY <1>9, <1>10

-----------------------------------------------------------------------------
(* The rows asked for.                                                     *)

\* Rows belong to instructions in order.
LEMMA InstructionPlace ==
  ASSUME IInv, built, NEW r \in Rows, NEW e \in 1..Len(index_map)
  PROVE  /\ InstructionOf(r) \in Nat /\ r \in Nat /\ index_map[e] \in Nat
         /\ e <= InstructionOf(r) + 1 <=> index_map[e] <= r
  <1>1. /\ InstructionOf(r) + 1 \in 1..Len(index_map)
        /\ r \in InstructionRows(InstructionOf(r) + 1)
    BY InstructionHasRow
  <1>2. /\ Len(index_map) \in Nat /\ Rows \subseteq Nat
        /\ \A d \in 1..Len(index_map) : index_map[d] \in Nat
        /\ \A d, f \in 1..Len(index_map) : d < f => index_map[d] < index_map[f]
    BY Shapes DEF IInv, SplitsAtChanges, Growing
  <1>3. InstructionOf(r) \in Nat
    <2>1. Before(r) \in Nat
      BY BeforeIsPlace, Shapes DEF IInv
    <2> QED BY <2>1 DEF InstructionOf
  <1>4. PICK j \in 1..Len(index_map) : j = InstructionOf(r) + 1 /\ j \in Nat
    BY <1>1
  <1>5. index_map[j] <= r
    BY <1>1, <1>2, <1>4, SMT DEF InstructionRows
  <1>6. ASSUME j < e PROVE r < index_map[e]
    <2>1. j + 1 \in 1..Len(index_map) /\ j # Len(index_map) /\ j + 1 <= e
      BY <1>2, <1>4, <1>6
    <2>2. r < index_map[j + 1]
      BY <1>1, <1>2, <1>4, <2>1 DEF InstructionRows, End
    <2>3. j + 1 = e \/ index_map[j + 1] < index_map[e]
      BY <1>2, <2>1
    <2> QED BY <1>2, <2>1, <2>2, <2>3
  <1>7. e <= j => index_map[e] <= r
    <2>1. e = j \/ ~(e <= j) \/ index_map[e] < index_map[j]
      BY <1>2, <1>4
    <2> QED BY <1>2, <1>5, <2>1
  <1> QED BY <1>2, <1>3, <1>4, <1>6, <1>7

\* The rows of the instructions from one to before another are a range.
LEMMA RowsOfInstructions ==
  ASSUME IInv, built, NEW from \in Nat, NEW d \in Nat, from < Len(index_map), from <= d
  PROVE  /\ {r \in Rows : InstructionOf(r) \in from..d - 1}
              = index_map[from + 1]..LowerOf(RawEnd(d), inner.count) - 1
         /\ index_map[from + 1] \in Nat /\ index_map[from + 1] <= LowerOf(RawEnd(d), inner.count)
  <1>1. /\ Len(index_map) \in Nat /\ inner.count \in Nat /\ index_map \in Seq(Rows)
        /\ \A e \in 1..Len(index_map) : index_map[e] \in Nat /\ index_map[e] < inner.count
        /\ \A e, f \in 1..Len(index_map) : e < f => index_map[e] < index_map[f]
    <2>1. Len(index_map) \in Nat /\ inner.count \in Nat /\ index_map \in Seq(Rows)
      BY Shapes DEF IInv, TypeOK
    <2>2. \A e \in 1..Len(index_map) : index_map[e] \in Rows
      BY <2>1
    <2> QED BY <2>1, <2>2 DEF Rows, IInv, SplitsAtChanges, Growing
  <1>2. from + 1 \in 1..Len(index_map)
    BY <1>1
  <1>3. CASE d < Len(index_map)
    <2>1. d + 1 \in 1..Len(index_map) /\ RowOf(d) = index_map[d + 1] /\ index_map[d + 1] # None
      BY <1>1, <1>3, LcdAssumption DEF RowOf
    <2>2. PICK e \in Nat : e = index_map[d + 1] /\ LowerOf(RawEnd(d), inner.count) = e /\ e < inner.count
      BY <1>1, <2>1 DEF RawEnd, LowerOf
    <2>3. PICK b \in Nat : b = index_map[from + 1] /\ b <= e
      <3>1. from = d \/ from + 1 < d + 1
        OBVIOUS
      <3> QED BY <1>1, <1>2, <2>1, <2>2, <3>1
    <2>4. ASSUME NEW r \in Rows PROVE InstructionOf(r) \in from..d - 1 <=> r \in b..e - 1
      <3>1. PICK i \in Nat, q \in Nat : i = InstructionOf(r) /\ q = r
        BY <1>2, InstructionPlace
      <3>2. from + 1 <= i + 1 <=> b <= q
        BY <1>2, <2>3, <3>1, InstructionPlace
      <3>3. d + 1 <= i + 1 <=> e <= q
        BY <2>1, <2>2, <3>1, InstructionPlace
      <3> QED BY <3>1, <3>2, <3>3
    <2>5. b..e - 1 \subseteq Rows
      <3>1. PICK n \in Nat : n = inner.count /\ e < n
        BY <1>1, <2>2
      <3>2. b..e - 1 \subseteq 0..n - 1
        BY <3>1
      <3> QED BY <3>1, <3>2, Zenon DEF Rows
    <2>6. {r \in Rows : InstructionOf(r) \in from..d - 1} = b..e - 1
      BY <2>4, <2>5, Zenon
    <2> QED BY <2>2, <2>3, <2>6
  <1>4. CASE d >= Len(index_map)
    <2>1. RawEnd(d) = inner.count /\ LowerOf(RawEnd(d), inner.count) = inner.count
      BY <1>1, <1>4 DEF RawEnd, RowOf, LowerOf
    <2>2. PICK b \in Nat : b = index_map[from + 1] /\ b < inner.count
      BY <1>1, <1>2
    <2>3. ASSUME NEW r \in Rows PROVE InstructionOf(r) \in from..d - 1 <=> b <= r
      <3>1. PICK i \in Nat, q \in Nat : i = InstructionOf(r) /\ q = r
        BY <1>2, InstructionPlace
      <3>2. from + 1 <= i + 1 <=> b <= q
        BY <1>2, <2>2, <3>1, InstructionPlace
      <3>3. i + 1 \in 1..Len(index_map)
        BY <3>1, InstructionHasRow
      <3> QED BY <1>1, <1>4, <3>1, <3>2, <3>3
    <2>4. \A r : r \in Rows /\ b <= r <=> r \in b..inner.count - 1
      BY <1>1, <2>2 DEF Rows
    <2> QED BY <1>1, <2>1, <2>2, <2>3, <2>4
  <1> QED BY <1>1, <1>3, <1>4

\* So a scan reads just the rows asked for.
LEMMA RowsOfRange ==
  ASSUME ScanInvariant, scan \in Scans
  PROVE  /\ RowsAsked = Start..LowerOf(MapsEnd, inner.count) - 1
         /\ PictureRows = Start..LowerOf(PictureEnd, inner.count) - 1
         /\ Start <= LowerOf(MapsEnd, inner.count) /\ Start <= LowerOf(PictureEnd, inner.count)
  <1>1. /\ IInv /\ built /\ inner.count \in Nat /\ Len(index_map) \in Nat
        /\ asked.from \in Nat /\ asked.to \in Nat /\ asked.from <= asked.to
        /\ IF asked.instructions THEN asked.from < Len(index_map) ELSE asked.to <= inner.count
    BY Shapes DEF ScanInvariant, Asking, ViewsTyped, Scans, IInv
  <1>2. CASE asked.instructions
    <2>1. Start = index_map[asked.from + 1]
      <3>1. asked.from + 1 \in 1..Len(index_map) /\ RowOf(asked.from) = index_map[asked.from + 1]
        BY <1>1, <1>2 DEF RowOf
      <3>2. index_map[asked.from + 1] # None
        BY <1>1, <3>1, Shapes, LcdAssumption DEF IInv
      <3> QED BY <1>2, <3>1, <3>2 DEF Start, RawStart
    <2>2. /\ RowsAsked = Start..LowerOf(MapsEnd, inner.count) - 1
          /\ Start <= LowerOf(MapsEnd, inner.count)
      BY <1>1, <1>2, <2>1, RowsOfInstructions DEF RowsAsked, MapsEnd
    <2>3. PICK to \in Nat : to = asked.to + 1 /\ asked.from <= to /\ to - 1 = asked.to
      BY <1>1
    <2>4. PictureRows = {r \in Rows : InstructionOf(r) \in asked.from..to - 1}
          /\ PictureEnd = RawEnd(to)
      BY <1>2, <2>3 DEF PictureRows, PictureEnd
    <2>5. /\ PictureRows = Start..LowerOf(PictureEnd, inner.count) - 1
          /\ Start <= LowerOf(PictureEnd, inner.count)
      BY <1>1, <1>2, <2>1, <2>3, <2>4, RowsOfInstructions
    <2> QED BY <2>2, <2>5
  <1>3. CASE ~asked.instructions
    <2>1. Start = asked.from /\ MapsEnd = asked.to /\ PictureEnd = asked.to
      BY <1>3 DEF Start, RawStart, MapsEnd, PictureEnd
    <2>2. LowerOf(asked.to, inner.count) = asked.to
      BY <1>1, <1>3 DEF LowerOf
    <2>3. asked.from..asked.to - 1 \subseteq Rows
      BY <1>1, <1>3 DEF Rows
    <2> QED BY <1>1, <1>3, <2>1, <2>2, <2>3 DEF RowsAsked, PictureRows
  <1> QED BY <1>2, <1>3

LEMMA PlacesInOrder ==
  ASSUME ScanInvariant, scan # "idle", NEW q \in Rows, NEW r \in Rows, q <= r
  PROVE  PlaceOf(q) <= PlaceOf(r) /\ PlaceOf(q) \in Rows /\ PlaceOf(q) \in Nat /\ PlaceOf(r) \in Nat
  <1>1. IInv /\ built
    BY DEF ScanInvariant, Asking, ViewsTyped
  <1>2. PlaceOf(q) \in Rows /\ PlaceOf(r) \in Rows /\ Rows \subseteq Nat
    BY <1>1, PlaceTyped, Shapes DEF IInv
  <1>3. InstructionOf(q) <= InstructionOf(r)
    <2>1. InstructionOf(q) + 1 \in 1..Len(index_map)
      BY <1>1, InstructionHasRow
    <2>2. PICK e \in 1..Len(index_map) : e = InstructionOf(q) + 1
      BY <2>1
    <2>3. PICK i \in Nat, j \in Nat : i = InstructionOf(q) /\ j = InstructionOf(r)
      BY <1>1, <2>1, InstructionPlace
    <2>4. index_map[e] <= q /\ index_map[e] \in Nat /\ q \in Nat /\ r \in Nat
      BY <1>1, <2>2, <2>3, InstructionPlace
    <2>5. index_map[e] <= r
      BY <2>4
    <2>6. e <= j + 1
      BY <1>1, <2>3, <2>5, InstructionPlace
    <2> QED BY <2>2, <2>3, <2>6
  <1> QED BY <1>2, <1>3 DEF PlaceOf

-----------------------------------------------------------------------------
(* What a row adds to the notes.                                           *)

LEMMA RangeGoesOn ==
  ASSUME RowScanned
  PROVE  /\ inner.count \in Nat /\ Scanned \in SUBSET (0..inner.count) /\ Scanned \in SUBSET Nat
         /\ at \in Nat /\ at \in Rows /\ Scanned \subseteq Rows
         /\ \A q \in Scanned : q < at
         /\ Scanned' = Scanned \cup {at} /\ scan' = scan /\ inner' = inner
         /\ ScanInvariant /\ CursorCounts /\ scan \in Scans /\ at < Stop
         /\ \A r : PlaceOf(r)' = PlaceOf(r)
  BY ScanGoesOn, ScannedRows, RowRead, AskedTheSame DEF RowScanned, ScanUnchanged

LEMMA PictureGoesOn ==
  ASSUME RowScanned, scan = "picture", UNCHANGED <<positions, painters>>,
         \A c \in Cells : picture'[c] = IF Shows(Scanned, at, c)
                                        THEN ColourBy(Scanned \cup {at}, at, c) ELSE picture[c]
  PROVE  NotedSoFar'
  <1>1. /\ Scanned' = Scanned \cup {at} /\ scan' = "picture" /\ inner' = inner /\ inner.pix # None
    BY ScanGoesOn
  <1>2. \A c \in Cells : picture'[c] = ColourOf(Scanned \cup {at}, c)
    <2>1. \A c \in Cells : picture[c] = ColourOf(Scanned, c)
      BY DEF RowScanned, NotedSoFar, PictureIsOf
    <2>2. \A c : /\ Shows(Scanned, at, c) => ColourOf(Scanned \cup {at}, c) = ColourBy(Scanned \cup {at}, at, c)
                 /\ ~Shows(Scanned, at, c) => ColourOf(Scanned \cup {at}, c) = ColourOf(Scanned, c)
      BY RangeGoesOn, ColourMore
    <2> QED BY <2>1, <2>2, Zenon
  <1>3. PictureIsOf(Scanned)'
    <2>1. \A R, c : ColourOf(R, c)' = ColourOf(R, c)
      BY <1>1, TraceTheSame
    <2> QED BY <1>1, <1>2, <2>1 DEF PictureIsOf
  <1>4. (\A p \in DOMAIN positions' : positions'[p] = None) /\ painters' = Unrendered'
    BY DEF RowScanned, NotedSoFar, Unrendered
  <1> QED BY <1>1, <1>3, <1>4 DEF NotedSoFar, Over

\* A map is of the rows read: those scans leave the picture alone.
LEMMA PictureStays ==
  ASSUME UNCHANGED <<vars, asked, picture>>, PictureIsOf(PictureRows)
  PROVE  PictureIsOf(PictureRows)'
  <1>1. PictureRows' = PictureRows /\ inner' = inner
    BY AskedTheSame
  <1>2. \A R, c : ColourOf(R, c)' = ColourOf(R, c)
    BY <1>1, TraceTheSame
  <1> QED BY <1>1, <1>2 DEF PictureIsOf

LEMMA PositionsGoOn ==
  ASSUME RowScanned, scan = "positions", UNCHANGED <<picture, painters>>,
         DOMAIN positions' = DOMAIN positions,
         \A p \in DOMAIN positions :
           \/ positions'[p] = positions[p]
           \/ /\ p = PlaceOf(at) /\ Pushes(at)
              /\ positions'[p] \in Cells /\ Reaches(Scanned, at, positions'[p]),
         Pushes(at) => (\A c \in Cells : Reaches(Scanned, at, c) /\ PlaceOf(at) \in DOMAIN positions
                           => positions'[PlaceOf(at)] # None)
  PROVE  NotedSoFar'
  <1> DEFINE B == Scanned \cup {at}
  <1>1. /\ Scanned' = B /\ scan' = "positions" /\ inner' = inner /\ inner.pix # None
        /\ \A r : PlaceOf(r)' = PlaceOf(r)
    BY ScanGoesOn, RangeGoesOn
  <1>2. \A c, q : q \in PaintersOf(B, c)
                    <=> q \in PaintersOf(Scanned, c) \/ (q = at /\ Pushes(at) /\ Reaches(Scanned, at, c))
    BY RangeGoesOn, PaintersMore
  <1>3. PositionsAreOf(Scanned)
    BY DEF RowScanned, NotedSoFar
  <1>4. None \notin Cells
    BY SizeTyped, LcdAssumption DEF Cells
  <1>5. PlaceOf(at) \in DOMAIN positions
    <2>1. at \in Start..LowerOf(MapsEnd, inner.count) - 1
      <3>1. Stop = LowerOf(MapsEnd, inner.count) /\ Stop \in Nat /\ Start \in 0..inner.count
        BY RangeGoesOn, StopTyped, ScannedRows DEF Stop
      <3>2. at \in Nat /\ at < Stop /\ at >= Start
        BY <3>1, RangeGoesOn DEF CursorCounts
      <3> QED BY <3>1, <3>2
    <2>2. at \in RowsAsked
      BY <2>1, RangeGoesOn, RowsOfRange
    <2>3. DOMAIN positions = asked.from..asked.to - 1
      BY RangeGoesOn DEF ScanInvariant, Asking, Scans
    <2> QED BY <2>2, <2>3 DEF RowsAsked, PlaceOf
  <1> HIDE DEF B
  <1>6. \A p \in DOMAIN positions' :
          positions'[p] # None => \E r \in PaintersOf(B, positions'[p]) : PlaceOf(r) = p
    <2> SUFFICES ASSUME NEW p \in DOMAIN positions, positions'[p] # None
                 PROVE  \E r \in PaintersOf(B, positions'[p]) : PlaceOf(r) = p
      OBVIOUS
    <2>1. CASE positions'[p] = positions[p]
      BY <1>2, <1>3, <2>1, Zenon DEF PositionsAreOf
    <2>2. CASE p = PlaceOf(at) /\ Pushes(at) /\ Reaches(Scanned, at, positions'[p])
      BY <1>2, <2>2, Zenon
    <2> QED BY <2>1, <2>2
  <1>7. ASSUME NEW c \in Cells, NEW r \in PaintersOf(B, c)
        PROVE  PlaceOf(r) \in DOMAIN positions' /\ positions'[PlaceOf(r)] # None
    <2>1. CASE r \in PaintersOf(Scanned, c)
      <3>1. PlaceOf(r) \in DOMAIN positions /\ positions[PlaceOf(r)] # None
        BY <1>3, <2>1 DEF PositionsAreOf
      <3> QED BY <1>4, <3>1, Zenon
    <2>2. CASE r = at /\ Pushes(at) /\ Reaches(Scanned, at, c)
      BY <1>5, <2>2
    <2> QED BY <1>2, <2>1, <2>2
  <1>8. PositionsAreOf(Scanned)'
    <2>1. \A R, c : PaintersOf(R, c)' = PaintersOf(R, c)
      BY <1>1, TraceTheSame
    <2>2. Cells' = Cells
      BY DEF Cells
    <2> QED BY <1>1, <1>6, <1>7, <2>1, <2>2 DEF PositionsAreOf
  <1>9. PictureIsOf(PictureRows)'
    BY PictureStays, <1>1 DEF RowScanned, NotedSoFar, ScanUnchanged
  <1>10. painters' = Unrendered'
    BY DEF RowScanned, NotedSoFar, Unrendered
  <1> QED BY <1>1, <1>8, <1>9, <1>10 DEF NotedSoFar, Over

LEMMA PaintersGoOn ==
  ASSUME RowScanned, scan = "painters", UNCHANGED <<picture, positions>>,
         \A c \in Cells : painters'[c] = IF Pushes(at) /\ Reaches(Scanned, at, c)
                                         THEN PlaceOf(at) ELSE painters[c]
  PROVE  NotedSoFar'
  <1> DEFINE B == Scanned \cup {at}
  <1>1. /\ Scanned' = B /\ scan' = "painters" /\ inner' = inner /\ inner.pix # None
        /\ \A r : PlaceOf(r)' = PlaceOf(r)
    BY ScanGoesOn, RangeGoesOn
  <1>2. \A c, q : q \in PaintersOf(B, c)
                    <=> q \in PaintersOf(Scanned, c) \/ (q = at /\ Pushes(at) /\ Reaches(Scanned, at, c))
    BY RangeGoesOn, PaintersMore
  <1>3. PaintersAreOf(Scanned)
    BY DEF RowScanned, NotedSoFar
  <1> HIDE DEF B
  <1>4. ASSUME NEW c \in Cells
        PROVE  painters'[c] = IF PaintersOf(B, c) = {} THEN None ELSE PlaceOf(LastOf(PaintersOf(B, c)))
    <2>1. CASE Pushes(at) /\ Reaches(Scanned, at, c)
      <3> DEFINE S == PaintersOf(B, c)
      <3>1. at \in S
        BY <1>2, <2>1
      <3>2. S \in SUBSET Nat /\ \A k \in S : k <= at
        <4>1. \A k \in S : k \in Scanned \/ k = at
          <5>1. PaintersOf(Scanned, c) \subseteq Scanned
            BY DEF PaintersOf, Pushing
          <5>2. \A k \in S : k \in PaintersOf(Scanned, c) \/ k = at
            BY <1>2
          <5> HIDE DEF S
          <5> QED BY <5>1, <5>2
        <4>2. \A k \in Scanned \cup {at} : k \in Nat /\ k <= at
          BY RangeGoesOn
        <4> HIDE DEF S
        <4> QED BY <4>1, <4>2, Zenon
      <3>3. LastOf(S) = at
        <4> HIDE DEF S
        <4> QED BY <3>1, <3>2, LastIs
      <3> QED BY <2>1, <3>1, <3>3
    <2>2. CASE ~(Pushes(at) /\ Reaches(Scanned, at, c))
      <3>1. PaintersOf(B, c) = PaintersOf(Scanned, c)
        <4>1. \A q : q \in PaintersOf(B, c) <=> q \in PaintersOf(Scanned, c)
          BY <1>2, <2>2, Zenon
        <4> QED BY <4>1
      <3> QED BY <1>3, <2>2, <3>1, Zenon DEF PaintersAreOf
    <2> QED BY <2>1, <2>2
  <1>5. PaintersAreOf(Scanned)'
    <2>1. \A R, c : PaintersOf(R, c)' = PaintersOf(R, c)
      BY <1>1, TraceTheSame
    <2>2. Cells' = Cells /\ \A S : LastOf(S)' = LastOf(S)
      BY DEF Cells, LastOf
    <2> QED BY <1>1, <1>4, <2>1, <2>2, Zenon DEF PaintersAreOf
  <1>6. PictureIsOf(PictureRows)'
    BY PictureStays, <1>1 DEF RowScanned, NotedSoFar, ScanUnchanged
  <1>7. PositionsAreOf(RowsAsked)'
    <2>1. PositionsAreOf(RowsAsked)
      BY DEF RowScanned, NotedSoFar
    <2>2. \A R, c : PaintersOf(R, c)' = PaintersOf(R, c)
      BY <1>1, TraceTheSame
    <2>3. RowsAsked' = RowsAsked
      BY AskedTheSame DEF RowScanned, ScanUnchanged
    <2> QED BY <1>1, <2>1, <2>2, <2>3 DEF PositionsAreOf, Cells
  <1> QED BY <1>1, <1>5, <1>6, <1>7 DEF NotedSoFar, Over

\* A row without pixels of its own to place is passed over.
LEMMA PassedOver ==
  ASSUME ViewsInvariant, EmptyRow \/ SkipDump
  PROVE  CursorCounts' /\ NotedSoFar'
  <1>1. /\ ~Pushes(at) /\ (scan = "picture" => ~IsDump(at))
        /\ UNCHANGED <<cursor, views>> /\ scan \in Scans /\ at < Stop /\ ScanUnchanged /\ NextRowOfScan
    BY DumpHasPixels DEF EmptyRow, SkipDump, Pushes, Scans
  <1>2. RowScanned
    BY <1>1 DEF RowScanned, Moves, ViewsInvariant, ScanInvariant
  <1>3. UNCHANGED <<picture, positions, painters>>
    BY <1>1 DEF views
  <1>4. NotedSoFar'
    <2>1. CASE scan = "picture"
      <3>1. \A c : ~Shows(Scanned, at, c)
        BY <1>1, <2>1 DEF Shows
      <3> QED BY <1>2, <1>3, <2>1, <3>1, PictureGoesOn
    <2>2. CASE scan = "positions"
      BY <1>1, <1>2, <1>3, <2>2, PositionsGoOn
    <2>3. CASE scan = "painters"
      BY <1>1, <1>2, <1>3, <2>3, PaintersGoOn
    <2> QED BY <1>1, <2>1, <2>2, <2>3 DEF Scans
  <1> QED BY <1>2, <1>4, CursorGoesOn

LEMMA DumpNoted == ASSUME ViewsInvariant, PictureDump PROVE CursorCounts' /\ NotedSoFar'
  <1>1. /\ scan = "picture" /\ scan \in Scans /\ at < Stop /\ IsDump(at) /\ pixel_idx' = SIZE
        /\ UNCHANGED <<scanline_x, last_ly, positions, painters>> /\ ScanUnchanged /\ NextRowOfScan
        /\ picture' = [c \in Cells |-> IF c < Len(Pixels(at)) THEN Pixels(at)[c + 1] ELSE picture[c]]
    BY DEF PictureDump, Scans
  <1>2. RowScanned
    BY <1>1 DEF RowScanned, Moves, ViewsInvariant, ScanInvariant
  <1>3. \A c : Shows(Scanned, at, c) <=> c < Len(Pixels(at))
    BY <1>1 DEF Shows, Pushes
  <1>4. \A c : ColourBy(Scanned \cup {at}, at, c) = Pixels(at)[c + 1]
    BY <1>1 DEF ColourBy
  <1>5. NotedSoFar'
    BY <1>1, <1>2, <1>3, <1>4, PictureGoesOn
  <1> QED BY <1>2, <1>5, CursorGoesOn

LEMMA PictureRowNoted == ASSUME ViewsInvariant, PictureRow PROVE CursorCounts' /\ NotedSoFar'
  <1> DEFINE B == Scanned \cup {at}
  <1>1. /\ scan = "picture" /\ scan \in Scans /\ at < Stop /\ Pushes(at) /\ ~IsDump(at)
        /\ UNCHANGED <<positions, painters>> /\ ScanUnchanged /\ NextRowOfScan
        /\ picture' = Painted(at)
        /\ IF inner.ly # None THEN AdvanceLine(at)
           ELSE pixel_idx' = LowerOf(SIZE, pixel_idx + Len(Pixels(at)))
    BY DEF PictureRow, Scans, Pushes
  <1>2. RowScanned
    BY <1>1 DEF RowScanned, Moves, ViewsInvariant, ScanInvariant
  <1>3. ScanInvariant /\ CursorCounts
    BY DEF ViewsInvariant, ScanInvariant
  <1>4. ASSUME NEW c \in Cells
        PROVE  picture'[c] = IF Shows(Scanned, at, c) THEN ColourBy(B, at, c) ELSE picture[c]
    <2>1. picture'[c] = IF c \in CellsOf(at)
                        THEN Pixels(at)[CHOOSE k \in Placed(at) : CellOf(at, k) = c] ELSE picture[c]
      BY <1>1 DEF Painted
    <2>2. CASE inner.ly = None /\ \E q \in Scanned : IsDump(q)
      <3>1. \A k \in 1..Len(Pixels(at)) : CellOf(at, k) = None
        BY <1>1, <1>3, <2>2, NothingAfterDump
      <3>2. CellsOf(at) = {}
        BY <3>1 DEF CellsOf, Placed
      <3>3. ~Shows(Scanned, at, c)
        BY <1>1, <2>2 DEF Shows
      <3> QED BY <2>1, <3>2, <3>3
    <2>3. CASE inner.ly = None => \A q \in Scanned : ~IsDump(q)
      <3>1. c \in CellsOf(at) <=> Shows(Scanned, at, c)
        <4>1. c \in CellsOf(at) <=> Reaches(Scanned, at, c)
          BY <1>1, <1>3, <2>3, CellsReached
        <4> QED BY <1>1, <2>3, <4>1 DEF Shows
      <3>2. \A k : k \in Placed(at) /\ CellOf(at, k) = c
                     <=> k \in 1..Len(Pixels(at)) /\ Paints(B, at, k, c)
        <4>1. c # None
          BY SizeTyped, LcdAssumption DEF Cells
        <4>2. \A k \in 1..Len(Pixels(at)) : CellOf(at, k) = c <=> Paints(B, at, k, c)
          BY <1>1, <1>3, <2>3, CellPainted
        <4> QED BY <4>1, <4>2, Zenon DEF Placed
      <3>3. (CHOOSE k \in Placed(at) : CellOf(at, k) = c) = PixelFor(B, at, c)
        BY <3>2, Zenon DEF PixelFor
      <3> QED BY <1>1, <2>1, <3>1, <3>3, Zenon DEF ColourBy
    <2> QED BY <2>2, <2>3
  <1>5. NotedSoFar'
    BY <1>1, <1>2, <1>4, PictureGoesOn
  <1> QED BY <1>2, <1>5, CursorGoesOn

LEMMA PositionsRowNoted == ASSUME ViewsInvariant, PositionsRow PROVE CursorCounts' /\ NotedSoFar'
  <1>1. /\ scan = "positions" /\ scan \in Scans /\ at < Stop /\ Pushes(at)
        /\ UNCHANGED <<picture, painters>> /\ ScanUnchanged /\ NextRowOfScan /\ AdvanceMaps
        /\ positions' = [p \in DOMAIN positions |->
                           IF p = PlaceOf(at) /\ Placed(at) # {}
                           THEN CellOf(at, LastOf(Placed(at))) ELSE positions[p]]
    BY DEF PositionsRow, Scans, Pushes
  <1>2. RowScanned
    BY <1>1 DEF RowScanned, Moves, ViewsInvariant, ScanInvariant, AdvanceMaps
  <1>3. ScanInvariant /\ CursorCounts
    BY DEF ViewsInvariant, ScanInvariant
  <1>4. \A c \in Cells : c \in CellsOf(at) <=> Reaches(Scanned, at, c)
    BY <1>1, <1>3, CellsReached
  <1>5. Placed(at) # {} =>
          /\ CellOf(at, LastOf(Placed(at))) \in Cells
          /\ Reaches(Scanned, at, CellOf(at, LastOf(Placed(at))))
    <2> SUFFICES ASSUME Placed(at) # {}
                 PROVE  /\ CellOf(at, LastOf(Placed(at))) \in Cells
                        /\ CellOf(at, LastOf(Placed(at))) \in CellsOf(at)
      BY <1>4
    <2>1. Len(Pixels(at)) \in Nat /\ Placed(at) \in SUBSET (0..Len(Pixels(at)))
      <3>1. Len(Pixels(at)) \in Nat
        BY <1>1, <1>3, RowRead
      <3> QED BY <3>1 DEF Placed
    <2>2. LastOf(Placed(at)) \in Placed(at)
      BY <2>1, LastIsThere
    <2> QED BY <1>1, <1>3, <2>2, PixelsPlaced DEF CellsOf
  <1>6. ASSUME NEW p \in DOMAIN positions
        PROVE  \/ positions'[p] = positions[p]
               \/ /\ p = PlaceOf(at) /\ Pushes(at)
                  /\ positions'[p] \in Cells /\ Reaches(Scanned, at, positions'[p])
    BY <1>1, <1>5
  <1>7. ASSUME NEW c \in Cells, Reaches(Scanned, at, c), PlaceOf(at) \in DOMAIN positions
        PROVE  positions'[PlaceOf(at)] # None
    <2>1. Placed(at) # {}
      BY <1>4, <1>7 DEF CellsOf
    <2>2. None \notin Cells
      BY SizeTyped, LcdAssumption DEF Cells
    <2> QED BY <1>1, <1>5, <1>7, <2>1, <2>2
  <1>8. DOMAIN positions' = DOMAIN positions
    BY <1>1
  <1>9. NotedSoFar'
    BY <1>1, <1>2, <1>6, <1>7, <1>8, PositionsGoOn
  <1> QED BY <1>2, <1>9, CursorGoesOn

LEMMA PaintersRowNoted == ASSUME ViewsInvariant, PaintersRow PROVE CursorCounts' /\ NotedSoFar'
  <1>1. /\ scan = "painters" /\ scan \in Scans /\ at < Stop /\ Pushes(at)
        /\ UNCHANGED <<picture, positions>> /\ ScanUnchanged /\ NextRowOfScan /\ AdvanceMaps
        /\ painters' = [c \in Cells |-> IF c \in CellsOf(at) THEN PlaceOf(at) ELSE painters[c]]
    BY DEF PaintersRow, Scans, Pushes
  <1>2. RowScanned
    BY <1>1 DEF RowScanned, Moves, ViewsInvariant, ScanInvariant, AdvanceMaps
  <1>3. \A c \in Cells : c \in CellsOf(at) <=> Reaches(Scanned, at, c)
    BY <1>1, CellsReached DEF ViewsInvariant, ScanInvariant
  <1>4. NotedSoFar'
    BY <1>1, <1>2, <1>3, PaintersGoOn
  <1> QED BY <1>2, <1>4, CursorGoesOn

\* A scan that begins has read nothing.
Fresh == ScanInvariant /\ scan \in Scans /\ at = Start /\ pixel_idx = 0 /\ last_ly = None

LEMMA FreshScan ==
  Fresh => /\ CursorCounts
           /\ picture = Unrendered => PictureIsOf(Scanned)
           /\ (\A p \in DOMAIN positions : positions[p] = None) => PositionsAreOf(Scanned)
           /\ painters = Unrendered => PaintersAreOf(Scanned)
  <1> SUFFICES ASSUME Fresh
               PROVE  /\ CursorCounts
                      /\ picture = Unrendered => PictureIsOf(Scanned)
                      /\ (\A p \in DOMAIN positions : positions[p] = None) => PositionsAreOf(Scanned)
                      /\ painters = Unrendered => PaintersAreOf(Scanned)
    OBVIOUS
  <1>1. Scanned = {} /\ Start \in Nat /\ inner.count \in Nat /\ Stop \in Nat /\ Start <= Stop
    <2>1. Start \in 0..inner.count /\ inner.count \in Nat /\ Stop \in Nat /\ Start <= Stop
      BY ScannedRows, StopTyped, RowsOfRange DEF Fresh, Stop
    <2> QED BY <2>1 DEF Scanned, Fresh
  <1>2. Pushing({}) = {}
    BY DEF Pushing
  <1>3. PixelCount({}) = 0
    BY PixelCountTyped, NoRows DEF Fresh, ScanInvariant, Asking
  <1>4. SIZE \in Nat /\ None \notin Nat /\ LowerOf(SIZE, 0) = 0
    BY SizeTyped, LcdAssumption DEF LowerOf
  <1>5. CursorCounts
    <2>1. scan # "idle"
      BY DEF Fresh, Scans
    <2>2. at \in Start..Stop
      BY <1>1 DEF Fresh
    <2>3. last_ly \notin 0..LCD_HEIGHT - 1
      BY <1>4, LcdAssumption DEF Fresh
    <2> QED BY <1>1, <1>2, <1>3, <1>4, <2>1, <2>2, <2>3 DEF CursorCounts, Fresh
  <1>6. \A c : PaintersOf({}, c) = {} /\ SourcesOf({}, c) = {}
    BY <1>2 DEF PaintersOf, SourcesOf
  <1> QED
    BY <1>1, <1>5, <1>6 DEF PictureIsOf, ColourOf, PositionsAreOf, PaintersAreOf, Unrendered

LEMMA FreshScanNext ==
  (Fresh => /\ CursorCounts
            /\ picture = Unrendered => PictureIsOf(Scanned)
            /\ (\A p \in DOMAIN positions : positions[p] = None) => PositionsAreOf(Scanned)
            /\ painters = Unrendered => PaintersAreOf(Scanned))'
  BY FreshScan, PTL

LEMMA AskNoted ==
  ASSUME ViewsInvariant, ScanInvariant', NEW instructions, NEW from, NEW to,
         Ask(instructions, from, to)
  PROVE  CursorCounts' /\ NotedSoFar'
  <1>1. /\ scan = "idle" /\ UNCHANGED <<vars, cursor, picture, painters>>
        /\ asked' = [instructions |-> instructions, from |-> from, to |-> to]
        /\ positions' = [p \in from..to - 1 |-> None]
        /\ scan' = IF inner.pix = None THEN "done" ELSE "picture"
        /\ at' = RawStart(instructions, from)
    BY DEF Ask
  <1>2. /\ pixel_idx' = 0 /\ last_ly' = None /\ picture' = Unrendered' /\ painters' = Unrendered'
        /\ inner' = inner /\ index_map' = index_map
        /\ \A p \in DOMAIN positions' : positions'[p] = None
    BY <1>1 DEF ViewsInvariant, CursorCounts, NotedSoFar, cursor, vars, Unrendered, Cells
  <1>3. CASE inner.pix = None
    BY <1>1, <1>2, <1>3 DEF CursorCounts, NotedSoFar, Over, Scans
  <1>4. CASE inner.pix # None
    <2>1. Start' = at'
      BY <1>1, <1>2 DEF Start, RawStart, RowOf
    <2>2. Fresh'
      BY <1>1, <1>2, <1>4, <2>1 DEF Fresh, Scans
    <2> QED BY <1>1, <1>2, <1>4, <2>2, FreshScanNext DEF NotedSoFar, Over
  <1> QED BY <1>3, <1>4

LEMMA OverNoted ==
  ASSUME ViewsInvariant, ScanInvariant', ScanOver
  PROVE  CursorCounts' /\ NotedSoFar'
  <1>1. /\ scan \in Scans /\ at >= Stop /\ UNCHANGED <<vars, asked, picture, positions, painters>>
        /\ scan = "picture" => scan' = "positions"
        /\ scan = "positions" => scan' = "painters"
        /\ scan = "painters" => scan' = "done"
        /\ at' = Start /\ pixel_idx' = 0 /\ last_ly' = None
    BY DEF ScanOver, Scans, ResetCursor, views, Start
  <1>2. /\ Start' = Start /\ inner' = inner /\ RowsAsked' = RowsAsked /\ PictureRows' = PictureRows
        /\ \A r : PlaceOf(r)' = PlaceOf(r)
    BY <1>1, AskedTheSame
  <1>3. ScanInvariant /\ CursorCounts /\ NotedSoFar /\ inner.pix # None
    BY <1>1 DEF ViewsInvariant, ScanInvariant, Asking
  <1>4. /\ scan = "picture" => Scanned = PictureRows
        /\ scan \in {"positions", "painters"} => Scanned = RowsAsked
    <2>1. at = Stop
      <3>1. at \in Start..Stop /\ Stop \in Nat /\ at \in Nat
        BY <1>1, <1>3, StopTyped, ScannedRows DEF CursorCounts
      <3> QED BY <1>1, <3>1
    <2> QED BY <1>1, <1>3, <2>1, RowsOfRange DEF Scanned, Stop
  <1>5. scan' \in Scans => Fresh'
    BY <1>1, <1>2 DEF Fresh
  <1>6. \A R, c : PaintersOf(R, c)' = PaintersOf(R, c) /\ ColourOf(R, c)' = ColourOf(R, c)
    BY <1>2, TraceTheSame
  <1>7. PictureIsOf(PictureRows)'
    <2>1. PictureIsOf(PictureRows)
      BY <1>1, <1>3, <1>4 DEF NotedSoFar, Scans
    <2> QED BY <1>1, <2>1, PictureStays
  <1>8. CASE scan = "picture"
    <2>1. (\A p \in DOMAIN positions' : positions'[p] = None) /\ painters' = Unrendered'
      BY <1>1, <1>3, <1>8 DEF NotedSoFar, Unrendered
    <2> QED BY <1>1, <1>2, <1>3, <1>5, <1>7, <1>8, <2>1, FreshScanNext DEF NotedSoFar, Over, Scans
  <1>9. PositionsAreOf(RowsAsked) => PositionsAreOf(RowsAsked)'
    BY <1>1, <1>2, <1>6 DEF PositionsAreOf, Cells
  <1>10. CASE scan = "positions"
    <2>1. PositionsAreOf(RowsAsked)' /\ painters' = Unrendered'
      BY <1>1, <1>3, <1>4, <1>9, <1>10 DEF NotedSoFar, Unrendered
    <2> QED BY <1>1, <1>2, <1>3, <1>5, <1>7, <1>10, <2>1, FreshScanNext DEF NotedSoFar, Over, Scans
  <1>11. CASE scan = "painters"
    <2>1. PositionsAreOf(RowsAsked)'
      BY <1>3, <1>9, <1>11 DEF NotedSoFar
    <2>2. PaintersAreOf(RowsAsked)'
      <3>1. PaintersAreOf(RowsAsked)
        BY <1>3, <1>4, <1>11 DEF NotedSoFar
      <3>2. \A S : LastOf(S)' = LastOf(S)
        BY DEF LastOf
      <3> QED BY <1>1, <1>2, <1>6, <3>1, <3>2, Zenon DEF PaintersAreOf, Cells
    <2> QED BY <1>1, <1>2, <1>3, <1>7, <1>11, <2>1, <2>2 DEF NotedSoFar, CursorCounts, Over, Scans
  <1> QED BY <1>1, <1>8, <1>10, <1>11 DEF Scans

LEMMA IdleNoted ==
  ASSUME ViewsInvariant, \/ Next /\ scan = "idle" /\ UNCHANGED fvars
                         \/ UNCHANGED <<vars, fvars>>
  PROVE  CursorCounts' /\ NotedSoFar'
  <1>1. inner' = inner /\ UNCHANGED <<asked, scan, at, pixel_idx, scanline_x, last_ly>>
        /\ UNCHANGED <<picture, positions, painters>>
    BY DEF Next, FirstRow, PassThrough, NextRow, Build, OriginalIndex, DownsampledIndex,
           FrameBoundaries, vars, fvars, cursor, views
  <1>2. CASE Next /\ scan = "idle" /\ UNCHANGED fvars
    <2>1. picture' = Unrendered' /\ painters' = Unrendered' /\ pixel_idx' = 0 /\ last_ly' = None
      BY <1>1, <1>2 DEF ViewsInvariant, NotedSoFar, CursorCounts, Unrendered, Cells
    <2>2. inner'.pix = None => \A p \in DOMAIN positions' : positions'[p] = None
      BY <1>1, <1>2 DEF ViewsInvariant, NotedSoFar
    <2> QED BY <1>1, <1>2, <2>1, <2>2 DEF NotedSoFar, CursorCounts, Over, Scans
  <1>3. CASE UNCHANGED <<vars, fvars>>
    <2>1. /\ Start' = Start /\ (scan' = scan => Stop' = Stop) /\ RowsAsked' = RowsAsked
          /\ PictureRows' = PictureRows /\ \A r : PlaceOf(r)' = PlaceOf(r)
      BY <1>1, <1>3, AskedTheSame
    <2>2. /\ \A R, c : PaintersOf(R, c)' = PaintersOf(R, c) /\ ColourOf(R, c)' = ColourOf(R, c)
          /\ \A R : Pushing(R)' = Pushing(R) /\ PixelCount(R)' = PixelCount(R)
          /\ \A r : IsDump(r)' = IsDump(r) /\ Ly(r)' = Ly(r)
          /\ \A S : LastOf(S)' = LastOf(S)
      BY <1>1, TraceTheSame DEF LastOf
    <2>3. Scanned' = Scanned
      BY <1>1, <2>1 DEF Scanned
    <2>4. LineRun' = LineRun
      BY <1>1, <2>2, <2>3, Zenon DEF LineRun
    <2>5. CursorCounts'
      BY <1>1, <2>1, <2>2, <2>3, <2>4, Zenon DEF ViewsInvariant, CursorCounts
    <2>6. \A R : /\ PictureIsOf(R)' <=> PictureIsOf(R)
                 /\ PaintersAreOf(R)' <=> PaintersAreOf(R)
      BY <1>1, <2>1, <2>2, Zenon DEF PictureIsOf, PaintersAreOf, Cells
    <2>7. \A R : PositionsAreOf(R)' <=> PositionsAreOf(R)
      BY <1>1, <2>1, <2>2, Zenon DEF PositionsAreOf, Cells
    <2>8. NotedSoFar'
      BY <1>1, <2>1, <2>3, <2>6, <2>7, Zenon DEF ViewsInvariant, NotedSoFar, Over, Unrendered
    <2> QED BY <2>5, <2>8
  <1> QED BY <1>2, <1>3

LEMMA NotesStep == ViewsInvariant /\ [NextViews]_<<vars, fvars>> => ViewsInvariant'
  <1> SUFFICES ASSUME ViewsInvariant, [NextViews]_<<vars, fvars>> PROVE ViewsInvariant'
    OBVIOUS
  <1>1. ScanInvariant'
    BY ScanStep DEF ViewsInvariant, ScanInvariant
  <1> SUFFICES CursorCounts' /\ NotedSoFar'
    BY <1>1 DEF ViewsInvariant, ScanInvariant
  <1>2. CASE \/ Next /\ scan = "idle" /\ UNCHANGED fvars
             \/ UNCHANGED <<vars, fvars>>
    BY <1>2, IdleNoted
  <1>3. CASE \/ \E from \in 0..inner.count : \E to \in from..inner.count : Ask(FALSE, from, to)
             \/ \E f \in 1..Len(inner.boundaries) : AskFrame(f)
             \/ \E from \in 0..Len(index_map) - 1 : \E to \in from..Len(index_map) : Ask(TRUE, from, to)
    BY <1>1, <1>3, AskNoted, Zenon DEF AskFrame
  <1>4. CASE EmptyRow \/ SkipDump
    BY <1>4, PassedOver
  <1>5. CASE PictureDump \/ PictureRow
    BY <1>5, DumpNoted, PictureRowNoted
  <1>6. CASE PositionsRow \/ PaintersRow
    BY <1>6, PositionsRowNoted, PaintersRowNoted
  <1>7. CASE ScanOver
    BY <1>1, <1>7, OverNoted
  <1> QED BY <1>2, <1>3, <1>4, <1>5, <1>6, <1>7 DEF NextViews

LEMMA NotesInit == InitViews => ViewsInvariant
  <1> SUFFICES ASSUME InitViews PROVE ViewsInvariant
    OBVIOUS
  <1>1. ScanInvariant
    BY ScanInit
  <1>2. CursorCounts /\ NotedSoFar
    <2>1. scan = "idle" /\ positions = <<>> /\ DOMAIN <<>> = {}
      BY DEF InitViews
    <2> QED BY <2>1 DEF InitViews, CursorCounts, NotedSoFar, Over, Scans
  <1> QED BY <1>1, <1>2 DEF ViewsInvariant, ScanInvariant

\* Whatever the pixels and the lines say, the rows read are rows of the trace, the
\* cells noted are on the screen, the cursor is where line and count put it, and
\* each scan has noted what the rows it has read say.
THEOREM ViewsInvariantHolds == SpecViews => []ViewsInvariant
  BY NotesInit, NotesStep, PTL DEF SpecViews

\* reconstruct_partial_frame (framebuffer.rs): the picture of a range, of rows or
\* of instructions, shows on each cell the last pixel its rows put there.
THEOREM ViewsShowLastPixels == SpecViews => []PictureShowsLastPixels
  <1>1. ViewsInvariant => PictureShowsLastPixels
    BY DEF ViewsInvariant, NotedSoFar, PictureShowsLastPixels
  <1> QED BY <1>1, ViewsInvariantHolds, PTL

\* build_pixel_position_map, build_reverse_pixel_map (framebuffer.rs): the two maps
\* are of one picture, and each cell is traced back to the last that painted it.
LEMMA NotesAgree == ViewsInvariant => MapsAgree
  <1> SUFFICES ASSUME ViewsInvariant, scan = "done"
               PROVE  /\ PaintersAreLast
                      /\ \A p \in DOMAIN positions :
                           positions[p] # None =>
                             painters[positions[p]] # None /\ painters[positions[p]] >= p
                      /\ \A c \in Cells :
                           painters[c] # None => /\ painters[c] \in DOMAIN positions
                                                 /\ positions[painters[c]] # None
    BY DEF MapsAgree, PaintersAreLast, Over
  <1>1. PaintersAreLast
    BY DEF ViewsInvariant, NotedSoFar, PaintersAreLast
  <1>2. CASE inner.pix = None
    BY <1>1, <1>2 DEF ViewsInvariant, NotedSoFar, Unrendered
  <1>3. CASE inner.pix # None
    <2>1. /\ ScanInvariant /\ PositionsAreOf(RowsAsked) /\ PaintersAreOf(RowsAsked)
          /\ inner.count \in Nat /\ RowsAsked \subseteq Rows
      BY <1>3, Shapes DEF ViewsInvariant, NotedSoFar, ScanInvariant, Over, ViewsTyped, IInv, RowsAsked
    <2>2. ASSUME NEW c \in Cells, PaintersOf(RowsAsked, c) # {}
          PROVE  /\ LastOf(PaintersOf(RowsAsked, c)) \in PaintersOf(RowsAsked, c)
                 /\ \A r \in PaintersOf(RowsAsked, c) : r \in Rows /\ r <= LastOf(PaintersOf(RowsAsked, c))
                 /\ painters[c] = PlaceOf(LastOf(PaintersOf(RowsAsked, c)))
      <3>1. PaintersOf(RowsAsked, c) \subseteq Rows
        BY <2>1 DEF PaintersOf, Pushing
      <3>2. PaintersOf(RowsAsked, c) \in SUBSET (0..inner.count)
        BY <2>1, <3>1 DEF Rows
      <3> QED BY <2>1, <2>2, <3>1, <3>2, LastIsThere DEF PaintersAreOf
    <2>3. ASSUME NEW p \in DOMAIN positions, positions[p] # None
          PROVE  painters[positions[p]] # None /\ painters[positions[p]] >= p
      <3>1. positions[p] \in Cells
        BY <2>3 DEF ViewsInvariant, ViewsTyped
      <3>2. PICK r \in PaintersOf(RowsAsked, positions[p]) : PlaceOf(r) = p
        BY <2>1, <2>3 DEF PositionsAreOf
      <3>3. PICK l : /\ l \in Rows /\ r \in Rows /\ r <= l
                     /\ painters[positions[p]] = PlaceOf(l)
        BY <2>2, <3>1, <3>2
      <3>4. PlaceOf(r) <= PlaceOf(l) /\ PlaceOf(r) \in Nat /\ PlaceOf(l) \in Nat
        BY <2>1, <3>3, PlacesInOrder
      <3> QED BY <3>2, <3>3, <3>4, LcdAssumption
    <2>4. ASSUME NEW c \in Cells, painters[c] # None
          PROVE  painters[c] \in DOMAIN positions /\ positions[painters[c]] # None
      <3>1. PaintersOf(RowsAsked, c) # {}
        BY <2>1, <2>4 DEF PaintersAreOf
      <3>2. PICK l \in PaintersOf(RowsAsked, c) : painters[c] = PlaceOf(l)
        BY <2>2, <3>1
      <3> QED BY <2>1, <3>2 DEF PositionsAreOf
    <2> QED BY <1>1, <2>3, <2>4
  <1> QED BY <1>2, <1>3

THEOREM ViewsMapsAgree == SpecViews => []MapsAgree
  BY NotesAgree, ViewsInvariantHolds, PTL

\* The view under the scans is the view by itself.
LEMMA ScansStepTheView == [NextViews]_<<vars, fvars>> => [Next]_vars
  <1> SUFFICES ASSUME NextViews PROVE [Next]_vars
    BY DEF vars
  <1>1. CASE \E from \in 0..inner.count : \E to \in from..inner.count : Ask(FALSE, from, to)
    BY <1>1 DEF Ask
  <1>2. CASE \E f \in 1..Len(inner.boundaries) : AskFrame(f)
    BY <1>2 DEF AskFrame, Ask
  <1>3. CASE \E from \in 0..Len(index_map) - 1 : \E to \in from..Len(index_map) : Ask(TRUE, from, to)
    BY <1>3 DEF Ask
  <1>4. CASE EmptyRow \/ PictureDump \/ PictureRow \/ SkipDump \/ PositionsRow \/ PaintersRow \/ ScanOver
    BY <1>4 DEF EmptyRow, PictureDump, PictureRow, SkipDump, PositionsRow, PaintersRow, ScanOver,
                ScanUnchanged
  <1> QED BY <1>1, <1>2, <1>3, <1>4 DEF NextViews

THEOREM ScansLeaveTheView == SpecViews => Spec
  <1>1. InitViews => Init
    BY DEF InitViews
  <1> QED BY <1>1, ScansStepTheView, PTL DEF SpecViews, Spec
=============================================================================
