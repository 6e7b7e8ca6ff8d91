------------------------ MODULE FanTableEditorProofs ------------------------
(***************************************************************************)
(* The table editor for every table of any length and every value that can *)
(* be typed: the page's check is the server's, and no button of the editor *)
(* breaks a table.                                                         *)
(***************************************************************************)
EXTENDS MCFanCurve, FanCurveProofs, SequenceTheorems

Cells == Int \cup {Blank}

\* What the inputs can hold.
Typed == rows \in Seq(Cells \X Cells)

\* The rows that pass are all numbers, and the table is sent as it stands.
LEMMA AcceptedRows ==
    ASSUME Typed, Accepted, NEW i \in DOMAIN rows
    PROVE  /\ rows[i][1] \in Temperature /\ rows[i][2] \in Percent
           /\ i > 1 => rows[i - 1][1] \in Temperature /\ rows[i - 1][1] < rows[i][1]
  <1> USE RowsAssumption
  <1>1. \A k \in DOMAIN rows : rows[k][1] \in Cells /\ rows[k][2] \in Cells
    BY DEF Typed
  <1>2. \A k \in DOMAIN rows : k \notin RowErrors
    BY DEF Accepted
  <1>3. \A k \in DOMAIN rows : rows[k][1] \in Temperature /\ rows[k][2] \in Percent
    BY <1>1, <1>2 DEF RowErrors, Cells, Temperature, Percent
  <1>4. ASSUME i > 1 PROVE i - 1 \in DOMAIN rows
    BY <1>4 DEF Typed
  <1>5. ASSUME i > 1 PROVE rows[i - 1][1] < rows[i][1]
    <2>1. Ascends(Number(rows[i - 1][1]), rows[i][1])
      BY <1>2, <1>5 DEF RowErrors
    <2>2. Number(rows[i - 1][1]) = rows[i - 1][1]
      BY <1>3, <1>4, <1>5 DEF Number, Temperature
    <2> QED
      BY <2>1, <2>2 DEF Ascends
  <1> QED
    BY <1>3, <1>4, <1>5

Ordered ==
    /\ rows # <<>>
    /\ \A i \in DOMAIN rows : rows[i][1] \in Temperature /\ rows[i][2] \in Percent
    /\ \A i \in DOMAIN rows : i > 1 => rows[i - 1][1] < rows[i][1]

\* Conversely, rows of numbers in range and in order pass.
LEMMA OrderedRowsPass == Typed /\ Ordered => Accepted
  <1> USE RowsAssumption
  <1> SUFFICES ASSUME Typed, Ordered, NEW i \in DOMAIN rows PROVE i \notin RowErrors
    BY DEF Accepted, RowErrors, Ordered
  <1>1. rows[i][1] \in 0 .. 110 /\ rows[i][2] \in 0 .. 100
    BY DEF Ordered, Temperature, Percent
  <1>2. rows[i][1] # Blank /\ rows[i][2] # Blank
    BY <1>1
  <1>3. ASSUME i > 1 PROVE Ascends(Number(rows[i - 1][1]), rows[i][1])
    <2>1. i - 1 \in DOMAIN rows
      BY <1>3 DEF Typed
    <2>2. rows[i - 1][1] \in Temperature /\ rows[i - 1][1] < rows[i][1]
      BY <1>3, <2>1 DEF Ordered
    <2> QED
      BY <2>2 DEF Ascends, Number, Temperature
  <1> QED
    BY <1>1, <1>2, <1>3 DEF RowErrors

\* The rows that pass, taken together.
LEMMA AcceptedIsOrdered == Typed /\ Accepted => Ordered
  BY AcceptedRows DEF Ordered, Accepted

\* The page sends a table exactly when the server accepts it, whatever is typed.
THEOREM PageAgrees == Typed => PageAgreesWithServer
  <1> USE RowsAssumption
  <1> SUFFICES ASSUME Typed PROVE PageAgreesWithServer
    OBVIOUS
  <1> DEFINE full == \A i \in DOMAIN rows : Blank \notin {rows[i][1], rows[i][2]}
  <1>0. Len(rows) \in Nat /\ DOMAIN rows = 1 .. Len(rows)
    BY DEF Typed
  <1>1. /\ DOMAIN Submitted = DOMAIN rows
        /\ \A i \in DOMAIN rows : Submitted[i] = <<Number(rows[i][1]), Number(rows[i][2])>>
    BY DEF Submitted
  <1>2. ASSUME Accepted PROVE ValidFanTable(Submitted) /\ full
    <2>1. \A i \in DOMAIN rows : rows[i][1] \in Temperature /\ rows[i][2] \in Percent
      BY <1>2, AcceptedRows
    <2>2. \A i \in DOMAIN rows : Submitted[i] = <<rows[i][1], rows[i][2]>>
      BY <1>1, <2>1 DEF Number, Temperature, Percent
    <2>3. Submitted \in Seq(Temperature \X Percent) /\ Len(Submitted) = Len(rows)
      BY <1>0, <2>1, <2>2 DEF Submitted
    <2>4. Submitted # <<>>
      BY <1>0, <1>2, <2>3 DEF Accepted, Typed
    <2>5. ASSUME NEW i \in 1 .. Len(Submitted) - 1 PROVE Submitted[i][1] < Submitted[i + 1][1]
      <3>1. i + 1 \in DOMAIN rows /\ i + 1 > 1 /\ i \in DOMAIN rows /\ (i + 1) - 1 = i
        BY <1>0, <2>3
      <3>2. rows[(i + 1) - 1][1] < rows[i + 1][1]
        BY <1>2, <3>1, AcceptedRows
      <3> QED
        BY <2>2, <3>1, <3>2
    <2>6. full
      BY <2>1 DEF Temperature, Percent
    <2> QED
      BY <2>3, <2>4, <2>5, <2>6 DEF ValidFanTable
  <1>3. ASSUME ValidFanTable(Submitted), full PROVE Accepted
    <2>1. \A i \in DOMAIN rows : Submitted[i] = <<rows[i][1], rows[i][2]>>
      <3>1. \A i \in DOMAIN rows : Number(rows[i][1]) = rows[i][1] /\ Number(rows[i][2]) = rows[i][2]
        BY <1>3 DEF Number
      <3> QED
        BY <1>1, <3>1
    <2>2. Submitted \in Seq(Temperature \X Percent) /\ Submitted # <<>>
      BY <1>3 DEF ValidFanTable
    <2>3. Len(Submitted) = Len(rows) /\ rows # <<>>
      BY <1>0, <1>1, <2>2 DEF Typed
    <2>4. ASSUME NEW i \in DOMAIN rows PROVE rows[i][1] \in Temperature /\ rows[i][2] \in Percent
      <3>1. Submitted[i] \in Temperature \X Percent
        BY <1>0, <2>2, <2>3
      <3> QED
        BY <2>1, <3>1
    <2>5. ASSUME NEW i \in DOMAIN rows, i > 1 PROVE rows[i - 1][1] < rows[i][1]
      <3>1. i - 1 \in 1 .. Len(Submitted) - 1 /\ i - 1 \in DOMAIN rows /\ (i - 1) + 1 = i
        BY <1>0, <2>3, <2>5
      <3>2. Submitted[i - 1][1] < Submitted[(i - 1) + 1][1]
        BY <1>3, <3>1 DEF ValidFanTable
      <3> QED
        BY <2>1, <3>1, <3>2
    <2> QED
      BY <2>3, <2>4, <2>5, OrderedRowsPass DEF Ordered
  <1> QED
    BY <1>2, <1>3 DEF PageAgreesWithServer

-----------------------------------------------------------------------------
(* The editor's steps *)

\* No button and no typing leaves the cells' type.
LEMMA TypedStep ==
    ASSUME Typed, Buttons \/ Types
    PROVE  Typed'
  <1> USE RowsAssumption, TypedAssumption DEF Typed
  <1>0. /\ Len(rows) \in Nat /\ DOMAIN rows = 1 .. Len(rows)
        /\ \A i \in DOMAIN rows : rows[i] \in Cells \X Cells
    OBVIOUS
  <1>1. ASSUME NEW i \in DOMAIN rows, InsertBefore(i) PROVE Typed'
    <2> DEFINE row == <<Midpoint(i), Clamped(rows[i][2])>>
    <2>1. Midpoint(i) \in Int
      <3>1. rows[i][1] \in Int
        BY <1>0, <1>1 DEF InsertBefore, Insertable, Cells
      <3>2. ASSUME i > 1 PROVE rows[i - 1][1] \in Int
        <4>1. i - 1 \in DOMAIN rows
          BY <1>0, <3>2
        <4> QED
          BY <1>0, <1>1, <3>2, <4>1 DEF InsertBefore, Insertable, Cells
      <3> QED
        BY <1>0, <3>1, <3>2 DEF Midpoint
    <2>2. Clamped(rows[i][2]) \in Int
      BY <1>0 DEF Clamped, Number, Cells
    <2>3. row \in Cells \X Cells
      BY <2>1, <2>2 DEF Cells
    <2> HIDE DEF row
    <2>4. <<row>> \in Seq(Cells \X Cells)
      BY <2>3
    <2>5. /\ SubSeq(rows, 1, i - 1) \in Seq(Cells \X Cells)
          /\ SubSeq(rows, i, Len(rows)) \in Seq(Cells \X Cells)
      BY <1>0
    <2>6. rows' = SubSeq(rows, 1, i - 1) \o <<row>> \o SubSeq(rows, i, Len(rows))
      BY <1>1 DEF InsertBefore, row
    <2> QED
      BY <2>4, <2>5, <2>6
  <1>2. ASSUME NEW i \in DOMAIN rows, Remove(i) PROVE Typed'
    BY <1>0, <1>2 DEF Remove
  <1>3. ASSUME Add, rows # <<>> PROVE Typed'
    <2>1. rows[Len(rows)] \in Cells \X Cells
      BY <1>0, <1>3
    <2>2. Number(rows[Len(rows)][1]) + 1 \in Cells
      BY <2>1 DEF Number, Cells
    <2>3. <<Number(rows[Len(rows)][1]) + 1, rows[Len(rows)][2]>> \in Cells \X Cells
      BY <2>1, <2>2
    <2> QED
      BY <1>3, <2>3 DEF Add
  <1>4. ASSUME Types PROVE Typed'
    <2>1. PICK i \in DOMAIN rows, column \in {1, 2}, cell \in TypedTemperatures \cup TypedSpeeds :
            Type(i, cell, column)
      BY <1>4 DEF Types
    <2>2. cell \in Cells
      BY <2>1 DEF Cells
    <2>3. [rows[i] EXCEPT ![column] = cell] \in Cells \X Cells
      BY <1>0, <2>2
    <2>4. rows' = [rows EXCEPT ![i] = [rows[i] EXCEPT ![column] = cell]]
      BY <2>1 DEF Type
    <2> QED
      BY <1>0, <2>3, <2>4
  <1> QED
    BY <1>1, <1>2, <1>3, <1>4 DEF Buttons

\* Half of a temperature above zero is a temperature below it.
LEMMA Half == ASSUME NEW a \in 1 .. 110 PROVE a \div 2 \in 0 .. 110 /\ a \div 2 < a
  OBVIOUS

Inserted(seq, i, x) == SubSeq(seq, 1, i - 1) \o <<x>> \o SubSeq(seq, i, Len(seq))
Removed(seq, i) == SubSeq(seq, 1, i - 1) \o SubSeq(seq, i + 1, Len(seq))

\* The elements of a sequence with one inserted at i.
LEMMA InsertedElements ==
    ASSUME NEW S, NEW seq \in Seq(S), NEW x \in S, NEW i \in 1 .. Len(seq)
    PROVE  /\ Inserted(seq, i, x) \in Seq(S) /\ Len(Inserted(seq, i, x)) = Len(seq) + 1
           /\ \A k \in 1 .. i - 1 : Inserted(seq, i, x)[k] = seq[k]
           /\ Inserted(seq, i, x)[i] = x
           /\ \A k \in i + 1 .. Len(seq) + 1 : Inserted(seq, i, x)[k] = seq[k - 1]
  <1> DEFINE before == SubSeq(seq, 1, i - 1)
             after == SubSeq(seq, i, Len(seq))
  <1>1. /\ before \in Seq(S) /\ Len(before) = i - 1
        /\ \A k \in 1 .. i - 1 : before[k] = seq[k]
    BY SubSeqProperties
  <1>2. /\ after \in Seq(S) /\ Len(after) = Len(seq) - i + 1
        /\ \A k \in 1 .. Len(seq) - i + 1 : after[k] = seq[i + k - 1]
    BY SubSeqProperties
  <1> HIDE DEF before, after
  <1>3. /\ before \o <<x>> \in Seq(S) /\ Len(before \o <<x>>) = i
        /\ \A k \in 1 .. i : (before \o <<x>>)[k] = IF k < i THEN seq[k] ELSE x
    BY <1>1
  <1> DEFINE front == before \o <<x>>
  <1> HIDE DEF front
  <1>4. front \in Seq(S) /\ Len(front) = i /\ \A k \in 1 .. i : front[k] = IF k < i THEN seq[k] ELSE x
    BY <1>3 DEF front
  <1>5. /\ front \o after \in Seq(S) /\ Len(front \o after) = Len(front) + Len(after)
        /\ \A k \in 1 .. Len(front) + Len(after) :
              (front \o after)[k] = IF k <= Len(front) THEN front[k] ELSE after[k - Len(front)]
    BY <1>2, <1>4, ConcatProperties
  <1>6. Len(seq) \in Nat /\ Len(front) + Len(after) = Len(seq) + 1
    BY <1>2, <1>4
  <1>7. ASSUME NEW k \in 1 .. Len(seq) + 1
        PROVE  (front \o after)[k] = IF k < i THEN seq[k] ELSE IF k = i THEN x ELSE seq[k - 1]
    <2>1. CASE k <= i
      BY <1>4, <1>5, <1>6, <2>1
    <2>2. CASE k > i
      <3>1. (front \o after)[k] = after[k - i] /\ k - i \in 1 .. Len(seq) - i + 1 /\ i + (k - i) - 1 = k - 1
        BY <1>4, <1>5, <1>6, <2>2
      <3> QED
        BY <1>2, <2>2, <3>1
    <2> QED
      BY <1>6, <2>1, <2>2
  <1> QED
    <2> DEFINE new == front \o after
    <2>1. new \in Seq(S) /\ Len(new) = Len(seq) + 1
      BY <1>5, <1>6
    <2>2. ASSUME NEW k \in 1 .. i - 1 PROVE new[k] = seq[k]
      BY <1>6, <1>7
    <2>3. new[i] = x
      BY <1>6, <1>7
    <2>4. ASSUME NEW k \in i + 1 .. Len(seq) + 1 PROVE new[k] = seq[k - 1]
      <3>1. k \in 1 .. Len(seq) + 1 /\ ~(k < i) /\ k # i
        BY <1>6
      <3> HIDE DEF new
      <3>2. new[k] = IF k < i THEN seq[k] ELSE IF k = i THEN x ELSE seq[k - 1]
        BY <1>7, <3>1 DEF new
      <3> QED
        BY <3>1, <3>2
    <2>5. new = Inserted(seq, i, x)
      BY DEF front, before, after, Inserted
    <2> HIDE DEF new
    <2> QED
      BY <2>1, <2>2, <2>3, <2>4, <2>5

\* The elements behind the inserted one moved by one.
LEMMA InsertedAfter ==
    ASSUME NEW S, NEW seq \in Seq(S), NEW x \in S, NEW i \in 1 .. Len(seq), NEW k \in i + 1 .. Len(seq) + 1
    PROVE  Inserted(seq, i, x)[k] = seq[k - 1]
  BY InsertedElements

\* The elements of a sequence without its i-th.
LEMMA RemovedElements ==
    ASSUME NEW S, NEW seq \in Seq(S), NEW i \in 1 .. Len(seq)
    PROVE  LET new == Removed(seq, i) IN
           /\ new \in Seq(S) /\ Len(new) = Len(seq) - 1
           /\ \A k \in 1 .. Len(seq) - 1 : new[k] = IF k < i THEN seq[k] ELSE seq[k + 1]
  <1> DEFINE before == SubSeq(seq, 1, i - 1)
             after == SubSeq(seq, i + 1, Len(seq))
  <1>1. /\ before \in Seq(S) /\ Len(before) = i - 1
        /\ \A k \in 1 .. i - 1 : before[k] = seq[k]
    BY SubSeqProperties
  <1>2. /\ after \in Seq(S) /\ Len(after) = Len(seq) - i
        /\ \A k \in 1 .. Len(seq) - i : after[k] = seq[i + k]
    BY SubSeqProperties
  <1> HIDE DEF before, after
  <1>4. /\ before \o after \in Seq(S) /\ Len(before \o after) = Len(before) + Len(after)
        /\ \A k \in 1 .. Len(before) + Len(after) :
              (before \o after)[k] = IF k <= Len(before) THEN before[k] ELSE after[k - Len(before)]
    BY <1>1, <1>2, ConcatProperties
  <1>5. Len(seq) \in Nat /\ Len(before) + Len(after) = Len(seq) - 1
    BY <1>1, <1>2
  <1>6. ASSUME NEW k \in 1 .. Len(seq) - 1
        PROVE  (before \o after)[k] = IF k < i THEN seq[k] ELSE seq[k + 1]
    <2>1. CASE k < i
      BY <1>1, <1>4, <1>5, <2>1
    <2>2. CASE k >= i
      <3> DEFINE j == k - (i - 1)
      <3>1. (before \o after)[k] = after[j] /\ j \in 1 .. Len(seq) - i /\ i + j = k + 1
        BY <1>1, <1>4, <1>5, <2>2
      <3> HIDE DEF j
      <3>2. after[j] = seq[k + 1]
        BY <1>2, <3>1
      <3> QED
        BY <2>2, <3>1, <3>2
    <2> QED
      BY <1>5, <2>1, <2>2
  <1> QED
    BY <1>4, <1>5, <1>6 DEF before, after, Removed

\* A button keeps an ordered table ordered.
LEMMA ButtonStep ==
    ASSUME Typed, Ordered, Buttons
    PROVE  Ordered'
  <1> USE RowsAssumption
  <1>0. /\ Len(rows) \in Nat /\ DOMAIN rows = 1 .. Len(rows)
        /\ \A i \in DOMAIN rows : rows[i] \in Cells \X Cells
    BY DEF Typed
  <1>a. \A i \in DOMAIN rows : rows[i][1] \in 0 .. 110 /\ rows[i][2] \in 0 .. 100
    BY DEF Ordered, Temperature, Percent
  <1>b. \A i \in DOMAIN rows : i > 1 => rows[i - 1][1] < rows[i][1]
    BY DEF Ordered
  <1>1. ASSUME NEW i \in DOMAIN rows, InsertBefore(i) PROVE Ordered'
    <2> DEFINE row == <<Midpoint(i), Clamped(rows[i][2])>>
    <2>0. i \in 1 .. Len(rows) /\ rows[i][1] \in 0 .. 110 /\ rows[i][2] \in 0 .. 100
      BY <1>0, <1>a
    <2>1. /\ Midpoint(i) \in 0 .. 110 /\ Midpoint(i) < rows[i][1]
          /\ i > 1 => rows[i - 1][1] < Midpoint(i)
      <3>1. CASE i = 1
        <4>1. Midpoint(i) = rows[i][1] \div 2 /\ rows[i][1] \in 1 .. 110
          BY <1>1, <2>0, <3>1 DEF InsertBefore, Insertable, Midpoint
        <4> QED
          BY <3>1, <4>1, Half
      <3>2. CASE i > 1
        <4>1. i - 1 \in DOMAIN rows
          BY <1>0, <3>2
        <4>2. rows[i - 1][1] \in 0 .. 110
          BY <1>a, <4>1
        <4> DEFINE previous == rows[i - 1][1]
                   current == rows[i][1]
                   middle == Midpoint(i)
        <4>3. middle = (previous + current) \div 2 /\ i # 1
          BY <3>2 DEF Midpoint
        <4>4. middle > previous /\ middle < current
          BY <1>1, <3>2 DEF InsertBefore, Insertable
        <4>5. previous \in 0 .. 110 /\ current \in 0 .. 110
          BY <2>0, <4>2
        <4> HIDE DEF previous, current, middle
        <4>6. middle \in 0 .. 110 /\ middle < current /\ previous < middle
          <5>1. middle \in Int
            BY <4>3, <4>5
          <5> QED
            BY <4>4, <4>5, <5>1
        <4> QED
          BY <4>6 DEF previous, current, middle
      <3> QED
        BY <2>0, <3>1, <3>2
    <2>2. Clamped(rows[i][2]) \in 0 .. 100
      BY <2>0 DEF Clamped, Number
    <2>3. row \in Cells \X Cells
      BY <2>1, <2>2 DEF Cells
    <2>a. row[1] = Midpoint(i) /\ row[2] = Clamped(rows[i][2])
      OBVIOUS
    <2>b. rows' = Inserted(rows, i, row)
      BY <1>1 DEF InsertBefore, Inserted
    <2> HIDE DEF row
    <2>c. /\ rows' \in Seq(Cells \X Cells) /\ Len(rows') = Len(rows) + 1
          /\ \A k \in 1 .. Len(rows) + 1 :
                rows'[k] = IF k < i THEN rows[k] ELSE IF k = i THEN row ELSE rows[k - 1]
      <3> DEFINE S == Cells \X Cells
      <3>1. rows \in Seq(S) /\ row \in S
        BY <2>3 DEF Typed
      <3> HIDE DEF S
      <3>2. /\ rows' \in Seq(S) /\ Len(rows') = Len(rows) + 1
            /\ \A k \in 1 .. Len(rows) + 1 :
                  rows'[k] = IF k < i THEN rows[k] ELSE IF k = i THEN row ELSE rows[k - 1]
        <4>1. rows \in Seq(S)
          BY <3>1
        <4>2. row \in S
          BY <3>1
        <4>3. i \in 1 .. Len(rows)
          BY <2>0
        <4>4. /\ Inserted(rows, i, row) \in Seq(S) /\ Len(Inserted(rows, i, row)) = Len(rows) + 1
              /\ \A k \in 1 .. i - 1 : Inserted(rows, i, row)[k] = rows[k]
              /\ Inserted(rows, i, row)[i] = row
          BY <4>1, <4>2, <4>3, InsertedElements, SMTT(30)
        <4>7. ASSUME NEW k \in i + 1 .. Len(rows) + 1 PROVE Inserted(rows, i, row)[k] = rows[k - 1]
          BY <4>1, <4>2, <4>3, InsertedAfter
        <4>8. \A k \in 1 .. Len(rows) + 1 : k \in 1 .. i - 1 \/ k = i \/ k \in i + 1 .. Len(rows) + 1
          BY <1>0, <4>3
        <4>9. ASSUME NEW k \in 1 .. Len(rows) + 1
              PROVE  rows'[k] = IF k < i THEN rows[k] ELSE IF k = i THEN row ELSE rows[k - 1]
          BY <1>0, <2>b, <4>3, <4>4, <4>7, <4>8
        <4> QED
          BY <2>b, <4>4, <4>9
      <3> QED
        BY <3>2 DEF S
    <2>4. DOMAIN rows' = 1 .. Len(rows) + 1
      BY <2>c
    <2>5. ASSUME NEW k \in DOMAIN rows' PROVE rows'[k][1] \in Temperature /\ rows'[k][2] \in Percent
      <3>1. CASE k = i
        BY <2>1, <2>2, <2>a, <2>c, <2>4, <3>1 DEF Temperature, Percent
      <3>2. CASE k < i
        BY <1>0, <1>a, <2>0, <2>c, <2>4, <3>2 DEF Temperature, Percent
      <3>3. CASE k > i
        <4>1. k - 1 \in DOMAIN rows /\ rows'[k] = rows[k - 1]
          BY <1>0, <2>0, <2>c, <2>4, <3>3
        <4> QED
          BY <1>a, <4>1 DEF Temperature, Percent
      <3> QED
        BY <2>0, <2>4, <1>0, <3>1, <3>2, <3>3
    <2>6. ASSUME NEW k \in DOMAIN rows', k > 1 PROVE rows'[k - 1][1] < rows'[k][1]
      <3>0. k \in 1 .. Len(rows) + 1 /\ k - 1 \in 1 .. Len(rows) + 1
        BY <1>0, <2>4, <2>6
      <3>1. CASE k < i
        <4>1. rows'[k - 1] = rows[k - 1] /\ rows'[k] = rows[k] /\ k \in DOMAIN rows
          BY <1>0, <2>0, <2>c, <3>0, <3>1
        <4> QED
          BY <1>b, <2>6, <4>1
      <3>2. CASE k = i
        <4>1. rows'[k - 1] = rows[i - 1] /\ rows'[k] = row
          BY <1>0, <2>0, <2>c, <3>0, <3>2
        <4> QED
          BY <2>1, <2>6, <2>a, <3>2, <4>1
      <3>3. CASE k = i + 1
        <4>1. rows'[k - 1] = row /\ rows'[k] = rows[i]
          <5>1. k - 1 = i /\ ~(k < i) /\ k # i /\ ~(k - 1 < i)
            BY <2>0, <3>3
          <5> QED
            BY <2>c, <3>0, <5>1
        <4> QED
          BY <2>1, <2>a, <4>1
      <3>4. CASE k > i + 1
        <4>1. /\ ~(k < i) /\ k # i /\ ~(k - 1 < i) /\ k - 1 # i
              /\ k - 1 \in DOMAIN rows /\ k - 1 > 1
          BY <1>0, <2>0, <3>0, <3>4
        <4>2. rows'[k - 1] = rows[(k - 1) - 1] /\ rows'[k] = rows[k - 1]
          BY <2>c, <3>0, <4>1
        <4> QED
          BY <1>b, <4>1, <4>2
      <3> QED
        BY <1>0, <2>0, <3>0, <3>1, <3>2, <3>3, <3>4
    <2>7. rows' # <<>>
      BY <1>0, <2>c
    <2> QED
      BY <2>5, <2>6, <2>7 DEF Ordered
  <1>2. ASSUME NEW i \in DOMAIN rows, Remove(i) PROVE Ordered'
    <2>0. /\ i \in 1 .. Len(rows) /\ Len(rows) > 1
          /\ rows' = Removed(rows, i)
      BY <1>0, <1>2 DEF Remove, Removed
    <2>1. /\ rows' \in Seq(Cells \X Cells) /\ Len(rows') = Len(rows) - 1
          /\ \A k \in 1 .. Len(rows) - 1 : rows'[k] = IF k < i THEN rows[k] ELSE rows[k + 1]
      <3> DEFINE S == Cells \X Cells
      <3>1. rows \in Seq(S)
        BY DEF Typed
      <3> HIDE DEF S
      <3>2. /\ rows' \in Seq(S) /\ Len(rows') = Len(rows) - 1
            /\ \A k \in 1 .. Len(rows) - 1 : rows'[k] = IF k < i THEN rows[k] ELSE rows[k + 1]
        BY <2>0, <3>1, RemovedElements
      <3> QED
        BY <3>2 DEF S
    <2>a. DOMAIN rows' = 1 .. Len(rows) - 1
      BY <2>1
    <2>2. ASSUME NEW k \in DOMAIN rows' PROVE rows'[k][1] \in Temperature /\ rows'[k][2] \in Percent
      <3>1. k \in DOMAIN rows /\ k + 1 \in DOMAIN rows /\ k \in 1 .. Len(rows) - 1
        BY <1>0, <2>a
      <3>2. rows'[k] = rows[k] \/ rows'[k] = rows[k + 1]
        BY <2>1, <3>1
      <3>3. /\ rows[k][1] \in 0 .. 110 /\ rows[k][2] \in 0 .. 100
            /\ rows[k + 1][1] \in 0 .. 110 /\ rows[k + 1][2] \in 0 .. 100
        BY <1>a, <3>1
      <3> QED
        BY <3>2, <3>3 DEF Temperature, Percent
    <2>3. ASSUME NEW k \in DOMAIN rows', k > 1 PROVE rows'[k - 1][1] < rows'[k][1]
      <3>0. /\ k \in 1 .. Len(rows) - 1 /\ k - 1 \in 1 .. Len(rows) - 1
            /\ k - 1 \in DOMAIN rows /\ k \in DOMAIN rows /\ k + 1 \in DOMAIN rows
        BY <1>0, <2>a, <2>3
      <3>1. CASE k < i
        <4>1. rows'[k - 1] = rows[k - 1] /\ rows'[k] = rows[k]
          <5>1. k - 1 < i
            BY <2>0, <3>0, <3>1
          <5> QED
            BY <2>1, <3>0, <3>1, <5>1
        <4> QED
          BY <1>b, <2>3, <3>0, <4>1
      <3>2. CASE k > i
        <4>1. ~(k < i) /\ ~(k - 1 < i) /\ (k - 1) + 1 = k /\ (k + 1) - 1 = k /\ k + 1 > 1
          BY <2>0, <3>0, <3>2
        <4>2. rows'[k - 1] = rows[k] /\ rows'[k] = rows[k + 1]
          BY <2>1, <3>0, <4>1
        <4>3. rows[(k + 1) - 1][1] < rows[k + 1][1]
          BY <1>b, <3>0, <4>1
        <4> QED
          BY <4>1, <4>2, <4>3
      <3>3. CASE k = i
        <4>1. rows'[k - 1] = rows[k - 1] /\ rows'[k] = rows[k + 1]
          <5>1. ~(k < i) /\ k - 1 < i
            BY <2>0, <3>3
          <5> QED
            BY <2>1, <3>0, <5>1
        <4>2. rows[k - 1][1] < rows[k][1]
          BY <1>b, <2>3, <3>0
        <4>3. rows[k][1] < rows[k + 1][1]
          <5>1. (k + 1) - 1 = k /\ k + 1 > 1
            BY <3>0
          <5>2. rows[(k + 1) - 1][1] < rows[k + 1][1]
            BY <1>b, <3>0, <5>1
          <5> QED
            BY <5>1, <5>2
        <4> DEFINE low == rows[k - 1][1]
                   middle == rows[k][1]
                   high == rows[k + 1][1]
        <4>4. low \in 0 .. 110 /\ middle \in 0 .. 110 /\ high \in 0 .. 110
          BY <1>a, <3>0
        <4>5. low < middle /\ middle < high
          BY <4>2, <4>3
        <4> HIDE DEF low, middle, high
        <4>6. low < high
          BY <4>4, <4>5
        <4> QED
          BY <4>1, <4>6 DEF low, high
      <3> QED
        <4>1. i \in Int /\ k \in Int
          BY <1>0, <2>0, <3>0
        <4> QED
          BY <3>1, <3>2, <3>3, <4>1
    <2>4. rows' # <<>>
      BY <2>0, <2>1
    <2> QED
      BY <2>2, <2>3, <2>4 DEF Ordered
  <1>3. ASSUME Add, rows # <<>> PROVE Ordered'
    <2> DEFINE last == rows[Len(rows)][1]
               speed == rows[Len(rows)][2]
               row == <<last + 1, speed>>
    <2>0. Len(rows) \in DOMAIN rows /\ Len(rows) > 0
      BY <1>0, <1>3 DEF Typed
    <2>1. last \in 0 .. 110 /\ speed \in 0 .. 100
      BY <1>a, <2>0
    <2>a. Number(last) = last
      <3> HIDE DEF last
      <3>1. last # Blank
        BY <2>1
      <3> QED
        BY <3>1 DEF Number
    <2>b. Number(last) < 110 /\ rows' = Append(rows, <<Number(last) + 1, speed>>)
      BY <1>3 DEF Add
    <2> HIDE DEF last, speed
    <2>c. last + 1 \in 0 .. 110 /\ last + 1 \in Cells /\ speed \in Cells
      BY <2>1, <2>a, <2>b DEF Cells
    <2>d. /\ row \in Cells \X Cells /\ row[1] = last + 1 /\ row[2] = speed
          /\ rows' = Append(rows, row)
      BY <2>a, <2>b, <2>c
    <2> HIDE DEF row
    <2>2. /\ rows' \in Seq(Cells \X Cells) /\ Len(rows') = Len(rows) + 1
          /\ \A k \in 1 .. Len(rows) : rows'[k] = rows[k]
          /\ rows'[Len(rows) + 1] = row /\ rows' # <<>>
      BY <2>d, AppendProperties DEF Typed
    <2>3. DOMAIN rows' = 1 .. Len(rows) + 1
      BY <2>2
    <2>4. ASSUME NEW k \in DOMAIN rows' PROVE rows'[k][1] \in Temperature /\ rows'[k][2] \in Percent
      <3>1. CASE k = Len(rows) + 1
        <4>1. rows'[k][1] = last + 1 /\ rows'[k][2] = speed
          BY <2>2, <2>d, <3>1
        <4> QED
          BY <2>1, <2>c, <4>1 DEF Temperature, Percent, speed
      <3>2. CASE k # Len(rows) + 1
        <4>1. k \in DOMAIN rows /\ rows'[k] = rows[k]
          BY <1>0, <2>2, <2>3, <3>2
        <4> QED
          BY <1>a, <4>1 DEF Temperature, Percent
      <3> QED
        BY <3>1, <3>2
    <2>5. ASSUME NEW k \in DOMAIN rows', k > 1 PROVE rows'[k - 1][1] < rows'[k][1]
      <3>1. CASE k = Len(rows) + 1
        <4>1. k - 1 = Len(rows) /\ rows'[k - 1] = rows[Len(rows)] /\ rows'[k] = row
          BY <1>0, <2>0, <2>2, <3>1
        <4>2. rows'[k - 1][1] = last /\ rows'[k][1] = last + 1
          BY <2>d, <4>1 DEF last
        <4> QED
          BY <2>1, <4>2
      <3>2. CASE k # Len(rows) + 1
        <4>1. k \in DOMAIN rows /\ rows'[k] = rows[k] /\ rows'[k - 1] = rows[k - 1]
          BY <1>0, <2>2, <2>3, <2>5, <3>2
        <4> QED
          BY <1>b, <2>5, <4>1
      <3> QED
        BY <3>1, <3>2
    <2> QED
      BY <2>2, <2>4, <2>5 DEF Ordered
  <1> QED
    BY <1>1, <1>2, <1>3 DEF Buttons

\* Every table the editor can hold is typed, so the page and the server agree
\* on it all the time.
THEOREM EditorTyped == EditorSpec => []Typed
  <1>1. EditorInit => Typed
    <2>1. Temperature \X Percent \subseteq Cells \X Cells
      BY DEF Cells, Temperature, Percent
    <2> QED
      BY <2>1, SeqMonotonic DEF EditorInit, Shows, Typed
  <1>2. Typed /\ [Buttons \/ Types]_rows => Typed'
    BY TypedStep DEF Typed
  <1> QED
    BY <1>1, <1>2, PTL DEF EditorSpec

\* PageAgreesWithServer holds of every table a user can reach.
THEOREM PageAgreesAlways == EditorSpec => []PageAgreesWithServer
  BY EditorTyped, PageAgrees, PTL

\* ButtonsKeepCurveValid: only typing can spoil a table that could be sent.
THEOREM ButtonsKeepValid == EditorSpec => ButtonsKeepCurveValid
  <1>1. Typed /\ Typed' /\ [Buttons \/ Types]_rows => [Accepted => Accepted' \/ Types]_rows
    <2> SUFFICES ASSUME Typed, Typed', Buttons, Accepted PROVE Accepted'
      OBVIOUS
    <2>1. Ordered'
      BY AcceptedIsOrdered, ButtonStep
    <2>2. (Typed /\ Ordered => Accepted)'
      BY OrderedRowsPass, PTL
    <2> QED
      BY <2>1, <2>2
  <1> QED
    BY <1>1, EditorTyped, PTL DEF EditorSpec, ButtonsKeepCurveValid

-----------------------------------------------------------------------------
(* What the controller does with the tables: MCFanCurve for any inputs. *)

\* The gap of a ramp, by the steps taken.
GapIsAtMost(gap) == applied - target <= gap /\ target - applied <= gap

RampShrinks ==
    /\ applied \in Percent /\ target \in Percent /\ steps \in Nat
    /\ steps >= 1 => GapIsAtMost(50)
    /\ steps >= 2 => GapIsAtMost(25)
    /\ steps >= 3 => GapIsAtMost(12)
    /\ steps >= 4 => GapIsAtMost(6)
    /\ steps >= 5 => applied = target

CurveInv ==
    /\ curve # NoCurve => ValidCurve(curve) /\ temps \in [cpu : Temperature, gpu : Temperature]
    /\ RampShrinks /\ (rows # <<>> => applied = target)

\* A ramp step halves the gap, and closes one of less than ten.
LEMMA GapHalves ==
    ASSUME NEW a \in Percent, NEW t \in Percent, NEW gap \in Nat, a - t <= gap, t - a <= gap
    PROVE  LET next == GetGradientTarget(a, t) IN
           /\ next - t <= gap \div 2 /\ t - next <= gap \div 2
           /\ gap < 10 => next = t
  BY DEF GetGradientTarget, HalfGap, Percent

LEMMA RampStepShrinks ==
    ASSUME CurveInv, RampStep
    PROVE  RampShrinks'
  <1>1. /\ applied \in Percent /\ target \in Percent /\ steps \in Nat
        /\ steps' = steps + 1 /\ target' = target /\ applied # target
        /\ applied' = GetGradientTarget(applied, target)
    BY DEF CurveInv, RampShrinks, RampStep
  <1>2. applied' \in Percent
    BY <1>1, GradientBetween
  <1>3. ASSUME NEW gap \in Nat, GapIsAtMost(gap)
        PROVE  /\ applied' - target' <= gap \div 2 /\ target' - applied' <= gap \div 2
               /\ gap < 10 => applied' = target'
    BY <1>1, <1>3, GapHalves DEF GapIsAtMost
  <1>4. GapIsAtMost(100)
    BY <1>1 DEF GapIsAtMost, Percent
  <1>5. GapIsAtMost(50)'
    BY <1>3, <1>4 DEF GapIsAtMost
  <1>6. steps' >= 2 => GapIsAtMost(25)'
    BY <1>1, <1>3 DEF CurveInv, RampShrinks, GapIsAtMost
  <1>7. steps' >= 3 => GapIsAtMost(12)'
    BY <1>1, <1>3 DEF CurveInv, RampShrinks, GapIsAtMost
  <1>8. steps' >= 4 => GapIsAtMost(6)'
    BY <1>1, <1>3 DEF CurveInv, RampShrinks, GapIsAtMost
  <1>9. steps' >= 5 => applied' = target'
    BY <1>1, <1>3 DEF CurveInv, RampShrinks
  <1> QED
    BY <1>1, <1>2, <1>5, <1>6, <1>7, <1>8, <1>9 DEF RampShrinks

LEMMA CurveKept ==
    ASSUME CurveInv, [Next]_vars
    PROVE  CurveInv'
  <1>1. CASE RampStep
    BY <1>1, RampStepShrinks DEF CurveInv, RampStep, lookup
  <1>2. CASE Presses \/ Typing
    <2>1. UNCHANGED <<lookup, ramp>> /\ steps' = steps + 1
      BY <1>2 DEF Presses, Typing, Edits
    <2>2. rows # <<>>
      BY <1>2 DEF Presses, Typing, Buttons, Types, CurveInv
    <2>3. applied = target /\ applied \in Percent /\ steps \in Nat
      BY <2>2 DEF CurveInv, RampShrinks
    <2>4. RampShrinks'
      BY <2>1, <2>3 DEF RampShrinks, GapIsAtMost, ramp, Percent
    <2> QED
      BY <2>1, <2>3, <2>4 DEF CurveInv, lookup, ramp
  <1>3. CASE UNCHANGED vars
    BY <1>3 DEF vars, CurveInv, RampShrinks, GapIsAtMost, lookup, ramp
  <1> QED
    BY <1>1, <1>2, <1>3 DEF Next

LEMMA CurveBegins ==
    ASSUME Init
    PROVE  CurveInv
  <1>1. /\ applied \in Percent /\ target \in Percent /\ steps = 0
        /\ rows # <<>> => applied = target
    BY DEF Init, Percent
  <1>2. curve # NoCurve => curve \in Curves /\ temps \in [cpu : SomeTemperatures, gpu : SomeTemperatures]
    BY DEF Init
  <1>3. curve \in Curves => ValidCurve(curve)
    BY DEF Curves, Tables, ValidCurve
  <1> QED
    BY <1>1, <1>2, <1>3, SomeAssumption DEF CurveInv, RampShrinks

\* A target is the threshold step of both curves, and the fail-hot speed covers
\* every target, for any tables and temperatures; a ramp between any two
\* percentages is over after five steps.
THEOREM CurveFollowed == Spec => []CurveIsFollowed
  <1>1. CurveInv => CurveIsThresholdSteps
    <2> SUFFICES ASSUME CurveInv, curve # NoCurve,
                        NEW i \in 1 .. Len(curve.cpu), NEW j \in 1 .. Len(curve.gpu),
                        CommandedAt(temps.cpu, curve.cpu, i), CommandedAt(temps.gpu, curve.gpu, j)
                 PROVE  /\ CurveTarget(curve, temps) \in {curve.cpu[i][2], curve.gpu[j][2]}
                        /\ CurveTarget(curve, temps) >= curve.cpu[i][2]
                        /\ CurveTarget(curve, temps) >= curve.gpu[j][2]
      BY DEF CurveIsThresholdSteps
    <2>1. /\ ValidFanTable(curve.cpu) /\ ValidFanTable(curve.gpu)
          /\ temps.cpu \in Temperature /\ temps.gpu \in Temperature
      BY DEF CurveInv, ValidCurve
    <2>2. FindHighestMatch(temps.cpu, curve.cpu) = curve.cpu[i]
      BY <2>1, ThresholdStep DEF CommandedAt
    <2>3. FindHighestMatch(temps.gpu, curve.gpu) = curve.gpu[j]
      BY <2>1, ThresholdStep DEF CommandedAt
    <2>4. curve.cpu[i][2] \in Percent /\ curve.gpu[j][2] \in Percent
      BY <2>1, EntrySpeed
    <2>5. CurveTarget(curve, temps) = Larger(curve.cpu[i][2], curve.gpu[j][2])
      BY <2>2, <2>3 DEF CurveTarget
    <2>6. \A a, b \in Percent : Larger(a, b) \in {a, b} /\ Larger(a, b) >= a /\ Larger(a, b) >= b
      BY DEF Larger, Percent
    <2> QED
      BY <2>4, <2>5, <2>6
  <1>2. CurveInv => FailHotCoversEveryTarget
    <2> SUFFICES ASSUME CurveInv, curve # NoCurve
                 PROVE  FailHotCoversEveryTarget
      BY DEF FailHotCoversEveryTarget
    <2>1. ValidCurve(curve)
      BY DEF CurveInv
    <2>2. /\ HighestFanTarget(curve) \in Speeds(curve)
          /\ \A s \in Speeds(curve) : s <= HighestFanTarget(curve)
      BY <2>1, HighestSpeed
    <2>3. \/ \E i \in 1 .. Len(curve.cpu) : HighestFanTarget(curve) = curve.cpu[i][2]
          \/ \E i \in 1 .. Len(curve.gpu) : HighestFanTarget(curve) = curve.gpu[i][2]
      <3>1. 1 \in 1 .. Len(curve.cpu) /\ curve.cpu[1][2] \in Percent
        BY <2>1, EntrySpeed DEF ValidCurve, ValidFanTable
      <3>2. curve.cpu[1][2] \in Speeds(curve)
        BY <3>1 DEF Speeds
      <3>3. HighestFanTarget(curve) = 0 => HighestFanTarget(curve) = curve.cpu[1][2]
        <4>1. curve.cpu[1][2] <= HighestFanTarget(curve)
          BY <2>2, <3>2
        <4>2. \A s \in Percent : s <= 0 => s = 0
          BY DEF Percent
        <4> QED
          BY <3>1, <4>1, <4>2
      <3> QED
        BY <2>2, <3>1, <3>3 DEF Speeds
    <2>4. ASSUME NEW c \in SomeTemperatures, NEW g \in SomeTemperatures
          PROVE  CurveTarget(curve, [cpu |-> c, gpu |-> g]) <= HighestFanTarget(curve)
      <3>1. [cpu |-> c, gpu |-> g] \in [cpu : Temperature, gpu : Temperature]
        BY SomeAssumption
      <3> QED
        BY <2>1, <3>1, TargetBelowHighest
    <2> QED
      BY <2>3, <2>4 DEF FailHotCoversEveryTarget
  <1>3. CurveInv => RampIsShort
    BY DEF CurveInv, RampShrinks, RampIsShort
  <1> QED
    BY <1>1, <1>2, <1>3, CurveBegins, CurveKept, PTL DEF Spec, CurveIsFollowed
=============================================================================
