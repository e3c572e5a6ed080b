------------------------- MODULE TetrisBoardProofs -------------------------
(***************************************************************************)
(* Proofs about one player's board, for every size of the board, every bag *)
(* and every sequence of ticks, actions and attacks.                       *)
(***************************************************************************)
EXTENDS TetrisBoard, NatFacts, SequenceTheorems

-----------------------------------------------------------------------------
(* Clearing lines: what the scan of clear_lines computes *)

Grid == Columns \X Rows

LEMMA BoardSize ==
  /\ BOARD_WIDTH \in Nat /\ BOARD_WIDTH >= 4
  /\ BOARD_HEIGHT \in Nat /\ BOARD_HEIGHT >= 1
  BY BoardAssumption

LEMMA GridCells ==
  ASSUME NEW cells, cells \subseteq Grid, NEW c \in cells
  PROVE  c = <<c[1], c[2]>> /\ c[1] \in Columns /\ c[2] \in Rows /\ c[2] \in Int
  BY BoardSize DEF Grid, Rows

FullRows(cells, lo, hi) == {r \in lo..hi : Full(cells, r)}

\* The result of the scan from a state s of it, in closed form: what is below
\* row s.y stays, and a row above comes down by the full rows up to s.y below it
Fall(s, c) == <<c[1], c[2] + Cardinality(FullRows(s.cells, c[2] + 1, s.y))>>
Above(s) == {c \in s.cells : c[2] <= s.y /\ ~Full(s.cells, c[2])}
Swept(s) ==
  [cells |-> {c \in s.cells : c[2] > s.y} \cup {Fall(s, c) : c \in Above(s)},
   y |-> -1,
   cleared |-> s.cleared + Cardinality(FullRows(s.cells, 0, s.y))]

LEMMA FullRowsFinite ==
  ASSUME NEW cells, NEW lo \in Int, NEW hi \in Int
  PROVE  /\ IsFiniteSet(FullRows(cells, lo, hi))
         /\ Cardinality(FullRows(cells, lo, hi)) \in Nat
         /\ lo <= hi + 1 => Cardinality(FullRows(cells, lo, hi)) <= hi - lo + 1
<1>1. FullRows(cells, lo, hi) \subseteq lo..hi
  BY DEF FullRows
<1> QED
  BY <1>1, IntervalSubset

\* Row r of the board after row y was dropped
LEMMA DroppedRows ==
  ASSUME NEW cells, cells \subseteq Grid, NEW y \in Rows
  PROVE  /\ Dropped(cells, y) \subseteq Grid
         /\ \A x \in Columns, r \in Rows :
              <<x, r>> \in Dropped(cells, y)
                <=> IF r > y THEN <<x, r>> \in cells ELSE r >= 1 /\ <<x, r - 1>> \in cells
         /\ \A r \in Rows :
              Full(Dropped(cells, y), r)
                <=> IF r > y THEN Full(cells, r) ELSE r >= 1 /\ Full(cells, r - 1)
<1>1. \A c \in cells : /\ c = <<c[1], c[2]>>
                       /\ c[1] \in Columns /\ c[2] \in Rows /\ c[2] \in Int
  BY GridCells
<1>2. y \in Int /\ y < BOARD_HEIGHT /\ \A r : r \in Rows <=> r \in Int /\ 0 <= r /\ r < BOARD_HEIGHT
  BY BoardSize DEF Rows
<1>3. Dropped(cells, y) \subseteq Grid
  <2>1. ASSUME NEW c \in cells, c[2] < y PROVE <<c[1], c[2] + 1>> \in Columns \X Rows
    <3>1. c[1] \in Columns /\ c[2] + 1 \in Rows
      BY <1>1, <1>2, <2>1, BoardSize
    <3> QED
      BY <3>1
  <2> QED
    BY <2>1 DEF Dropped, Grid
<1>4. \A x \in Columns, r \in Rows :
        <<x, r>> \in Dropped(cells, y)
          <=> IF r > y THEN <<x, r>> \in cells ELSE r >= 1 /\ <<x, r - 1>> \in cells
  <2> SUFFICES ASSUME NEW x \in Columns, NEW r \in Rows
               PROVE  <<x, r>> \in Dropped(cells, y)
                        <=> IF r > y THEN <<x, r>> \in cells
                            ELSE r >= 1 /\ <<x, r - 1>> \in cells
    OBVIOUS
  <2>1. <<x, r>> \in Dropped(cells, y)
          <=> \/ <<x, r>> \in cells /\ r > y
              \/ \E c \in cells : c[2] < y /\ c[1] = x /\ c[2] + 1 = r
    BY DEF Dropped
  <2>2. (\E c \in cells : c[2] < y /\ c[1] = x /\ c[2] + 1 = r)
          <=> r <= y /\ r >= 1 /\ <<x, r - 1>> \in cells
    <3>1. ASSUME NEW c \in cells, c[2] < y, c[1] = x, c[2] + 1 = r
          PROVE  r <= y /\ r >= 1 /\ <<x, r - 1>> \in cells
      <4>1. c = <<x, r - 1>> /\ r \in Int /\ r >= 1 /\ r <= y
        BY <1>1, <1>2, <3>1
      <4> QED
        BY <4>1
    <3>2. ASSUME r <= y, r >= 1, <<x, r - 1>> \in cells
          PROVE  \E c \in cells : c[2] < y /\ c[1] = x /\ c[2] + 1 = r
      <4>1. /\ <<x, r - 1>>[1] = x /\ <<x, r - 1>>[2] = r - 1
            /\ r - 1 < y /\ (r - 1) + 1 = r
        BY <1>2, <3>2
      <4> QED
        BY <3>2, <4>1
    <3> QED
      BY <3>1, <3>2
  <2>3. r > y \/ r <= y
    BY <1>2
  <2>4. r > y => ~(r <= y)
    BY <1>2
  <2> QED
    BY <2>1, <2>2, <2>3, <2>4
<1>5. \A r \in Rows :
        Full(Dropped(cells, y), r)
          <=> IF r > y THEN Full(cells, r) ELSE r >= 1 /\ Full(cells, r - 1)
  <2>1. 0 \in Columns
    BY BoardSize DEF Columns
  <2> QED
    BY <1>4, <2>1 DEF Full
<1> QED
  BY <1>3, <1>4, <1>5

\* Dropping a full row leaves one full row less, in the rows up to it
LEMMA DroppedCount ==
  ASSUME NEW cells, cells \subseteq Grid, NEW y \in Rows, Full(cells, y),
         NEW lo \in 0..y
  PROVE  /\ Cardinality(FullRows(Dropped(cells, y), lo + 1, y))
              = Cardinality(FullRows(cells, lo, y)) - 1
         /\ FullRows(Dropped(cells, y), 0, y) = FullRows(Dropped(cells, y), 1, y)
<1> DEFINE before == FullRows(cells, lo, y - 1)
           after == FullRows(Dropped(cells, y), lo + 1, y)
<1>1. /\ y \in Int /\ lo \in Int /\ 0 <= lo /\ lo <= y
      /\ \A r : r \in Rows <=> r \in Int /\ 0 <= r /\ r < BOARD_HEIGHT
      /\ BOARD_HEIGHT \in Int
  BY BoardSize DEF Rows
<1>2. \A r \in 0..y : Full(Dropped(cells, y), r) <=> r >= 1 /\ Full(cells, r - 1)
  BY <1>1, DroppedRows
<1>3. IsFiniteSet(before) /\ Cardinality(before) \in Nat
  BY <1>1, FullRowsFinite
<1>4. \A r \in Int : r \in after <=> r - 1 \in before
  BY <1>1, <1>2 DEF FullRows
<1>5. Cardinality(after) = Cardinality(before)
  <2>1. before \subseteq Int /\ after \subseteq Int
    BY <1>1 DEF FullRows
  <2>2. 1 \in Int
    OBVIOUS
  <2> HIDE DEF before, after
  <2> QED
    BY <1>3, <1>4, <2>1, <2>2, ShiftCardinality, Zenon
<1>6. FullRows(cells, lo, y) = before \cup {y} /\ y \notin before
  BY <1>1 DEF FullRows
<1>7. Cardinality(FullRows(cells, lo, y)) = Cardinality(before) + 1
  BY <1>3, <1>6, FS_AddElement
<1>8. FullRows(Dropped(cells, y), 0, y) = FullRows(Dropped(cells, y), 1, y)
  BY <1>1, <1>2 DEF FullRows
<1> QED
  BY <1>3, <1>5, <1>7, <1>8

LEMMA ScanFields ==
  ASSUME NEW s \in Scan
  PROVE  /\ s.cells \subseteq Grid /\ s.y \in Int /\ -1 <= s.y /\ s.y < BOARD_HEIGHT
         /\ s.y >= 0 => s.y \in Rows
         /\ s.cleared \in Nat
         /\ s = [cells |-> s.cells, y |-> s.y, cleared |-> s.cleared]
  BY BoardSize DEF Scan, Grid, Rows

\* A turn of the scan stays among its states and makes one full row or one row
\* less to look at
Work(s) == s.y + 1 + Cardinality(FullRows(s.cells, 0, s.y))

LEMMA NextRowFields ==
  ASSUME NEW s \in Scan, s.y >= 0
  PROVE  /\ Full(s.cells, s.y) =>
              NextRow(s) = [cells |-> Dropped(s.cells, s.y), y |-> s.y, cleared |-> s.cleared + 1]
         /\ ~Full(s.cells, s.y) =>
              NextRow(s) = [cells |-> s.cells, y |-> s.y - 1, cleared |-> s.cleared]
         /\ NextRow(s) \in Scan
<1>1. /\ s.cells \subseteq Grid /\ s.y \in Rows /\ s.y \in Int /\ s.cleared \in Nat
      /\ s = [cells |-> s.cells, y |-> s.y, cleared |-> s.cleared]
      /\ s.y - 1 \in -1..(BOARD_HEIGHT - 1) /\ s.y \in -1..(BOARD_HEIGHT - 1)
  BY ScanFields, BoardSize
<1>2. Full(s.cells, s.y) =>
        NextRow(s) = [cells |-> Dropped(s.cells, s.y), y |-> s.y, cleared |-> s.cleared + 1]
  BY <1>1 DEF NextRow
<1>3. ~Full(s.cells, s.y) =>
        NextRow(s) = [cells |-> s.cells, y |-> s.y - 1, cleared |-> s.cleared]
  BY <1>1 DEF NextRow
<1>4. Dropped(s.cells, s.y) \subseteq Grid
  BY <1>1, DroppedRows
<1> QED
  BY <1>1, <1>2, <1>3, <1>4 DEF Scan, Grid

LEMMA WorkDecreases ==
  ASSUME NEW s \in Scan
  PROVE  /\ Work(s) \in Nat
         /\ s.y >= 0 => Work(NextRow(s)) < Work(s)
<1>1. /\ s.cells \subseteq Grid /\ s.y \in Int /\ -1 <= s.y /\ (s.y >= 0 => s.y \in Rows)
  BY ScanFields
<1>2. Cardinality(FullRows(s.cells, 0, s.y)) \in Nat
  BY <1>1, FullRowsFinite
<1>3. CASE s.y >= 0 /\ Full(s.cells, s.y)
  <2>1. /\ Cardinality(FullRows(Dropped(s.cells, s.y), 0 + 1, s.y))
             = Cardinality(FullRows(s.cells, 0, s.y)) - 1
        /\ FullRows(Dropped(s.cells, s.y), 0, s.y) = FullRows(Dropped(s.cells, s.y), 1, s.y)
    <3>1. 0 \in 0..s.y
      BY <1>1, <1>3
    <3> QED
      BY <1>1, <1>3, <3>1, DroppedCount
  <2>2. NextRow(s) = [cells |-> Dropped(s.cells, s.y), y |-> s.y, cleared |-> s.cleared + 1]
    BY <1>3, NextRowFields
  <2>3. Work(NextRow(s)) = s.y + 1 + Cardinality(FullRows(Dropped(s.cells, s.y), 0, s.y))
    BY <2>2 DEF Work
  <2> QED
    BY <1>1, <1>2, <2>1, <2>3 DEF Work
<1>4. CASE s.y >= 0 /\ ~Full(s.cells, s.y)
  <2>1. NextRow(s) = [cells |-> s.cells, y |-> s.y - 1, cleared |-> s.cleared]
    BY <1>4, NextRowFields
  <2>2. FullRows(s.cells, 0, s.y - 1) = FullRows(s.cells, 0, s.y)
    BY <1>1, <1>4 DEF FullRows
  <2>3. Work(NextRow(s)) = (s.y - 1) + 1 + Cardinality(FullRows(s.cells, 0, s.y))
    BY <2>1, <2>2 DEF Work
  <2> QED
    BY <1>1, <1>2, <2>3 DEF Work
<1> QED
  BY <1>1, <1>2, <1>3, <1>4 DEF Work

\* The closed form satisfies the equation of the scan
LEMMA SweptEquation ==
  ASSUME NEW s \in Scan
  PROVE  Swept(s) = IF s.y < 0 THEN s ELSE Swept(NextRow(s))
<1>1. /\ s.cells \subseteq Grid /\ s.y \in Int /\ -1 <= s.y /\ (s.y >= 0 => s.y \in Rows)
      /\ s.cleared \in Nat
      /\ s = [cells |-> s.cells, y |-> s.y, cleared |-> s.cleared]
  BY ScanFields
<1>2. \A c \in s.cells : /\ c = <<c[1], c[2]>>
                         /\ c[1] \in Columns /\ c[2] \in Rows /\ c[2] \in Int /\ 0 <= c[2]
  BY <1>1, GridCells DEF Rows
<1>3. CASE s.y < 0
  <2>1. s.y = -1 /\ FullRows(s.cells, 0, s.y) = {}
    BY <1>1, <1>3 DEF FullRows
  <2>2. {c \in s.cells : c[2] > s.y} = s.cells /\ Above(s) = {}
    BY <1>2, <2>1 DEF Above
  <2>3. Swept(s) = [cells |-> s.cells, y |-> -1, cleared |-> s.cleared + 0]
    BY <2>1, <2>2, FS_EmptySet DEF Swept
  <2> QED
    BY <1>1, <1>3, <2>1, <2>3
<1>4. CASE s.y >= 0 /\ ~Full(s.cells, s.y)
  <2> DEFINE t == [cells |-> s.cells, y |-> s.y - 1, cleared |-> s.cleared]
  <2>1. NextRow(s) = t
    BY <1>4, NextRowFields
  <2>2. FullRows(s.cells, 0, s.y - 1) = FullRows(s.cells, 0, s.y)
    BY <1>1, <1>4 DEF FullRows
  <2>3. \A c \in s.cells : c[2] < s.y => Fall(t, c) = Fall(s, c)
    <3> SUFFICES ASSUME NEW c \in s.cells, c[2] < s.y PROVE Fall(t, c) = Fall(s, c)
      OBVIOUS
    <3>1. FullRows(s.cells, c[2] + 1, s.y - 1) = FullRows(s.cells, c[2] + 1, s.y)
      BY <1>1, <1>2, <1>4 DEF FullRows
    <3> QED
      BY <3>1 DEF Fall
  <2>4. \A c \in s.cells : c[2] = s.y => Fall(s, c) = c
    <3> SUFFICES ASSUME NEW c \in s.cells, c[2] = s.y PROVE Fall(s, c) = c
      OBVIOUS
    <3>1. FullRows(s.cells, c[2] + 1, s.y) = {}
      BY <1>1 DEF FullRows
    <3>2. c[2] + 0 = c[2] /\ c = <<c[1], c[2]>>
      BY <1>2
    <3> QED
      BY <3>1, <3>2, FS_EmptySet DEF Fall
  <2>5. /\ Above(t) = {c \in s.cells : c[2] < s.y /\ ~Full(s.cells, c[2])}
        /\ Above(s) = Above(t) \cup {c \in s.cells : c[2] = s.y}
        /\ {c \in t.cells : c[2] > t.y} = {c \in s.cells : c[2] > s.y}
                                            \cup {c \in s.cells : c[2] = s.y}
    BY <1>1, <1>2, <1>4 DEF Above
  <2>6. {Fall(s, c) : c \in Above(s)}
          = {Fall(t, c) : c \in Above(t)} \cup {c \in s.cells : c[2] = s.y}
    BY <2>3, <2>4, <2>5
  <2>7. Swept(t).cells = Swept(s).cells
    BY <2>5, <2>6 DEF Swept
  <2> QED
    BY <1>1, <1>4, <2>1, <2>2, <2>7 DEF Swept
<1>5. CASE s.y >= 0 /\ Full(s.cells, s.y)
  <2> DEFINE D == Dropped(s.cells, s.y)
             t == [cells |-> D, y |-> s.y, cleared |-> s.cleared + 1]
  <2>1. NextRow(s) = t
    BY <1>5, NextRowFields
  <2>2. s.y \in Rows /\ D \subseteq Grid
    BY <1>1, <1>5, DroppedRows
  <2>3. \A lo \in 0..s.y : Cardinality(FullRows(D, lo + 1, s.y))
                             = Cardinality(FullRows(s.cells, lo, s.y)) - 1
    BY <1>1, <1>5, DroppedCount
  <2>4. t.cleared + Cardinality(FullRows(t.cells, 0, t.y))
          = s.cleared + Cardinality(FullRows(s.cells, 0, s.y))
    <3>1. 0 \in 0..s.y
      BY <1>1, <1>5
    <3>2. FullRows(D, 0, s.y) = FullRows(D, 0 + 1, s.y)
      BY <1>1, <1>5, <3>1, DroppedCount
    <3>3. Cardinality(FullRows(s.cells, 0, s.y)) \in Nat
      BY <1>1, FullRowsFinite
    <3> QED
      BY <1>1, <2>3, <3>1, <3>2, <3>3
  <2>5. {c \in D : c[2] > s.y} = {c \in s.cells : c[2] > s.y}
    <3>1. \A x \in Columns, r \in Rows :
            r > s.y => (<<x, r>> \in D <=> <<x, r>> \in s.cells)
      BY <1>1, <2>2, DroppedRows
    <3>2. \A c \in D : c = <<c[1], c[2]>> /\ c[1] \in Columns /\ c[2] \in Rows
      BY <2>2, GridCells
    <3> HIDE DEF D
    <3> QED
      BY <1>2, <3>1, <3>2
  <2>6. \A c \in Above(s) : /\ <<c[1], c[2] + 1>> \in Above(t)
                            /\ Fall(t, <<c[1], c[2] + 1>>) = Fall(s, c)
    <3> SUFFICES ASSUME NEW c \in Above(s)
                 PROVE  /\ <<c[1], c[2] + 1>> \in Above(t)
                        /\ Fall(t, <<c[1], c[2] + 1>>) = Fall(s, c)
      OBVIOUS
    <3>1. c \in s.cells /\ c[2] <= s.y /\ ~Full(s.cells, c[2])
      BY DEF Above
    <3>2. c[2] < s.y
      BY <1>1, <1>2, <1>5, <3>1
    <3>3. /\ c[2] + 1 \in Rows /\ c[2] + 1 \in Int /\ c[2] + 1 <= s.y /\ (c[2] + 1) - 1 = c[2]
          /\ c[2] + 1 \in 0..s.y
      BY <1>1, <1>2, <2>2, <3>1, <3>2, BoardSize DEF Rows
    <3>4. <<c[1], c[2] + 1>> \in D
      BY <3>1, <3>2 DEF Dropped
    <3>5. ~Full(D, c[2] + 1)
      <4>1. ~(c[2] + 1 > s.y)
        BY <1>1, <3>3
      <4>2. Full(D, c[2] + 1) => Full(s.cells, (c[2] + 1) - 1)
        BY <1>1, <2>2, <3>3, <4>1, DroppedRows
      <4> QED
        BY <3>1, <3>3, <4>2
    <3>6. <<c[1], c[2] + 1>> \in Above(t)
      BY <3>3, <3>4, <3>5 DEF Above
    <3>7. Cardinality(FullRows(D, (c[2] + 1) + 1, s.y))
            = Cardinality(FullRows(s.cells, c[2] + 1, s.y)) - 1
      BY <2>3, <3>3
    <3>8. Cardinality(FullRows(s.cells, c[2] + 1, s.y)) \in Nat
      BY <1>1, <3>3, FullRowsFinite
    <3>9. (c[2] + 1) + Cardinality(FullRows(D, (c[2] + 1) + 1, s.y))
            = c[2] + Cardinality(FullRows(s.cells, c[2] + 1, s.y))
      <4> HIDE DEF D
      <4> QED
        BY <1>2, <3>1, <3>7, <3>8
    <3> QED
      BY <3>6, <3>9 DEF Fall
  <2>7. \A e \in Above(t) : \E c \in Above(s) : e = <<c[1], c[2] + 1>>
    <3> SUFFICES ASSUME NEW e \in Above(t)
                 PROVE  \E c \in Above(s) : e = <<c[1], c[2] + 1>>
      OBVIOUS
    <3>1. e \in D /\ e[2] <= s.y /\ ~Full(D, e[2])
      BY DEF Above
    <3>2. e = <<e[1], e[2]>> /\ e[1] \in Columns /\ e[2] \in Rows /\ e[2] \in Int
      BY <2>2, <3>1, GridCells
    <3>3. ~(e[2] > s.y)
      BY <1>1, <3>1, <3>2
    <3>4. e[2] >= 1 /\ <<e[1], e[2] - 1>> \in s.cells /\ ~Full(s.cells, e[2] - 1)
      BY <1>1, <2>2, <3>1, <3>2, <3>3, DroppedRows
    <3> DEFINE c == <<e[1], e[2] - 1>>
    <3>5. c[1] = e[1] /\ c[2] = e[2] - 1 /\ c[2] <= s.y /\ c[2] + 1 = e[2]
      BY <1>1, <3>1, <3>2
    <3>6. c \in Above(s)
      BY <3>4, <3>5 DEF Above
    <3> QED
      BY <3>2, <3>5, <3>6
  <2>8. {Fall(t, c) : c \in Above(t)} = {Fall(s, c) : c \in Above(s)}
    <3> HIDE DEF t
    <3>1. \A e \in Above(t) : \E c \in Above(s) : Fall(t, e) = Fall(s, c)
      BY <2>6, <2>7
    <3>2. \A c \in Above(s) : \E e \in Above(t) : Fall(t, e) = Fall(s, c)
      BY <2>6
    <3> QED
      BY <3>1, <3>2
  <2>9. Swept(t).cells = Swept(s).cells
    BY <2>5, <2>8 DEF Swept
  <2>10. Swept(t) = Swept(s)
    BY <2>4, <2>9 DEF Swept
  <2>11. ~(s.y < 0)
    BY <1>1, <1>5
  <2> QED
    BY <2>1, <2>10, <2>11
<1> QED
  BY <1>1, <1>3, <1>4, <1>5

\* The scan is well defined, and the closed form is what it computes: by
\* induction on the work that is left
LEMMA ScannedIsSwept == \A s \in Scan : scanned[s] = Swept(s)
<1> DEFINE F == [s \in Scan |-> Swept(s)]
<1>1. F = [s \in Scan |-> IF s.y < 0 THEN s ELSE F[NextRow(s)]]
  <2> SUFFICES ASSUME NEW s \in Scan
               PROVE  Swept(s) = IF s.y < 0 THEN s ELSE F[NextRow(s)]
    OBVIOUS
  <2>1. s.y \in Int
    BY ScanFields
  <2>2. ~(s.y < 0) => NextRow(s) \in Scan
    BY <2>1, NextRowFields
  <2>3. ~(s.y < 0) => F[NextRow(s)] = Swept(NextRow(s))
    BY <2>2
  <2> QED
    BY <2>3, SweptEquation
<1> HIDE DEF F
<1>2. scanned = [s \in Scan |-> IF s.y < 0 THEN s ELSE scanned[NextRow(s)]]
  BY <1>1 DEF scanned
<1>3. SUFFICES ASSUME NEW s0 \in Scan, scanned[s0] # Swept(s0) PROVE FALSE
  OBVIOUS
<1> DEFINE Wrong == {s \in Scan : scanned[s] # Swept(s)}
<1>4. PICK n \in {Work(s) : s \in Wrong} : \A m \in {Work(s) : s \in Wrong} : n <= m
  <2>1. {Work(s) : s \in Wrong} \subseteq Nat
    BY WorkDecreases
  <2>2. {Work(s) : s \in Wrong} # {}
    BY <1>3
  <2> QED
    BY <2>1, <2>2, LeastExists
<1>5. PICK s \in Wrong : Work(s) = n
  BY <1>4
<1>6. s \in Scan /\ s.y \in Int /\ Work(s) \in Nat
  BY ScanFields, WorkDecreases
<1>7. scanned[s] = IF s.y < 0 THEN s ELSE scanned[NextRow(s)]
  BY <1>2, <1>6
<1>8. ~(s.y < 0)
  BY <1>6, <1>7, SweptEquation
<1>9. /\ NextRow(s) \in Scan /\ Work(NextRow(s)) < Work(s) /\ Work(NextRow(s)) \in Nat
  <2>1. s.y >= 0
    BY <1>6, <1>8
  <2> QED
    BY <1>6, <2>1, NextRowFields, WorkDecreases
<1>10. NextRow(s) \notin Wrong
  BY <1>4, <1>5, <1>6, <1>9
<1>11. scanned[s] = Swept(s)
  BY <1>6, <1>7, <1>8, <1>9, <1>10, SweptEquation
<1> QED
  BY <1>11

\* clear_lines removes exactly the full rows and lets the others come down
LEMMA ClearLines ==
  ASSUME NEW cells, cells \subseteq Grid
  PROVE  /\ clear_lines(cells).cells = ClearedReference(cells)
         /\ clear_lines(cells).cleared = Cardinality({y \in Rows : Full(cells, y)})
<1> DEFINE s == [cells |-> cells, y |-> BOARD_HEIGHT - 1, cleared |-> 0]
<1>1. s \in Scan
  BY BoardSize DEF Scan, Grid
<1>2. clear_lines(cells) = Swept(s)
  BY <1>1, ScannedIsSwept DEF clear_lines
<1>3. \A c \in cells : /\ c = <<c[1], c[2]>> /\ c[1] \in Columns
                       /\ c[2] \in Int /\ 0 <= c[2] /\ c[2] <= BOARD_HEIGHT - 1
  BY GridCells, BoardSize DEF Rows
<1>4. FullRows(cells, 0, BOARD_HEIGHT - 1) = {y \in Rows : Full(cells, y)}
  BY DEF FullRows, Rows
<1>5. Cardinality(FullRows(cells, 0, BOARD_HEIGHT - 1)) \in Nat
  BY FullRowsFinite, BoardSize
<1>6. clear_lines(cells).cleared = Cardinality({y \in Rows : Full(cells, y)})
  <2>1. Swept(s).cleared = 0 + Cardinality(FullRows(cells, 0, BOARD_HEIGHT - 1))
    BY DEF Swept
  <2>2. clear_lines(cells).cleared = Cardinality(FullRows(cells, 0, BOARD_HEIGHT - 1))
    BY <1>2, <1>5, <2>1
  <2> QED
    BY <1>4, <2>2
<1>7. \A c \in cells : FullRows(cells, c[2] + 1, BOARD_HEIGHT - 1)
                         = {y \in Rows : y > c[2] /\ Full(cells, y)}
  BY <1>3, BoardSize DEF FullRows, Rows
<1>8. Above(s) = {d \in cells : ~Full(cells, d[2])} /\ {c \in s.cells : c[2] > s.y} = {}
  BY <1>3, BoardSize DEF Above
<1>9. \A c \in cells :
        Fall(s, c) = <<c[1], c[2] + Cardinality({y \in Rows : y > c[2] /\ Full(cells, y)})>>
  BY <1>7 DEF Fall
<1>10. {Fall(s, c) : c \in Above(s)} = ClearedReference(cells)
  <2> HIDE DEF s
  <2> QED
    BY <1>8, <1>9 DEF ClearedReference
<1>11. Swept(s).cells = ClearedReference(cells)
  BY <1>8, <1>10 DEF Swept
<1> QED
  BY <1>2, <1>6, <1>11

-----------------------------------------------------------------------------
(* No full row is ever left on the board *)

NoFullRow(cells) == \A y \in Rows : ~Full(cells, y)

\* What a piece adds can only complete the four rows of its grid
LEMMA LockRows ==
  ASSUME NEW g, g.cells \subseteq Grid, NoFullRow(g.cells), g.y \in Int,
         g.type \in 1..7, g.rot \in 0..3
  PROVE  /\ lock_piece(g) \subseteq Grid
         /\ Cardinality({y \in Rows : Full(lock_piece(g), y)}) \in 0..4
<1> DEFINE full == {y \in Rows : Full(lock_piece(g), y)}
<1>1. lock_piece(g) \subseteq Grid
  BY DEF lock_piece, Grid
<1>2. full \subseteq g.y..(g.y + 3)
  <2> SUFFICES ASSUME NEW r \in Rows, Full(lock_piece(g), r) PROVE r \in g.y..(g.y + 3)
    OBVIOUS
  <2>1. PICK x \in Columns : <<x, r>> \notin g.cells
    BY DEF NoFullRow, Full
  <2>2. <<x, r>> \in Cover(g.type, g.rot, g.x, g.y)
    BY <2>1 DEF Full, lock_piece
  <2>3. PICK p \in Shape[g.type][g.rot] : <<x, r>> = <<g.x + p[1], g.y + p[2]>>
    BY <2>2 DEF Cover
  <2>4. p[2] \in 0..3
    BY DEF Shape
  <2>5. r = g.y + p[2]
    BY <2>3
  <2> QED
    BY <2>4, <2>5
<1> HIDE DEF full
<1>3. Cardinality(full) \in Nat /\ Cardinality(full) <= (g.y + 3) - g.y + 1
  <2>1. g.y + 3 \in Int /\ g.y <= g.y + 3 + 1
    OBVIOUS
  <2> QED
    BY <1>2, <2>1, IntervalSubset
<1>4. Cardinality(full) \in 0..4
  BY <1>3
<1> QED
  BY <1>1, <1>4 DEF full

\* Rows that stay come to rest inside the board, in distinct rows
LEMMA FallApart ==
  ASSUME NEW cells, NEW d1 \in Rows, NEW d2 \in Rows, d1 < d2, ~Full(cells, d2)
  PROVE  d1 + Cardinality({y \in Rows : y > d1 /\ Full(cells, y)})
           < d2 + Cardinality({y \in Rows : y > d2 /\ Full(cells, y)})
<1> DEFINE low == {y \in Rows : y > d2 /\ Full(cells, y)}
           mid == FullRows(cells, d1 + 1, d2 - 1)
           all == {y \in Rows : y > d1 /\ Full(cells, y)}
<1>1. d1 \in Int /\ d2 \in Int /\ 0 <= d1 /\ d2 < BOARD_HEIGHT
  BY BoardSize DEF Rows
<1>2. IsFiniteSet(mid) /\ Cardinality(mid) \in Nat /\ Cardinality(mid) <= d2 - 1 - d1
  <2>1. d1 + 1 \in Int /\ d2 - 1 \in Int /\ d1 + 1 <= (d2 - 1) + 1
        /\ (d2 - 1) - (d1 + 1) + 1 = d2 - 1 - d1
    BY <1>1
  <2> QED
    BY <2>1, FullRowsFinite
<1>3. IsFiniteSet(low) /\ Cardinality(low) \in Nat
  <2>1. low \subseteq 0..(BOARD_HEIGHT - 1)
    BY DEF Rows
  <2> QED
    BY <2>1, IntervalSubset, BoardSize
<1>4. all = mid \cup low /\ mid \cap low = {}
  BY <1>1, BoardSize DEF FullRows, Rows
<1> HIDE DEF low, mid, all
<1>5. Cardinality(all) = Cardinality(mid) + Cardinality(low)
  <2>1. Cardinality(mid \cup low) = Cardinality(mid) + Cardinality(low) - Cardinality(mid \cap low)
    BY <1>2, <1>3, FS_Union
  <2> QED
    BY <1>2, <1>3, <1>4, <2>1, FS_EmptySet
<1> QED
  BY <1>1, <1>2, <1>3, <1>5 DEF all, low

LEMMA ClearedRows ==
  ASSUME NEW cells, cells \subseteq Grid
  PROVE  ClearedReference(cells) \subseteq Grid /\ NoFullRow(ClearedReference(cells))
<1> DEFINE k(d) == Cardinality({y \in Rows : y > d /\ Full(cells, y)})
<1>1. \A c \in cells : c = <<c[1], c[2]>> /\ c[1] \in Columns /\ c[2] \in Rows /\ c[2] \in Int
  BY GridCells
<1>2. \A d \in Rows : k(d) \in Nat /\ d + k(d) \in Rows
  <2> SUFFICES ASSUME NEW d \in Rows PROVE k(d) \in Nat /\ d + k(d) \in Rows
    OBVIOUS
  <2>1. d \in Int /\ 0 <= d /\ d <= BOARD_HEIGHT - 1 /\ BOARD_HEIGHT \in Int
    BY BoardSize DEF Rows
  <2>2. {y \in Rows : y > d /\ Full(cells, y)} \subseteq (d + 1)..(BOARD_HEIGHT - 1)
    BY <2>1 DEF Rows
  <2>3. d + 1 \in Int /\ BOARD_HEIGHT - 1 \in Int /\ d + 1 <= (BOARD_HEIGHT - 1) + 1
    BY <2>1
  <2>4. k(d) \in Nat /\ k(d) <= (BOARD_HEIGHT - 1) - (d + 1) + 1
    BY <2>2, <2>3, IntervalSubset
  <2> HIDE DEF k
  <2> QED
    BY <2>1, <2>4 DEF Rows
<1>3. \A d1, d2 \in Rows : ~Full(cells, d1) /\ ~Full(cells, d2) /\ d1 + k(d1) = d2 + k(d2) => d1 = d2
  <2>1. \A d1, d2 \in Rows : ~Full(cells, d2) /\ d1 < d2 => d1 + k(d1) < d2 + k(d2)
    BY FallApart
  <2>2. \A d \in Rows : d \in Int
    BY BoardSize DEF Rows
  <2> HIDE DEF k
  <2> QED
    BY <1>2, <2>1, <2>2
<1>4. \A e \in ClearedReference(cells) :
        \E c \in cells : ~Full(cells, c[2]) /\ e = <<c[1], c[2] + k(c[2])>>
  BY DEF ClearedReference
<1> HIDE DEF k
<1>5. ClearedReference(cells) \subseteq Grid
  BY <1>1, <1>2, <1>4 DEF Grid
<1>6. ASSUME NEW r \in Rows, Full(ClearedReference(cells), r) PROVE FALSE
  <2>1. 0 \in Columns
    BY BoardSize DEF Columns
  <2>2. \A x \in Columns : \E d \in Rows : <<x, d>> \in cells /\ ~Full(cells, d) /\ r = d + k(d)
    <3> SUFFICES ASSUME NEW x \in Columns
                 PROVE  \E d \in Rows : <<x, d>> \in cells /\ ~Full(cells, d) /\ r = d + k(d)
      OBVIOUS
    <3>1. <<x, r>> \in ClearedReference(cells)
      BY <1>6 DEF Full
    <3>2. PICK c \in cells : ~Full(cells, c[2]) /\ <<x, r>> = <<c[1], c[2] + k(c[2])>>
      BY <1>4, <3>1
    <3>3. c[1] = x /\ r = c[2] + k(c[2])
      BY <3>2
    <3> QED
      BY <1>1, <3>2, <3>3
  <2>3. PICK d \in Rows : ~Full(cells, d) /\ r = d + k(d)
    BY <2>1, <2>2
  <2>4. \A x \in Columns : <<x, d>> \in cells
    BY <1>3, <2>2, <2>3
  <2> QED
    BY <2>3, <2>4 DEF Full
<1> QED
  BY <1>5, <1>6 DEF NoFullRow

\* Every garbage row has a gap, and what it pushes up was no full row before
LEMMA LandedRows ==
  ASSUME NEW cells, cells \subseteq Grid, NoFullRow(cells), NEW n \in 0..BOARD_HEIGHT,
         NEW holes \in [(BOARD_HEIGHT - n)..(BOARD_HEIGHT - 1) -> Gaps]
  PROVE  Landed(cells, holes) \subseteq Grid /\ NoFullRow(Landed(cells, holes))
<1> DEFINE rows == (BOARD_HEIGHT - n)..(BOARD_HEIGHT - 1)
           up == {<<c[1], c[2] - n>> : c \in {d \in cells : d[2] >= n}}
           new == {c \in Columns \X rows : c[1] # holes[c[2]]}
<1>1. \A c \in cells : c = <<c[1], c[2]>> /\ c[1] \in Columns /\ c[2] \in Rows /\ c[2] \in Int
  BY GridCells
<1>2. n \in Nat /\ n <= BOARD_HEIGHT /\ BOARD_HEIGHT \in Nat
  BY BoardSize
<1>3. Cardinality(rows) = n
  <2>1. BOARD_HEIGHT - n \in Int /\ BOARD_HEIGHT - 1 \in Int
    BY <1>2
  <2>2. Cardinality(rows) = IF BOARD_HEIGHT - n > BOARD_HEIGHT - 1 THEN 0
                            ELSE (BOARD_HEIGHT - 1) - (BOARD_HEIGHT - n) + 1
    BY <2>1, FS_Interval
  <2> HIDE DEF rows
  <2> QED
    BY <1>2, <2>2
<1>4. Landed(cells, holes) = up \cup new
  <2>1. DOMAIN holes = rows
    OBVIOUS
  <2> QED
    BY <1>3, <2>1 DEF Landed
<1>5. up \subseteq Grid
  <2> SUFFICES ASSUME NEW c \in cells, c[2] >= n PROVE <<c[1], c[2] - n>> \in Grid
    OBVIOUS
  <2>1. c[1] \in Columns /\ c[2] - n \in Rows
    BY <1>1, <1>2 DEF Rows
  <2> QED
    BY <2>1 DEF Grid
<1>6. new \subseteq Grid
  <2>1. rows \subseteq Rows
    BY <1>2 DEF Rows
  <2> QED
    BY <2>1 DEF Grid
<1>7. \A x, r : <<x, r>> \in up => \E c \in cells : c = <<x, c[2]>> /\ c[2] >= n /\ r = c[2] - n
  <2> SUFFICES ASSUME NEW x, NEW r, <<x, r>> \in up
               PROVE  \E c \in cells : c = <<x, c[2]>> /\ c[2] >= n /\ r = c[2] - n
    OBVIOUS
  <2>1. PICK c \in cells : c[2] >= n /\ <<x, r>> = <<c[1], c[2] - n>>
    OBVIOUS
  <2>2. c[1] = x /\ r = c[2] - n
    BY <2>1
  <2> QED
    BY <1>1, <2>1, <2>2
<1>8. ASSUME NEW r \in Rows, Full(Landed(cells, holes), r) PROVE FALSE
  <2>1. r \in Int /\ 0 <= r /\ r < BOARD_HEIGHT
    BY <1>2 DEF Rows
  <2>2. CASE r \in rows
    <3>1. holes[r] \in Columns
      BY <2>2, BoardAssumption DEF Columns
    <3>2. <<holes[r], r>> \in up
      <4>1. <<holes[r], r>> \in up \cup new
        BY <1>4, <1>8, <3>1 DEF Full
      <4> QED
        BY <4>1
    <3>3. PICK c \in cells : c[2] >= n /\ r = c[2] - n
      BY <1>7, <3>2
    <3>4. c[2] \in Rows
      BY <1>1
    <3> QED
      BY <1>2, <2>1, <2>2, <3>3, <3>4 DEF Rows
  <2>3. CASE r \notin rows
    <3>1. r + n \in Rows
      BY <1>2, <2>1, <2>3 DEF Rows
    <3>2. ASSUME NEW x \in Columns PROVE <<x, r + n>> \in cells
      <4>1. <<x, r>> \in up \cup new
        BY <1>4, <1>8 DEF Full
      <4>2. <<x, r>> \in up
        BY <2>3, <4>1
      <4>3. PICK c \in cells : c = <<x, c[2]>> /\ c[2] >= n /\ r = c[2] - n
        BY <1>7, <4>2
      <4>4. c[2] = r + n
        BY <1>1, <1>2, <4>3
      <4> QED
        BY <4>3, <4>4
    <3> QED
      BY <3>1, <3>2 DEF NoFullRow, Full
  <2> QED
    BY <2>2, <2>3
<1> QED
  BY <1>4, <1>5, <1>6, <1>8 DEF NoFullRow

-----------------------------------------------------------------------------
(* Games: every field in its range.  The ranges have names so that a step of *)
(* a proof about records need not look into them.                            *)

CellSets == SUBSET Grid
PieceTypes == Kinds \cup {0}
Rotations == 0..3
Coordinates == Int
GravityTicks == 0..(GravityStart - 1)
LockTicks == 0..(LockStart - 1)
BagPairs == [1..(2 * BagSize) -> Kinds]
BagIndices == 0..(BagSize - 1)
Counts == Nat
PendingLines == 0..BOARD_HEIGHT
Combos == {n \in Int : n >= -1}
Levels == Nat \ {0}
Flags == BOOLEAN

\* Before the first piece is drawn the type is 0
Games ==
  [cells : CellSets, type : PieceTypes, rot : Rotations, x : Coordinates, y : Coordinates,
   gravity_timer : GravityTicks, lock_timer : LockTicks, held_type : PieceTypes,
   has_held : Flags, bag : BagPairs, bag_index : BagIndices, pieces_placed : Counts,
   last_action_rotation : Flags, pending_garbage : PendingLines, outgoing_garbage : Counts,
   lines_cleared : Counts, combo : Combos, b2b : Flags, level : Levels, game_over : Flags]

LEMMA GameRanges ==
  ASSUME NEW g \in Games
  PROVE  /\ g.cells \in CellSets /\ g.type \in PieceTypes /\ g.rot \in Rotations
         /\ g.x \in Coordinates /\ g.y \in Coordinates /\ g.gravity_timer \in GravityTicks
         /\ g.lock_timer \in LockTicks /\ g.held_type \in PieceTypes /\ g.has_held \in Flags
         /\ g.bag \in BagPairs /\ g.bag_index \in BagIndices /\ g.pieces_placed \in Counts
         /\ g.last_action_rotation \in Flags /\ g.pending_garbage \in PendingLines
         /\ g.outgoing_garbage \in Counts /\ g.lines_cleared \in Counts /\ g.combo \in Combos
         /\ g.b2b \in Flags /\ g.level \in Levels /\ g.game_over \in Flags
  BY DEF Games

LEMMA GameFields ==
  ASSUME NEW g \in Games
  PROVE  /\ g.cells \subseteq Grid /\ g.rot \in 0..3 /\ g.x \in Int /\ g.y \in Int
         /\ g.game_over \in BOOLEAN /\ g.has_held \in BOOLEAN
  BY GameRanges DEF CellSets, Rotations, Coordinates, Flags

LEMMA BagSizePositive == BagSize \in Nat /\ BagSize >= 1
<1>1. 1 \in Int /\ 7 \in Int /\ Kinds \subseteq 1..7
  BY BoardAssumption
<1>2. IsFiniteSet(Kinds) /\ Kinds # {}
  BY <1>1, BoardAssumption, IntervalSubset
<1>3. Cardinality(Kinds) \in Nat /\ Cardinality(Kinds) # 0
  BY <1>2, FS_CardinalityType, FS_EmptySet
<1> QED
  BY <1>3 DEF BagSize

\* A game that differs only in what is_valid_pos does not read has the same room
LEMMA FitsSame ==
  ASSUME NEW g, NEW h, h.cells = g.cells, h.type = g.type, h.rot = g.rot, h.x = g.x, h.y = g.y,
         NEW dx, NEW dy
  PROVE  Fits(h, dx, dy) <=> Fits(g, dx, dy)
  BY DEF Fits, is_valid_pos

\* Each of the 28 shapes has a cell, and its cells are within the 4x4 grid
LEMMA ShapeCells ==
  ASSUME NEW type \in 1..7, NEW rot \in 0..3
  PROVE  /\ \E p \in Shape[type][rot] : TRUE
         /\ \A p \in Shape[type][rot] : p[1] \in 0..3 /\ p[2] \in 0..3
<1> DEFINE cell == IF type = 1 THEN 5 ELSE 10
           p == CASE rot = 0 -> <<cell % 4, cell \div 4>>
                  [] rot = 1 -> <<(12 - (cell \div 4) * 4) \div 4, cell % 4>>
                  [] rot = 2 -> <<(15 - cell) % 4, (15 - cell) \div 4>>
                  [] OTHER   -> <<cell \div 4, 3 - (cell % 4)>>
<1>1. cell \in TETROMINOES[type]
  <2>1. type = 1 \/ type = 2 \/ type = 3 \/ type = 4 \/ type = 5 \/ type = 6 \/ type = 7
    OBVIOUS
  <2> QED
    BY <2>1 DEF TETROMINOES
<1>2. p \in (0..3) \X (0..3) /\ get_rotation_index(p[1], p[2], rot) = cell
  <2>1. rot = 0 \/ rot = 1 \/ rot = 2 \/ rot = 3
    OBVIOUS
  <2> QED
    BY <2>1 DEF get_rotation_index
<1> HIDE DEF p, cell
<1>3. p \in Shape[type][rot]
  BY <1>1, <1>2 DEF Shape
<1>4. \A q \in Shape[type][rot] : q[1] \in 0..3 /\ q[2] \in 0..3
  BY DEF Shape
<1> QED
  BY <1>3, <1>4

\* A piece comes in with its two middle rows filled
LEMMA SpawnShape ==
  ASSUME NEW type \in 1..7
  PROVE  \A p \in Shape[type][0] : p[1] \in 0..3 /\ p[2] \in 1..2
<1>1. TETROMINOES[type] \subseteq 4..11
  <2>1. type = 1 \/ type = 2 \/ type = 3 \/ type = 4 \/ type = 5 \/ type = 6 \/ type = 7
    OBVIOUS
  <2> QED
    BY <2>1 DEF TETROMINOES
<1> SUFFICES ASSUME NEW p \in Shape[type][0] PROVE p[1] \in 0..3 /\ p[2] \in 1..2
  OBVIOUS
<1>2. p[1] \in 0..3 /\ p[2] \in 0..3 /\ get_rotation_index(p[1], p[2], 0) \in TETROMINOES[type]
  BY DEF Shape
<1>3. p[1] + p[2] * 4 \in 4..11
  BY <1>1, <1>2 DEF get_rotation_index
<1> QED
  BY <1>2, <1>3

\* A piece that has room has its origin above the lower edge
LEMMA FitsAboveFloor ==
  ASSUME NEW g \in Games, g.type \in 1..7, NEW n \in Int, Fits(g, 0, n)
  PROVE  g.y + n < BOARD_HEIGHT
<1>1. g.rot \in 0..3 /\ g.y \in Int
  BY GameFields
<1>2. PICK p \in Shape[g.type][g.rot] : p[2] \in 0..3
  BY <1>1, ShapeCells
<1>3. <<(g.x + 0) + p[1], (g.y + n) + p[2]>> \in Cover(g.type, g.rot, g.x + 0, g.y + n)
  BY DEF Cover
<1>4. (g.y + n) + p[2] < BOARD_HEIGHT
  BY <1>3 DEF Fits, is_valid_pos
<1> QED
  BY <1>1, <1>2, <1>4, BoardSize

\* What the inductive invariant says of a game that has drawn a piece
Sound(g) == g \in Games /\ g.type \in Kinds /\ NoFullRow(g.cells)

Shown(g) == SubSeq(g.bag, g.bag_index + 1, 2 * BagSize)

Draws(g, h) == h.type = Head(Shown(g)) /\ IsPrefix(Tail(Shown(g)), Shown(h))

LEMMA SoundType ==
  ASSUME NEW g, Sound(g)
  PROVE  g \in Games /\ g.type \in 1..7 /\ g.type \in Kinds /\ NoFullRow(g.cells)
  BY BoardAssumption DEF Sound

\* A bag pair is a sequence; what is shown of it begins with the next piece
LEMMA BagPair ==
  ASSUME NEW bag \in BagPairs, NEW i \in BagIndices
  PROVE  /\ bag \in Seq(Kinds) /\ Len(bag) = 2 * BagSize
         /\ i \in Nat /\ i < BagSize /\ bag[i + 1] \in Kinds
         /\ Head(SubSeq(bag, i + 1, 2 * BagSize)) = bag[i + 1]
         /\ Tail(SubSeq(bag, i + 1, 2 * BagSize)) = SubSeq(bag, i + 2, 2 * BagSize)
<1>1. BagSize \in Nat /\ BagSize >= 1 /\ 2 * BagSize \in Nat
  BY BagSizePositive
<1>2. bag \in Seq(Kinds) /\ Len(bag) = 2 * BagSize
  <2>1. bag \in [1..(2 * BagSize) -> Kinds]
    BY DEF BagPairs
  <2>2. bag \in Seq(Kinds)
    BY <1>1, <2>1, SeqDef
  <2>3. DOMAIN bag = 1..Len(bag) /\ Len(bag) \in Nat
    BY <2>2, LenProperties
  <2> QED
    BY <1>1, <2>1, <2>2, <2>3
<1>3. i \in Nat /\ i < BagSize
  BY <1>1 DEF BagIndices
<1>4. bag[i + 1] \in Kinds
  BY <1>1, <1>3 DEF BagPairs
<1>5. /\ Head(SubSeq(bag, i + 1, 2 * BagSize)) = bag[i + 1]
      /\ Tail(SubSeq(bag, i + 1, 2 * BagSize)) = SubSeq(bag, i + 2, 2 * BagSize)
  <2>1. /\ i + 1 \in 1..Len(bag) /\ 2 * BagSize \in (i + 1)..Len(bag)
        /\ (i + 1) + 1 = i + 2
    BY <1>1, <1>2, <1>3
  <2>2. /\ Head(SubSeq(bag, i + 1, 2 * BagSize)) = bag[i + 1]
        /\ Tail(SubSeq(bag, i + 1, 2 * BagSize)) = SubSeq(bag, (i + 1) + 1, 2 * BagSize)
    BY <1>2, <2>1, HeadTailOfSubSeq, Zenon
  <2> QED
    BY <2>1, <2>2
<1> QED
  BY <1>2, <1>3, <1>4, <1>5

LEMMA SpawnRange ==
  0 \in Rotations /\ (BOARD_WIDTH \div 2) - 2 \in Coordinates /\ -2 \in Coordinates
  /\ FALSE \in Flags /\ TRUE \in Flags
  BY BoardSize DEF Rotations, Coordinates, Flags

\* Drawing: the next piece of the bag, in its place above the board; a bag that
\* is used up is replaced without changing what was shown
LEMMA SpawnGame ==
  ASSUME NEW g \in Games, NEW h \in spawn_new_piece(g)
  PROVE  /\ h \in Games /\ h.type \in Kinds /\ h.cells = g.cells
         /\ h.rot = 0 /\ h.x = (BOARD_WIDTH \div 2) - 2 /\ h.y = -2 /\ ~h.has_held
         /\ Draws(g, h)
<1> DEFINE i == g.bag_index
           t == g.bag[i + 1]
           X == (BOARD_WIDTH \div 2) - 2
<1>1. g.bag \in BagPairs /\ i \in BagIndices
  BY GameRanges
<1>2. /\ g.bag \in Seq(Kinds) /\ Len(g.bag) = 2 * BagSize /\ i \in Nat /\ i < BagSize
      /\ t \in Kinds /\ Head(Shown(g)) = t
      /\ Tail(Shown(g)) = SubSeq(g.bag, i + 2, 2 * BagSize)
  BY <1>1, BagPair DEF Shown
<1>3. BagSize \in Nat /\ BagSize >= 1
  BY BagSizePositive
<1>4. t \in PieceTypes
  BY <1>2 DEF PieceTypes
<1> DEFINE drawn == [g EXCEPT !.type = g.bag[g.bag_index + 1], !.bag_index = @ + 1,
                              !.has_held = FALSE]
<1>5. drawn.bag_index = i + 1 /\ drawn.bag = g.bag
  BY DEF Games
<1>6. CASE drawn.bag_index < BagSize
  <2>1. h = Spawned(drawn)
    BY <1>6 DEF spawn_new_piece
  <2>2. h = [g EXCEPT !.type = t, !.bag_index = i + 1, !.has_held = FALSE,
                      !.rot = 0, !.x = X, !.y = -2]
    BY <2>1 DEF Games, Spawned
  <2>3. i + 1 \in BagIndices
    BY <1>2, <1>3, <1>5, <1>6 DEF BagIndices
  <2> HIDE DEF t, i, X
  <2>4. h \in Games
    BY <1>4, <2>2, <2>3, SpawnRange DEF Games, X
  <2>5. /\ h.type = t /\ h.cells = g.cells /\ h.bag = g.bag /\ h.bag_index = i + 1
        /\ h.rot = 0 /\ h.x = X /\ h.y = -2 /\ h.has_held = FALSE
    BY <2>2 DEF Games
  <2>6. Shown(h) = Tail(Shown(g))
    <3>1. (i + 1) + 1 = i + 2
      BY <1>2
    <3> QED
      BY <1>2, <2>5, <3>1 DEF Shown
  <2>7. Tail(Shown(g)) \in Seq(Kinds)
    <3>1. i + 2 \in Int /\ 2 * BagSize \in Int
          /\ \A k \in (i + 2)..(2 * BagSize) : k \in 1..Len(g.bag)
      BY <1>2, <1>3
    <3>2. \A k \in (i + 2)..(2 * BagSize) : g.bag[k] \in Kinds
      BY <1>2, <3>1, ElementOfSeq
    <3> HIDE DEF drawn
    <3>3. SubSeq(g.bag, i + 2, 2 * BagSize) \in Seq(Kinds)
      BY <3>1, <3>2, SubSeqProperties, Zenon
    <3> QED
      BY <1>2, <3>3
  <2>8. IsPrefix(Tail(Shown(g)), Shown(h))
    <3>1. Len(Tail(Shown(g))) \in Nat
      BY <2>7, LenProperties
    <3> QED
      BY <2>6, <3>1 DEF IsPrefix
  <2> QED
    BY <1>2, <2>4, <2>5, <2>8 DEF Draws, X
<1>7. CASE ~(drawn.bag_index < BagSize)
  <2>1. PICK new \in Shuffles : h = Spawned(refill_bag(drawn, new))
    BY <1>7 DEF spawn_new_piece
  <2>2. i + 1 = BagSize
    BY <1>2, <1>3, <1>5, <1>7
  <2> DEFINE rest == SubSeq(g.bag, BagSize + 1, 2 * BagSize)
             bag == rest \o new
  <2>3. h = [g EXCEPT !.type = t, !.bag_index = 0, !.has_held = FALSE, !.bag = bag,
                      !.rot = 0, !.x = X, !.y = -2]
    BY <2>1, <1>5 DEF Games, Spawned, refill_bag
  <2>4. rest \in Seq(Kinds) /\ Len(rest) = BagSize
    <3>1. BagSize + 1 \in 1..(2 * BagSize + 1) /\ 2 * BagSize \in Nat
          /\ 2 * BagSize \in BagSize..(2 * BagSize)
      BY <1>3
    <3> QED
      BY <1>2, <1>3, <3>1, SubSeqProperties
  <2>5. new \in Seq(Kinds) /\ Len(new) = BagSize
    <3>1. new \in [1..BagSize -> Kinds]
      BY DEF Shuffles
    <3>2. new \in Seq(Kinds)
      BY <1>3, <3>1, SeqDef
    <3>3. DOMAIN new = 1..Len(new) /\ Len(new) \in Nat
      BY <3>2, LenProperties
    <3> QED
      BY <1>3, <3>1, <3>2, <3>3
  <2>6. bag \in Seq(Kinds) /\ Len(bag) = 2 * BagSize
    <3> HIDE DEF rest
    <3>1. bag \in Seq(Kinds) /\ Len(bag) = Len(rest) + Len(new)
      BY <2>4, <2>5, ConcatProperties
    <3> QED
      BY <1>3, <2>4, <2>5, <3>1
  <2>7. bag \in BagPairs /\ 0 \in BagIndices
    <3>1. DOMAIN bag = 1..Len(bag)
      BY <2>6, LenProperties
    <3>2. bag \in [1..Len(bag) -> Kinds]
      BY <2>6, ElementOfSeq, LenProperties
    <3>3. 0 \in BagIndices
      BY <1>3 DEF BagIndices
    <3> QED
      BY <2>6, <3>2, <3>3 DEF BagPairs
  <2> HIDE DEF bag, t, i, X
  <2>8. h \in Games
    BY <1>4, <2>3, <2>7, SpawnRange DEF Games, X
  <2>9. /\ h.type = t /\ h.cells = g.cells /\ h.bag = bag /\ h.bag_index = 0
        /\ h.rot = 0 /\ h.x = X /\ h.y = -2 /\ h.has_held = FALSE
    BY <2>3 DEF Games
  <2>10. Shown(h) = bag
    <3>1. Shown(h) = SubSeq(bag, 1, Len(bag))
      <4>1. 0 + 1 = 1
        OBVIOUS
      <4> QED
        BY <2>6, <2>9, <4>1 DEF Shown
    <3> QED
      BY <2>6, <3>1, SubSeqFull
  <2>11. Tail(Shown(g)) = rest
    <3>1. i + 2 = BagSize + 1
      BY <1>2, <2>2
    <3> QED
      BY <1>2, <3>1
  <2>12. IsPrefix(rest, bag)
    <3>1. Len(rest) <= Len(bag)
      BY <1>3, <2>4, <2>6
    <3>2. SubSeq(rest, 1, Len(rest)) = rest
      BY <2>4, SubSeqFull
    <3>3. SubSeq(bag, 1, Len(rest)) = rest
      <4> HIDE DEF rest
      <4>1. \A k \in 1..Len(rest) : bag[k] = rest[k]
        BY <2>4, <2>5, ConcatProperties DEF bag
      <4>2. Len(rest) \in Nat /\ 1 \in 1..(Len(bag) + 1) /\ Len(rest) \in 0..Len(bag)
        BY <1>3, <2>4, <2>6, <3>1
      <4> DEFINE pre == SubSeq(bag, 1, Len(rest))
      <4>3. pre \in Seq(Kinds) /\ Len(pre) = Len(rest)
            /\ \A k \in 1..Len(rest) : pre[k] = bag[k]
        BY <2>4, <2>6, <4>2, SubSeqProperties
      <4> HIDE DEF pre
      <4> QED
        BY <2>4, <4>1, <4>3, SeqEqual DEF pre
    <3> QED
      BY <3>1, <3>2, <3>3 DEF IsPrefix
  <2> QED
    BY <1>2, <2>8, <2>9, <2>10, <2>11, <2>12 DEF Draws, X
<1> QED
  BY <1>6, <1>7

LEMMA MinOfTwo ==
  ASSUME NEW a \in Int, NEW b \in Int
  PROVE  Min({a, b}) \in {a, b} /\ Min({a, b}) <= a /\ Min({a, b}) <= b
<1>1. \E x \in {a, b} : \A y \in {a, b} : x <= y
  OBVIOUS
<1> QED
  BY <1>1 DEF Min

LEMMA MaxOfTwo ==
  ASSUME NEW a \in Int, NEW b \in Int
  PROVE  Max({a, b}) \in {a, b} /\ Max({a, b}) >= a /\ Max({a, b}) >= b
<1>1. \E x \in {a, b} : \A y \in {a, b} : x >= y
  OBVIOUS
<1> QED
  BY <1>1 DEF Max

LEMMA ComboBonusNat == \A combo \in Int : ComboBonus(combo) \in Nat
<1> SUFFICES ASSUME NEW combo \in Int PROVE ComboBonus(combo) \in Nat
  OBVIOUS
<1>1. CASE combo <= 0 \/ ~(combo < 12)
  BY <1>1 DEF ComboBonus
<1>2. CASE combo > 0 /\ combo < 12
  <2>1. \/ combo = 1 \/ combo = 2 \/ combo = 3 \/ combo = 4 \/ combo = 5 \/ combo = 6
        \/ combo = 7 \/ combo = 8 \/ combo = 9 \/ combo = 10 \/ combo = 11
    BY <1>2
  <2>2. COMBO_TABLE[combo + 1] \in Nat
    BY <2>1 DEF COMBO_TABLE
  <2>3. ComboBonus(combo) = COMBO_TABLE[combo + 1]
    BY <1>2 DEF ComboBonus
  <2> QED
    BY <2>2, <2>3
<1> QED
  BY <1>1, <1>2

\* The attack of a lock is a number of lines, for at most four cleared rows
LEMMA Attack ==
  ASSUME NEW g \in Games, NEW cleared \in 0..4, NEW tspin \in BOOLEAN
  PROVE  LET a == calculate_garbage(g, cleared, tspin)
         IN  a.combo \in Combos /\ a.b2b \in Flags /\ a.damage \in Nat
<1>1. g.combo \in Int /\ g.combo >= -1 /\ g.b2b \in BOOLEAN
  BY GameRanges DEF Combos, Flags
<1>2. CASE cleared = 0
  BY <1>1, <1>2 DEF calculate_garbage, Combos, Flags
<1>3. CASE cleared # 0
  <2> DEFINE hard == tspin \/ cleared = 4
             bonus == IF hard /\ g.b2b THEN 1 ELSE 0
             a == [combo |-> g.combo + 1, b2b |-> hard,
                   damage |-> BaseGarbage(cleared, tspin) + bonus + ComboBonus(g.combo + 1)]
  <2>1. calculate_garbage(g, cleared, tspin) = a
    BY <1>3 DEF calculate_garbage
  <2>2. BaseGarbage(cleared, tspin) \in Nat
    <3>1. cleared = 1 \/ cleared = 2 \/ cleared = 3 \/ cleared = 4
      BY <1>3
    <3> QED
      BY <3>1 DEF BaseGarbage
  <2>3. ComboBonus(g.combo + 1) \in Nat
    <3>1. g.combo + 1 \in Int
      BY <1>1
    <3> QED
      BY <3>1, ComboBonusNat
  <2>4. bonus \in Nat
    OBVIOUS
  <2>5. a.combo \in Combos
    BY <1>1 DEF Combos
  <2>6. a.b2b \in Flags
    BY DEF Flags
  <2> HIDE DEF bonus, hard
  <2>7. a.damage \in Nat
    BY <2>2, <2>3, <2>4
  <2> QED
    BY <2>1, <2>5, <2>6, <2>7
<1> QED
  BY <1>2, <1>3

\* Locking: the board is swept, the meter can only go down
LEMMA LockedGame ==
  ASSUME NEW g, Sound(g)
  PROVE  /\ Locked(g) \in Games /\ NoFullRow(Locked(g).cells)
         /\ Locked(g).bag = g.bag /\ Locked(g).bag_index = g.bag_index
<1> DEFINE swept  == clear_lines(lock_piece(g))
           attack == calculate_garbage(g, swept.cleared, check_t_spin(g))
           cancel == Min({attack.damage, g.pending_garbage})
           lines  == g.lines_cleared + swept.cleared
           level  == IF swept.cleared > 0 THEN (lines \div 10) + 1 ELSE g.level
           placed == g.pieces_placed + 1
           pending == g.pending_garbage - cancel
           out == attack.damage - cancel
           h == [g EXCEPT !.cells = swept.cells, !.pieces_placed = placed,
                          !.lines_cleared = lines, !.level = level,
                          !.combo = attack.combo, !.b2b = attack.b2b,
                          !.pending_garbage = pending, !.outgoing_garbage = out]
<1>1. g \in Games /\ g.type \in 1..7 /\ NoFullRow(g.cells)
  BY SoundType
<1>2. g.cells \subseteq Grid /\ g.rot \in 0..3 /\ g.y \in Int
  BY <1>1, GameFields
<1>3. /\ lock_piece(g) \subseteq Grid
      /\ Cardinality({y \in Rows : Full(lock_piece(g), y)}) \in 0..4
  BY <1>1, <1>2, LockRows
<1>4. /\ swept.cells = ClearedReference(lock_piece(g))
      /\ swept.cleared = Cardinality({y \in Rows : Full(lock_piece(g), y)})
  BY <1>3, ClearLines
<1>5. swept.cells \subseteq Grid /\ NoFullRow(swept.cells) /\ swept.cleared \in 0..4
  BY <1>3, <1>4, ClearedRows
<1>6. swept.cells \in CellSets
  BY <1>5 DEF CellSets
<1> HIDE DEF swept
<1>7. attack.combo \in Combos /\ attack.b2b \in Flags /\ attack.damage \in Nat
  <2>1. check_t_spin(g) \in BOOLEAN
    BY <1>1, GameRanges DEF check_t_spin, Flags
  <2> QED
    BY <1>1, <1>5, <2>1, Attack
<1> HIDE DEF attack
<1>8. lines \in Nat /\ lines \in Counts /\ level \in Levels /\ placed \in Counts
  <2>1. g.lines_cleared \in Nat /\ g.level \in Nat \ {0} /\ g.pieces_placed \in Nat
    BY <1>1, GameRanges DEF Counts, Levels
  <2>2. lines \in Nat
    BY <1>5, <2>1
  <2> HIDE DEF lines
  <2>3. level \in Nat \ {0}
    BY <1>5, <2>1, <2>2
  <2> QED
    BY <2>1, <2>2, <2>3 DEF Counts, Levels
<1>9. pending \in PendingLines /\ out \in Counts
  <2>1. g.pending_garbage \in Nat /\ g.pending_garbage <= BOARD_HEIGHT
    BY <1>1, GameRanges, BoardSize DEF PendingLines
  <2>2. cancel \in Nat /\ cancel <= attack.damage /\ cancel <= g.pending_garbage
    <3>1. attack.damage \in Int /\ g.pending_garbage \in Int
      BY <1>7, <2>1
    <3>2. /\ cancel \in {attack.damage, g.pending_garbage}
          /\ cancel <= attack.damage /\ cancel <= g.pending_garbage
      BY <3>1, MinOfTwo, Zenon
    <3> HIDE DEF cancel
    <3> QED
      BY <1>7, <2>1, <3>2
  <2> HIDE DEF cancel
  <2> QED
    BY <1>7, <2>1, <2>2, BoardSize DEF PendingLines, Counts
<1>10. Locked(g) = h
  BY <1>1 DEF Locked, swept, attack
<1> HIDE DEF cancel, lines, level, placed, pending, out
<1>11. h \in Games
  BY <1>1, <1>6, <1>7, <1>8, <1>9 DEF Games
<1>12. h.cells = swept.cells /\ h.bag = g.bag /\ h.bag_index = g.bag_index
  BY <1>1 DEF Games
<1> QED
  BY <1>5, <1>10, <1>11, <1>12

\* Pending garbage lands on a board without full rows and leaves none
LEMMA SettledGame ==
  ASSUME NEW g, NEW h \in Games, NoFullRow(h.cells), NEW k \in Settled(g, h)
  PROVE  /\ k \in Games /\ NoFullRow(k.cells)
         /\ k.bag = h.bag /\ k.bag_index = h.bag_index
<1>1. CASE h.lines_cleared = g.lines_cleared /\ h.pending_garbage > 0
  <2>1. PICK cells \in add_garbage(h.cells, h.pending_garbage) :
          k = [h EXCEPT !.cells = cells, !.pending_garbage = 0]
    BY <1>1 DEF Settled
  <2>2. h.pending_garbage \in 0..BOARD_HEIGHT /\ h.cells \subseteq Grid
    BY GameRanges DEF PendingLines, CellSets
  <2>3. Clip(h.pending_garbage) = h.pending_garbage
    BY <2>2, BoardSize DEF Clip
  <2>4. PICK holes \in [(BOARD_HEIGHT - h.pending_garbage)..(BOARD_HEIGHT - 1) -> Gaps] :
          cells = Landed(h.cells, holes)
    BY <2>1, <2>3 DEF add_garbage
  <2>5. cells \subseteq Grid /\ NoFullRow(cells)
    BY <2>2, <2>4, LandedRows
  <2>6. cells \in CellSets /\ 0 \in PendingLines
    BY <2>5, BoardSize DEF CellSets, PendingLines
  <2>7. k \in Games /\ k.cells = cells /\ k.bag = h.bag /\ k.bag_index = h.bag_index
    BY <2>1, <2>6 DEF Games
  <2> QED
    BY <2>5, <2>7
<1>2. CASE ~(h.lines_cleared = g.lines_cleared /\ h.pending_garbage > 0)
  BY <1>2 DEF Settled
<1> QED
  BY <1>1, <1>2

-----------------------------------------------------------------------------
(* The steps of a game *)

\* Room for the piece, wherever a swap did not just put it above the board
Clear(g) == ~g.game_over /\ (g.y >= 0 \/ ~g.has_held) => Fits(g, 0, 0)

Keeps(g, h) == h.bag = g.bag /\ h.bag_index = g.bag_index

\* What a step makes of a sound game
Goes(g, h) == Sound(h) /\ Clear(h) /\ (Keeps(g, h) \/ Draws(g, h))

\* A step that only sets timers, flags or the meter
LEMMA SameBoard ==
  ASSUME NEW g, NEW h, Sound(g), Clear(g), h \in Games,
         h.cells = g.cells, h.type = g.type, h.rot = g.rot, h.x = g.x, h.y = g.y,
         h.has_held = g.has_held, h.game_over = g.game_over, Keeps(g, h)
  PROVE  Goes(g, h)
  BY FitsSame DEF Goes, Sound, Clear

\* The same after a step
LEMMA SameBoardAfter ==
  ASSUME NEW g, NEW k, NEW h, Goes(g, k), h \in Games,
         h.cells = k.cells, h.type = k.type, h.rot = k.rot, h.x = k.x, h.y = k.y,
         h.has_held = k.has_held, h.game_over = k.game_over, Keeps(k, h)
  PROVE  Goes(g, h)
<1>1. Sound(h) /\ Clear(h)
  BY FitsSame DEF Goes, Sound, Clear
<1>2. Keeps(g, k) => Keeps(g, h)
  BY DEF Keeps
<1>3. Draws(g, k) => Draws(g, h)
  BY DEF Keeps, Draws, Shown
<1> QED
  BY <1>1, <1>2, <1>3 DEF Goes

\* A piece put where it has room
LEMMA PutPiece ==
  ASSUME NEW g, Sound(g), NEW x \in Int, NEW y \in Int, NEW rot \in 0..3, NEW last \in BOOLEAN,
         is_valid_pos(g, g.type, rot, x, y),
         NEW h, h = [g EXCEPT !.x = x, !.y = y, !.rot = rot, !.last_action_rotation = last]
  PROVE  Goes(g, h)
<1>1. g \in Games
  BY DEF Sound
<1>2. x \in Coordinates /\ y \in Coordinates /\ rot \in Rotations /\ last \in Flags
  BY DEF Coordinates, Rotations, Flags
<1>3. h \in Games
  BY <1>1, <1>2 DEF Games
<1>4. /\ h.cells = g.cells /\ h.type = g.type /\ h.x = x /\ h.y = y /\ h.rot = rot
      /\ h.bag = g.bag /\ h.bag_index = g.bag_index
  BY <1>1 DEF Games
<1>5. Fits(h, 0, 0)
  <2>1. x + 0 = x /\ y + 0 = y
    OBVIOUS
  <2> QED
    BY <1>4, <2>1 DEF Fits, is_valid_pos
<1> QED
  BY <1>3, <1>4, <1>5 DEF Goes, Sound, Clear, Keeps

\* The piece one row lower
LEMMA FallGame ==
  ASSUME NEW g, Sound(g), Fits(g, 0, 1)
  PROVE  Goes(g, [g EXCEPT !.y = @ + 1])
<1>1. g \in Games /\ g.x \in Int /\ g.y \in Int /\ g.rot \in 0..3
      /\ g.last_action_rotation \in BOOLEAN
  BY GameFields, GameRanges DEF Sound, Flags
<1>2. is_valid_pos(g, g.type, g.rot, g.x, g.y + 1) /\ g.y + 1 \in Int
  <2>1. g.x + 0 = g.x
    BY <1>1
  <2> QED
    BY <1>1, <2>1 DEF Fits
<1>3. [g EXCEPT !.y = @ + 1] = [g EXCEPT !.x = g.x, !.y = g.y + 1, !.rot = g.rot,
                                         !.last_action_rotation = g.last_action_rotation]
  BY <1>1 DEF Games
<1>4. Goes(g, [g EXCEPT !.x = g.x, !.y = g.y + 1, !.rot = g.rot,
                        !.last_action_rotation = g.last_action_rotation])
  BY <1>1, <1>2, PutPiece, Zenon
<1> QED
  BY <1>3, <1>4

\* A tick of the engine, wherever the piece is
LEMMA TickGame ==
  ASSUME NEW g, Sound(g), NEW k \in tick_game(g)
  PROVE  Goes(g, k)
<1>1. g \in Games
  BY DEF Sound
<1>2. CASE Fits(g, 0, 1)
  <2>1. k = [g EXCEPT !.y = @ + 1]
    BY <1>2 DEF tick_game
  <2> QED
    BY <1>2, <2>1, FallGame
<1>3. CASE ~Fits(g, 0, 1) /\ g.y < 0
  <2>1. k = [g EXCEPT !.game_over = TRUE]
    BY <1>3 DEF tick_game
  <2>2. k \in Games /\ k.game_over = TRUE /\ k.cells = g.cells /\ k.type = g.type
        /\ k.bag = g.bag /\ k.bag_index = g.bag_index
    BY <1>1, <2>1, SpawnRange DEF Games
  <2> QED
    BY <2>2 DEF Goes, Sound, Clear, Keeps
<1>4. CASE ~Fits(g, 0, 1) /\ ~(g.y < 0)
  <2>1. PICK h \in Settled(g, Locked(g)) :
          \E next \in spawn_new_piece(h) : k = [next EXCEPT !.game_over = ~Fits(next, 0, 0)]
    BY <1>4 DEF tick_game
  <2> PICK next \in spawn_new_piece(h) : k = [next EXCEPT !.game_over = ~Fits(next, 0, 0)]
    BY <2>1
  <2>2. /\ Locked(g) \in Games /\ NoFullRow(Locked(g).cells)
        /\ Locked(g).bag = g.bag /\ Locked(g).bag_index = g.bag_index
    BY LockedGame
  <2>3. h \in Games /\ NoFullRow(h.cells) /\ h.bag = g.bag /\ h.bag_index = g.bag_index
    BY <2>2, SettledGame
  <2>4. next \in Games /\ next.type \in Kinds /\ next.cells = h.cells /\ Draws(h, next)
    BY <2>3, SpawnGame
  <2> DEFINE over == ~Fits(next, 0, 0)
  <2>5. over \in Flags
    BY DEF Flags, Fits, is_valid_pos
  <2>6. k = [next EXCEPT !.game_over = over]
    OBVIOUS
  <2> HIDE DEF over
  <2>7. /\ k \in Games /\ k.game_over = over /\ k.cells = next.cells /\ k.type = next.type
        /\ k.bag = next.bag /\ k.bag_index = next.bag_index
        /\ k.rot = next.rot /\ k.x = next.x /\ k.y = next.y
    BY <2>4, <2>5, <2>6 DEF Games
  <2>8. Sound(k)
    BY <2>3, <2>4, <2>7 DEF Sound
  <2>9. Clear(k)
    BY <2>7, FitsSame DEF Clear, over
  <2>10. Draws(g, k)
    BY <2>3, <2>4, <2>7 DEF Draws, Shown
  <2> QED
    BY <2>8, <2>9, <2>10 DEF Goes
<1> QED
  BY <1>2, <1>3, <1>4

LEMMA ThresholdBound == \A g \in Games : Threshold(g) \in Int /\ Threshold(g) <= GravityStart
<1> SUFFICES ASSUME NEW g \in Games PROVE Threshold(g) \in Int /\ Threshold(g) <= GravityStart
  OBVIOUS
<1> DEFINE n == g.level - 1
           p == n * GravityStep
<1>1. n \in Nat
  BY GameRanges DEF Levels
<1>2. /\ GravityStart \in Nat /\ GravityStep \in Nat /\ GravityFloor \in Nat
      /\ GravityFloor <= GravityStart
  BY BoardAssumption
<1> HIDE DEF n
<1>3. p \in Nat
  BY <1>1, <1>2
<1> HIDE DEF p
<1>4. GravityStart - p \in Int /\ GravityStart - p <= GravityStart
  BY <1>2, <1>3
<1>5. Threshold(g) = Max({GravityStart - p, GravityFloor})
  BY DEF Threshold, p, n
<1>6. Threshold(g) \in {GravityStart - p, GravityFloor}
  BY <1>2, <1>4, <1>5, MaxOfTwo
<1> QED
  BY <1>2, <1>4, <1>6

LEMMA TimerRange == 0 \in GravityTicks /\ 0 \in LockTicks
  BY BoardAssumption DEF GravityTicks, LockTicks

\* Setting the timers leaves the rest of a game alone
LEMMA SetTimers ==
  ASSUME NEW g \in Games, NEW a \in GravityTicks, NEW b \in LockTicks,
         NEW h, h = [g EXCEPT !.gravity_timer = a, !.lock_timer = b]
  PROVE  /\ h \in Games /\ h.cells = g.cells /\ h.type = g.type /\ h.rot = g.rot
         /\ h.x = g.x /\ h.y = g.y /\ h.has_held = g.has_held
         /\ h.game_over = g.game_over /\ Keeps(g, h)
  BY DEF Games, Keeps

LEMMA TimersAfter ==
  ASSUME NEW g, NEW h, Goes(g, h), NEW a \in GravityTicks, NEW b \in LockTicks
  PROVE  Goes(g, [h EXCEPT !.gravity_timer = a, !.lock_timer = b])
<1> DEFINE k == [h EXCEPT !.gravity_timer = a, !.lock_timer = b]
<1>1. h \in Games
  BY DEF Goes, Sound
<1>2. /\ k \in Games /\ k.cells = h.cells /\ k.type = h.type /\ k.rot = h.rot
      /\ k.x = h.x /\ k.y = h.y /\ k.has_held = h.has_held
      /\ k.game_over = h.game_over /\ Keeps(h, k)
  BY <1>1, SetTimers
<1> HIDE DEF k
<1>3. Goes(g, k)
  BY <1>2, SameBoardAfter
<1> QED
  BY <1>3 DEF k

\* One tick of the timers, for a game that is not over
LEMMA TimersGame ==
  ASSUME NEW g, Sound(g), Clear(g), NEW k \in update_timers(g)
  PROVE  Goes(g, k)
<1>1. g \in Games
  BY DEF Sound
<1>2. g.gravity_timer \in GravityTicks /\ g.lock_timer \in LockTicks
  BY <1>1, GameRanges
<1>3. g.gravity_timer \in Nat /\ g.lock_timer \in Nat /\ GravityStart \in Nat /\ LockStart \in Nat
  BY <1>2, BoardAssumption DEF GravityTicks, LockTicks
<1>4. CASE ~Fits(g, 0, 1) /\ g.lock_timer + 1 < LockStart
  <2>1. k = [g EXCEPT !.lock_timer = @ + 1]
    BY <1>4 DEF update_timers
  <2>2. g.lock_timer + 1 \in LockTicks
    BY <1>3, <1>4 DEF LockTicks
  <2>3. k = [g EXCEPT !.gravity_timer = g.gravity_timer, !.lock_timer = g.lock_timer + 1]
    BY <1>1, <2>1 DEF Games
  <2> QED
    BY <1>1, <1>2, <2>2, <2>3, SetTimers, SameBoard, ZenonT(40)
<1>5. CASE Fits(g, 0, 1) /\ g.gravity_timer + 1 < Threshold(g)
  <2>1. k = [g EXCEPT !.lock_timer = 0, !.gravity_timer = @ + 1]
    BY <1>5 DEF update_timers
  <2>2. g.gravity_timer + 1 \in GravityTicks
    <3>1. Threshold(g) \in Int /\ Threshold(g) <= GravityStart
      BY <1>1, ThresholdBound
    <3> QED
      BY <1>3, <1>5, <3>1 DEF GravityTicks
  <2>3. k = [g EXCEPT !.gravity_timer = g.gravity_timer + 1, !.lock_timer = 0]
    BY <1>1, <2>1 DEF Games
  <2> QED
    BY <1>1, <2>2, <2>3, TimerRange, SetTimers, SameBoard, Zenon
<1>6. CASE /\ ~(~Fits(g, 0, 1) /\ g.lock_timer + 1 < LockStart)
           /\ ~(Fits(g, 0, 1) /\ g.gravity_timer + 1 < Threshold(g))
  <2>1. PICK h \in tick_game(g) : k = [h EXCEPT !.lock_timer = 0, !.gravity_timer = 0]
    BY <1>6 DEF update_timers
  <2>2. Goes(g, h)
    BY TickGame
  <2>3. h \in Games
    BY <2>2 DEF Goes, Sound
  <2>4. k = [h EXCEPT !.gravity_timer = 0, !.lock_timer = 0]
    BY <2>1, <2>3 DEF Games
  <2> QED
    BY <2>2, <2>4, TimerRange, TimersAfter
<1> QED
  BY <1>4, <1>5, <1>6

\* A move or soft drop that has room
LEMMA MoveGame ==
  ASSUME NEW g, Sound(g), NEW dx \in Int, NEW dy \in Int, Fits(g, dx, dy)
  PROVE  Goes(g, [Move(g, dx, dy) EXCEPT !.lock_timer = 0])
<1>1. g \in Games /\ g.x \in Int /\ g.y \in Int /\ g.rot \in 0..3
  BY GameFields DEF Sound
<1> DEFINE h == [g EXCEPT !.x = g.x + dx, !.y = g.y + dy, !.rot = g.rot,
                          !.last_action_rotation = FALSE]
<1>2. is_valid_pos(g, g.type, g.rot, g.x + dx, g.y + dy)
      /\ g.x + dx \in Int /\ g.y + dy \in Int /\ FALSE \in BOOLEAN
  BY <1>1 DEF Fits
<1>3. Goes(g, h)
  BY <1>1, <1>2, PutPiece, Zenon
<1>4. h \in Games /\ h.gravity_timer \in GravityTicks
  BY <1>3, GameRanges DEF Goes, Sound
<1>5. Move(g, dx, dy) = h
  BY <1>1 DEF Move, Games
<1> HIDE DEF h
<1>6. [h EXCEPT !.lock_timer = 0]
        = [h EXCEPT !.gravity_timer = h.gravity_timer, !.lock_timer = 0]
  BY <1>4 DEF Games
<1>7. Goes(g, [h EXCEPT !.gravity_timer = h.gravity_timer, !.lock_timer = 0])
  BY <1>3, <1>4, TimerRange, TimersAfter
<1> QED
  BY <1>5, <1>6, <1>7

LEMMA KickTests ==
  ASSUME NEW g, g.type \in 1..7, g.rot \in 0..3, NEW next \in 0..3
  PROVE  \A k \in 1..Len(Kicks(g, next)) :
           Kicks(g, next)[k][1] \in Int /\ Kicks(g, next)[k][2] \in Int
<1> DEFINE i == get_transition_index(g.rot, next) + 1
           Offsets(t) == \A k \in 1..Len(t) : t[k][1] \in Int /\ t[k][2] \in Int
<1>1. \/ i = 1 \/ i = 2 \/ i = 3 \/ i = 4 \/ i = 5 \/ i = 6 \/ i = 7 \/ i = 8
  <2>1. g.rot = 0 \/ g.rot = 1 \/ g.rot = 2 \/ g.rot = 3
    OBVIOUS
  <2> QED
    BY <2>1 DEF get_transition_index
<1>2. \A sx, sy \in Int : Offsets(KickJLSTZ(sx, sy))
  <2> SUFFICES ASSUME NEW sx \in Int, NEW sy \in Int PROVE Offsets(KickJLSTZ(sx, sy))
    OBVIOUS
  <2>1. -2 * sy \in Int
    OBVIOUS
  <2>2. ASSUME NEW k \in 1..Len(KickJLSTZ(sx, sy))
        PROVE  KickJLSTZ(sx, sy)[k][1] \in Int /\ KickJLSTZ(sx, sy)[k][2] \in Int
    <3>1. k = 1 \/ k = 2 \/ k = 3 \/ k = 4 \/ k = 5
      BY DEF KickJLSTZ
    <3> QED
      BY <2>1, <3>1 DEF KickJLSTZ
  <2> QED
    BY <2>2
<1>3. \A a, b, s \in Int : Offsets(KickI(a, b, s))
  <2> SUFFICES ASSUME NEW a \in Int, NEW b \in Int, NEW s \in Int PROVE Offsets(KickI(a, b, s))
    OBVIOUS
  <2>1. s * a \in Int /\ s * b \in Int /\ -2 * s \in Int
    OBVIOUS
  <2>2. ASSUME NEW k \in 1..Len(KickI(a, b, s))
        PROVE  KickI(a, b, s)[k][1] \in Int /\ KickI(a, b, s)[k][2] \in Int
    <3>1. k = 1 \/ k = 2 \/ k = 3 \/ k = 4 \/ k = 5
      BY DEF KickI
    <3> QED
      BY <2>1, <3>1 DEF KickI
  <2> QED
    BY <2>2
<1>4. Offsets(<< <<0, 0>> >>)
  OBVIOUS
<1> HIDE DEF i, Offsets
<1>5. Offsets(KICKS_I[i])
  BY <1>1, <1>3 DEF KICKS_I
<1>6. Offsets(KICKS_JLSTZ[i])
  BY <1>1, <1>2 DEF KICKS_JLSTZ
<1>7. Offsets(Kicks(g, next))
  BY <1>4, <1>5, <1>6 DEF Kicks, i
<1> QED
  BY <1>7 DEF Offsets

\* A rotation: the first kick that has room, or nothing
LEMMA RotateGame ==
  ASSUME NEW g, Sound(g), Clear(g), NEW next \in 0..3
  PROVE  Goes(g, [test_rotate(g, next) EXCEPT !.lock_timer = 0])
<1> DEFINE kicks == Kicks(g, next)
           good == {k \in 1..Len(kicks) :
                      is_valid_pos(g, g.type, next, g.x + kicks[k][1], g.y + kicks[k][2])}
<1>1. g \in Games /\ g.x \in Int /\ g.y \in Int /\ g.rot \in 0..3 /\ g.type \in 1..7
  BY GameFields, SoundType
<1>2. ASSUME NEW h, Goes(g, h) PROVE Goes(g, [h EXCEPT !.lock_timer = 0])
  <2>1. h \in Games /\ h.gravity_timer \in GravityTicks
    BY <1>2, GameRanges DEF Goes, Sound
  <2>2. [h EXCEPT !.lock_timer = 0] = [h EXCEPT !.gravity_timer = h.gravity_timer, !.lock_timer = 0]
    BY <2>1 DEF Games
  <2>3. Goes(g, [h EXCEPT !.gravity_timer = h.gravity_timer, !.lock_timer = 0])
    BY <1>2, <2>1, TimerRange, TimersAfter
  <2> QED
    BY <2>2, <2>3
<1>3. CASE good = {}
  <2>1. test_rotate(g, next) = g
    BY <1>3 DEF test_rotate
  <2>2. Goes(g, g)
    BY DEF Goes, Keeps
  <2> QED
    BY <1>2, <2>1, <2>2
<1>4. CASE good # {}
  <2>1. good \subseteq Nat
    BY DEF good
  <2>2. Min(good) \in good
    <3>1. \E x \in good : \A y \in good : x <= y
      BY <1>4, <2>1, LeastExists
    <3> QED
      BY <3>1 DEF Min
  <2> DEFINE m == Min(good)
  <2>3. /\ m \in 1..Len(kicks)
        /\ is_valid_pos(g, g.type, next, g.x + kicks[m][1], g.y + kicks[m][2])
    BY <2>2
  <2>4. kicks[m][1] \in Int /\ kicks[m][2] \in Int
    BY <1>1, <2>3, KickTests
  <2> DEFINE h == [g EXCEPT !.x = g.x + kicks[m][1], !.y = g.y + kicks[m][2],
                            !.rot = next, !.last_action_rotation = TRUE]
  <2>5. test_rotate(g, next) = h
    BY <1>4 DEF test_rotate
  <2>6. g.x + kicks[m][1] \in Int /\ g.y + kicks[m][2] \in Int /\ TRUE \in BOOLEAN
    BY <1>1, <2>4
  <2>7. Goes(g, h)
    BY <2>3, <2>6, PutPiece, Zenon
  <2> QED
    BY <1>2, <2>5, <2>7
<1> QED
  BY <1>3, <1>4

\* A hard drop: the piece comes down as far as it has room, and ticks
LEMMA HardDropGame ==
  ASSUME NEW g, Sound(g), Clear(g), ~g.game_over
  PROVE  Sound(hard_drop(g)) /\ Keeps(g, hard_drop(g))
<1> DEFINE blocked == {n \in 0..(BOARD_HEIGHT - g.y) : ~Fits(g, 0, n + 1)}
<1>1. g \in Games /\ g.x \in Int /\ g.y \in Int /\ g.type \in 1..7
  BY GameFields, SoundType
<1>2. g.y <= BOARD_HEIGHT
  <2>1. CASE g.y < 0
    BY <1>1, <2>1, BoardSize
  <2>2. CASE ~(g.y < 0)
    <3>1. Fits(g, 0, 0)
      BY <1>1, <2>2 DEF Clear
    <3>2. g.y + 0 < BOARD_HEIGHT
      BY <1>1, <3>1, FitsAboveFloor
    <3> QED
      BY <1>1, <3>2, BoardSize
  <2> QED
    BY <2>1, <2>2
<1>3. BOARD_HEIGHT - g.y \in blocked
  <2> DEFINE n == BOARD_HEIGHT - g.y
  <2>1. n \in 0..(BOARD_HEIGHT - g.y) /\ n + 1 \in Int /\ ~(g.y + (n + 1) < BOARD_HEIGHT)
    BY <1>1, <1>2, BoardSize
  <2> HIDE DEF n
  <2>2. ~Fits(g, 0, n + 1)
    BY <1>1, <2>1, FitsAboveFloor
  <2> QED
    BY <2>1, <2>2 DEF n
<1>4. Min(blocked) \in blocked
  <2>1. blocked \subseteq Nat /\ blocked # {}
    BY <1>1, <1>3
  <2>2. \E x \in blocked : \A y \in blocked : x <= y
    BY <2>1, LeastExists
  <2> QED
    BY <2>2 DEF Min
<1>5. Min(blocked) \in Int
  BY <1>1, <1>4
<1> DEFINE h == [g EXCEPT !.y = g.y + Min(blocked)]
<1>6. hard_drop(g) = h
  BY DEF hard_drop
<1>7. g.y + Min(blocked) \in Coordinates
  BY <1>1, <1>5 DEF Coordinates
<1> HIDE DEF blocked
<1>8. /\ h \in Games /\ h.cells = g.cells /\ h.type = g.type
      /\ h.bag = g.bag /\ h.bag_index = g.bag_index
  BY <1>1, <1>7 DEF Games
<1> QED
  BY <1>6, <1>8 DEF Sound, Keeps

\* A hold puts a piece above the board, from the bag or from the hold
LEMMA HoldGame ==
  ASSUME NEW g, Sound(g), NEW k \in hold_piece(g)
  PROVE  Goes(g, [k EXCEPT !.gravity_timer = 0])
<1>1. g \in Games /\ g.type \in Kinds /\ NoFullRow(g.cells) /\ g.held_type \in PieceTypes
  BY GameRanges DEF Sound
<1>2. g.type \in PieceTypes
  BY <1>1 DEF PieceTypes
<1>3. ASSUME NEW h \in Games, h.type \in Kinds, NoFullRow(h.cells), h.y = -2,
             Keeps(g, h) \/ Draws(g, h), k = [h EXCEPT !.has_held = TRUE]
      PROVE  Goes(g, [k EXCEPT !.gravity_timer = 0])
  <2> DEFINE e == [k EXCEPT !.gravity_timer = 0]
  <2>1. /\ e \in Games /\ e.cells = h.cells /\ e.type = h.type /\ e.y = h.y
        /\ e.has_held = TRUE /\ e.bag = h.bag /\ e.bag_index = h.bag_index
    BY <1>3, TimerRange, SpawnRange DEF Games
  <2> HIDE DEF e
  <2>2. Sound(e)
    BY <1>3, <2>1 DEF Sound
  <2>3. Clear(e)
    BY <1>3, <2>1 DEF Clear
  <2>4. Keeps(g, e) \/ Draws(g, e)
    BY <1>3, <2>1 DEF Keeps, Draws, Shown
  <2>5. Goes(g, e)
    BY <2>2, <2>3, <2>4 DEF Goes
  <2> QED
    BY <2>5 DEF e
<1>4. CASE g.held_type = 0
  <2> DEFINE f == [g EXCEPT !.held_type = g.type]
  <2>1. PICK h \in spawn_new_piece(f) : k = [h EXCEPT !.has_held = TRUE]
    BY <1>4 DEF hold_piece
  <2>2. f \in Games /\ f.cells = g.cells /\ f.bag = g.bag /\ f.bag_index = g.bag_index
    BY <1>1, <1>2 DEF Games
  <2> HIDE DEF f
  <2>3. h \in Games /\ h.type \in Kinds /\ h.cells = f.cells /\ h.y = -2 /\ Draws(f, h)
    BY <2>2, SpawnGame
  <2>4. Draws(g, h)
    BY <2>2, <2>3 DEF Draws, Shown
  <2> QED
    BY <1>1, <1>3, <2>1, <2>2, <2>3, <2>4
<1>5. CASE g.held_type # 0
  <2> DEFINE f == [g EXCEPT !.type = g.held_type, !.held_type = g.type]
             h == Spawned(f)
  <2>1. k = [h EXCEPT !.has_held = TRUE]
    BY <1>5 DEF hold_piece
  <2>2. g.held_type \in Kinds
    BY <1>1, <1>5 DEF PieceTypes
  <2>3. h = [g EXCEPT !.type = g.held_type, !.held_type = g.type, !.rot = 0,
                      !.x = (BOARD_WIDTH \div 2) - 2, !.y = -2]
    BY <1>1 DEF Games, Spawned
  <2>4. /\ h \in Games /\ h.cells = g.cells /\ h.type = g.held_type /\ h.y = -2
        /\ h.bag = g.bag /\ h.bag_index = g.bag_index
    BY <1>1, <1>2, <2>3, SpawnRange, ZenonT(40) DEF Games
  <2> HIDE DEF h
  <2> QED
    BY <1>1, <1>3, <2>1, <2>2, <2>4 DEF Keeps
<1> QED
  BY <1>4, <1>5

\* An attack that comes in only moves the meter
LEMMA HitGame ==
  ASSUME NEW g, Sound(g), Clear(g), NEW lines \in Nat
  PROVE  Goes(g, queue_garbage(g, lines))
<1> DEFINE n == Clip(g.pending_garbage + lines)
           h == [g EXCEPT !.pending_garbage = n]
<1>1. g \in Games
  BY DEF Sound
<1>2. n \in PendingLines
  <2>1. g.pending_garbage \in Nat
    BY <1>1, GameRanges, BoardSize DEF PendingLines
  <2> QED
    BY <2>1, BoardSize DEF Clip, PendingLines
<1>3. queue_garbage(g, lines) = h
  BY DEF queue_garbage
<1> HIDE DEF n
<1>4. /\ h \in Games /\ h.cells = g.cells /\ h.type = g.type /\ h.rot = g.rot
      /\ h.x = g.x /\ h.y = g.y /\ h.has_held = g.has_held
      /\ h.game_over = g.game_over /\ Keeps(g, h)
  BY <1>1, <1>2 DEF Games, Keeps
<1> HIDE DEF h
<1>5. Goes(g, h)
  BY <1>4, SameBoard
<1> QED
  BY <1>3, <1>5

\* A game begins on an empty board, the first piece above it
LEMMA StartGame ==
  ASSUME NEW bag1 \in Shuffles, NEW bag2 \in Shuffles, NEW k \in start_game(bag1, bag2)
  PROVE  Sound(k) /\ Clear(k)
<1> DEFINE bag == bag1 \o bag2
           g == [cells |-> {}, type |-> 0, rot |-> 0, x |-> 0, y |-> 0, gravity_timer |-> 0,
                 lock_timer |-> 0, held_type |-> 0, has_held |-> FALSE, bag |-> bag,
                 bag_index |-> 0, pieces_placed |-> 0, last_action_rotation |-> FALSE,
                 pending_garbage |-> 0, outgoing_garbage |-> 0, lines_cleared |-> 0,
                 combo |-> -1, b2b |-> FALSE, level |-> 1, game_over |-> FALSE]
<1>1. BagSize \in Nat /\ BagSize >= 1
  BY BagSizePositive
<1>2. \A new \in Shuffles : new \in Seq(Kinds) /\ Len(new) = BagSize
  <2> SUFFICES ASSUME NEW new \in Shuffles PROVE new \in Seq(Kinds) /\ Len(new) = BagSize
    OBVIOUS
  <2>1. new \in [1..BagSize -> Kinds]
    BY DEF Shuffles
  <2>2. new \in Seq(Kinds)
    BY <1>1, <2>1, SeqDef
  <2>3. DOMAIN new = 1..Len(new) /\ Len(new) \in Nat
    BY <2>2, LenProperties
  <2> QED
    BY <1>1, <2>1, <2>2, <2>3
<1>3. bag \in BagPairs
  <2>1. bag \in Seq(Kinds) /\ Len(bag) = Len(bag1) + Len(bag2)
    BY <1>2, ConcatProperties
  <2>2. Len(bag) = 2 * BagSize
    <3> HIDE DEF bag
    <3> QED
      BY <1>1, <1>2, <2>1
  <2>3. bag \in [1..Len(bag) -> Kinds]
    BY <2>1, ElementOfSeq, LenProperties
  <2> QED
    BY <2>2, <2>3 DEF BagPairs
<1>4. /\ {} \in CellSets /\ 0 \in PieceTypes /\ 0 \in Rotations /\ 0 \in Coordinates
      /\ 0 \in BagIndices /\ 0 \in Counts /\ 0 \in PendingLines /\ -1 \in Combos
      /\ 1 \in Levels /\ FALSE \in Flags
  BY <1>1, BoardSize DEF CellSets, PieceTypes, Rotations, Coordinates, BagIndices, Counts,
                         PendingLines, Combos, Levels, Flags
<1> HIDE DEF bag
<1>5. g \in Games
  BY <1>3, <1>4, TimerRange DEF Games
<1>6. k \in spawn_new_piece(g) /\ g.cells = {}
  BY DEF start_game, bag
<1> HIDE DEF g
<1>7. /\ k \in Games /\ k.type \in Kinds /\ k.cells = {} /\ k.y = -2 /\ ~k.has_held
      /\ k.rot = 0 /\ k.x = (BOARD_WIDTH \div 2) - 2
  BY <1>5, <1>6, SpawnGame
<1>8. NoFullRow({})
  <2>1. 0 \in Columns
    BY BoardSize DEF Columns
  <2> QED
    BY <2>1 DEF NoFullRow, Full
<1>9. Sound(k)
  BY <1>7, <1>8 DEF Sound
<1>10. Fits(k, 0, 0)
  <2> DEFINE X == (BOARD_WIDTH \div 2) - 2
  <2>1. \A p \in Shape[k.type][0] : p[1] \in 0..3 /\ p[2] \in 1..2
    BY <1>9, SoundType, SpawnShape
  <2>2. X \in Nat /\ X + 3 <= BOARD_WIDTH - 1
    BY BoardSize
  <2> HIDE DEF X
  <2>3. \A p \in Shape[k.type][0] : (X + 0) + p[1] \in Columns /\ (-2 + 0) + p[2] < BOARD_HEIGHT
    BY <2>1, <2>2, BoardSize DEF Columns
  <2>4. k.x = X
    BY <1>7 DEF X
  <2> QED
    BY <1>7, <2>3, <2>4 DEF Fits, is_valid_pos, Cover
<1> QED
  BY <1>9, <1>10 DEF Clear

-----------------------------------------------------------------------------
(* The theorems *)

BoardInv == Sound(game) /\ Clear(game)

LEMMA InitInv == Init => BoardInv
  BY StartGame DEF Init, BoardInv

\* Every action takes a sound game to a sound one, and keeps or draws from what
\* is shown
LEMMA NextGoes ==
  ASSUME BoardInv, Next
  PROVE  Goes(game, game')
<1>1. Sound(game) /\ Clear(game) /\ Goes(game, game)
  BY DEF BoardInv, Goes, Keeps
<1>2. CASE Tick
  BY <1>1, <1>2, TimersGame DEF Tick
<1>3. ASSUME NEW d \in {<<-1, 0>>, <<1, 0>>, <<0, 1>>}, MoveBy(d[1], d[2])
      PROVE  Goes(game, game')
  <2>1. d[1] \in Int /\ d[2] \in Int
    OBVIOUS
  <2> QED
    BY <1>1, <1>3, <2>1, MoveGame DEF MoveBy
<1>4. CASE Rotate(rotate_current_piece(game)) \/ Rotate(rotate_counter_clockwise(game))
  <2>1. game.rot \in 0..3
    BY <1>1, GameFields DEF Sound
  <2>2. (game.rot + 1) % 4 \in 0..3 /\ (game.rot + 3) % 4 \in 0..3
    BY <2>1
  <2> QED
    BY <1>1, <1>4, <2>2, RotateGame DEF Rotate, rotate_current_piece, rotate_counter_clockwise
<1>5. CASE HardDrop
  <2> DEFINE h == hard_drop(game)
  <2>1. ~game.game_over
    BY <1>5 DEF HardDrop, Input, Playing
  <2>2. Sound(h) /\ Keeps(game, h)
    BY <1>1, <2>1, HardDropGame
  <2>3. PICK g \in tick_game(h) : game' = [g EXCEPT !.gravity_timer = 0, !.lock_timer = 0]
    BY <1>5 DEF HardDrop
  <2>4. Goes(h, g)
    BY <2>2, TickGame
  <2>5. Goes(game, g)
    BY <2>2, <2>4 DEF Goes, Keeps, Draws, Shown
  <2> QED
    BY <2>3, <2>5, TimerRange, TimersAfter
<1>6. CASE Hold
  BY <1>1, <1>6, HoldGame DEF Hold
<1>7. CASE Hit
  <2>1. PICK lines \in Damages : game' = queue_garbage(game, lines)
    BY <1>7 DEF Hit
  <2>2. lines \in Nat
    BY BoardAssumption
  <2> QED
    BY <1>1, <2>1, <2>2, HitGame
<1> QED
  BY <1>2, <1>3, <1>4, <1>5, <1>6, <1>7 DEF Next

\* The invariant is inductive
THEOREM BoardInvariant == Spec => []BoardInv
<1>1. BoardInv /\ [Next]_vars => BoardInv'
  <2>1. CASE Next
    BY <2>1, NextGoes DEF Goes, BoardInv
  <2>2. CASE UNCHANGED vars
    BY <2>2 DEF BoardInv, vars
  <2> QED
    BY <2>1, <2>2
<1> QED
  BY <1>1, InitInv, PTL DEF Spec

\* The board, the bag, the timers and the meter stay in their ranges, whatever
\* the sizes, the thresholds and the attacks (engine.c, garbage.c, bag.c)
THEOREM BoardTypeCorrect == Spec => []TypeOK
<1>1. BoardInv => TypeOK
  <2> SUFFICES ASSUME BoardInv PROVE TypeOK
    OBVIOUS
  <2>1. game \in Games /\ game.type \in Kinds
    BY DEF BoardInv, Sound
  <2> QED
    BY <2>1, GameRanges DEF TypeOK, CellSets, Grid, PieceTypes, Rotations, BagIndices, BagPairs,
                            LockTicks, GravityTicks, PendingLines, Counts
<1> QED
  BY <1>1, BoardInvariant, PTL

\* A piece that plays inside the board never covers a filled cell: kicks, moves,
\* drops, swaps and garbage all leave it room, or the game is over
THEOREM PiecesNeverOverlap == Spec => []PieceNeverOverlaps
<1>1. BoardInv => PieceNeverOverlaps
  BY DEF BoardInv, Clear, PieceNeverOverlaps
<1> QED
  BY <1>1, BoardInvariant, PTL

\* The scan of clear_lines, which looks again at a row into which it dropped the
\* one above, removes exactly the full rows, on every board a game can reach
THEOREM LinesClearExactly == Spec => []ClearsExactly
<1>1. BoardInv => ClearsExactly
  <2> SUFFICES ASSUME BoardInv PROVE ClearsExactly
    OBVIOUS
  <2>1. game.cells \subseteq Grid
    BY GameFields DEF BoardInv, Sound
  <2>2. lock_piece(game) \subseteq Grid
    BY <2>1 DEF lock_piece, Grid
  <2> QED
    BY <2>2, ClearLines DEF ClearsExactly
<1> QED
  BY <1>1, BoardInvariant, PTL

\* The preview never lies: each step leaves the pieces shown as next, or draws
\* the first of them and shows the rest, across every refill of the bag
THEOREM PreviewHolds == Spec => PreviewKept
<1> DEFINE Step == \/ Upcoming' = Upcoming
                   \/ /\ game'.type = Head(Upcoming)
                      /\ IsPrefix(Tail(Upcoming), Upcoming')
<1>1. BoardInv /\ [Next]_vars => [Step]_vars
  <2> SUFFICES ASSUME BoardInv, Next PROVE Step
    OBVIOUS
  <2>1. Keeps(game, game') \/ Draws(game, game')
    BY NextGoes DEF Goes
  <2> QED
    BY <2>1 DEF Keeps, Draws, Shown, Upcoming
<1> QED
  BY <1>1, BoardInvariant, PTL DEF Spec, PreviewKept
=============================================================================
