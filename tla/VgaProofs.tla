------------------------------ MODULE VgaProofs -----------------------------
(***************************************************************************)
(* For every size of the area, of the porches and of the checkerboard, the *)
(* sync pulses and the colours leave the reference pipeline together, four *)
(* clocks behind the beam; and the sync signals of the two boards have the *)
(* right length, distance and place.                                       *)
(***************************************************************************)
EXTENDS VgaPipeline, VgaBoards, TLAPS

\* The beam goes from one position to the next.
Follows(c, r, c2, r2) ==
  IF c = TOTAL_COLS - 1
  THEN c2 = 0 /\ r2 = (IF r = TOTAL_ROWS - 1 THEN 0 ELSE r + 1)
  ELSE c2 = c + 1 /\ r2 = r

\* The position that was k clocks before column c of row r.
ColBack(c, k) == IF c >= k THEN c - k ELSE c - k + TOTAL_COLS
RowBack(c, r, k) ==
  IF c >= k THEN r ELSE IF r = 0 THEN TOTAL_ROWS - 1 ELSE r - 1

\* The raw sync signals of a position.
RawH(c) == IF c < ACTIVE_COLS THEN 1 ELSE 0
RawV(r) == IF r < ACTIVE_ROWS THEN 1 ELSE 0

\* The pulses of a position, between the porches.
PulseH(c) ==
  IF c < c_FRONT_PORCH_HORZ + ACTIVE_COLS \/ c > TOTAL_COLS - c_BACK_PORCH_HORZ - 1
  THEN 1 ELSE 0
PulseV(r) ==
  IF r < c_FRONT_PORCH_VERT + ACTIVE_ROWS \/ r > TOTAL_ROWS - c_BACK_PORCH_VERT - 1
  THEN 1 ELSE 0

IsColour(video, c, r) == \E pattern \in 0..15 : video = Gen!Colour(pattern, c, r)

\* The stages of the pipeline, k clocks behind the beam.
Stage1 ==
  /\ g_Col = ColBack(col, 1) /\ g_Row = RowBack(col, row, 1)
  /\ g_HCount = RawH(ColBack(col, 1)) /\ g_VCount = RawV(RowBack(col, row, 1))

Stage2 ==
  /\ g_HSync = RawH(ColBack(col, 2)) /\ g_VSync = RawV(RowBack(col, row, 2))
  /\ IsColour(g_Video, ColBack(col, 2), RowBack(col, row, 2))

Stage3 ==
  /\ p_Col = ColBack(col, 3) /\ p_Row = RowBack(col, row, 3)
  /\ p_HCount = RawH(ColBack(col, 3)) /\ p_VCount = RawV(RowBack(col, row, 3))
  /\ IsColour(r_Video, ColBack(col, 3), RowBack(col, row, 3))

Stage4 ==
  /\ o_HSync = PulseH(ColBack(col, 4)) /\ o_VSync = PulseV(RowBack(col, row, 4))
  /\ IsColour(o_Video, ColBack(col, 4), RowBack(col, row, 4))

\* What a stage holds before the first position has come to it.  The counter
\* of VGA_Sync_Porch runs ahead until the first frame starts for it.
Empty1 == g_Col = 0 /\ g_Row = 0 /\ g_HCount = 0 /\ g_VCount = 0
Empty2 == g_HSync = 0 /\ g_VSync = 0
Empty3 == p_Col = age /\ p_Row = 0 /\ p_HCount = 0 /\ p_VCount = 0
Empty4 == age > 0 => o_HSync = 1 /\ o_VSync = 1

Beam ==
  /\ col \in 0 .. TOTAL_COLS - 1 /\ row \in 0 .. TOTAL_ROWS - 1
  /\ age \in 0 .. 4
  /\ age < 4 => col = age /\ row = 0

IInv ==
  /\ Beam
  /\ IF age >= 1 THEN Stage1 ELSE Empty1
  /\ IF age >= 2 THEN Stage2 ELSE Empty2
  /\ IF age >= 3 THEN Stage3 ELSE Empty3
  /\ IF age >= 4 THEN Stage4 ELSE Empty4

-----------------------------------------------------------------------------
\* The area is wider than the pipeline is long.
LEMMA Sizes ==
  /\ TOTAL_COLS \in Nat /\ TOTAL_ROWS \in Nat /\ c_BACK_PORCH_HORZ \in Nat
  /\ ACTIVE_COLS \in Nat /\ ACTIVE_ROWS \in Nat /\ c_FRONT_PORCH_HORZ \in Nat
  /\ c_FRONT_PORCH_VERT \in Nat /\ c_BACK_PORCH_VERT \in Nat
  /\ ACTIVE_COLS >= 1 /\ ACTIVE_ROWS >= 1 /\ c_FRONT_PORCH_HORZ >= 1
  /\ c_FRONT_PORCH_VERT >= 1 /\ c_BACK_PORCH_VERT >= 1 /\ c_BACK_PORCH_HORZ >= 4
  /\ ACTIVE_COLS + c_FRONT_PORCH_HORZ >= 3
  /\ ACTIVE_COLS + c_FRONT_PORCH_HORZ + c_BACK_PORCH_HORZ < TOTAL_COLS
  /\ ACTIVE_ROWS + c_FRONT_PORCH_VERT + c_BACK_PORCH_VERT < TOTAL_ROWS
  BY VgaPipelineAssumption

\* A clock later the same position is one clock farther back.
Shifted(c, r, c2, r2) ==
  /\ c2 \in 0 .. TOTAL_COLS - 1 /\ r2 \in 0 .. TOTAL_ROWS - 1
  /\ ColBack(c2, 1) = ColBack(c, 0) /\ RowBack(c2, r2, 1) = RowBack(c, r, 0)
  /\ ColBack(c2, 2) = ColBack(c, 1) /\ RowBack(c2, r2, 2) = RowBack(c, r, 1)
  /\ ColBack(c2, 3) = ColBack(c, 2) /\ RowBack(c2, r2, 3) = RowBack(c, r, 2)
  /\ ColBack(c2, 4) = ColBack(c, 3) /\ RowBack(c2, r2, 4) = RowBack(c, r, 3)

LEMMA Shift ==
  ASSUME NEW c \in 0 .. TOTAL_COLS - 1, NEW r \in 0 .. TOTAL_ROWS - 1,
         NEW c2, NEW r2, Follows(c, r, c2, r2)
  PROVE  Shifted(c, r, c2, r2)
  <1>1. c2 \in 0 .. TOTAL_COLS - 1 /\ r2 \in 0 .. TOTAL_ROWS - 1
    BY Sizes DEF Follows
  <1>2. ColBack(c2, 1) = ColBack(c, 0) /\ RowBack(c2, r2, 1) = RowBack(c, r, 0)
    BY Sizes DEF Follows, ColBack, RowBack
  <1>3. ColBack(c2, 2) = ColBack(c, 1) /\ RowBack(c2, r2, 2) = RowBack(c, r, 1)
    BY Sizes DEF Follows, ColBack, RowBack
  <1>4. ColBack(c2, 3) = ColBack(c, 2) /\ RowBack(c2, r2, 3) = RowBack(c, r, 2)
    BY Sizes DEF Follows, ColBack, RowBack
  <1>5. ColBack(c2, 4) = ColBack(c, 3) /\ RowBack(c2, r2, 4) = RowBack(c, r, 3)
    BY Sizes DEF Follows, ColBack, RowBack
  <1> QED
    BY <1>1, <1>2, <1>3, <1>4, <1>5 DEF Shifted

\* What is k clocks back follows what is k + 1 clocks back.
LEMMA BackFollows ==
  ASSUME NEW c \in 0 .. TOTAL_COLS - 1, NEW r \in 0 .. TOTAL_ROWS - 1,
         NEW k \in 0 .. 3
  PROVE  Follows(ColBack(c, k + 1), RowBack(c, r, k + 1), ColBack(c, k), RowBack(c, r, k))
  BY Sizes DEF Follows, ColBack, RowBack

LEMMA BackRange ==
  ASSUME NEW c \in 0 .. TOTAL_COLS - 1, NEW r \in 0 .. TOTAL_ROWS - 1,
         NEW k \in 0 .. 4
  PROVE  ColBack(c, k) \in 0 .. TOTAL_COLS - 1 /\ RowBack(c, r, k) \in 0 .. TOTAL_ROWS - 1
  BY Sizes DEF ColBack, RowBack

\* The step of Sync_To_Count from column c and row r, which registered v, to
\* column c2 and row r2 when the vertical sync is v2.
Counts(c, r, v, v2, c2, r2) ==
  \/ v = 0 /\ v2 = 1 /\ c2 = 0 /\ r2 = 0
  \/ ~(v = 0 /\ v2 = 1) /\ Follows(c, r, c2, r2)

\* A counter at a position of the beam stays with it: the vertical sync only
\* rises where the counter would go back to the first position by itself.
LEMMA CounterFollows ==
  ASSUME NEW c \in 0 .. TOTAL_COLS - 1, NEW r \in 0 .. TOTAL_ROWS - 1,
         NEW d, NEW s, Follows(c, r, d, s),
         NEW c2, NEW r2, Counts(c, r, RawV(r), RawV(s), c2, r2)
  PROVE  c2 = d /\ r2 = s
  BY Sizes DEF Follows, Counts, RawV

-----------------------------------------------------------------------------
\* One clock of the design, signal by signal.
Clocks ==
  /\ Follows(col, row, col', row')
  /\ g_HCount' = RawH(col) /\ g_VCount' = RawV(row)
  /\ Counts(g_Col, g_Row, g_VCount, RawV(row), g_Col', g_Row')
  /\ g_HSync' = g_HCount /\ g_VSync' = g_VCount
  /\ IsColour(g_Video', g_Col, g_Row)
  /\ p_HCount' = g_HSync /\ p_VCount' = g_VSync
  /\ Counts(p_Col, p_Row, p_VCount, g_VSync, p_Col', p_Row')
  /\ r_Video' = g_Video /\ o_Video' = r_Video
  /\ o_HSync' = (IF \/ p_Col < c_FRONT_PORCH_HORZ + ACTIVE_COLS
                    \/ p_Col > TOTAL_COLS - c_BACK_PORCH_HORZ - 1
                 THEN 1 ELSE p_HCount)
  /\ o_VSync' = (IF \/ p_Row < c_FRONT_PORCH_VERT + ACTIVE_ROWS
                    \/ p_Row > TOTAL_ROWS - c_BACK_PORCH_VERT - 1
                 THEN 1 ELSE p_VCount)
  /\ age' = IF age < 4 THEN age + 1 ELSE age

LEMMA NextClocks ==
  ASSUME Next PROVE Clocks
  <1>1. Follows(col, row, col', row')
    BY DEF Next, Pulses!Clock, Pulses!NextRow, Follows
  <1>2. /\ g_HCount' = RawH(col) /\ g_VCount' = RawV(row)
        /\ Gen!Counter!Count(RawV(row))
        /\ g_HSync' = g_HCount /\ g_VSync' = g_VCount
    BY DEF Next, Gen!Clock, Gen!Counter!Clock, Pulses!HSync, Pulses!VSync, RawH, RawV
  <1>3. Counts(g_Col, g_Row, g_VCount, RawV(row), g_Col', g_Row')
    BY <1>2 DEF Gen!Counter!Count, Gen!Counter!FrameStart, Gen!Counter!LastColumn,
                Gen!Counter!NextRow, Counts, Follows
  <1>4. IsColour(g_Video', g_Col, g_Row)
    BY Zenon DEF Next, Gen!Clock, IsColour
  <1>5. /\ p_HCount' = g_HSync /\ p_VCount' = g_VSync
        /\ Porch!Counter!Count(g_VSync)
        /\ r_Video' = g_Video /\ o_Video' = r_Video
        /\ o_HSync' = Porch!PorchHSync /\ o_VSync' = Porch!PorchVSync
    BY DEF Next, Porch!Clock, Porch!Counter!Clock, Porch!Delay
  <1>6. Counts(p_Col, p_Row, p_VCount, g_VSync, p_Col', p_Row')
    BY <1>5 DEF Porch!Counter!Count, Porch!Counter!FrameStart, Porch!Counter!LastColumn,
                Porch!Counter!NextRow, Counts, Follows
  <1>7. age' = IF age < 4 THEN age + 1 ELSE age
    BY DEF Next, Depth
  <1> QED
    BY <1>1, <1>2, <1>3, <1>4, <1>5, <1>6, <1>7
    DEF Clocks, Porch!PorchHSync, Porch!PorchVSync

-----------------------------------------------------------------------------
LEMMA InitInv == Init => IInv
  BY Sizes DEF Init, Pulses!Init, Gen!Init, Gen!Counter!Init, Porch!Init, Porch!Counter!Init,
     IInv, Beam, Empty1, Empty2, Empty3, Empty4

\* The pulses that VGA_Sync_Porch makes at a position are those of the
\* position.
LEMMA PulsesOfPosition ==
  ASSUME NEW c \in 0 .. TOTAL_COLS - 1, NEW r \in 0 .. TOTAL_ROWS - 1
  PROVE  /\ (IF \/ c < c_FRONT_PORCH_HORZ + ACTIVE_COLS
                \/ c > TOTAL_COLS - c_BACK_PORCH_HORZ - 1 THEN 1 ELSE RawH(c))
            = PulseH(c)
         /\ (IF \/ r < c_FRONT_PORCH_VERT + ACTIVE_ROWS
                \/ r > TOTAL_ROWS - c_BACK_PORCH_VERT - 1 THEN 1 ELSE RawV(r))
            = PulseV(r)
  BY Sizes DEF PulseH, PulseV, RawH, RawV

\* The first position is the one that the first column and row start with.
LEMMA FirstPosition ==
  /\ RawV(0) = 1
  /\ \A k \in 0 .. 4 : ColBack(k, k) = 0 /\ RowBack(k, 0, k) = 0
  BY Sizes DEF RawV, ColBack, RowBack

LEMMA NextInv ==
  ASSUME IInv, Next PROVE IInv'
  <1>1. Clocks
    BY NextClocks
  <1>2. /\ col \in 0 .. TOTAL_COLS - 1 /\ row \in 0 .. TOTAL_ROWS - 1
        /\ age \in 0 .. 4 /\ (age < 4 => col = age /\ row = 0)
        /\ Follows(col, row, col', row')
        /\ age' = IF age < 4 THEN age + 1 ELSE age
    BY <1>1 DEF IInv, Beam, Clocks
  <1>3. /\ col' \in 0 .. TOTAL_COLS - 1 /\ row' \in 0 .. TOTAL_ROWS - 1
        /\ ColBack(col', 1) = ColBack(col, 0) /\ RowBack(col', row', 1) = RowBack(col, row, 0)
        /\ ColBack(col', 2) = ColBack(col, 1) /\ RowBack(col', row', 2) = RowBack(col, row, 1)
        /\ ColBack(col', 3) = ColBack(col, 2) /\ RowBack(col', row', 3) = RowBack(col, row, 2)
        /\ ColBack(col', 4) = ColBack(col, 3) /\ RowBack(col', row', 4) = RowBack(col, row, 3)
    <2>1. /\ col \in 0 .. TOTAL_COLS - 1 /\ row \in 0 .. TOTAL_ROWS - 1
          /\ Follows(col, row, col', row')
      BY <1>2
    <2>2. Shifted(col, row, col', row')
      BY <2>1, Shift
    <2> QED
      BY <2>2 DEF Shifted
  <1>4. ColBack(col, 0) = col /\ RowBack(col, row, 0) = row
    BY <1>2, Sizes DEF ColBack, RowBack
  <1>5. Beam'
    BY <1>2, <1>3, Sizes DEF Beam, Follows
  <1>6. age' >= 1 /\ Stage1'
    <2>1. g_Col' = ColBack(col, 0) /\ g_Row' = RowBack(col, row, 0)
      <3>1. CASE age >= 1
        <4>1. Stage1 /\ Counts(g_Col, g_Row, g_VCount, RawV(row), g_Col', g_Row')
          BY <1>1, <3>1 DEF IInv, Clocks
        <4>2. Follows(ColBack(col, 1), RowBack(col, row, 1), ColBack(col, 0), RowBack(col, row, 0))
          BY <1>2, BackFollows, 0 + 1 = 1, 0 \in 0 .. 3
        <4>3. ColBack(col, 1) \in 0 .. TOTAL_COLS - 1 /\ RowBack(col, row, 1) \in 0 .. TOTAL_ROWS - 1
          BY <1>2, BackRange, 1 \in 0 .. 4
        <4> QED
          BY <4>1, <4>2, <4>3, <1>4, CounterFollows DEF Stage1
      <3>2. CASE ~(age >= 1)
        <4>1. age = 0 /\ col = 0 /\ row = 0
          BY <1>2, <3>2
        <4>2. Empty1 /\ Counts(g_Col, g_Row, g_VCount, RawV(row), g_Col', g_Row')
          BY <1>1, <3>2 DEF IInv, Clocks
        <4> QED
          BY <4>1, <4>2, <1>4, FirstPosition DEF Empty1, Counts
      <3> QED
        BY <3>1, <3>2
    <2>2. g_HCount' = RawH(ColBack(col, 0)) /\ g_VCount' = RawV(RowBack(col, row, 0))
      BY <1>1, <1>4 DEF Clocks
    <2> QED
      BY <2>1, <2>2, <1>2, <1>3 DEF Stage1
  <1>7. IF age' >= 2 THEN Stage2' ELSE Empty2'
    <2>1. CASE age >= 1
      <3>1. Stage1 /\ age' >= 2
        BY <1>2, <2>1 DEF IInv
      <3>2. /\ g_HSync' = g_HCount /\ g_VSync' = g_VCount
            /\ IsColour(g_Video', g_Col, g_Row)
        BY <1>1 DEF Clocks
      <3>3. /\ g_HSync' = RawH(ColBack(col, 1)) /\ g_VSync' = RawV(RowBack(col, row, 1))
            /\ IsColour(g_Video', ColBack(col, 1), RowBack(col, row, 1))
        BY <3>1, <3>2 DEF Stage1
      <3>4. /\ g_HSync' = RawH(ColBack(col', 2)) /\ g_VSync' = RawV(RowBack(col', row', 2))
            /\ IsColour(g_Video', ColBack(col', 2), RowBack(col', row', 2))
        BY <3>3, <1>3
      <3> QED
        BY <3>1, <3>4 DEF Stage2, IsColour
    <2>2. CASE ~(age >= 1)
      <3>1. Empty1 /\ ~(age' >= 2)
        BY <1>2, <2>2 DEF IInv
      <3> QED
        BY <3>1, <1>1 DEF Empty1, Empty2, Clocks
    <2> QED
      BY <2>1, <2>2
  <1>8. IF age' >= 3 THEN Stage3' ELSE Empty3'
    <2>1. /\ p_HCount' = g_HSync /\ p_VCount' = g_VSync /\ r_Video' = g_Video
          /\ Counts(p_Col, p_Row, p_VCount, g_VSync, p_Col', p_Row')
      BY <1>1 DEF Clocks
    <2>2. CASE age >= 2
      <3>1. Stage2 /\ age' >= 3
        BY <1>2, <2>2 DEF IInv
      <3>2. p_Col' = ColBack(col, 2) /\ p_Row' = RowBack(col, row, 2)
        <4>1. CASE age >= 3
          <5>1. Stage3
            BY <4>1 DEF IInv
          <5>2. Follows(ColBack(col, 3), RowBack(col, row, 3), ColBack(col, 2), RowBack(col, row, 2))
            BY <1>2, BackFollows, 2 + 1 = 3, 2 \in 0 .. 3
          <5>3. ColBack(col, 3) \in 0 .. TOTAL_COLS - 1 /\ RowBack(col, row, 3) \in 0 .. TOTAL_ROWS - 1
            BY <1>2, BackRange, 3 \in 0 .. 4
          <5> QED
            BY <5>1, <5>2, <5>3, <3>1, <2>1, CounterFollows DEF Stage2, Stage3
        <4>2. CASE ~(age >= 3)
          <5>1. age = 2 /\ col = 2 /\ row = 0
            BY <1>2, <2>2, <4>2
          <5>2. Empty3
            BY <4>2 DEF IInv
          <5>3. ColBack(col, 2) = 0 /\ RowBack(col, row, 2) = 0
            BY <5>1, FirstPosition
          <5> QED
            BY <5>2, <5>3, <3>1, <2>1, FirstPosition DEF Stage2, Empty3, Counts
        <4> QED
          BY <4>1, <4>2
      <3>3. /\ p_Col' = ColBack(col', 3) /\ p_Row' = RowBack(col', row', 3)
            /\ p_HCount' = RawH(ColBack(col', 3)) /\ p_VCount' = RawV(RowBack(col', row', 3))
            /\ IsColour(r_Video', ColBack(col', 3), RowBack(col', row', 3))
        BY <3>1, <3>2, <2>1, <1>3 DEF Stage2
      <3> QED
        BY <3>1, <3>3 DEF Stage3, IsColour
    <2>3. CASE ~(age >= 2)
      <3>1. Empty2 /\ Empty3 /\ ~(age' >= 3) /\ age' = age + 1 /\ age \in {0, 1}
        BY <1>2, <2>3 DEF IInv
      <3> QED
        BY <3>1, <2>1, Sizes DEF Empty2, Empty3, Counts, Follows
    <2> QED
      BY <2>2, <2>3
  <1>9. IF age' >= 4 THEN Stage4' ELSE Empty4'
    <2>1. /\ o_Video' = r_Video
          /\ o_HSync' = (IF \/ p_Col < c_FRONT_PORCH_HORZ + ACTIVE_COLS
                            \/ p_Col > TOTAL_COLS - c_BACK_PORCH_HORZ - 1
                         THEN 1 ELSE p_HCount)
          /\ o_VSync' = (IF \/ p_Row < c_FRONT_PORCH_VERT + ACTIVE_ROWS
                            \/ p_Row > TOTAL_ROWS - c_BACK_PORCH_VERT - 1
                         THEN 1 ELSE p_VCount)
      BY <1>1 DEF Clocks
    <2>2. CASE age >= 3
      <3>1. Stage3 /\ age' >= 4
        BY <1>2, <2>2 DEF IInv
      <3>2. ColBack(col, 3) \in 0 .. TOTAL_COLS - 1 /\ RowBack(col, row, 3) \in 0 .. TOTAL_ROWS - 1
        BY <1>2, BackRange, 3 \in 0 .. 4
      <3>3. o_HSync' = PulseH(ColBack(col, 3)) /\ o_VSync' = PulseV(RowBack(col, row, 3))
        BY <3>1, <3>2, <2>1, PulsesOfPosition DEF Stage3
      <3>4. /\ o_HSync' = PulseH(ColBack(col', 4)) /\ o_VSync' = PulseV(RowBack(col', row', 4))
            /\ IsColour(o_Video', ColBack(col', 4), RowBack(col', row', 4))
        BY <3>1, <3>3, <2>1, <1>3 DEF Stage3
      <3> QED
        BY <3>1, <3>4 DEF Stage4, IsColour
    <2>3. CASE ~(age >= 3)
      <3>1. Empty3 /\ ~(age' >= 4) /\ age \in 0 .. 2
        BY <1>2, <2>3 DEF IInv
      <3> QED
        BY <3>1, <2>1, Sizes DEF Empty3, Empty4
    <2> QED
      BY <2>2, <2>3
  <1> QED
    BY <1>5, <1>6, <1>7, <1>8, <1>9 DEF IInv

\* Every stage of the pipeline is at the place behind the beam that it is
\* made for (VGA_Sync_Pulses.v:15-31, Sync_To_Count.v:19-57,
\* Test_Pattern_Gen.v:54-72, VGA_Sync_Porch.v:46-85).
THEOREM PipelineInvariant == Spec => []IInv
  <1>1. IInv /\ UNCHANGED vars => IInv'
    <2> SUFFICES ASSUME IInv, UNCHANGED vars PROVE IInv'
      OBVIOUS
    <2>1. /\ col' = col /\ row' = row /\ age' = age
          /\ g_HCount' = g_HCount /\ g_VCount' = g_VCount /\ g_Col' = g_Col /\ g_Row' = g_Row
          /\ g_HSync' = g_HSync /\ g_VSync' = g_VSync /\ g_Video' = g_Video
          /\ p_HCount' = p_HCount /\ p_VCount' = p_VCount /\ p_Col' = p_Col /\ p_Row' = p_Row
          /\ r_Video' = r_Video /\ o_HSync' = o_HSync /\ o_VSync' = o_VSync /\ o_Video' = o_Video
      BY DEF vars, Pulses!vars, Gen!vars, Gen!Counter!vars, Porch!vars, Porch!Counter!vars
    <2> QED
      BY <2>1 DEF IInv, Beam, Stage1, Stage2, Stage3, Stage4, Empty1, Empty2, Empty3, Empty4,
                  IsColour
  <1>2. IInv /\ [Next]_vars => IInv'
    BY <1>1, NextInv
  <1> QED
    BY InitInv, <1>2, PTL DEF Spec

-----------------------------------------------------------------------------
\* The remainder of a number that is at most one divisor below zero.
LEMMA Modulo ==
  ASSUME NEW n \in Nat, n >= 1, NEW x \in Int, -n <= x, x < n
  PROVE  x % n = IF x >= 0 THEN x ELSE x + n
  BY Z3

LEMMA PlugPosition ==
  ASSUME Beam
  PROVE  /\ PlugCol = ColBack(col, 4) /\ PlugRow = RowBack(col, row, 4)
         /\ ColBack(col, 4) \in 0 .. TOTAL_COLS - 1
         /\ RowBack(col, row, 4) \in 0 .. TOTAL_ROWS - 1
  <1>1. /\ col \in 0 .. TOTAL_COLS - 1 /\ row \in 0 .. TOTAL_ROWS - 1
        /\ TOTAL_COLS \in Nat /\ TOTAL_ROWS \in Nat /\ TOTAL_COLS >= 4 /\ TOTAL_ROWS >= 1
    BY Sizes DEF Beam
  <1>2. (col - 4) % TOTAL_COLS = IF col - 4 >= 0 THEN col - 4 ELSE col - 4 + TOTAL_COLS
    <2>1. col - 4 \in Int /\ -TOTAL_COLS <= col - 4 /\ col - 4 < TOTAL_COLS /\ TOTAL_COLS >= 1
      BY <1>1
    <2> QED
      BY <1>1, <2>1, Modulo, Zenon
  <1>3. (row - 1) % TOTAL_ROWS = IF row - 1 >= 0 THEN row - 1 ELSE row - 1 + TOTAL_ROWS
    <2>1. row - 1 \in Int /\ -TOTAL_ROWS <= row - 1 /\ row - 1 < TOTAL_ROWS
      BY <1>1
    <2> QED
      BY <1>1, <2>1, Modulo, Zenon
  <1>4. PlugCol = ColBack(col, 4)
    BY <1>1, <1>2 DEF PlugCol, Depth, ColBack
  <1>5. PlugRow = RowBack(col, row, 4)
    BY <1>1, <1>3 DEF PlugRow, Depth, RowBack
  <1> QED
    BY <1>1, <1>4, <1>5, BackRange, 4 \in 0 .. 4

\* The pulses on the plug stand between the porches of the pixel that is
\* there, from the first clock on (Sync_To_Count.v:27-57,
\* VGA_Sync_Porch.v:58-71).
THEOREM SyncsAreAligned == Spec => []SyncAligned
  <1>1. IInv => SyncAligned
    <2> SUFFICES ASSUME IInv, age > 0
                 PROVE  (o_HSync = 0 <=> InHPulse) /\ (o_VSync = 0 <=> InVPulse)
      BY DEF SyncAligned
    <2> DEFINE c == ColBack(col, 4)
               r == RowBack(col, row, 4)
    <2>1. PlugCol = c /\ PlugRow = r /\ c \in 0 .. TOTAL_COLS - 1 /\ r \in 0 .. TOTAL_ROWS - 1
      BY PlugPosition DEF IInv
    <2>2. (PulseH(c) = 0 <=> InHPulse) /\ (PulseV(r) = 0 <=> InVPulse)
      BY <2>1, Sizes DEF PulseH, PulseV, InHPulse, InVPulse
    <2>3. o_HSync = PulseH(c) /\ o_VSync = PulseV(r)
      <3>1. CASE age >= 4
        BY <3>1 DEF IInv, Stage4
      <3>2. CASE ~(age >= 4)
        <4>1. age \in 1 .. 3 /\ col = age /\ row = 0
          BY <3>2 DEF IInv, Beam
        <4>2. o_HSync = 1 /\ o_VSync = 1
          BY <3>2 DEF IInv, Empty4
        <4>3. PulseH(c) = 1 /\ PulseV(r) = 1
          BY <4>1, Sizes DEF PulseH, PulseV, ColBack, RowBack
        <4> QED
          BY <4>2, <4>3
      <3> QED
        BY <3>1, <3>2
    <2> QED
      BY <2>2, <2>3
  <1> QED
    BY PipelineInvariant, <1>1, PTL

\* The colour on the plug is one that some pattern has at the pixel that is
\* there (Test_Pattern_Gen.v:162-213, VGA_Sync_Porch.v:74-85).
THEOREM ColoursAreAligned == Spec => []ColoursAligned
  <1>1. IInv => ColoursAligned
    <2> SUFFICES ASSUME IInv, age = 4
                 PROVE  \E pattern \in 0..15 : o_Video = Gen!Colour(pattern, PlugCol, PlugRow)
      BY DEF ColoursAligned, Depth
    <2>1. IsColour(o_Video, ColBack(col, 4), RowBack(col, row, 4))
      BY DEF IInv, Stage4
    <2>2. PlugCol = ColBack(col, 4) /\ PlugRow = RowBack(col, row, 4)
      BY PlugPosition DEF IInv
    <2> QED
      BY <2>1, <2>2 DEF IsColour
  <1> QED
    BY PipelineInvariant, <1>1, PTL

-----------------------------------------------------------------------------
(***************************************************************************)
(* The boards.  A sync signal has a period of n clocks and is 0 in l of    *)
(* them, from position p on.  For the horizontal one the positions are the *)
(* columns, for the vertical one all places of the frame.                  *)
(***************************************************************************)
SignalAt(p, l, pos) == IF p <= pos /\ pos < p + l THEN 0 ELSE 1

\* For how long the signal has been at its level.
RunAt(n, p, l, pos) ==
  IF p <= pos /\ pos < p + l THEN pos - p + 1
  ELSE IF pos < p THEN pos + n - p - l + 1 ELSE pos - p - l + 1

PosBefore(n, pos) == IF pos = 0 THEN n - 1 ELSE pos - 1
PosAfter(n, pos) == IF pos = n - 1 THEN 0 ELSE pos + 1

\* The register shows the position before, and the monitor has measured its
\* level, or has not seen a pulse begin.  At power-up the register may be 0.
Timed(n, p, l, pos, signal, run) ==
  /\ run = 0 \/ run = RunAt(n, p, l, PosBefore(n, pos))
  /\ signal = SignalAt(p, l, PosBefore(n, pos)) \/ (pos = 0 /\ run = 0 /\ signal = 0)

Measured(run, now, next) ==
  IF run = 0 THEN (IF now = 1 /\ next = 0 THEN 1 ELSE 0)
  ELSE IF next = now THEN run + 1 ELSE 1

\* What Monitor!Edge asks of a signal that becomes next.
EdgeInTime(signal, next, run, low, period) ==
  next # signal /\ run # 0 => run = IF signal = 0 THEN low ELSE period - low

\* A clock keeps a signal in time.
LEMMA SignalStep ==
  ASSUME NEW n \in Nat, NEW p \in Nat, NEW l \in Nat, NEW pos \in Nat,
         NEW signal, NEW run,
         0 < p, 0 < l, p + l < n, pos < n,
         Timed(n, p, l, pos, signal, run)
  PROVE  /\ Timed(n, p, l, PosAfter(n, pos), SignalAt(p, l, pos),
                  Measured(run, signal, SignalAt(p, l, pos)))
         /\ EdgeInTime(signal, SignalAt(p, l, pos), run, l, n)
<1> DEFINE now == SignalAt(p, l, pos)
<1>1. PosBefore(n, PosAfter(n, pos)) = pos
  BY DEF PosBefore, PosAfter
<1>2. Measured(run, signal, now) = 0 \/ Measured(run, signal, now) = RunAt(n, p, l, pos)
  <2>1. CASE pos = 0
    <3>1. now = 1 /\ RunAt(n, p, l, pos) = n - p - l + 1
      BY <2>1 DEF SignalAt, RunAt
    <3>2. PosBefore(n, pos) = n - 1
      BY <2>1 DEF PosBefore
    <3>3. SignalAt(p, l, n - 1) = 1 /\ RunAt(n, p, l, n - 1) = n - p - l
      BY DEF SignalAt, RunAt
    <3> QED
      BY <3>1, <3>2, <3>3 DEF Timed, Measured
  <2>2. CASE pos # 0
    <3>1. PosBefore(n, pos) = pos - 1 /\ pos - 1 \in Nat
      BY <2>2 DEF PosBefore
    <3>2. run = 0 \/ run = RunAt(n, p, l, pos - 1)
      BY <3>1 DEF Timed
    <3>3. signal = SignalAt(p, l, pos - 1)
      BY <3>1, <2>2 DEF Timed
    <3>4. CASE run = 0
      BY <3>4, <3>3, <2>2 DEF Measured, SignalAt, RunAt
    <3>5. CASE run # 0
      BY <3>5, <3>2, <3>3, <2>2 DEF Measured, SignalAt, RunAt
    <3> QED
      BY <3>4, <3>5
  <2> QED
    BY <2>1, <2>2
<1>3. EdgeInTime(signal, now, run, l, n)
  <2>1. CASE pos = 0
    <3>1. now = 1
      BY <2>1 DEF SignalAt
    <3>2. PosBefore(n, pos) = n - 1 /\ SignalAt(p, l, n - 1) = 1
      BY <2>1 DEF PosBefore, SignalAt
    <3> QED
      BY <3>1, <3>2 DEF Timed, EdgeInTime
  <2>2. CASE pos # 0
    <3>1. PosBefore(n, pos) = pos - 1 /\ pos - 1 \in Nat
      BY <2>2 DEF PosBefore
    <3>2. run = 0 \/ run = RunAt(n, p, l, pos - 1)
      BY <3>1 DEF Timed
    <3>3. signal = SignalAt(p, l, pos - 1)
      BY <3>1, <2>2 DEF Timed
    <3> QED
      BY <3>2, <3>3, <2>2 DEF EdgeInTime, SignalAt, RunAt
  <2> QED
    BY <2>1, <2>2
<1> QED
  BY <1>1, <1>2, <1>3 DEF Timed

LEMMA Longer ==
  ASSUME NEW a \in Nat, NEW b \in Nat, NEW n \in Nat, a <= b
  PROVE  a * n <= b * n
<1> DEFINE d == b - a
<1>1. d \in Nat /\ b = a + d
  OBVIOUS
<1>2. d * n \in Nat
  BY <1>1
<1> HIDE DEF d
<1>3. (a + d) * n = a * n + d * n
  BY <1>1
<1>4. a * n \in Nat
  OBVIOUS
<1> QED
  BY <1>1, <1>2, <1>3, <1>4

-----------------------------------------------------------------------------
\* The beam's place in the frame.
Place == o_CountRow * COLS + o_CountCol

Screen == o_CountCol \in 0 .. COLS - 1 /\ o_CountRow \in 0 .. ROWS - 1

InTime(hp, vp, hsync, vsync, hrun, vrun) ==
  /\ Timed(COLS, hp, H_PULSE, o_CountCol, hsync, hrun)
  /\ Timed(ROWS * COLS, vp * COLS, V_PULSE * COLS, Place, vsync, vrun)

\* VGA_UART begins its pulses a column and a row before VGA_Switches does.
BoardsInv ==
  /\ Screen
  /\ InTime(VISIBLE_COLS + H_FRONT - 1, VISIBLE_ROWS + V_FRONT - 1,
            o_HSync_PG, o_VSync_PG, hRun, vRun)
  /\ InTime(VISIBLE_COLS + H_FRONT, VISIBLE_ROWS + V_FRONT,
            s_HSync, s_VSync, s_hRun, s_vRun)

LEMMA ScreenFacts ==
  /\ COLS \in Nat /\ ROWS \in Nat /\ COLS > 0 /\ ROWS > 0
  /\ VISIBLE_COLS \in Nat /\ VISIBLE_ROWS \in Nat /\ VISIBLE_COLS > 0 /\ VISIBLE_ROWS > 0
  /\ H_FRONT \in Nat /\ H_BACK \in Nat /\ V_FRONT \in Nat /\ V_BACK \in Nat
  /\ H_FRONT > 0 /\ H_BACK > 0 /\ V_FRONT > 0 /\ V_BACK > 0
  /\ VISIBLE_COLS + H_FRONT + H_BACK < COLS
  /\ VISIBLE_ROWS + V_FRONT + V_BACK < ROWS
  /\ H_PULSE \in Nat /\ H_PULSE > 0 /\ V_PULSE \in Nat /\ V_PULSE > 0
  /\ VISIBLE_COLS + H_FRONT + H_PULSE = COLS - H_BACK
  /\ VISIBLE_ROWS + V_FRONT + V_PULSE = ROWS - V_BACK
BY VgaScreenAssumption DEF H_PULSE, V_PULSE

\* Of two places the one in the earlier row is earlier.
LEMMA RowsInOrder ==
  ASSUME NEW n \in Nat, NEW r \in Nat, NEW k \in Nat, NEW c \in 0 .. n - 1
  PROVE  /\ r < k => r * n + c < k * n
         /\ k <= r => k * n <= r * n + c
<1>1. r * n \in Nat /\ k * n \in Nat /\ (r + 1) * n \in Nat
  OBVIOUS
<1>2. (r + 1) * n = r * n + n
  OBVIOUS
<1>3. ASSUME r < k PROVE (r + 1) * n <= k * n
  BY <1>3, Longer
<1>4. ASSUME k <= r PROVE k * n <= r * n
  BY <1>4, Longer
<1> QED
  BY <1>1, <1>2, <1>3, <1>4

\* The vertical signal as a signal over the places of the frame.
LEMMA FrameSignal ==
  ASSUME NEW n \in Nat, NEW k \in Nat, NEW l \in Nat, NEW r \in Nat, NEW c \in 0 .. n - 1,
         NEW p, p = k * n, NEW q, q = l * n, NEW pos, pos = r * n + c
  PROVE  SignalAt(p, q, pos) = SignalAt(k, l, r)
<1>1. p \in Nat /\ q \in Nat /\ r * n \in Nat /\ (k + l) * n = p + q
  OBVIOUS
<1>2. p <= pos <=> k <= r
  BY RowsInOrder, <1>1
<1>3. pos < p + q <=> r < k + l
  <2>1. k + l \in Nat /\ (k + l) * n \in Nat
    OBVIOUS
  <2>2. /\ r < k + l => r * n + c < (k + l) * n
        /\ k + l <= r => (k + l) * n <= r * n + c
    BY <2>1, RowsInOrder
  <2> QED
    BY <2>1, <2>2, <1>1
<1> QED
  BY <1>2, <1>3 DEF SignalAt

\* A clock takes the beam to the next place, and the place tells the column
\* and the row.
LEMMA BeamStep ==
  ASSUME Screen, U!Beam!Clock
  PROVE  /\ Screen'
         /\ o_CountCol' = PosAfter(COLS, o_CountCol)
         /\ Place' = PosAfter(ROWS * COLS, Place)
         /\ Place \in Nat /\ Place < ROWS * COLS
<1>1. /\ COLS \in Nat /\ COLS > 0 /\ ROWS \in Nat /\ ROWS > 0
      /\ o_CountCol \in 0 .. COLS - 1 /\ o_CountRow \in 0 .. ROWS - 1
  BY ScreenFacts DEF Screen
<1>2. \/ /\ o_CountCol # COLS - 1
         /\ o_CountCol' = o_CountCol + 1 /\ o_CountRow' = o_CountRow
      \/ /\ o_CountCol = COLS - 1 /\ o_CountCol' = 0
         /\ o_CountRow' = IF o_CountRow < ROWS - 1 THEN o_CountRow + 1 ELSE 0
  BY <1>1 DEF U!Beam!Clock, U!Beam!NextColumn, U!Beam!NextRow
<1>3. Screen' /\ o_CountCol' = PosAfter(COLS, o_CountCol)
  BY <1>1, <1>2 DEF Screen, PosAfter
<1>4. /\ o_CountRow * COLS \in Nat /\ ROWS * COLS \in Nat
      /\ (o_CountRow + 1) * COLS = o_CountRow * COLS + COLS
      /\ (ROWS - 1) * COLS + COLS = ROWS * COLS /\ 0 * COLS = 0
  BY <1>1
<1>5. o_CountRow * COLS + o_CountCol < ROWS * COLS
  BY <1>1, RowsInOrder
<1>6. o_CountRow < ROWS - 1 => o_CountRow * COLS + o_CountCol < (ROWS - 1) * COLS
  BY <1>1, RowsInOrder
<1> DEFINE start == o_CountRow * COLS
           whole == ROWS * COLS
<1>7. CASE o_CountCol # COLS - 1
  <2>1. o_CountCol' = o_CountCol + 1 /\ o_CountRow' = o_CountRow
    BY <1>2, <1>7
  <2>2. Place' = Place + 1
    BY <2>1, <1>1, <1>4 DEF Place
  <2>3. Place # ROWS * COLS - 1
    <3>1. o_CountRow * COLS <= (ROWS - 1) * COLS
      BY <1>1, Longer
    <3>2. (ROWS - 1) * COLS \in Nat
      BY <1>1
    <3> QED
      BY <3>1, <3>2, <1>1, <1>4, <1>7 DEF Place
  <2> QED
    BY <1>1, <1>3, <1>4, <1>5, <2>2, <2>3 DEF Place, PosAfter
<1>8. CASE o_CountCol = COLS - 1 /\ o_CountRow < ROWS - 1
  <2>1. o_CountCol' = 0 /\ o_CountRow' = o_CountRow + 1
    BY <1>2, <1>8, <1>1
  <2>2. Place' = Place + 1
    BY <2>1, <1>1, <1>4, <1>8 DEF Place
  <2>3. Place # ROWS * COLS - 1
    <3>1. (ROWS - 1) * COLS \in Nat
      BY <1>1
    <3> QED
      BY <3>1, <1>1, <1>4, <1>6, <1>8 DEF Place
  <2> QED
    BY <1>1, <1>3, <1>4, <1>5, <2>2, <2>3 DEF Place, PosAfter
<1>9. CASE o_CountCol = COLS - 1 /\ o_CountRow = ROWS - 1
  <2>1. o_CountCol' = 0 /\ o_CountRow' = 0
    BY <1>2, <1>9, <1>1
  <2>2. Place' = 0
    BY <2>1, <1>1, <1>4 DEF Place
  <2>3. Place = ROWS * COLS - 1
    BY <1>1, <1>4, <1>9 DEF Place
  <2> QED
    BY <1>1, <1>3, <1>4, <1>5, <2>2, <2>3 DEF Place, PosAfter
<1> QED
  BY <1>1, <1>7, <1>8, <1>9

\* What is the same for both pictures: signals that have just been set for
\* the beam's place are in time a clock later.
LEMMA PictureStep ==
  ASSUME NEW hp \in Nat, NEW vp \in Nat, 0 < hp, 0 < vp,
         hp + H_PULSE < COLS, vp + V_PULSE < ROWS,
         NEW hsync, NEW vsync, NEW hrun, NEW vrun,
         NEW hsync2, NEW vsync2, NEW hrun2, NEW vrun2,
         NEW x \in 0 .. COLS - 1, NEW y \in 0 .. ROWS - 1,
         Timed(COLS, hp, H_PULSE, x, hsync, hrun),
         Timed(ROWS * COLS, vp * COLS, V_PULSE * COLS, y * COLS + x, vsync, vrun),
         hsync2 = SignalAt(hp, H_PULSE, x), vsync2 = SignalAt(vp, V_PULSE, y),
         hrun2 = Measured(hrun, hsync, hsync2), vrun2 = Measured(vrun, vsync, vsync2)
  PROVE  /\ Timed(COLS, hp, H_PULSE, PosAfter(COLS, x), hsync2, hrun2)
         /\ Timed(ROWS * COLS, vp * COLS, V_PULSE * COLS,
                  PosAfter(ROWS * COLS, y * COLS + x), vsync2, vrun2)
         /\ EdgeInTime(hsync, hsync2, hrun, H_PULSE, COLS)
         /\ EdgeInTime(vsync, vsync2, vrun, V_PULSE * COLS, ROWS * COLS)
<1>1. COLS \in Nat /\ COLS > 0 /\ ROWS \in Nat /\ H_PULSE \in Nat /\ H_PULSE > 0
      /\ V_PULSE \in Nat /\ V_PULSE > 0
  BY ScreenFacts
<1>2. /\ Timed(COLS, hp, H_PULSE, PosAfter(COLS, x), hsync2, hrun2)
      /\ EdgeInTime(hsync, hsync2, hrun, H_PULSE, COLS)
  <2>1. x \in Nat /\ x < COLS
    BY <1>1
  <2> QED
    BY <1>1, <2>1, SignalStep
<1> DEFINE n == ROWS * COLS
           p == vp * COLS
           l == V_PULSE * COLS
           pos == y * COLS + x
<1>3. n \in Nat /\ p \in Nat /\ l \in Nat /\ pos \in Nat
  BY <1>1
<1>4. 0 < p /\ 0 < l
  <2>1. 1 * COLS <= vp * COLS /\ 1 * COLS <= V_PULSE * COLS
    BY <1>1, Longer
  <2> QED
    BY <2>1, <1>1, <1>3
<1>5. p + l < n
  <2>1. (vp + V_PULSE + 1) * COLS <= ROWS * COLS
    BY <1>1, Longer
  <2>2. (vp + V_PULSE + 1) * COLS = vp * COLS + V_PULSE * COLS + COLS
    BY <1>1
  <2> QED
    BY <2>1, <2>2, <1>1, <1>3
<1>6. pos < n
  BY <1>1, RowsInOrder
<1>7. vsync2 = SignalAt(p, l, pos)
  <2>1. y \in Nat /\ COLS \in Nat /\ V_PULSE \in Nat
    BY <1>1
  <2>2. p = vp * COLS /\ l = V_PULSE * COLS /\ pos = y * COLS + x
    OBVIOUS
  <2> HIDE DEF p, l, pos
  <2>3. SignalAt(p, l, pos) = SignalAt(vp, V_PULSE, y)
    BY <2>1, <2>2, FrameSignal
  <2> QED
    BY <2>3
<1>8. Timed(n, p, l, pos, vsync, vrun) /\ vrun2 = Measured(vrun, vsync, SignalAt(p, l, pos))
  BY <1>7
<1> HIDE DEF n, p, l, pos
<1>9. /\ Timed(n, p, l, PosAfter(n, pos), vsync2, vrun2)
      /\ EdgeInTime(vsync, vsync2, vrun, l, n)
  BY <1>3, <1>4, <1>5, <1>6, <1>7, <1>8, SignalStep
<1> QED
  BY <1>2, <1>9 DEF n, p, l, pos

LEMMA BoardsStep ==
  ASSUME BoardsInv, BoardsNext
  PROVE  /\ BoardsInv'
         /\ EdgeInTime(o_HSync_PG, o_HSync_PG', hRun, H_PULSE, COLS)
         /\ EdgeInTime(o_VSync_PG, o_VSync_PG', vRun, V_PULSE * COLS, ROWS * COLS)
         /\ EdgeInTime(s_HSync, s_HSync', s_hRun, H_PULSE, COLS)
         /\ EdgeInTime(s_VSync, s_VSync', s_vRun, V_PULSE * COLS, ROWS * COLS)
         /\ s_HSync' = SignalAt(VISIBLE_COLS + H_FRONT, H_PULSE, o_CountCol)
         /\ s_VSync' = SignalAt(VISIBLE_ROWS + V_FRONT, V_PULSE, o_CountRow)
<1> DEFINE uh == VISIBLE_COLS + H_FRONT - 1
           uv == VISIBLE_ROWS + V_FRONT - 1
           sh == VISIBLE_COLS + H_FRONT
           sv == VISIBLE_ROWS + V_FRONT
<1>1. /\ Screen /\ U!Beam!Clock
      /\ InTime(uh, uv, o_HSync_PG, o_VSync_PG, hRun, vRun)
      /\ InTime(sh, sv, s_HSync, s_VSync, s_hRun, s_vRun)
  BY DEF BoardsInv, BoardsNext, U!Next
<1>2. /\ o_CountCol \in 0 .. COLS - 1 /\ o_CountRow \in 0 .. ROWS - 1
      /\ uh \in Nat /\ uv \in Nat /\ sh \in Nat /\ sv \in Nat
      /\ 0 < uh /\ 0 < uv /\ 0 < sh /\ 0 < sv
      /\ uh + H_PULSE < COLS /\ uv + V_PULSE < ROWS
      /\ sh + H_PULSE < COLS /\ sv + V_PULSE < ROWS
  BY <1>1, ScreenFacts DEF Screen
<1>3. /\ Screen' /\ o_CountCol' = PosAfter(COLS, o_CountCol)
      /\ Place' = PosAfter(ROWS * COLS, o_CountRow * COLS + o_CountCol)
  BY <1>1, BeamStep DEF Place
<1>4. /\ o_HSync_PG' = U!H_Sync /\ o_VSync_PG' = U!V_Sync
      /\ hRun' = Measured(hRun, o_HSync_PG, o_HSync_PG')
      /\ vRun' = Measured(vRun, o_VSync_PG, o_VSync_PG')
  BY DEF BoardsNext, U!Next, U!Pattern, U!Monitor!Clock, U!Monitor!Measure, Measured
<1>5. /\ s_HSync' = S!H_Sync /\ s_VSync' = S!V_Sync
      /\ s_hRun' = Measured(s_hRun, s_HSync, s_HSync')
      /\ s_vRun' = Measured(s_vRun, s_VSync, s_VSync')
  BY DEF BoardsNext, S!Next, S!Monitor!Clock, S!Monitor!Measure, Measured
<1>6. /\ U!H_Sync = SignalAt(uh, H_PULSE, o_CountCol)
      /\ U!V_Sync = SignalAt(uv, V_PULSE, o_CountRow)
  BY <1>2, ScreenFacts DEF U!H_Sync, U!V_Sync, SignalAt
<1>7. /\ S!H_Sync = SignalAt(sh, H_PULSE, o_CountCol)
      /\ S!V_Sync = SignalAt(sv, V_PULSE, o_CountRow)
  BY <1>2, ScreenFacts DEF S!H_Sync, S!V_Sync, S!Beam!HSync, S!Beam!VSync, SignalAt
<1> HIDE DEF uh, uv, sh, sv
<1>8. /\ InTime(uh, uv, o_HSync_PG, o_VSync_PG, hRun, vRun)'
      /\ EdgeInTime(o_HSync_PG, o_HSync_PG', hRun, H_PULSE, COLS)
      /\ EdgeInTime(o_VSync_PG, o_VSync_PG', vRun, V_PULSE * COLS, ROWS * COLS)
  <2>1. /\ Timed(COLS, uh, H_PULSE, o_CountCol, o_HSync_PG, hRun)
        /\ Timed(ROWS * COLS, uv * COLS, V_PULSE * COLS, o_CountRow * COLS + o_CountCol,
                 o_VSync_PG, vRun)
    BY <1>1 DEF InTime, Place
  <2>2. /\ Timed(COLS, uh, H_PULSE, PosAfter(COLS, o_CountCol), o_HSync_PG', hRun')
        /\ Timed(ROWS * COLS, uv * COLS, V_PULSE * COLS,
                 PosAfter(ROWS * COLS, o_CountRow * COLS + o_CountCol), o_VSync_PG', vRun')
        /\ EdgeInTime(o_HSync_PG, o_HSync_PG', hRun, H_PULSE, COLS)
        /\ EdgeInTime(o_VSync_PG, o_VSync_PG', vRun, V_PULSE * COLS, ROWS * COLS)
    <3>1. /\ o_HSync_PG' = SignalAt(uh, H_PULSE, o_CountCol)
          /\ o_VSync_PG' = SignalAt(uv, V_PULSE, o_CountRow)
      BY <1>4, <1>6
    <3>2. /\ hRun' = Measured(hRun, o_HSync_PG, o_HSync_PG')
          /\ vRun' = Measured(vRun, o_VSync_PG, o_VSync_PG')
      BY <1>4
    <3> QED
      BY <3>1, <3>2, <2>1, <1>2, PictureStep
  <2> QED
    BY <2>2, <1>3 DEF InTime, uh, uv
<1>9. /\ InTime(sh, sv, s_HSync, s_VSync, s_hRun, s_vRun)'
      /\ EdgeInTime(s_HSync, s_HSync', s_hRun, H_PULSE, COLS)
      /\ EdgeInTime(s_VSync, s_VSync', s_vRun, V_PULSE * COLS, ROWS * COLS)
  <2>1. /\ Timed(COLS, sh, H_PULSE, o_CountCol, s_HSync, s_hRun)
        /\ Timed(ROWS * COLS, sv * COLS, V_PULSE * COLS, o_CountRow * COLS + o_CountCol,
                 s_VSync, s_vRun)
    BY <1>1 DEF InTime, Place
  <2>2. /\ Timed(COLS, sh, H_PULSE, PosAfter(COLS, o_CountCol), s_HSync', s_hRun')
        /\ Timed(ROWS * COLS, sv * COLS, V_PULSE * COLS,
                 PosAfter(ROWS * COLS, o_CountRow * COLS + o_CountCol), s_VSync', s_vRun')
        /\ EdgeInTime(s_HSync, s_HSync', s_hRun, H_PULSE, COLS)
        /\ EdgeInTime(s_VSync, s_VSync', s_vRun, V_PULSE * COLS, ROWS * COLS)
    <3>1. /\ s_HSync' = SignalAt(sh, H_PULSE, o_CountCol)
          /\ s_VSync' = SignalAt(sv, V_PULSE, o_CountRow)
      BY <1>5, <1>7
    <3>2. /\ s_hRun' = Measured(s_hRun, s_HSync, s_HSync')
          /\ s_vRun' = Measured(s_vRun, s_VSync, s_VSync')
      BY <1>5
    <3> QED
      BY <3>1, <3>2, <2>1, <1>2, PictureStep
  <2> QED
    BY <2>2, <1>3 DEF InTime, sh, sv
<1>10. BoardsInv'
  BY <1>3, <1>8, <1>9 DEF BoardsInv, uh, uv, sh, sv
<1>11. /\ s_HSync' = SignalAt(sh, H_PULSE, o_CountCol)
       /\ s_VSync' = SignalAt(sv, V_PULSE, o_CountRow)
  BY <1>5, <1>7
<1> QED
  BY <1>8, <1>9, <1>10, <1>11 DEF sh, sv

-----------------------------------------------------------------------------
\* Both pictures are in time with the beam in every state.
THEOREM BoardsInvariant == BoardsSpec => []BoardsInv
<1>1. BoardsInit => BoardsInv
  <2> SUFFICES ASSUME BoardsInit PROVE BoardsInv
    OBVIOUS
  <2>1. /\ o_CountCol = 0 /\ o_CountRow = 0
        /\ o_HSync_PG = 1 /\ o_VSync_PG = 1 /\ hRun = 0 /\ vRun = 0
        /\ s_HSync = 0 /\ s_VSync = 0 /\ s_hRun = 0 /\ s_vRun = 0
    BY DEF BoardsInit, U!Init, U!Beam!Init, U!Monitor!Init, S!Init, S!Monitor!Init
  <2>2. Screen /\ Place = 0
    BY <2>1, ScreenFacts DEF Screen, Place
  <2>3. SignalAt(VISIBLE_COLS + H_FRONT - 1, H_PULSE, PosBefore(COLS, 0)) = 1
    BY ScreenFacts DEF SignalAt, PosBefore
  <2>4. SignalAt((VISIBLE_ROWS + V_FRONT - 1) * COLS, V_PULSE * COLS,
                 PosBefore(ROWS * COLS, 0)) = 1
    <3> DEFINE k == VISIBLE_ROWS + V_FRONT - 1
    <3>1. k \in Nat /\ k + V_PULSE <= ROWS - 1
      BY ScreenFacts
    <3> HIDE DEF k
    <3>2. (k + V_PULSE) * COLS <= (ROWS - 1) * COLS
      BY <3>1, ScreenFacts, Longer
    <3>3. /\ (k + V_PULSE) * COLS = k * COLS + V_PULSE * COLS
          /\ (ROWS - 1) * COLS = ROWS * COLS - COLS
          /\ k * COLS \in Nat /\ V_PULSE * COLS \in Nat /\ ROWS * COLS \in Nat
      BY <3>1, ScreenFacts
    <3>4. k * COLS + V_PULSE * COLS <= ROWS * COLS - 1
      BY <3>2, <3>3, ScreenFacts
    <3> QED
      BY <3>3, <3>4 DEF PosBefore, SignalAt, k
  <2>5. InTime(VISIBLE_COLS + H_FRONT - 1, VISIBLE_ROWS + V_FRONT - 1,
               o_HSync_PG, o_VSync_PG, hRun, vRun)
    BY <2>1, <2>2, <2>3, <2>4 DEF InTime, Timed
  <2>6. InTime(VISIBLE_COLS + H_FRONT, VISIBLE_ROWS + V_FRONT,
               s_HSync, s_VSync, s_hRun, s_vRun)
    BY <2>1, <2>2 DEF InTime, Timed
  <2> QED
    BY <2>2, <2>5, <2>6 DEF BoardsInv
<1>2. BoardsInv /\ [BoardsNext]_boardVars => BoardsInv'
  <2> SUFFICES ASSUME BoardsInv, [BoardsNext]_boardVars PROVE BoardsInv'
    OBVIOUS
  <2>1. CASE BoardsNext
    BY <2>1, BoardsStep
  <2>2. CASE UNCHANGED boardVars
    BY <2>2 DEF boardVars, U!vars, U!Beam!vars, U!Monitor!vars, S!vars, S!Beam!vars,
                S!Monitor!vars, BoardsInv, Screen, InTime, Place
  <2> QED
    BY <2>1, <2>2
<1> QED
  BY <1>1, <1>2, PTL DEF BoardsSpec

\* The monitor on either plug sees sync pulses of the right length at the
\* right distance, for every screen (Sync_Porch.v:3-5).
THEOREM PulsesInTime == BoardsSpec => BoardsInTime
<1>1. BoardsInv /\ [BoardsNext]_boardVars =>
        [/\ U!Monitor!Edge(o_HSync_PG, hRun, U!H_PULSE, COLS)
         /\ U!Monitor!Edge(o_VSync_PG, vRun, U!V_PULSE * COLS, ROWS * COLS)]_(U!vars)
  <2> SUFFICES ASSUME BoardsInv, BoardsNext
               PROVE  /\ U!Monitor!Edge(o_HSync_PG, hRun, U!H_PULSE, COLS)
                      /\ U!Monitor!Edge(o_VSync_PG, vRun, U!V_PULSE * COLS, ROWS * COLS)
    BY DEF boardVars
  <2> QED
    BY BoardsStep DEF EdgeInTime, U!Monitor!Edge, U!H_PULSE, U!V_PULSE, H_PULSE, V_PULSE
<1>2. BoardsInv /\ [BoardsNext]_boardVars =>
        [/\ S!Monitor!Edge(s_HSync, s_hRun, S!H_PULSE, COLS)
         /\ S!Monitor!Edge(s_VSync, s_vRun, S!V_PULSE * COLS, ROWS * COLS)]_(S!vars)
  <2> SUFFICES ASSUME BoardsInv, BoardsNext
               PROVE  /\ S!Monitor!Edge(s_HSync, s_hRun, S!H_PULSE, COLS)
                      /\ S!Monitor!Edge(s_VSync, s_vRun, S!V_PULSE * COLS, ROWS * COLS)
    BY DEF boardVars
  <2> QED
    BY BoardsStep DEF EdgeInTime, S!Monitor!Edge, S!H_PULSE, S!V_PULSE, H_PULSE, V_PULSE
<1> QED
  BY <1>1, <1>2, BoardsInvariant, PTL
     DEF BoardsSpec, BoardsInTime, U!SyncTiming, S!SyncTiming

\* Each pulse of VGA_Switches stands between the porches of its comment, for
\* every screen (VGA_Switches/Sync_Porch.v:4-5, 18-19).
THEOREM PulsesBetweenPorches == BoardsSpec => SwitchPorches
<1>1. BoardsInv /\ [BoardsNext]_boardVars =>
        [(s_HSync' = 0 <=> S!InHPulse') /\ (s_VSync' = 0 <=> S!InVPulse')]_(S!vars)
  <2> SUFFICES ASSUME BoardsInv, BoardsNext
               PROVE  (s_HSync' = 0 <=> S!InHPulse') /\ (s_VSync' = 0 <=> S!InVPulse')
    BY DEF boardVars
  <2>1. /\ s_HSync' = SignalAt(VISIBLE_COLS + H_FRONT, H_PULSE, o_CountCol)
        /\ s_VSync' = SignalAt(VISIBLE_ROWS + V_FRONT, V_PULSE, o_CountRow)
    BY BoardsStep
  <2>2. /\ o_CountCol \in 0 .. COLS - 1 /\ o_CountRow \in 0 .. ROWS - 1
        /\ U!Beam!Clock
    BY DEF BoardsInv, Screen, BoardsNext, U!Next
  <2>3. S!ShownCol' = o_CountCol /\ S!ShownRow' = o_CountRow
    BY <2>2, ScreenFacts
       DEF S!ShownCol, S!ShownRow, U!Beam!Clock, U!Beam!NextColumn, U!Beam!NextRow
  <2> QED
    BY <2>1, <2>2, <2>3, ScreenFacts DEF S!InHPulse, S!InVPulse, S!H_PULSE, S!V_PULSE, SignalAt
<1> QED
  BY <1>1, BoardsInvariant, PTL DEF BoardsSpec, SwitchPorches, S!Porches

\* Colour of VGA_Switches in a sync pulse is one held since an earlier pixel
\* (VGA_Switches/Pattern_Generator.v:17-32).
THEOREM OnlyHeldColours == BoardsSpec => OnlyHeldInPulses
<1>1. [BoardsNext]_boardVars =>
        [s_lit' # {} /\ (s_HSync' = 0 \/ s_VSync' = 0) => on = {} /\ s_lit' = s_lit]_(S!vars)
  <2> SUFFICES ASSUME BoardsNext, s_lit' # {}, s_HSync' = 0 \/ s_VSync' = 0
               PROVE  on = {} /\ s_lit' = s_lit
    BY DEF boardVars
  <2>1. s_HSync' = S!H_Sync /\ s_VSync' = S!V_Sync /\ S!Paint
    BY DEF BoardsNext, S!Next
  <2>2. \A colour : S!Painted(colour) = {}
    BY <2>1 DEF S!Painted
  <2> QED
    BY <2>1, <2>2 DEF S!Paint
<1> QED
  BY <1>1, PTL DEF BoardsSpec, OnlyHeldInPulses, S!OnlyHeldInPulses
=============================================================================
