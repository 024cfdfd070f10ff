--------------------------- MODULE TestPatternGen ---------------------------
(***************************************************************************)
(* Module Test_Pattern_Gen of                                              *)
(* REFERENCE_FILES/nandland VGa/Test_Pattern_Gen.v: it rebuilds the        *)
(* position with a Sync_To_Count of its own, and registers the colour that *)
(* pattern i_Pattern has there together with the sync signals.             *)
(***************************************************************************)
EXTENDS Naturals, FiniteSets

CONSTANTS
  TOTAL_COLS, TOTAL_ROWS, ACTIVE_COLS, ACTIVE_ROWS,
  SQUARE  \* side of a square of the checkerboard: 32, bit 5 of a counter

VARIABLES
  w_HSync, w_VSync, w_Col_Count, w_Row_Count,  \* the Sync_To_Count inside
  o_HSync, o_VSync,
  o_Video  \* which of the registers Red, Grn, Blu are all ones

Counter == INSTANCE SyncToCount WITH
             o_HSync <- w_HSync, o_VSync <- w_VSync,
             o_Col_Count <- w_Col_Count, o_Row_Count <- w_Row_Count

vars == <<Counter!vars, o_HSync, o_VSync, o_Video>>

White == {"Red", "Grn", "Blu"}

\* The colour registers have no initial value.
Init ==
  /\ Counter!Init
  /\ o_HSync = 0 /\ o_VSync = 0
  /\ o_Video \in SUBSET White

-----------------------------------------------------------------------------
Active(col, row) == col < ACTIVE_COLS /\ row < ACTIVE_ROWS

Checkered(col, row) == (col \div SQUARE) % 2 # (row \div SQUARE) % 2

\* w_Bar_Width has 7 bits; the last bar goes on to the end of the line.
Bar(col) ==
  LET width == (ACTIVE_COLS \div 8) % 128
  IN  Cardinality({n \in 1..7 : col >= n * width})

\* w_Bar_Select in binary, as red, green and blue.
BarColour(select) ==
  (IF select >= 4 THEN {"Red"} ELSE {}) \cup
  (IF select % 4 >= 2 THEN {"Grn"} ELSE {}) \cup
  (IF select % 2 = 1 THEN {"Blu"} ELSE {})

Border(col, row) ==
  row <= 1 \/ row >= ACTIVE_ROWS - 2 \/ col <= 1 \/ col >= ACTIVE_COLS - 2

\* The colour of a pattern at a position.  Patterns 4 to 6 have one outside
\* the active area as well.
Colour(pattern, col, row) ==
  CASE pattern = 1 /\ Active(col, row) -> {"Red"}
    [] pattern = 2 /\ Active(col, row) -> {"Grn"}
    [] pattern = 3 /\ Active(col, row) -> {"Blu"}
    [] pattern = 4 /\ Checkered(col, row) -> White
    [] pattern = 5 -> BarColour(Bar(col))
    [] pattern = 6 /\ Border(col, row) -> White
    [] OTHER -> {}

Clock(i_HSync, i_VSync, i_Pattern) ==
  /\ Counter!Clock(i_HSync, i_VSync)
  /\ o_HSync' = w_HSync /\ o_VSync' = w_VSync
  /\ o_Video' = Colour(i_Pattern, w_Col_Count, w_Row_Count)
=============================================================================
