---------------------------- MODULE VgaPipeline -----------------------------
(***************************************************************************)
(* The reference design of REFERENCE_FILES/nandland VGa/: VGA_Sync_Pulses  *)
(* drives Test_Pattern_Gen (testbench.v:24-51), whose outputs go through   *)
(* VGA_Sync_Porch.  Each of the last two registers its inputs twice and    *)
(* rebuilds the position for itself, so that a pixel leaves the pipeline   *)
(* four clocks after the beam was there.  The pattern may be changed at    *)
(* any clock.                                                              *)
(***************************************************************************)
EXTENDS Integers

CONSTANTS
  TOTAL_COLS, TOTAL_ROWS, ACTIVE_COLS, ACTIVE_ROWS, SQUARE,
  c_FRONT_PORCH_HORZ, c_BACK_PORCH_HORZ, c_FRONT_PORCH_VERT, c_BACK_PORCH_VERT

\* The area holds a pulse between the porches in both directions, and the
\* back porch is as long as the pipeline at least.  The second counter is at
\* column 2 before it is put right for the first time, which must be left of
\* the pulse.
ASSUME VgaPipelineAssumption ==
  /\ {TOTAL_COLS, TOTAL_ROWS, c_BACK_PORCH_HORZ} \subseteq Nat
  /\ {ACTIVE_COLS, ACTIVE_ROWS, SQUARE} \subseteq Nat \ {0}
  /\ {c_FRONT_PORCH_HORZ, c_FRONT_PORCH_VERT, c_BACK_PORCH_VERT} \subseteq Nat \ {0}
  /\ c_BACK_PORCH_HORZ >= 4
  /\ ACTIVE_COLS + c_FRONT_PORCH_HORZ >= 3
  /\ ACTIVE_COLS + c_FRONT_PORCH_HORZ + c_BACK_PORCH_HORZ < TOTAL_COLS
  /\ ACTIVE_ROWS + c_FRONT_PORCH_VERT + c_BACK_PORCH_VERT < TOTAL_ROWS

VARIABLES
  col, row,                             \* VGA_Sync_Pulses
  g_HCount, g_VCount, g_Col, g_Row,     \* the Sync_To_Count of Test_Pattern_Gen
  g_HSync, g_VSync, g_Video,            \* Test_Pattern_Gen
  p_HCount, p_VCount, p_Col, p_Row,     \* the Sync_To_Count of VGA_Sync_Porch
  r_Video, o_HSync, o_VSync, o_Video,   \* VGA_Sync_Porch
  age                                   \* history: clocks since power-up, up to Depth

Pulses == INSTANCE VgaSyncPulses WITH o_Col_Count <- col, o_Row_Count <- row

Gen == INSTANCE TestPatternGen WITH
         w_HSync <- g_HCount, w_VSync <- g_VCount,
         w_Col_Count <- g_Col, w_Row_Count <- g_Row,
         o_HSync <- g_HSync, o_VSync <- g_VSync, o_Video <- g_Video

Porch == INSTANCE VgaSyncPorch WITH
           w_HSync <- p_HCount, w_VSync <- p_VCount,
           w_Col_Count <- p_Col, w_Row_Count <- p_Row

vars == <<Pulses!vars, Gen!vars, Porch!vars, age>>

\* Clocks from the beam to the plug.
Depth == 4

Init == Pulses!Init /\ Gen!Init /\ Porch!Init /\ age = 0

Next ==
  /\ Pulses!Clock
  /\ \E i_Pattern \in 0..15 : Gen!Clock(Pulses!HSync, Pulses!VSync, i_Pattern)
  /\ Porch!Clock(g_HSync, g_VSync, g_Video)
  /\ age' = IF age < Depth THEN age + 1 ELSE age

Spec == Init /\ [][Next]_vars

-----------------------------------------------------------------------------
\* Where the beam was four clocks ago: the pixel on the plug.
PlugCol == (col - Depth) % TOTAL_COLS
PlugRow == IF col >= Depth THEN row ELSE (row - 1) % TOTAL_ROWS

InHPulse ==
  PlugCol \in ACTIVE_COLS + c_FRONT_PORCH_HORZ .. TOTAL_COLS - c_BACK_PORCH_HORZ - 1
InVPulse ==
  PlugRow \in ACTIVE_ROWS + c_FRONT_PORCH_VERT .. TOTAL_ROWS - c_BACK_PORCH_VERT - 1

\* The pulses on the plug stand between the porches of the pixel that is
\* there, from the first clock on: neither counter is ever out of step with
\* the beam where it would show, although the second one starts at the wrong
\* position and is put right by the first rising edge it sees
\* (Sync_To_Count.v:27-57, VGA_Sync_Porch.v:58-71).
SyncAligned ==
  age > 0 => (o_HSync = 0 <=> InHPulse) /\ (o_VSync = 0 <=> InVPulse)

\* "Align input video to modified Sync pulses.  Adds in 2 Clock Cycles of
\* Delay" (VGA_Sync_Porch.v:74-75): the colour on the plug is one that some
\* pattern has at the pixel that is there.
ColoursAligned ==
  age = Depth => \E pattern \in 0..15 : o_Video = Gen!Colour(pattern, PlugCol, PlugRow)
=============================================================================
