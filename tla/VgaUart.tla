------------------------------ MODULE VgaUart -------------------------------
(***************************************************************************)
(* The picture of VGA_UART/top_VGA.v: Sync_Pulse, Sync_Porch and           *)
(* Pattern_Generator, which fills the screen with the colour the received  *)
(* byte names.  The byte comes from the serial side and may change at any  *)
(* clock.                                                                  *)
(***************************************************************************)
EXTENDS VgaScreen

VARIABLES
  o_CountCol, o_CountRow,
  o_HSync_PG, o_VSync_PG,  \* the sync signals, registered with the colours
  lit,                     \* which of the registers Red, Green, Blue are 3'b111
  hRun, vRun               \* the monitor

Beam == INSTANCE SyncPulse
Monitor == INSTANCE VgaMonitor WITH hs <- o_HSync_PG, vs <- o_VSync_PG

vars == <<Beam!vars, o_HSync_PG, o_VSync_PG, lit, Monitor!vars>>

\* What the pattern generator tells apart of i_Byte: 8'h31, 8'h32, 8'h33.
Key == {"1", "2", "3", "other"}

Colour(byte) ==
  CASE byte = "1" -> {"Red"}
    [] byte = "2" -> {"Green"}
    [] byte = "3" -> {"Blue"}
    [] byte = "other" -> {}

Init ==
  /\ Beam!Init
  /\ o_HSync_PG = 1 /\ o_VSync_PG = 1
  /\ lit = {}
  /\ Monitor!Init

-----------------------------------------------------------------------------
\* Fault: the end of the pulse is where VGA_Switches/Sync_Porch.v has it.
H_Sync_Long ==
  IF o_CountCol < VISIBLE_COLS + H_FRONT - 1 \/ o_CountCol > COLS - H_BACK - 1
  THEN 1 ELSE 0

\* Sync_Porch: a pulse of 0 between the porches.
H_Sync ==
  IF o_CountCol < VISIBLE_COLS + H_FRONT - 1 \/ o_CountCol > COLS - H_BACK - 2
  THEN 1 ELSE 0

V_Sync ==
  IF o_CountRow < VISIBLE_ROWS + V_FRONT - 1 \/ o_CountRow > ROWS - V_BACK - 2
  THEN 1 ELSE 0

Painted(byte) == IF H_Sync = 1 /\ V_Sync = 1 THEN Colour(byte) ELSE {}

Pattern(byte) ==
  /\ o_HSync_PG' = H_Sync
  /\ o_VSync_PG' = V_Sync
  /\ lit' = Painted(byte)

Next == Beam!Clock /\ (\E byte \in Key : Pattern(byte)) /\ Monitor!Clock

Spec == Init /\ [][Next]_vars

-----------------------------------------------------------------------------
\* The monitor sees sync pulses of the right length at the right distance
\* (Sync_Porch.v:3-5).
SyncTiming ==
  [][/\ Monitor!Edge(o_HSync_PG, hRun, H_PULSE, COLS)
     /\ Monitor!Edge(o_VSync_PG, vRun, V_PULSE * COLS, ROWS * COLS)]_vars
=============================================================================
