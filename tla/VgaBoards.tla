----------------------------- MODULE VgaBoards -----------------------------
(***************************************************************************)
(* The two pictures side by side.  Sync_Pulse.v is the same file in both   *)
(* projects, so one beam serves them: the picture of the serial byte       *)
(* (VgaUart) and the picture of the switches (VgaSwitches, whose           *)
(* registers are s_...), each with its own Sync_Porch and monitor.         *)
(***************************************************************************)
EXTENDS VgaScreen

VARIABLES
  o_CountCol, o_CountRow,                    \* the beam
  o_HSync_PG, o_VSync_PG, lit, hRun, vRun,   \* VgaUart
  on, s_HSync, s_VSync, s_lit, s_hRun, s_vRun

U == INSTANCE VgaUart

S == INSTANCE VgaSwitches
  WITH o_HSync_PG <- s_HSync, o_VSync_PG <- s_VSync, lit <- s_lit,
       hRun <- s_hRun, vRun <- s_vRun

boardVars == <<U!vars, S!vars>>

BoardsInit == U!Init /\ S!Init

BoardsNext == U!Next /\ S!Next

BoardsSpec == BoardsInit /\ [][BoardsNext]_boardVars

-----------------------------------------------------------------------------
\* The monitor on either plug sees sync pulses of the length and at the
\* distance of the comment: "Whole area -> 800x525", pulses of 92 columns and
\* 2 rows (Sync_Porch.v:3-5), although VGA_Switches begins with a false one.
BoardsInTime == U!SyncTiming /\ S!SyncTiming

\* Each pulse of VGA_Switches stands between the porches of the comment
\* (VGA_Switches/Sync_Porch.v:4-5, 18-19).
SwitchPorches == S!Porches

\* Each vertical pulse of VGA_UART stands between the porches of the comment:
\* "Vsync -> front: 10, back: 33, pulse: 2" (VGA_UART/Sync_Porch.v:5, 19).
\* The code has it a row early, so this does not hold.
UartPorches == [][o_VSync_PG' = 0 <=> S!InVPulse']_boardVars

\* Colour of VGA_Switches in a sync pulse is one held since an earlier pixel
\* (VGA_Switches/Pattern_Generator.v:17-32).
OnlyHeldInPulses == S!OnlyHeldInPulses
=============================================================================
