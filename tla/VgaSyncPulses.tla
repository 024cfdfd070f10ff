--------------------------- MODULE VgaSyncPulses ----------------------------
(***************************************************************************)
(* Module VGA_Sync_Pulses of                                               *)
(* REFERENCE_FILES/nandland VGa/VGA_Sync_Pulses.v: the beam, and the raw   *)
(* sync signals that are 1 over the active area.                           *)
(***************************************************************************)
EXTENDS Naturals

CONSTANTS TOTAL_COLS, TOTAL_ROWS, ACTIVE_COLS, ACTIVE_ROWS

VARIABLES o_Col_Count, o_Row_Count

vars == <<o_Col_Count, o_Row_Count>>

Init == o_Col_Count = 0 /\ o_Row_Count = 0

-----------------------------------------------------------------------------
HSync == IF o_Col_Count < ACTIVE_COLS THEN 1 ELSE 0
VSync == IF o_Row_Count < ACTIVE_ROWS THEN 1 ELSE 0

NextRow == IF o_Row_Count = TOTAL_ROWS - 1 THEN 0 ELSE o_Row_Count + 1

Clock ==
  \/ /\ o_Col_Count = TOTAL_COLS - 1
     /\ o_Col_Count' = 0 /\ o_Row_Count' = NextRow
  \/ /\ o_Col_Count # TOTAL_COLS - 1
     /\ o_Col_Count' = o_Col_Count + 1
     /\ UNCHANGED o_Row_Count
=============================================================================
