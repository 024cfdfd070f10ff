---------------------------- MODULE VgaSyncPorch ----------------------------
(***************************************************************************)
(* Module VGA_Sync_Porch of                                                *)
(* REFERENCE_FILES/nandland VGa/VGA_Sync_Porch.v: it takes the porches out *)
(* of the sync pulses and delays the colours by as much as the signals.    *)
(***************************************************************************)
EXTENDS Naturals

CONSTANTS
  TOTAL_COLS, TOTAL_ROWS, ACTIVE_COLS, ACTIVE_ROWS,
  c_FRONT_PORCH_HORZ, c_BACK_PORCH_HORZ,  \* 18 and 50 columns
  c_FRONT_PORCH_VERT, c_BACK_PORCH_VERT   \* 10 and 33 rows

VARIABLES
  w_HSync, w_VSync, w_Col_Count, w_Row_Count,  \* the Sync_To_Count inside
  r_Video,  \* the first stage of the delay
  o_HSync, o_VSync, o_Video

Counter == INSTANCE SyncToCount WITH
             o_HSync <- w_HSync, o_VSync <- w_VSync,
             o_Col_Count <- w_Col_Count, o_Row_Count <- w_Row_Count

vars == <<Counter!vars, r_Video, o_HSync, o_VSync, o_Video>>

\* The outputs have no initial value.
Init ==
  /\ Counter!Init
  /\ r_Video = {}
  /\ o_HSync \in {0, 1} /\ o_VSync \in {0, 1}
  /\ o_Video \in SUBSET {"Red", "Grn", "Blu"}

-----------------------------------------------------------------------------
PorchHSync ==
  IF \/ w_Col_Count < c_FRONT_PORCH_HORZ + ACTIVE_COLS
     \/ w_Col_Count > TOTAL_COLS - c_BACK_PORCH_HORZ - 1
  THEN 1 ELSE w_HSync

PorchVSync ==
  IF \/ w_Row_Count < c_FRONT_PORCH_VERT + ACTIVE_ROWS
     \/ w_Row_Count > TOTAL_ROWS - c_BACK_PORCH_VERT - 1
  THEN 1 ELSE w_VSync

\* Fault: one stage of the delay is missing.
DelayOnce(i_Video) == r_Video' = i_Video /\ o_Video' = i_Video

Delay(i_Video) == r_Video' = i_Video /\ o_Video' = r_Video

Clock(i_HSync, i_VSync, i_Video) ==
  /\ Counter!Clock(i_HSync, i_VSync)
  /\ o_HSync' = PorchHSync /\ o_VSync' = PorchVSync
  /\ Delay(i_Video)
=============================================================================
