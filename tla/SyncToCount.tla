---------------------------- MODULE SyncToCount -----------------------------
(***************************************************************************)
(* Module Sync_To_Count of REFERENCE_FILES/nandland VGa/Sync_To_Count.v:   *)
(* it registers two raw sync signals and rebuilds from them the column and *)
(* the row they stand for.  Clock(i_HSync, i_VSync) is one rising edge.    *)
(***************************************************************************)
EXTENDS Naturals

CONSTANTS TOTAL_COLS, TOTAL_ROWS

VARIABLES o_HSync, o_VSync, o_Col_Count, o_Row_Count

vars == <<o_HSync, o_VSync, o_Col_Count, o_Row_Count>>

Init == o_HSync = 0 /\ o_VSync = 0 /\ o_Col_Count = 0 /\ o_Row_Count = 0

-----------------------------------------------------------------------------
\* Fault: the falling edge is taken for the rising one.
FallingEdge(i_VSync) == o_VSync = 1 /\ i_VSync = 0

\* w_Frame_Start: the rising edge of the vertical sync.
FrameStart(i_VSync) == o_VSync = 0 /\ i_VSync = 1

LastColumn == o_Col_Count = TOTAL_COLS - 1

NextRow == IF o_Row_Count = TOTAL_ROWS - 1 THEN 0 ELSE o_Row_Count + 1

Count(i_VSync) ==
  \/ /\ FrameStart(i_VSync)
     /\ o_Col_Count' = 0 /\ o_Row_Count' = 0
  \/ /\ ~FrameStart(i_VSync)
     /\ LastColumn
     /\ o_Col_Count' = 0 /\ o_Row_Count' = NextRow
  \/ /\ ~FrameStart(i_VSync)
     /\ ~LastColumn
     /\ o_Col_Count' = o_Col_Count + 1
     /\ UNCHANGED o_Row_Count

Clock(i_HSync, i_VSync) ==
  o_HSync' = i_HSync /\ o_VSync' = i_VSync /\ Count(i_VSync)
=============================================================================
