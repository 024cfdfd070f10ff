----------------------------- MODULE SyncPulse ------------------------------
(***************************************************************************)
(* The beam, module Sync_Pulse of VGA_UART/Sync_Pulse.v and its copy in    *)
(* VGA_Switches/: the column and row counters, and the raw sync signals    *)
(* that are 1 over the visible columns and rows.                           *)
(***************************************************************************)
EXTENDS Integers

CONSTANTS
  COLS, ROWS,                 \* the whole area, 800 by 525 in the code
  VISIBLE_COLS, VISIBLE_ROWS  \* the visible area, 640 by 480

VARIABLES o_CountCol, o_CountRow

vars == <<o_CountCol, o_CountRow>>

Init == o_CountCol = 0 /\ o_CountRow = 0

-----------------------------------------------------------------------------
HSync == IF o_CountCol < VISIBLE_COLS THEN 1 ELSE 0
VSync == IF o_CountRow < VISIBLE_ROWS THEN 1 ELSE 0

NextColumn ==
  /\ o_CountCol < COLS - 1
  /\ o_CountCol' = o_CountCol + 1
  /\ UNCHANGED o_CountRow

\* Fault: the row is not counted.
NextRowForgotten ==
  /\ o_CountCol >= COLS - 1
  /\ o_CountCol' = 0
  /\ UNCHANGED o_CountRow

NextRow ==
  /\ o_CountCol >= COLS - 1
  /\ o_CountCol' = 0
  /\ o_CountRow' = IF o_CountRow < ROWS - 1 THEN o_CountRow + 1 ELSE 0

Clock == NextColumn \/ NextRow
=============================================================================
