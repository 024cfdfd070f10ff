----------------------------- MODULE VgaScreen -----------------------------
(***************************************************************************)
(* The screen both boards paint: the area the beam sweeps, its visible     *)
(* part and the porches around the sync pulses.  The code has 800 by 525   *)
(* positions, 640 by 480 of them visible, and porches of 18 and 50 columns *)
(* and of 10 and 33 rows (Sync_Pulse.v, Sync_Porch.v:3-5).                 *)
(***************************************************************************)
EXTENDS Integers

CONSTANTS
  COLS, ROWS, VISIBLE_COLS, VISIBLE_ROWS,
  H_FRONT, H_BACK,  \* the porches, in columns
  V_FRONT, V_BACK   \* and in rows

ASSUME VgaScreenAssumption ==
  /\ COLS \in Nat /\ ROWS \in Nat
  /\ VISIBLE_COLS \in Nat \ {0} /\ VISIBLE_ROWS \in Nat \ {0}
  /\ H_FRONT \in Nat \ {0} /\ H_BACK \in Nat \ {0}
  /\ V_FRONT \in Nat \ {0} /\ V_BACK \in Nat \ {0}
  /\ VISIBLE_COLS + H_FRONT + H_BACK < COLS
  /\ VISIBLE_ROWS + V_FRONT + V_BACK < ROWS

\* What the porches leave of the area is the pulse.
H_PULSE == COLS - VISIBLE_COLS - H_FRONT - H_BACK
V_PULSE == ROWS - VISIBLE_ROWS - V_FRONT - V_BACK
=============================================================================
