---------------------------- MODULE VgaSwitches -----------------------------
(***************************************************************************)
(* The picture of VGA_Switches/top_VGA.v: the same beam, another           *)
(* Sync_Porch, and a Pattern_Generator whose colour is chosen by the four  *)
(* switches.  top_VGA wires the raw switches to it (lines 62-65); the      *)
(* debounced toggles of lines 25-40 drive nothing.                         *)
(***************************************************************************)
EXTENDS VgaScreen

VARIABLES
  on,                      \* the switches that are on
  o_CountCol, o_CountRow,
  o_HSync_PG, o_VSync_PG,  \* the sync signals, registered with the colours
  lit,                     \* which of the registers Red, Green, Blue are 3'b111
  hRun, vRun               \* the monitor

Beam == INSTANCE SyncPulse
Monitor == INSTANCE VgaMonitor WITH hs <- o_HSync_PG, vs <- o_VSync_PG

vars == <<on, Beam!vars, o_HSync_PG, o_VSync_PG, lit, Monitor!vars>>

Switch == {"SW1", "SW2", "SW3", "SW4"}

\* Unlike in VGA_UART the sync registers start at 0.
Init ==
  /\ on \in SUBSET Switch
  /\ Beam!Init
  /\ o_HSync_PG = 0 /\ o_VSync_PG = 0
  /\ lit = {}
  /\ Monitor!Init

-----------------------------------------------------------------------------
\* Sync_Porch: the porches are taken out of the raw pulse.
H_Sync ==
  IF o_CountCol < VISIBLE_COLS + H_FRONT \/ o_CountCol > COLS - H_BACK - 1
  THEN 1 ELSE Beam!HSync

\* Fault: the bounds of VGA_UART/Sync_Porch.v, a row earlier.
V_SyncEarly ==
  IF o_CountRow < VISIBLE_ROWS + V_FRONT - 1 \/ o_CountRow > ROWS - V_BACK - 2
  THEN 1 ELSE Beam!VSync

\* Fault: the back porch is forgotten.
V_SyncNoBack == IF o_CountRow < VISIBLE_ROWS + V_FRONT THEN 1 ELSE Beam!VSync

V_Sync ==
  IF o_CountRow < VISIBLE_ROWS + V_FRONT \/ o_CountRow > ROWS - V_BACK - 1
  THEN 1 ELSE Beam!VSync

Painted(colour) == IF H_Sync = 1 /\ V_Sync = 1 THEN {colour} ELSE {}

\* Fault: the switches add up, a colour each, in the pulses as well.
MixedColours ==
  lit' = (IF "SW1" \in on THEN {"Red"} ELSE {}) \cup
         (IF "SW2" \in on THEN {"Green"} ELSE {}) \cup
         (IF "SW3" \in on THEN {"Blue"} ELSE {})

\* The lowest switch that is on wins; with none on the colours stay.
Paint ==
  \/ "SW1" \in on /\ lit' = Painted("Red")
  \/ "SW1" \notin on /\ "SW2" \in on /\ lit' = Painted("Green")
  \/ on \cap {"SW1", "SW2"} = {} /\ "SW3" \in on /\ lit' = Painted("Blue")
  \/ on = {"SW4"} /\ lit' = {}
  \/ on = {} /\ UNCHANGED lit

Next ==
  /\ Beam!Clock
  /\ o_HSync_PG' = H_Sync /\ o_VSync_PG' = V_Sync /\ Paint
  /\ on' \in SUBSET Switch
  /\ Monitor!Clock

Spec == Init /\ [][Next]_vars

-----------------------------------------------------------------------------
\* The monitor sees sync pulses of the right length at the right distance,
\* from the first pulse after the 0 at power-up on (Sync_Porch.v:3-5).
SyncTiming ==
  [][/\ Monitor!Edge(o_HSync_PG, hRun, H_PULSE, COLS)
     /\ Monitor!Edge(o_VSync_PG, vRun, V_PULSE * COLS, ROWS * COLS)]_vars

\* The column and row the registers show: those of the clock before.
ShownCol == IF o_CountCol = 0 THEN COLS - 1 ELSE o_CountCol - 1
ShownRow ==
  IF o_CountCol # 0 THEN o_CountRow
  ELSE IF o_CountRow = 0 THEN ROWS - 1 ELSE o_CountRow - 1

InHPulse == ShownCol - VISIBLE_COLS - H_FRONT \in 0 .. H_PULSE - 1
InVPulse == ShownRow - VISIBLE_ROWS - V_FRONT \in 0 .. V_PULSE - 1

\* From the first clock on, each pulse stands between the porches the comment
\* gives: 18 and 50 columns, 10 and 33 rows (Sync_Porch.v:4-5, 18-19).
Porches ==
  [][(o_HSync_PG' = 0 <=> InHPulse') /\ (o_VSync_PG' = 0 <=> InVPulse')]_vars

\* Colour during a sync pulse can only be the colour of an earlier pixel that
\* no switch replaces (Pattern_Generator.v:17-32).
OnlyHeldInPulses ==
  [][lit' # {} /\ (o_HSync_PG' = 0 \/ o_VSync_PG' = 0) => on = {} /\ lit' = lit]_vars
=============================================================================
