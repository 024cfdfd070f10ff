--------------------------- MODULE ButtonCounter ----------------------------
(***************************************************************************)
(* What a bouncing push button that counts promises.  A level of the       *)
(* button is believed once it has lasted for more than Steady clocks, and  *)
(* every release that is believed is counted, once.                        *)
(***************************************************************************)
EXTENDS Naturals

CONSTANTS
  Steady,  \* a level is believed after Steady + 1 clocks of it
  Modulus  \* the count goes round at this number

VARIABLES
  level,  \* the raw button as it was at the last clock
  run,    \* for how many clocks it has been so, up to Steady + 1
  held,   \* the level that is believed
  count   \* releases so far, modulo Modulus

vars == <<level, run, held, count>>

Init == level = 0 /\ run = 0 /\ held = 0 /\ count = 0

\* A clock with the raw button at b.
Look(b) ==
  /\ level' = b
  /\ run' = IF b # level THEN 1 ELSE IF run > Steady THEN run ELSE run + 1

Next ==
  /\ \E b \in {0, 1} : Look(b)
  /\ held' = IF run' > Steady THEN level' ELSE held
  /\ count' = IF held = 1 /\ held' = 0 THEN (count + 1) % Modulus ELSE count

Safety == Init /\ [][Next]_vars
=============================================================================
