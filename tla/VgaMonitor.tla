----------------------------- MODULE VgaMonitor -----------------------------
(***************************************************************************)
(* The monitor on the VGA plug.  It knows nothing of the counters behind   *)
(* the plug: it measures, in clocks, how long each sync signal has been at *)
(* its level, beginning with the first pulse it sees begin.                *)
(***************************************************************************)
EXTENDS Integers

VARIABLES
  hs, vs,     \* the sync signals on the plug
  hRun, vRun  \* clocks at the present level, 0 before the first falling edge

vars == <<hRun, vRun>>

Init == hRun = 0 /\ vRun = 0

Measure(run, now, next) ==
  IF run = 0 THEN (IF now = 1 /\ next = 0 THEN 1 ELSE 0)
  ELSE IF next = now THEN run + 1 ELSE 1

Clock ==
  /\ hRun' = Measure(hRun, hs, hs')
  /\ vRun' = Measure(vRun, vs, vs')

\* At an edge that ends a level the monitor saw begin, the level has lasted
\* for low clocks if it was 0 and for period - low clocks if it was 1.
Edge(signal, run, low, period) ==
  signal' # signal /\ run # 0 =>
    run = IF signal = 0 THEN low ELSE period - low
=============================================================================
