--------------------------- MODULE DebounceSwitch ---------------------------
(***************************************************************************)
(* The switch filter, module Debounce_Switch of                            *)
(* REFERENCE_FILES/Debounce_Switch.v and its copies.  Clock(Switch) is one *)
(* rising edge of CLK with the raw switch at Switch.                       *)
(***************************************************************************)
EXTENDS Naturals

CONSTANTS
  DEBOUNCE_LIMIT,  \* c_DEBOUNCE_LIMIT, 250000 in the code
  COUNT_SIZE       \* values of the 18-bit register r_Count, 262144 in the code

VARIABLES
  r_State,  \* the filtered switch; drives o_Switch
  r_Count   \* clocks for which the raw switch has differed from it

vars == <<r_State, r_Count>>

Bit == {0, 1}

\* The count fits its 18 bits (Debounce_Switch.v:8-9).
TypeOK == r_State \in Bit /\ r_Count \in 0 .. COUNT_SIZE - 1

Init == r_State = 0 /\ r_Count = 0

-----------------------------------------------------------------------------
\* The raw switch differs: one clock more of it.
CountUp(Switch) ==
  /\ Switch # r_State /\ r_Count < DEBOUNCE_LIMIT
  /\ r_Count' = (r_Count + 1) % COUNT_SIZE
  /\ UNCHANGED r_State

\* The raw switch is believed, as it is at this clock.
Commit(Switch) ==
  /\ r_Count = DEBOUNCE_LIMIT
  /\ r_Count' = 0
  /\ r_State' = Switch

\* Fault: a bounce does not restart the count.
ResumeCount(Switch) ==
  /\ Switch = r_State /\ r_Count # DEBOUNCE_LIMIT
  /\ UNCHANGED <<r_State, r_Count>>

\* The raw switch is back: the count starts over.
StartOver(Switch) ==
  /\ ~(Switch # r_State /\ r_Count < DEBOUNCE_LIMIT)
  /\ r_Count # DEBOUNCE_LIMIT
  /\ r_Count' = 0
  /\ UNCHANGED r_State

Clock(Switch) == CountUp(Switch) \/ Commit(Switch) \/ StartOver(Switch)
=============================================================================
