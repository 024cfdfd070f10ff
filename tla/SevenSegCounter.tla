-------------------------- MODULE SevenSegCounter ---------------------------
(***************************************************************************)
(* The push-button counter, module Seven_Seg_Counter of                    *)
(* Seven_Seg_Counter/Seven_Seg_Counter.v: a debounced switch, a counter of *)
(* its releases with a LED that toggles on each, and the decoder           *)
(* Binary_To_Seven_Seg for the digit.  The switch SW1 is free to bounce at *)
(* every clock.  SW_toggle.v and LED_toggle.v are the same circuit with    *)
(* the LED alone.                                                          *)
(***************************************************************************)
EXTENDS Naturals

CONSTANTS
  DEBOUNCE_LIMIT,
  DEBOUNCE_SIZE    \* values of the filter's register r_Count

VARIABLES
  r_State, r_Count,  \* the switch filter
  r_SW1,             \* the filtered switch one clock ago
  r_Count1,          \* the digit
  r_LED1,
  hex_encoding,      \* the segments that are lit
  level, run         \* history: the last raw sample, and how long it has lasted

Filter == INSTANCE DebounceSwitch WITH COUNT_SIZE <- DEBOUNCE_SIZE
Digit == INSTANCE SevenSeg

digitVars == <<r_SW1, r_Count1, r_LED1>>
counterVars == <<Filter!vars, digitVars, hex_encoding, level, run>>

ASSUME SevenSegCounterAssumption ==
  /\ DEBOUNCE_LIMIT \in Nat
  /\ DEBOUNCE_SIZE \in Nat /\ DEBOUNCE_LIMIT < DEBOUNCE_SIZE

\* The registers keep to their widths and the digit to 0..9
\* (Seven_Seg_Counter.v:15-17).
CounterTypeOK ==
  /\ Filter!TypeOK
  /\ r_SW1 \in {0, 1} /\ r_Count1 \in 0..9 /\ r_LED1 \in {0, 1}
  /\ hex_encoding \subseteq Digit!Segments
  /\ level \in {0, 1} /\ run \in 0 .. DEBOUNCE_LIMIT + 1

\* r_LED1 is used and never declared: it starts as the build leaves it.
CounterInit ==
  /\ Filter!Init
  /\ r_SW1 = 0 /\ r_Count1 = 0 /\ r_LED1 \in {0, 1}
  /\ Digit!Init
  /\ level = 0 /\ run = 0

-----------------------------------------------------------------------------
\* The filtered switch has just fallen.
Released == r_State = 0 /\ r_SW1 = 1

NextDigit == IF r_Count1 = 9 THEN 0 ELSE r_Count1 + 1

\* Fault: the digit is counted on the press, the LED toggles on the release.
CountPresses ==
  /\ r_SW1' = r_State
  /\ r_Count1' = IF r_State = 1 /\ r_SW1 = 0 THEN NextDigit ELSE r_Count1
  /\ r_LED1' = IF Released THEN 1 - r_LED1 ELSE r_LED1

CountReleases ==
  /\ r_SW1' = r_State
  /\ \/ /\ Released
        /\ r_LED1' = 1 - r_LED1
        /\ r_Count1' = NextDigit
     \/ /\ ~Released
        /\ UNCHANGED <<r_LED1, r_Count1>>

Display == Digit!Clock(r_Count1)

\* The history follows the raw switch and nothing else.
Watch(SW1) ==
  /\ level' = SW1
  /\ run' = IF SW1 # level THEN 1 ELSE IF run > DEBOUNCE_LIMIT THEN run ELSE run + 1

CounterNext ==
  \E SW1 \in {0, 1} :
    Filter!Clock(SW1) /\ CountReleases /\ Display /\ Watch(SW1)

CounterSpec == CounterInit /\ [][CounterNext]_counterVars

-----------------------------------------------------------------------------
\* However the switch bounces, a level is believed exactly when it has lasted
\* for DEBOUNCE_LIMIT + 1 clocks on end, and each release that is believed is
\* counted exactly once (Debounce_Switch.v:11-19, Seven_Seg_Counter.v:33-42).
Button ==
  INSTANCE ButtonCounter WITH
    Steady <- DEBOUNCE_LIMIT, Modulus <- 10,
    held <- r_State,
    count <- IF Released THEN NextDigit ELSE r_Count1

CountsReleases == Button!Safety

\* The LED and the digit never disagree on how many releases there were: ten
\* is even, so the parity survives the wrap (Seven_Seg_Counter.v:35-41).
LedFollowsDigit == [][(r_Count1' + r_LED1') % 2 = (r_Count1 + r_LED1) % 2]_counterVars
=============================================================================
