----------------------------- MODULE SerialHost -----------------------------
(***************************************************************************)
(* The other end of the serial wire: the terminal (minicom, 115200 8N1)    *)
(* that drives pin RX, as task UART_WRITE_BYTE of UART_RX/UART_RX_tb.sv    *)
(* plays it: a start bit 0, the data bits, bit 0 first, and a stop bit 1.  *)
(* Its clock is not the FPGA's.  Time is counted in clocks of the FPGA;    *)
(* the edge that should end a bit N * CLKS_PER_BIT clocks after the start  *)
(* edge may come up to SKEW clocks early or late, whatever the reason: a   *)
(* rate that differs, an unknown phase, or jitter.                         *)
(***************************************************************************)
EXTENDS Integers

CONSTANTS
  CLKS_PER_BIT,  \* clocks of the FPGA in one nominal bit
  LAST_BIT,      \* index of the last data bit
  SKEW,          \* how far an edge may be from its nominal place
  GAP            \* first clock, after the nominal end of a stop bit, at
                 \* which the next start bit may begin (negative: early)

VARIABLES
  h_Pos,   \* place in the frame: 0 start bit, i + 1 data bit i, then the stop bit
  h_Count, \* clocks since the nominal beginning of that place
  h_Byte   \* the byte of the frame

vars == <<h_Pos, h_Count, h_Byte>>

Byte == [0..LAST_BIT -> {0, 1}]

\* The stop bit, and the rest after it: the line is 1 in both.
Stop == LAST_BIT + 2

\* Where h_Count stays while the host rests: the next frame may begin.
Rested == CLKS_PER_BIT + (IF GAP > 0 THEN GAP ELSE 0)

\* What the host drives on the wire.
Line ==
  IF h_Pos = 0 THEN 0
  ELSE IF h_Pos \in 1 .. LAST_BIT + 1 THEN h_Byte[h_Pos - 1]
  ELSE 1

\* The host is at a place of the frame with a byte of the right length.
TypeOK ==
  /\ h_Pos \in 0..Stop
  /\ h_Count \in Int
  /\ h_Byte \in Byte

Init ==
  /\ h_Pos = Stop
  /\ h_Count = Rested
  /\ h_Byte \in Byte

-----------------------------------------------------------------------------
\* The bit stays on the line for another clock.
Hold ==
  /\ h_Pos # Stop
  /\ h_Count + 1 < CLKS_PER_BIT + SKEW
  /\ h_Count' = h_Count + 1
  /\ UNCHANGED <<h_Pos, h_Byte>>

\* The edge to the next bit of the frame.
Shift ==
  /\ h_Pos # Stop
  /\ h_Count + 1 >= CLKS_PER_BIT - SKEW
  /\ h_Pos' = h_Pos + 1
  /\ h_Count' = h_Count + 1 - CLKS_PER_BIT
  /\ UNCHANGED h_Byte

\* The stop bit goes on, or the line rests.
Rest ==
  /\ h_Pos = Stop
  /\ h_Count' = IF h_Count < Rested THEN h_Count + 1 ELSE h_Count
  /\ UNCHANGED <<h_Pos, h_Byte>>

\* The start edge of the next frame.
Start(b) ==
  /\ h_Pos = Stop
  /\ h_Count + 1 >= CLKS_PER_BIT + GAP
  /\ h_Pos' = 0
  /\ h_Count' = 0
  /\ h_Byte' = b

Clock == Hold \/ Shift \/ Rest \/ \E b \in Byte : Start(b)
=============================================================================
