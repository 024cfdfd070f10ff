------------------------------- MODULE RxLink -------------------------------
(***************************************************************************)
(* The receiver on the wire of a host (UART_RX/UART_RX_tb.sv, and the RX   *)
(* pin of UART_RX_top, UART_TX_top and top_VGA).  A step is one rising     *)
(* edge of CLK: the receiver takes the value that is on the line, and the  *)
(* host decides what the line carries until the next edge.                 *)
(***************************************************************************)
EXTENDS Integers

CONSTANTS CLKS_PER_BIT, LAST_BIT, COUNT_SIZE, SKEW, GAP, None

VARIABLES
  h_Pos, h_Count, h_Byte,                                     \* the host
  r_SM_Main, r_Clock_Count, r_Bit_Index, r_RX_Byte, r_RX_DV   \* the receiver

Host == INSTANCE SerialHost
Rx == INSTANCE UartRx

vars == <<Host!vars, Rx!vars>>

(***************************************************************************)
(* What the sampling points of the code tolerate.  An edge may be late by  *)
(* no more than the receiver waits, 1 + HalfBit clocks after the start     *)
(* edge, and early by less than what is left of the bit after that; the    *)
(* next frame may begin when the receiver is back in IDLE.  At             *)
(* CLKS_PER_BIT = 217 a SKEW of 107 clocks, 49% of a bit, is allowed.      *)
(***************************************************************************)
ASSUME RxLinkAssumption ==
  /\ CLKS_PER_BIT \in Nat \ {0}
  /\ LAST_BIT \in Nat
  /\ COUNT_SIZE \in Nat /\ CLKS_PER_BIT <= COUNT_SIZE
  /\ SKEW \in Nat
  /\ SKEW <= Rx!HalfBit + 1
  /\ SKEW <= CLKS_PER_BIT - Rx!HalfBit - 2
  /\ GAP \in Int /\ GAP >= Rx!HalfBit + 3 - CLKS_PER_BIT
  /\ None \notin Rx!Byte

Init == Host!Init /\ Rx!Init

Next == Rx!Clock(Host!Line) /\ Host!Clock

\* The clock of the board does not stop.
Spec == Init /\ [][Next]_vars /\ WF_vars(Next)

-----------------------------------------------------------------------------
\* Host and receiver each keep to their types (UART_RX.v:29-33).
TypeOK == Host!TypeOK /\ Rx!TypeOK

\* A byte that o_RX_DV announces is the byte the host is sending, and the
\* host has not begun another one (UART_RX.v:113 against the sampled bits).
ReceivedIsSent == r_RX_DV = 1 => h_Pos = Host!Stop /\ r_RX_Byte = h_Byte

\* The start edge never finds the receiver elsewhere than in IDLE: it is late
\* by no clock after the sampling of any number of earlier frames.
StartIsSeen == h_Pos = 0 /\ h_Count = 0 => r_SM_Main = "IDLE"

-----------------------------------------------------------------------------
\* The byte on the wire is on its way until the receiver has announced it.
Announced == h_Pos = Host!Stop /\ r_SM_Main \in {"CLEANUP", "IDLE"}

Wire == IF Announced THEN None ELSE h_Byte
Out == IF r_RX_DV = 1 THEN r_RX_Byte ELSE None

Link == INSTANCE ByteLink WITH Byte <- Rx!Byte, wire <- Wire, out <- Out

\* Every byte the host sends is handed over exactly once, unchanged, as a
\* pulse of o_RX_DV: "When receive is complete o_rx_dv will be driven high
\* for one clock cycle" (UART_RX.v:6).
ImplementsByteLink == Link!Safety

\* The receiver never sits on a byte: while CLK runs, each one is announced.
EveryByteArrives == Link!EveryByteArrives
=============================================================================
