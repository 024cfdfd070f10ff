------------------------------- MODULE RxLine -------------------------------
(***************************************************************************)
(* The receiver on a line that may do anything at any clock: noise, a      *)
(* break, a terminal at another rate, a cable that is pulled.              *)
(***************************************************************************)
EXTENDS UartRx

VARIABLE line  \* the value on RX that the next rising edge of CLK finds

lineVars == <<vars, line>>

LineInit == Init /\ line \in Bit

LineNext == Clock(line) /\ line' \in Bit

\* CLK does not stop.
LineSpec == LineInit /\ [][LineNext]_lineVars /\ WF_lineVars(LineNext)

\* Whatever was on the line, once it rests at 1 the receiver finds its way
\* back to IDLE and waits there for a start bit.  The header promises as much
\* for every CLKS_PER_BIT = (Frequency of CLK)/(Frequency of UART)
\* (UART_RX.v:9-10).
ReturnsToIdle == <>[](line = 1) => <>[](r_SM_Main = "IDLE")
=============================================================================
