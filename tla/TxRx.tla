-------------------------------- MODULE TxRx --------------------------------
(***************************************************************************)
(* The transmitter wired to a receiver on the same clock, as in            *)
(* UART_TX/UART_TX_tb.v.  The producer may raise i_TX_DV with any byte at  *)
(* any clock, while a frame is going out as well.                          *)
(***************************************************************************)
EXTENDS Integers

CONSTANTS CLKS_PER_BIT, LAST_BIT, COUNT_SIZE, None

VARIABLES
  TX, t_SM_Main, t_Clock_Count, t_Bit_Index, r_TX_Data, r_TX_Active, r_TX_Done,
  r_SM_Main, r_Clock_Count, r_Bit_Index, r_RX_Byte, r_RX_DV

Tx == INSTANCE UartTx
Rx == INSTANCE UartRx

vars == <<Tx!vars, Rx!vars>>

\* From 4 clocks a bit on the receiver is in IDLE half a stop bit early.
ASSUME TxRxAssumption ==
  /\ CLKS_PER_BIT \in Nat /\ CLKS_PER_BIT >= 4
  /\ LAST_BIT \in Nat
  /\ COUNT_SIZE \in Nat /\ CLKS_PER_BIT <= COUNT_SIZE
  /\ None \notin Rx!Byte

\* Fault: the line is not taken from the idle transmitter.
UartLineUngated == TX

\* w_UART_Line: the transmitter has the line while it is active.
UartLine == IF r_TX_Active = 1 THEN TX ELSE 1

Init == Tx!Init /\ Rx!Init

Next ==
  \E dv \in Tx!Bit, byte \in Tx!Byte : Tx!Clock(dv, byte) /\ Rx!Clock(UartLine)

Spec == Init /\ [][Next]_vars /\ WF_vars(Next)

-----------------------------------------------------------------------------
\* Transmitter and receiver each keep to their types.
TypeOK == Tx!TypeOK /\ Rx!TypeOK

\* When o_TX_Done is high the far end has announced the byte and has begun no
\* other: a producer that waits for it never outruns the receiver, although
\* the transmitter does not hear from it (UART_TX.v:116-129).
DoneMeansReceived ==
  r_TX_Done = 1 => r_RX_Byte = r_TX_Data /\ r_SM_Main \in {"CLEANUP", "IDLE"}

-----------------------------------------------------------------------------
(***************************************************************************)
(* The transmitter is a host with no skew.  TX is a register, so the line  *)
(* shows the state of the clock before: the mapping looks one clock back.  *)
(***************************************************************************)
Place(state, index) ==
  CASE state = "TX_START_BIT" -> 0
    [] state = "TX_DATA_BITS" -> index + 1
    [] OTHER -> LAST_BIT + 2

\* Accepted, and the start bit is not yet on the line.
Accepted == t_SM_Main = "TX_START_BIT" /\ t_Clock_Count = 0

Pos ==
  IF t_SM_Main \in {"IDLE", "CLEANUP"} \/ Accepted THEN LAST_BIT + 2
  ELSE Place(t_SM_Main, t_Bit_Index) - (IF t_Clock_Count = 0 THEN 1 ELSE 0)

Count ==
  IF t_SM_Main = "IDLE" \/ Accepted THEN CLKS_PER_BIT
  ELSE IF t_Clock_Count = 0 THEN CLKS_PER_BIT - 1
  ELSE t_Clock_Count - 1

\* Until its start bit the accepted byte is not on the line; what was there
\* last is what the receiver has.
SentByte == IF Accepted THEN r_RX_Byte ELSE r_TX_Data

Serial == INSTANCE RxLink WITH
            SKEW <- 0, GAP <- 0,
            h_Pos <- Pos, h_Count <- Count, h_Byte <- SentByte

\* What the transmitter drives, the receiver hears as a host's frames, with
\* the uninitialised TX and every ignored i_TX_DV (UART_TX.v:43-129).
ImplementsRxLink == Serial!Init /\ [][Serial!Next]_(Serial!vars)

-----------------------------------------------------------------------------
\* An accepted byte is on its way until the receiver has announced it.
OnItsWay ==
  \/ t_SM_Main \in {"TX_START_BIT", "TX_DATA_BITS"}
  \/ t_SM_Main = "TX_STOP_BIT" /\ r_SM_Main \notin {"CLEANUP", "IDLE"}

Link == INSTANCE ByteLink WITH
          Byte <- Tx!Byte,
          wire <- IF OnItsWay THEN r_TX_Data ELSE None,
          out  <- IF r_RX_DV = 1 THEN r_RX_Byte ELSE None

\* A byte taken from i_TX_Byte comes out of o_RX_Byte, once, unchanged; one
\* that is offered during a frame does not disturb it (UART_TX_tb.v:59-62).
ImplementsByteLink == Link!Safety
=============================================================================
