------------------------------ MODULE UartEcho ------------------------------
(***************************************************************************)
(* UART_TX/UART_TX_top.v (and the serial side of VGA_UART/top_VGA.v): a    *)
(* byte the terminal sends is announced by the receiver, whose o_RX_DV and *)
(* o_RX_Byte are the transmitter's i_TX_DV and i_TX_Byte.  There is no     *)
(* buffer between them, and o_TX_Active does not hold the terminal back.   *)
(* Two decoders show the halves of o_RX_Byte at every clock, announced or  *)
(* not, as in UART_RX/UART_RX_top.v.                                       *)
(***************************************************************************)
EXTENDS Integers, Sequences, FiniteSetsExt

CONSTANTS CLKS_PER_BIT, LAST_BIT, COUNT_SIZE, SKEW, GAP, None

VARIABLES
  h_Pos, h_Count, h_Byte,
  r_SM_Main, r_Clock_Count, r_Bit_Index, r_RX_Byte, r_RX_DV,
  TX, t_SM_Main, t_Clock_Count, t_Bit_Index, r_TX_Data, r_TX_Active, r_TX_Done,
  S1, S2  \* the segments that are lit in the two digits

Host == INSTANCE SerialHost
Rx == INSTANCE UartRx
Tx == INSTANCE UartTx
Digit1 == INSTANCE SevenSeg WITH hex_encoding <- S1
Digit2 == INSTANCE SevenSeg WITH hex_encoding <- S2

vars == <<Host!vars, Rx!vars, Tx!vars, S1, S2>>

\* What the receiver tolerates, as in RxLink.
ASSUME UartEchoAssumption ==
  /\ CLKS_PER_BIT \in Nat \ {0}
  /\ LAST_BIT \in Nat
  /\ COUNT_SIZE \in Nat /\ CLKS_PER_BIT <= COUNT_SIZE
  /\ SKEW \in Nat
  /\ SKEW <= Rx!HalfBit + 1
  /\ SKEW <= CLKS_PER_BIT - Rx!HalfBit - 2
  /\ GAP \in Int /\ GAP >= Rx!HalfBit + 3 - CLKS_PER_BIT
  /\ None \notin Rx!Byte

Init == Host!Init /\ Rx!Init /\ Tx!Init /\ Digit1!Init /\ Digit2!Init

\* The number that bits first to last of a byte write.
Number(byte, first, last) ==
  MapThenSumSet(LAMBDA i : byte[i] * 2 ^ (i - first), first..last)

\* w_RX_Byte[7:4] and w_RX_Byte[3:0].
Half == (LAST_BIT + 1) \div 2
High(byte) == Number(byte, Half, LAST_BIT)
Low(byte) == Number(byte, 0, Half - 1)

\* Fault: the digits are swapped.
DisplaySwapped == Digit1!Clock(Low(r_RX_Byte)) /\ Digit2!Clock(High(r_RX_Byte))

Display == Digit1!Clock(High(r_RX_Byte)) /\ Digit2!Clock(Low(r_RX_Byte))

\* Fault: the transmitter is told of a byte for as long as it is there.
EchoUntilIdle == Tx!Clock(IF r_SM_Main \in {"CLEANUP", "IDLE"} THEN 1 ELSE 0, r_RX_Byte)

\* The wires from the receiver to the transmitter.
Echo == Tx!Clock(r_RX_DV, r_RX_Byte)

Next == Rx!Clock(Host!Line) /\ Echo /\ Display /\ Host!Clock

Spec == Init /\ [][Next]_vars /\ WF_vars(Next)

-----------------------------------------------------------------------------
\* The transmitter looks at i_TX_DV in IDLE only: a byte announced while it is
\* still busy with the one before would be dropped (UART_TX.v:43-60).  The
\* settings given for the terminal ask for one stop bit and nothing after it
\* (UART_TX_top.v:6-7).
NoneDropped == r_RX_DV = 1 => t_SM_Main = "IDLE"

\* From the start edge until the transmitter has been told.
InReceiver == ~(h_Pos = Host!Stop /\ r_SM_Main = "IDLE")

InTransmitter == t_SM_Main \in {"TX_START_BIT", "TX_DATA_BITS", "TX_STOP_BIT"}

\* The byte going out is older than the one coming in.
Pipe ==
  INSTANCE BytePipe WITH
    Byte <- Rx!Byte, Capacity <- 2,
    pipe <- (IF InTransmitter THEN <<r_TX_Data>> ELSE << >>) \o
            (IF InReceiver THEN <<h_Byte>> ELSE << >>),
    out  <- IF t_SM_Main = "CLEANUP" THEN r_TX_Data ELSE None

\* The terminal reads back what it wrote: every byte once, unchanged, in the
\* order it was sent (UART_TX_top.v:51-65).
EchoesInOrder == Pipe!Safety

\* The first n bits are those of the byte coming in, the rest still those of
\* the byte before, which the transmitter has.
Mix(n) == [i \in 0..LAST_BIT |-> IF i < n THEN h_Byte[i] ELSE r_TX_Data[i]]

\* The decoders are wired to a byte that changes bit by bit, without o_RX_DV
\* (UART_TX_top.v:67-95).  What the digits show is never anything but a
\* number of bits of the new byte over the old one, and when the byte is
\* announced it stands there.
DigitsShowMix ==
  S1 # {} =>
    \E n \in 0 .. LAST_BIT + 1 :
      /\ S1 = Digit1!Encoding(High(Mix(n))) /\ S2 = Digit2!Encoding(Low(Mix(n)))
      /\ r_RX_DV = 1 => n = LAST_BIT + 1

\* Every byte of the terminal comes back to it.
EveryByteReturns ==
  \A b \in Rx!Byte :
    InReceiver /\ h_Byte = b ~> t_SM_Main = "CLEANUP" /\ r_TX_Data = b
=============================================================================
