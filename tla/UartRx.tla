------------------------------- MODULE UartRx -------------------------------
(***************************************************************************)
(* The UART receiver, module UART_RX of UART_RX/UART_RX.v (the copies in   *)
(* UART_TX/, VGA_UART/ and REFERENCE_FILES/ are byte for byte the same).   *)
(* The variables are its five registers.  Clock(RX) is one rising edge of  *)
(* CLK with the value RX on the serial input; each disjunct of Clock is    *)
(* one branch of the case statement.                                       *)
(***************************************************************************)
EXTENDS Naturals

CONSTANTS
  CLKS_PER_BIT,  \* the module's parameter: clocks in one bit
  LAST_BIT,      \* index of the last data bit, 7 in the code
  COUNT_SIZE     \* values of the 8-bit register r_Clock_Count, 256 in the code

ASSUME UartRxAssumption ==
  /\ CLKS_PER_BIT \in Nat \ {0}
  /\ LAST_BIT \in Nat
  /\ COUNT_SIZE \in Nat \ {0}

VARIABLES
  r_SM_Main,      \* state of the state machine
  r_Clock_Count,  \* clocks spent in the current bit
  r_Bit_Index,    \* the data bit that is sampled next
  r_RX_Byte,      \* the byte as sampled so far, bit 0 first; drives o_RX_Byte
  r_RX_DV         \* 1 when a byte is complete; drives o_RX_DV

vars == <<r_SM_Main, r_Clock_Count, r_Bit_Index, r_RX_Byte, r_RX_DV>>

Bit == {0, 1}
Byte == [0..LAST_BIT -> Bit]
State == {"IDLE", "RX_START_BIT", "RX_DATA_BITS", "RX_STOP_BIT", "CLEANUP"}

\* The registers keep to their widths, the bit index to the bits of a byte
\* (UART_RX.v:29-33).
TypeOK ==
  /\ r_SM_Main \in State
  /\ r_Clock_Count \in 0 .. COUNT_SIZE - 1
  /\ r_Bit_Index \in 0..LAST_BIT
  /\ r_RX_Byte \in Byte
  /\ r_RX_DV \in Bit

Init ==
  /\ r_SM_Main = "IDLE"
  /\ r_Clock_Count = 0
  /\ r_Bit_Index = 0
  /\ r_RX_Byte = [i \in 0..LAST_BIT |-> 0]
  /\ r_RX_DV = 0

-----------------------------------------------------------------------------
\* Clocks from the detection of the start bit to its middle.
HalfBit == (CLKS_PER_BIT - 1) \div 2

\* Fault: a register with half as many values.
NarrowCount == (r_Clock_Count + 1) % (COUNT_SIZE \div 2)

\* r_Clock_Count + 1 in the width of the register: it wraps to 0.
NextCount == IF r_Clock_Count + 1 = COUNT_SIZE THEN 0 ELSE r_Clock_Count + 1

\* Fault: a bit is one clock longer.
BitOverLate == r_Clock_Count >= CLKS_PER_BIT

BitOver == r_Clock_Count >= CLKS_PER_BIT - 1

AllBits == r_Bit_Index >= LAST_BIT

\* The clock count and the bit index are cleared on every clock of IDLE.
Idle(RX) ==
  /\ r_SM_Main = "IDLE"
  /\ r_RX_DV' = 0
  /\ r_Clock_Count' = 0
  /\ r_Bit_Index' = 0
  /\ r_SM_Main' = IF RX = 0 THEN "RX_START_BIT" ELSE "IDLE"
  /\ UNCHANGED r_RX_Byte

\* The line is looked at once more in the middle of the start bit.
StartBit(RX) ==
  /\ r_SM_Main = "RX_START_BIT"
  /\ \/ /\ r_Clock_Count # HalfBit
        /\ r_Clock_Count' = NextCount
        /\ UNCHANGED r_SM_Main
     \/ /\ r_Clock_Count = HalfBit /\ RX = 0
        /\ r_Clock_Count' = 0
        /\ r_SM_Main' = "RX_DATA_BITS"
     \/ /\ r_Clock_Count = HalfBit /\ RX # 0
        /\ r_SM_Main' = "IDLE"
        /\ UNCHANGED r_Clock_Count
  /\ UNCHANGED <<r_Bit_Index, r_RX_Byte, r_RX_DV>>

DataBits(RX) ==
  /\ r_SM_Main = "RX_DATA_BITS"
  /\ \/ /\ ~BitOver
        /\ r_Clock_Count' = NextCount
        /\ UNCHANGED <<r_SM_Main, r_Bit_Index, r_RX_Byte>>
     \/ /\ BitOver
        /\ r_Clock_Count' = 0
        /\ r_RX_Byte' = [r_RX_Byte EXCEPT ![r_Bit_Index] = RX]
        /\ \/ /\ ~AllBits
              /\ r_Bit_Index' = r_Bit_Index + 1
              /\ UNCHANGED r_SM_Main
           \/ /\ AllBits
              /\ r_Bit_Index' = 0
              /\ r_SM_Main' = "RX_STOP_BIT"
  /\ UNCHANGED r_RX_DV

\* The stop bit is waited for, and its value is not looked at.
StopBit ==
  /\ r_SM_Main = "RX_STOP_BIT"
  /\ \/ /\ ~BitOver
        /\ r_Clock_Count' = NextCount
        /\ UNCHANGED <<r_SM_Main, r_RX_DV>>
     \/ /\ BitOver
        /\ r_RX_DV' = 1
        /\ r_Clock_Count' = 0
        /\ r_SM_Main' = "CLEANUP"
  /\ UNCHANGED <<r_Bit_Index, r_RX_Byte>>

\* Fault: r_RX_DV is left for IDLE to clear.
CleanupKeepsDV ==
  /\ r_SM_Main = "CLEANUP"
  /\ r_SM_Main' = "IDLE"
  /\ UNCHANGED <<r_Clock_Count, r_Bit_Index, r_RX_Byte, r_RX_DV>>

Cleanup ==
  /\ r_SM_Main = "CLEANUP"
  /\ r_SM_Main' = "IDLE"
  /\ r_RX_DV' = 0
  /\ UNCHANGED <<r_Clock_Count, r_Bit_Index, r_RX_Byte>>

Clock(RX) == Idle(RX) \/ StartBit(RX) \/ DataBits(RX) \/ StopBit \/ Cleanup
=============================================================================
