------------------------------- MODULE UartTx -------------------------------
(***************************************************************************)
(* The UART transmitter, module UART_TX of UART_TX/UART_TX.v.  The         *)
(* variables are its registers; r_TX_Active and r_TX_Done drive the        *)
(* outputs o_TX_Active and o_TX_Done.  Clock(dv, byte) is one rising edge  *)
(* of CLK with dv on i_TX_DV and byte on i_TX_Byte.                        *)
(***************************************************************************)
EXTENDS Naturals

CONSTANTS
  CLKS_PER_BIT,  \* the module's parameter: clocks in one bit
  LAST_BIT,      \* index of the last data bit, 7 in the code
  COUNT_SIZE     \* values of the 8-bit register r_Clock_Count, 256 in the code

VARIABLES
  TX,             \* the serial output, one clock behind the state machine
  t_SM_Main,      \* r_SM_Main
  t_Clock_Count,  \* r_Clock_Count
  t_Bit_Index,    \* r_Bit_Index: the data bit that goes out
  r_TX_Data,      \* the byte that was accepted
  r_TX_Active,    \* 1 from the acceptance of a byte to the end of its stop bit
  r_TX_Done       \* 1 when a byte is out

vars == <<TX, t_SM_Main, t_Clock_Count, t_Bit_Index, r_TX_Data, r_TX_Active, r_TX_Done>>

Bit == {0, 1}
Byte == [0..LAST_BIT -> Bit]
State == {"IDLE", "TX_START_BIT", "TX_DATA_BITS", "TX_STOP_BIT", "CLEANUP"}

\* The registers keep to their widths, the bit index to the bits of a byte
\* (UART_TX.v:29-35).
TypeOK ==
  /\ TX \in Bit
  /\ t_SM_Main \in State
  /\ t_Clock_Count \in 0 .. COUNT_SIZE - 1
  /\ t_Bit_Index \in 0..LAST_BIT
  /\ r_TX_Data \in Byte
  /\ r_TX_Active \in Bit
  /\ r_TX_Done \in Bit

\* TX is the one register without an initial value.
Init ==
  /\ TX \in Bit
  /\ t_SM_Main = "IDLE"
  /\ t_Clock_Count = 0
  /\ t_Bit_Index = 0
  /\ r_TX_Data = [i \in 0..LAST_BIT |-> 0]
  /\ r_TX_Active = 0
  /\ r_TX_Done = 0

-----------------------------------------------------------------------------
\* Fault: a register with half as many values.
NarrowCount == (t_Clock_Count + 1) % (COUNT_SIZE \div 2)

\* t_Clock_Count + 1 in the width of the register: it wraps to 0.
NextCount == IF t_Clock_Count + 1 = COUNT_SIZE THEN 0 ELSE t_Clock_Count + 1

\* Fault: a bit is one clock longer.
BitOverLate == t_Clock_Count >= CLKS_PER_BIT

BitOver == t_Clock_Count >= CLKS_PER_BIT - 1

AllBits == t_Bit_Index >= LAST_BIT

\* Fault: the most significant bit goes first.
DataBitReversed == r_TX_Data[LAST_BIT - t_Bit_Index]

DataBit == r_TX_Data[t_Bit_Index]

\* The one state in which i_TX_DV is looked at.
Idle(dv, byte) ==
  /\ t_SM_Main = "IDLE"
  /\ TX' = 1
  /\ r_TX_Done' = 0
  /\ t_Clock_Count' = 0
  /\ t_Bit_Index' = 0
  /\ \/ /\ dv = 1
        /\ r_TX_Active' = 1
        /\ r_TX_Data' = byte
        /\ t_SM_Main' = "TX_START_BIT"
     \/ /\ dv # 1
        /\ UNCHANGED <<r_TX_Active, r_TX_Data, t_SM_Main>>

StartBit ==
  /\ t_SM_Main = "TX_START_BIT"
  /\ TX' = 0
  /\ \/ /\ t_Clock_Count = CLKS_PER_BIT - 1
        /\ t_Clock_Count' = 0
        /\ t_SM_Main' = "TX_DATA_BITS"
     \/ /\ t_Clock_Count # CLKS_PER_BIT - 1
        /\ t_Clock_Count' = NextCount
        /\ UNCHANGED t_SM_Main
  /\ UNCHANGED <<t_Bit_Index, r_TX_Data, r_TX_Active, r_TX_Done>>

DataBits ==
  /\ t_SM_Main = "TX_DATA_BITS"
  /\ TX' = DataBit
  /\ \/ /\ ~BitOver
        /\ t_Clock_Count' = NextCount
        /\ UNCHANGED <<t_SM_Main, t_Bit_Index>>
     \/ /\ BitOver /\ ~AllBits
        /\ t_Clock_Count' = 0
        /\ t_Bit_Index' = t_Bit_Index + 1
        /\ UNCHANGED t_SM_Main
     \/ /\ BitOver /\ AllBits
        /\ t_Clock_Count' = 0
        /\ t_Bit_Index' = 0
        /\ t_SM_Main' = "TX_STOP_BIT"
  /\ UNCHANGED <<r_TX_Data, r_TX_Active, r_TX_Done>>

\* Fault: the stop bit is not waited for.
StopBitSkipped ==
  /\ t_SM_Main = "TX_STOP_BIT"
  /\ TX' = 1
  /\ r_TX_Done' = 1
  /\ t_SM_Main' = "CLEANUP"
  /\ r_TX_Active' = 0
  /\ UNCHANGED <<t_Clock_Count, t_Bit_Index, r_TX_Data>>

StopBit ==
  /\ t_SM_Main = "TX_STOP_BIT"
  /\ TX' = 1
  /\ \/ /\ ~BitOver
        /\ t_Clock_Count' = NextCount
        /\ UNCHANGED <<t_SM_Main, r_TX_Active, r_TX_Done>>
     \/ /\ BitOver
        /\ r_TX_Done' = 1
        /\ t_Clock_Count' = 0
        /\ t_SM_Main' = "CLEANUP"
        /\ r_TX_Active' = 0
  /\ UNCHANGED <<t_Bit_Index, r_TX_Data>>

Cleanup ==
  /\ t_SM_Main = "CLEANUP"
  /\ r_TX_Done' = 1
  /\ t_SM_Main' = "IDLE"
  /\ UNCHANGED <<TX, t_Clock_Count, t_Bit_Index, r_TX_Data, r_TX_Active>>

Clock(dv, byte) == Idle(dv, byte) \/ StartBit \/ DataBits \/ StopBit \/ Cleanup
=============================================================================
