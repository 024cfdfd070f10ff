--------------------------- MODULE UartEchoProofs ---------------------------
(***************************************************************************)
(* With two clocks of rest after each stop bit the unbuffered echo loses   *)
(* nothing, for every divider, number of data bits and skew that the       *)
(* receiver tolerates.  The transmitter is timed against the terminal: it  *)
(* began before the frame now coming in by so many clocks that it is done  *)
(* when the frame is announced.                                            *)
(*                                                                         *)
(* What RxLinkProofs says of a host and a receiver holds of those here, by *)
(* the instance L of that module.                                          *)
(***************************************************************************)
EXTENDS TopVga, SequenceTheorems, TLAPS

L == INSTANCE RxLinkProofs

Stop == LAST_BIT + 2

\* Clocks in n bits.
Bits(n) == n * CLKS_PER_BIT

\* Clocks since the transmitter took up its byte.
TxTime ==
  CASE t_SM_Main = "TX_START_BIT" -> t_Clock_Count
    [] t_SM_Main = "TX_DATA_BITS" -> Bits(t_Bit_Index + 1) + t_Clock_Count
    [] t_SM_Main = "TX_STOP_BIT" -> Bits(LAST_BIT + 2) + t_Clock_Count
    [] OTHER -> Bits(LAST_BIT + 3)

\* Clocks since the start edge.
HostTime == Bits(h_Pos) + h_Count

\* The receiver waits for a start edge that has not come.
Waiting == h_Pos = Stop /\ r_SM_Main = "IDLE"

-----------------------------------------------------------------------------
TxTypes ==
  /\ Tx!TypeOK
  /\ t_Clock_Count < CLKS_PER_BIT
  /\ t_SM_Main = "TX_START_BIT" => t_Bit_Index = 0

\* A busy transmitter began when the receiver announced its byte, L!H + 2
\* clocks into a stop bit; a frame that has begun since did so when that stop
\* bit and the rest after it were over.
Ahead ==
  t_SM_Main # "IDLE" =>
    IF Waiting THEN TxTime >= h_Count - (L!H + 3)
    ELSE TxTime >= HostTime + CLKS_PER_BIT + GAP - (L!H + 3)

\* How many bits of the byte that comes in the receiver has.
BitsIn ==
  CASE r_SM_Main = "RX_DATA_BITS" -> r_Bit_Index
    [] r_SM_Main \in {"RX_STOP_BIT", "CLEANUP"} -> LAST_BIT + 1
    [] OTHER -> 0

\* The others are those of the byte before, which the transmitter has.
OldBits == \A i \in BitsIn .. LAST_BIT : r_RX_Byte[i] = r_TX_Data[i]

\* The inductive invariant.
EchoInv == L!LinkInv /\ TxTypes /\ Ahead /\ OldBits /\ DigitsShowMix

-----------------------------------------------------------------------------
\* The assumption of the receiver's proofs.
LEMMA LinkAssumed ==
  /\ CLKS_PER_BIT \in Nat \ {0}
  /\ LAST_BIT \in Nat
  /\ COUNT_SIZE \in Nat /\ CLKS_PER_BIT <= COUNT_SIZE
  /\ SKEW \in Nat
  /\ SKEW <= L!Rx!HalfBit + 1
  /\ SKEW <= CLKS_PER_BIT - L!Rx!HalfBit - 2
  /\ GAP \in Int /\ GAP >= L!Rx!HalfBit + 3 - CLKS_PER_BIT
  /\ None \notin L!Rx!Byte
  <1>1. L!Rx!Byte = Rx!Byte /\ L!Rx!HalfBit = Rx!HalfBit
    BY DEF L!Rx!Byte, Rx!Byte, L!Rx!Bit, Rx!Bit, L!Rx!HalfBit, Rx!HalfBit
  <1> QED
    BY <1>1, UartEchoAssumption

\* The assumption in terms of the middle of a bit.
LEMMA Margins ==
  /\ CLKS_PER_BIT \in Nat \ {0} /\ LAST_BIT \in Nat /\ COUNT_SIZE \in Nat
  /\ CLKS_PER_BIT <= COUNT_SIZE /\ GAP \in Int
  /\ L!H \in Nat /\ L!H + 2 <= CLKS_PER_BIT
  /\ CLKS_PER_BIT + GAP >= L!H + 3
  <1>1. L!H \in Nat
    BY LinkAssumed, L!HalfBitBounds
  <1> QED
    BY <1>1, LinkAssumed DEF L!H

LEMMA BitsAdd ==
  ASSUME NEW n \in Nat
  PROVE  Bits(n) \in Nat /\ Bits(n + 1) = Bits(n) + CLKS_PER_BIT
  BY Margins DEF Bits

LEMMA BitsGrow ==
  ASSUME NEW m \in Nat, NEW n \in Nat, m <= n
  PROVE  Bits(m) <= Bits(n)
  BY Margins DEF Bits

LEMMA FrameBits ==
  /\ Bits(0) = 0 /\ Bits(1) = CLKS_PER_BIT
  /\ Bits(LAST_BIT + 1) \in Nat
  /\ Bits(LAST_BIT + 2) = Bits(LAST_BIT + 1) + CLKS_PER_BIT
  /\ Bits(LAST_BIT + 3) = Bits(LAST_BIT + 2) + CLKS_PER_BIT
  <1>1. Bits(0) = 0 /\ Bits(1) = CLKS_PER_BIT
    BY Margins DEF Bits
  <1>2. Bits(LAST_BIT + 1) \in Nat /\ Bits((LAST_BIT + 1) + 1) = Bits(LAST_BIT + 1) + CLKS_PER_BIT
    BY BitsAdd, Margins
  <1>3. Bits((LAST_BIT + 2) + 1) = Bits(LAST_BIT + 2) + CLKS_PER_BIT
    BY BitsAdd, Margins
  <1>4. (LAST_BIT + 1) + 1 = LAST_BIT + 2 /\ (LAST_BIT + 2) + 1 = LAST_BIT + 3
    BY Margins
  <1> QED
    BY <1>1, <1>2, <1>3, <1>4

-----------------------------------------------------------------------------
\* The receiver and the terminal of the instance are those of the echo.
LEMMA SameReceiver ==
  ASSUME NEW RX, Rx!Clock(RX)
  PROVE  L!Rx!Clock(RX)
  <1>1. CASE Rx!Idle(RX)
    BY <1>1 DEF Rx!Idle, L!Rx!Idle, L!Rx!Clock
  <1>2. CASE Rx!StartBit(RX)
    BY <1>2 DEF Rx!StartBit, L!Rx!StartBit, L!Rx!Clock, Rx!HalfBit, L!Rx!HalfBit,
       Rx!NextCount, L!Rx!NextCount
  <1>3. CASE Rx!DataBits(RX)
    BY <1>3 DEF Rx!DataBits, L!Rx!DataBits, L!Rx!Clock, Rx!BitOver, L!Rx!BitOver,
       Rx!AllBits, L!Rx!AllBits, Rx!NextCount, L!Rx!NextCount
  <1>4. CASE Rx!StopBit
    BY <1>4 DEF Rx!StopBit, L!Rx!StopBit, L!Rx!Clock, Rx!BitOver, L!Rx!BitOver,
       Rx!NextCount, L!Rx!NextCount
  <1>5. CASE Rx!Cleanup
    BY <1>5 DEF Rx!Cleanup, L!Rx!Cleanup, L!Rx!Clock
  <1> QED
    BY <1>1, <1>2, <1>3, <1>4, <1>5 DEF Rx!Clock

LEMMA SameHost == Host!Clock => L!Host!Clock
  <1> SUFFICES ASSUME Host!Clock PROVE L!Host!Clock
    OBVIOUS
  <1>1. CASE Host!Hold
    BY <1>1 DEF Host!Hold, L!Host!Hold, L!Host!Clock, Host!Stop, L!Host!Stop
  <1>2. CASE Host!Shift
    BY <1>2 DEF Host!Shift, L!Host!Shift, L!Host!Clock, Host!Stop, L!Host!Stop
  <1>3. CASE Host!Rest
    BY <1>3 DEF Host!Rest, L!Host!Rest, L!Host!Clock, Host!Stop, L!Host!Stop,
       Host!Rested, L!Host!Rested
  <1>4. CASE \E b \in Host!Byte : Host!Start(b)
    BY <1>4 DEF Host!Start, L!Host!Start, L!Host!Clock, Host!Stop, L!Host!Stop,
       Host!Byte, L!Host!Byte
  <1> QED
    BY <1>1, <1>2, <1>3, <1>4 DEF Host!Clock

\* One clock of the echo.
LEMMA NextParts ==
  ASSUME Next
  PROVE  /\ L!Next
         /\ Tx!Clock(r_RX_DV, r_RX_Byte)
         /\ S1' = Digit1!Encoding(High(r_RX_Byte)) /\ S2' = Digit2!Encoding(Low(r_RX_Byte))
  <1>1. L!Host!Line = Host!Line
    BY DEF L!Host!Line, Host!Line
  <1>2. L!Rx!Clock(L!Host!Line) /\ L!Host!Clock
    BY <1>1, SameReceiver, SameHost DEF Next
  <1> QED
    BY <1>2 DEF Next, L!Next, Echo, Display, Digit1!Clock, Digit2!Clock

-----------------------------------------------------------------------------
\* A clock of the transmitter keeps its registers within their widths
\* (UART_TX.v:39-134).
LEMMA TxTypesStep ==
  ASSUME TxTypes, NEW dv \in Tx!Bit, NEW byte \in Tx!Byte, Tx!Clock(dv, byte)
  PROVE  TxTypes'
  <1> USE Margins DEF TxTypes, Tx!TypeOK, Tx!State, Tx!Bit
  <1>1. Tx!NextCount \in 0 .. COUNT_SIZE - 1
    BY DEF Tx!NextCount
  <1>2. t_Clock_Count < CLKS_PER_BIT - 1 => Tx!NextCount < CLKS_PER_BIT
    BY DEF Tx!NextCount
  <1>3. CASE Tx!Idle(dv, byte)
    BY <1>3 DEF Tx!Idle
  <1>4. CASE Tx!StartBit
    BY <1>1, <1>2, <1>4 DEF Tx!StartBit
  <1>5. CASE Tx!DataBits
    <2>1. Tx!DataBit \in {0, 1}
      BY DEF Tx!DataBit, Tx!Byte
    <2> QED
      BY <1>1, <1>2, <1>5, <2>1 DEF Tx!DataBits, Tx!AllBits, Tx!BitOver
  <1>6. CASE Tx!StopBit
    BY <1>1, <1>2, <1>6 DEF Tx!StopBit, Tx!BitOver
  <1>7. CASE Tx!Cleanup
    BY <1>7 DEF Tx!Cleanup
  <1> QED
    BY <1>3, <1>4, <1>5, <1>6, <1>7 DEF Tx!Clock

\* A busy transmitter has been so for a frame at the most.
LEMMA TimeEnds ==
  ASSUME TxTypes, t_SM_Main # "IDLE"
  PROVE  TxTime \in Nat /\ TxTime <= Bits(LAST_BIT + 3)
  <1> USE Margins, FrameBits DEF TxTypes, Tx!TypeOK, Tx!State
  <1>1. CASE t_SM_Main = "TX_DATA_BITS"
    <2>1. t_Bit_Index + 1 \in Nat /\ LAST_BIT + 1 \in Nat /\ t_Bit_Index + 1 <= LAST_BIT + 1
      OBVIOUS
    <2>2. Bits(t_Bit_Index + 1) \in Nat /\ Bits(t_Bit_Index + 1) <= Bits(LAST_BIT + 1)
      BY <2>1, BitsAdd, BitsGrow
    <2> QED
      BY <1>1, <2>2 DEF TxTime
  <1>2. CASE t_SM_Main # "TX_DATA_BITS"
    BY <1>2 DEF TxTime
  <1> QED
    BY <1>1, <1>2

\* Clock by clock (UART_TX.v:62-128).
LEMMA TimeGoesOn ==
  ASSUME TxTypes, t_SM_Main # "IDLE", NEW dv, NEW byte, Tx!Clock(dv, byte)
  PROVE  /\ t_SM_Main' = "IDLE" \/ TxTime' = TxTime + 1
         /\ r_TX_Data' = r_TX_Data
  <1> USE Margins, FrameBits DEF TxTypes, Tx!TypeOK
  <1>1. t_Clock_Count < CLKS_PER_BIT - 1 => Tx!NextCount = t_Clock_Count + 1
    BY DEF Tx!NextCount
  <1>2. CASE Tx!StartBit
    <2>1. t_Bit_Index + 1 = 1 /\ t_Bit_Index' = t_Bit_Index
      BY <1>2 DEF Tx!StartBit
    <2> QED
      BY <1>1, <1>2, <2>1 DEF Tx!StartBit, TxTime
  <1>3. CASE Tx!DataBits
    <2>1. t_Bit_Index + 1 \in Nat
      OBVIOUS
    <2>2. Bits(t_Bit_Index + 1) \in Nat
          /\ Bits((t_Bit_Index + 1) + 1) = Bits(t_Bit_Index + 1) + CLKS_PER_BIT
      BY <2>1, BitsAdd
    <2>3. CASE ~Tx!BitOver
      BY <1>1, <1>3, <2>2, <2>3 DEF Tx!DataBits, Tx!BitOver, TxTime
    <2>4. CASE Tx!BitOver /\ ~Tx!AllBits
      BY <1>3, <2>2, <2>4 DEF Tx!DataBits, Tx!BitOver, Tx!AllBits, TxTime
    <2>5. CASE Tx!BitOver /\ Tx!AllBits
      <3>1. t_Bit_Index = LAST_BIT /\ t_Clock_Count = CLKS_PER_BIT - 1
        BY <2>5 DEF Tx!BitOver, Tx!AllBits
      <3> QED
        BY <1>3, <2>5, <3>1 DEF Tx!DataBits, TxTime
    <2> QED
      BY <2>3, <2>4, <2>5
  <1>4. CASE Tx!StopBit
    BY <1>1, <1>4 DEF Tx!StopBit, Tx!BitOver, TxTime
  <1>5. CASE Tx!Cleanup
    BY <1>5 DEF Tx!Cleanup
  <1> QED
    BY <1>2, <1>3, <1>4, <1>5 DEF Tx!Clock, Tx!Idle

-----------------------------------------------------------------------------
\* A waiting receiver sees the line at 1; the terminal rests, or the start
\* edge comes.
LEMMA WaitingStep ==
  ASSUME L!LinkInv, L!Next, Waiting
  PROVE  /\ r_SM_Main' = "IDLE" /\ r_RX_Byte' = r_RX_Byte /\ r_RX_DV' = 0
         /\ \/ h_Pos' = Stop /\ h_Count' \in Int /\ h_Count' <= h_Count + 1 /\ h_Byte' = h_Byte
            \/ h_Pos' = 0 /\ h_Count' = 0 /\ h_Count + 1 >= CLKS_PER_BIT + GAP
  <1> USE Margins DEF Waiting, Stop
  <1>1. h_Count \in Int /\ L!Host!Line = 1
    BY DEF L!LinkInv, L!TypeOK, L!Host!TypeOK, L!Host!Line
  <1>2. L!Rx!Idle(L!Host!Line)
    BY DEF L!Next, L!Rx!Clock, L!Rx!StartBit, L!Rx!DataBits, L!Rx!StopBit, L!Rx!Cleanup
  <1>3. r_SM_Main' = "IDLE" /\ r_RX_Byte' = r_RX_Byte /\ r_RX_DV' = 0
    BY <1>1, <1>2 DEF L!Rx!Idle
  <1>4. L!Host!Rest \/ \E b \in L!Host!Byte : L!Host!Start(b)
    BY DEF L!Next, L!Host!Clock, L!Host!Hold, L!Host!Shift, L!Host!Stop
  <1> QED
    BY <1>1, <1>3, <1>4 DEF L!Host!Rest, L!Host!Start, L!Host!Stop

\* A receiver that announces a byte waits from the next clock on: no start
\* edge comes so early.
LEMMA AnnouncingStep ==
  ASSUME L!LinkInv, L!Next, r_SM_Main = "CLEANUP"
  PROVE  /\ r_RX_DV = 1 /\ h_Pos = Stop /\ h_Count = L!H + 2 /\ r_RX_Byte = h_Byte
         /\ r_SM_Main' = "IDLE" /\ r_RX_Byte' = r_RX_Byte /\ r_RX_DV' = 0
         /\ \/ h_Pos' = Stop /\ h_Count' = L!H + 3 /\ h_Byte' = h_Byte
            \/ h_Pos' = 0 /\ h_Count' = 0 /\ L!H + 3 >= CLKS_PER_BIT + GAP
  <1> USE Margins DEF Stop
  <1>1. r_RX_DV = 1 /\ h_Pos = Stop /\ h_Count = L!H + 2 /\ r_RX_Byte = h_Byte
    BY DEF L!LinkInv, L!CleanupPhase, L!Host!Stop
  <1>2. L!Rx!Cleanup
    BY DEF L!Next, L!Rx!Clock, L!Rx!Idle, L!Rx!StartBit, L!Rx!DataBits, L!Rx!StopBit
  <1>3. L!Host!Rest \/ \E b \in L!Host!Byte : L!Host!Start(b)
    BY <1>1 DEF L!Next, L!Host!Clock, L!Host!Hold, L!Host!Shift, L!Host!Stop
  <1> QED
    BY <1>1, <1>2, <1>3 DEF L!Rx!Cleanup, L!Host!Rest, L!Host!Rested, L!Host!Start, L!Host!Stop

\* While a frame comes in, the terminal's time goes on and its byte stays.
LEMMA ComingStep ==
  ASSUME L!LinkInv, L!Next, ~Waiting, r_SM_Main # "CLEANUP"
  PROVE  /\ r_SM_Main' # "IDLE" /\ h_Byte' = h_Byte
         /\ h_Pos \in Nat /\ h_Count \in Int /\ h_Pos' \in Nat /\ h_Count' \in Int
         /\ HostTime' = HostTime + 1
  <1> USE Margins DEF Stop
  <1>1. h_Pos \in 0 .. Stop /\ h_Count \in Int /\ L!Host!TypeOK
    BY DEF L!LinkInv, L!TypeOK, L!Host!TypeOK, L!Host!Stop
  <1>2. L!HostBounds /\ L!Host!Clock /\ L!Rx!TypeOK
    BY DEF L!LinkInv, L!TypeOK, L!Next
  <1>3. h_Pos # Stop \/ h_Count < L!H + 2
    <2>1. CASE r_SM_Main = "IDLE"
      BY <2>1 DEF Waiting
    <2>2. CASE r_SM_Main = "RX_START_BIT"
      BY <2>2 DEF L!LinkInv, L!StartPhase
    <2>3. CASE r_SM_Main = "RX_DATA_BITS"
      BY <2>3, <1>2 DEF L!LinkInv, L!DataPhase, L!Follows, L!Rx!TypeOK
    <2>4. CASE r_SM_Main = "RX_STOP_BIT"
      BY <2>4, <1>2 DEF L!LinkInv, L!StopPhase, L!Follows, L!Rx!TypeOK
    <2> QED
      BY <2>1, <2>2, <2>3, <2>4, <1>2 DEF L!Rx!TypeOK, L!Rx!State
  <1>4. /\ h_Byte' = h_Byte
        /\ \/ h_Pos' = h_Pos /\ h_Count' = h_Count + 1
           \/ h_Pos' = h_Pos + 1 /\ h_Count' = h_Count + 1 - CLKS_PER_BIT
    BY <1>1, <1>2, <1>3 DEF L!Host!Clock, L!Host!Hold, L!Host!Shift, L!Host!Rest,
       L!Host!Rested, L!Host!Start, L!Host!Stop
  <1>5. HostTime' = HostTime + 1
    <2>1. h_Pos \in Nat
      BY <1>1
    <2>2. Bits(h_Pos) \in Nat /\ Bits(h_Pos + 1) = Bits(h_Pos) + CLKS_PER_BIT
      BY <2>1, BitsAdd
    <2> QED
      BY <1>1, <1>4, <2>2 DEF HostTime
  <1>6. r_SM_Main' # "IDLE"
    <2>1. CASE r_SM_Main = "IDLE"
      <3>1. L!Host!Line = 0
        BY <2>1 DEF L!LinkInv, L!IdlePhase, Waiting, L!Host!Stop, L!Host!Line
      <3> QED
        BY <2>1, <3>1 DEF L!Next, L!Rx!Clock, L!Rx!Idle, L!Rx!StartBit, L!Rx!DataBits,
           L!Rx!StopBit, L!Rx!Cleanup
    <2>2. CASE r_SM_Main = "RX_START_BIT"
      <3>1. L!Host!Line = 0
        BY <2>2 DEF L!LinkInv, L!StartPhase, L!Host!Line
      <3> QED
        BY <2>2, <3>1 DEF L!Next, L!Rx!Clock, L!Rx!Idle, L!Rx!StartBit, L!Rx!DataBits,
           L!Rx!StopBit, L!Rx!Cleanup
    <2>3. CASE r_SM_Main \in {"RX_DATA_BITS", "RX_STOP_BIT"}
      BY <2>3 DEF L!Next, L!Rx!Clock, L!Rx!Idle, L!Rx!StartBit, L!Rx!DataBits,
         L!Rx!StopBit, L!Rx!Cleanup
    <2> QED
      BY <2>1, <2>2, <2>3, <1>2 DEF L!Rx!TypeOK, L!Rx!State
  <1> QED
    BY <1>1, <1>4, <1>5, <1>6

-----------------------------------------------------------------------------
\* When a byte is announced the transmitter is done with the one before: it
\* has had the clocks of a frame and of the two of rest.
LEMMA DoneInTime ==
  ASSUME GAP >= 2, L!LinkInv, TxTypes, Ahead, r_SM_Main = "CLEANUP"
  PROVE  t_SM_Main = "IDLE"
  <1> SUFFICES ASSUME t_SM_Main # "IDLE" PROVE FALSE
    OBVIOUS
  <1> USE Margins, FrameBits
  <1>1. h_Pos = LAST_BIT + 2 /\ h_Count = L!H + 2
    BY DEF L!LinkInv, L!CleanupPhase, L!Host!Stop
  <1>2. TxTime >= Bits(LAST_BIT + 2) + L!H + 2 + CLKS_PER_BIT + GAP - (L!H + 3)
    BY <1>1 DEF Ahead, Waiting, HostTime
  <1>3. TxTime \in Nat /\ TxTime <= Bits(LAST_BIT + 3)
    BY TimeEnds
  <1> QED
    BY <1>2, <1>3

LEMMA AheadStep ==
  ASSUME GAP >= 2, L!LinkInv, TxTypes, Ahead,
         L!Next, Tx!Clock(r_RX_DV, r_RX_Byte)
  PROVE  Ahead'
  <1> SUFFICES ASSUME t_SM_Main' # "IDLE"
               PROVE  IF Waiting' THEN TxTime' >= h_Count' - (L!H + 3)
                      ELSE TxTime' >= HostTime' + CLKS_PER_BIT + GAP - (L!H + 3)
    BY DEF Ahead
  <1> USE Margins, FrameBits
  <1>1. CASE t_SM_Main = "IDLE"
    <2>1. Tx!Idle(r_RX_DV, r_RX_Byte) /\ r_RX_DV = 1
      BY <1>1 DEF Tx!Clock, Tx!Idle, Tx!StartBit, Tx!DataBits, Tx!StopBit, Tx!Cleanup
    <2>2. TxTime' = 0
      BY <2>1 DEF Tx!Idle, TxTime
    <2>3. r_SM_Main = "CLEANUP"
      BY <2>1 DEF L!LinkInv
    <2>4. r_SM_Main' = "IDLE" /\ h_Pos' = Stop /\ h_Count' = L!H + 3
      BY <2>3, AnnouncingStep
    <2> QED
      BY <2>2, <2>4 DEF Waiting
  <1>2. CASE t_SM_Main # "IDLE"
    <2>1. TxTime' = TxTime + 1 /\ TxTime \in Nat
      BY <1>2, TimeGoesOn, TimeEnds
    <2>2. r_SM_Main # "CLEANUP"
      BY <1>2, DoneInTime
    <2>3. CASE Waiting
      <3>1. TxTime >= h_Count - (L!H + 3) /\ h_Count \in Int
        BY <1>2, <2>3 DEF Ahead, L!LinkInv, L!TypeOK, L!Host!TypeOK
      <3>2. \/ Waiting' /\ h_Count' \in Int /\ h_Count' <= h_Count + 1
            \/ ~Waiting' /\ HostTime' = 0 /\ h_Count + 1 >= CLKS_PER_BIT + GAP
        BY <2>3, WaitingStep DEF Waiting, HostTime, Stop
      <3> QED
        BY <2>1, <3>1, <3>2
    <2>4. CASE ~Waiting
      <3>1. TxTime >= HostTime + CLKS_PER_BIT + GAP - (L!H + 3)
        BY <1>2, <2>4 DEF Ahead
      <3>2. /\ ~Waiting' /\ HostTime' = HostTime + 1
            /\ h_Pos \in Nat /\ h_Count \in Int
        BY <2>2, <2>4, ComingStep DEF Waiting
      <3>3. HostTime \in Int
        BY <3>2, BitsAdd DEF HostTime
      <3> QED
        BY <2>1, <3>1, <3>2, <3>3
    <2> QED
      BY <2>3, <2>4
  <1> QED
    BY <1>1, <1>2

-----------------------------------------------------------------------------
\* What the transmitter has changes when it takes up a byte, which is when it
\* is announced.
LEMMA DataStep ==
  ASSUME GAP >= 2, L!LinkInv, TxTypes, Ahead, Tx!Clock(r_RX_DV, r_RX_Byte)
  PROVE  r_TX_Data' = IF r_SM_Main = "CLEANUP" THEN r_RX_Byte ELSE r_TX_Data
  <1>1. r_RX_DV = 1 <=> r_SM_Main = "CLEANUP"
    BY DEF L!LinkInv
  <1>2. CASE t_SM_Main = "IDLE"
    BY <1>1, <1>2 DEF Tx!Clock, Tx!Idle, Tx!StartBit, Tx!DataBits, Tx!StopBit, Tx!Cleanup
  <1>3. CASE t_SM_Main # "IDLE"
    BY <1>3, DoneInTime, TimeGoesOn
  <1> QED
    BY <1>2, <1>3

\* The bits of the byte that comes in are sampled one by one
\* (UART_RX.v:74-99).
LEMMA OldBitsStep ==
  ASSUME GAP >= 2, L!LinkInv, TxTypes, Ahead, OldBits,
         L!Next, Tx!Clock(r_RX_DV, r_RX_Byte)
  PROVE  OldBits'
  <1> USE Margins
  <1>1. r_TX_Data' = IF r_SM_Main = "CLEANUP" THEN r_RX_Byte ELSE r_TX_Data
    BY DataStep
  <1>2. L!Rx!TypeOK /\ L!Rx!Clock(L!Host!Line)
    BY DEF L!LinkInv, L!TypeOK, L!Next
  <1>3. CASE r_SM_Main = "CLEANUP"
    <2>1. r_RX_Byte' = r_TX_Data'
      BY <1>1, <1>3, AnnouncingStep
    <2> QED
      BY <2>1 DEF OldBits
  <1>4. CASE r_SM_Main # "CLEANUP"
    <2>1. r_TX_Data' = r_TX_Data
      BY <1>1, <1>4
    <2>2. CASE r_RX_Byte' = r_RX_Byte /\ BitsIn' = BitsIn
      BY <2>1, <2>2 DEF OldBits
    <2>3. CASE L!Rx!DataBits(L!Host!Line) /\ L!Rx!BitOver
      <3>1. /\ BitsIn = r_Bit_Index /\ BitsIn' = r_Bit_Index + 1
            /\ r_Bit_Index \in 0 .. LAST_BIT
        BY <1>2, <2>3 DEF L!Rx!DataBits, L!Rx!AllBits, L!Rx!TypeOK, BitsIn
      <3>2. \A i \in r_Bit_Index + 1 .. LAST_BIT : r_RX_Byte'[i] = r_RX_Byte[i]
        BY <1>2, <2>3, <3>1 DEF L!Rx!DataBits, L!Rx!TypeOK, L!Rx!Byte
      <3>3. \A i \in r_Bit_Index + 1 .. LAST_BIT : r_RX_Byte[i] = r_TX_Data[i]
        BY <3>1 DEF OldBits
      <3> QED
        BY <2>1, <3>1, <3>2, <3>3 DEF OldBits
    <2>4. (L!Rx!DataBits(L!Host!Line) /\ L!Rx!BitOver) \/ (r_RX_Byte' = r_RX_Byte /\ BitsIn' = BitsIn)
      <3>1. CASE L!Rx!Idle(L!Host!Line)
        BY <3>1 DEF L!Rx!Idle, BitsIn
      <3>2. CASE L!Rx!StartBit(L!Host!Line)
        <4>1. r_Bit_Index = 0
          BY <3>2 DEF L!Rx!StartBit, L!LinkInv, L!StartPhase
        <4> QED
          BY <3>2, <4>1 DEF L!Rx!StartBit, BitsIn
      <3>3. CASE L!Rx!DataBits(L!Host!Line)
        BY <3>3 DEF L!Rx!DataBits, BitsIn
      <3>4. CASE L!Rx!StopBit
        BY <3>4 DEF L!Rx!StopBit, BitsIn
      <3> QED
        BY <1>2, <1>4, <3>1, <3>2, <3>3, <3>4 DEF L!Rx!Clock, L!Rx!Cleanup
    <2> QED
      BY <2>2, <2>3, <2>4
  <1> QED
    BY <1>3, <1>4

\* The byte in the receiver is a mixture of the new and the old one.
LEMMA ByteIsMix ==
  ASSUME L!LinkInv, TxTypes, OldBits
  PROVE  BitsIn \in 0 .. LAST_BIT + 1 /\ r_RX_Byte = Mix(BitsIn)
  <1> USE Margins
  <1>1. /\ r_RX_Byte \in [0..LAST_BIT -> {0, 1}] /\ r_Bit_Index \in 0 .. LAST_BIT
        /\ BitsIn \in 0 .. LAST_BIT + 1
    BY DEF L!LinkInv, L!TypeOK, L!Rx!TypeOK, L!Rx!Byte, L!Rx!Bit, BitsIn
  <1>2. \A i \in 0 .. BitsIn - 1 : r_RX_Byte[i] = h_Byte[i]
    <2>1. CASE r_SM_Main = "RX_DATA_BITS"
      BY <2>1 DEF L!LinkInv, L!DataPhase, BitsIn
    <2>2. CASE r_SM_Main \in {"RX_STOP_BIT", "CLEANUP"}
      BY <2>2 DEF L!LinkInv, L!StopPhase, L!CleanupPhase, BitsIn
    <2>3. CASE r_SM_Main \notin {"RX_DATA_BITS", "RX_STOP_BIT", "CLEANUP"}
      BY <2>3 DEF BitsIn
    <2> QED
      BY <2>1, <2>2, <2>3
  <1>3. \A i \in 0 .. LAST_BIT : r_RX_Byte[i] = IF i < BitsIn THEN h_Byte[i] ELSE r_TX_Data[i]
    BY <1>1, <1>2 DEF OldBits
  <1> QED
    BY <1>1, <1>3 DEF Mix

\* The decoders are a clock behind the byte, and so is the mixture they show.
LEMMA LastMix ==
  ASSUME GAP >= 2, L!LinkInv, TxTypes, Ahead, OldBits,
         L!Next, Tx!Clock(r_RX_DV, r_RX_Byte)
  PROVE  \E n \in 0 .. LAST_BIT + 1 :
           /\ r_RX_Byte = [i \in 0..LAST_BIT |-> IF i < n THEN h_Byte'[i] ELSE r_TX_Data'[i]]
           /\ r_RX_DV' = 1 => n = LAST_BIT + 1
  <1> DEFINE NewMix(n) == [i \in 0..LAST_BIT |-> IF i < n THEN h_Byte'[i] ELSE r_TX_Data'[i]]
  <1> USE Margins
  <1>1. /\ BitsIn \in 0 .. LAST_BIT + 1 /\ r_RX_Byte = Mix(BitsIn)
        /\ r_RX_Byte \in [0..LAST_BIT -> {0, 1}]
    BY ByteIsMix DEF L!LinkInv, L!TypeOK, L!Rx!TypeOK, L!Rx!Byte, L!Rx!Bit
  <1>2. r_TX_Data' = IF r_SM_Main = "CLEANUP" THEN r_RX_Byte ELSE r_TX_Data
    BY DataStep
  <1>3. CASE r_SM_Main = "CLEANUP"
    <2>1. r_RX_DV' # 1 /\ r_TX_Data' = r_RX_Byte
      BY <1>2, <1>3, AnnouncingStep
    <2>2. r_RX_Byte = NewMix(0)
      BY <1>1, <2>1
    <2> QED
      BY <2>1, <2>2
  <1>4. CASE Waiting
    <2>1. r_RX_DV' # 1 /\ BitsIn = 0 /\ r_TX_Data' = r_TX_Data
      BY <1>2, <1>4, WaitingStep DEF Waiting, BitsIn
    <2>2. r_RX_Byte = NewMix(0)
      BY <1>1, <2>1 DEF Mix
    <2> QED
      BY <2>1, <2>2
  <1>5. CASE r_SM_Main # "CLEANUP" /\ ~Waiting
    <2>1. h_Byte' = h_Byte /\ r_TX_Data' = r_TX_Data
      BY <1>2, <1>5, ComingStep
    <2>2. r_RX_Byte = NewMix(BitsIn)
      BY <1>1, <2>1 DEF Mix
    <2>3. r_RX_DV' = 1 => BitsIn = LAST_BIT + 1
      <3>1. r_RX_DV = 1 <=> r_SM_Main = "CLEANUP"
        BY DEF L!LinkInv
      <3> QED
        BY <1>5, <3>1 DEF L!Next, L!Rx!Clock, L!Rx!Idle, L!Rx!StartBit, L!Rx!DataBits,
           L!Rx!StopBit, L!Rx!Cleanup, BitsIn
    <2> QED
      BY <1>1, <2>2, <2>3
  <1> QED
    BY <1>3, <1>4, <1>5

LEMMA DigitsStep ==
  ASSUME GAP >= 2, L!LinkInv, TxTypes, Ahead, OldBits, Next
  PROVE  DigitsShowMix'
  <1>1. PICK n \in 0 .. LAST_BIT + 1 :
          /\ r_RX_Byte = [i \in 0..LAST_BIT |-> IF i < n THEN h_Byte'[i] ELSE r_TX_Data'[i]]
          /\ r_RX_DV' = 1 => n = LAST_BIT + 1
    BY NextParts, LastMix
  <1>2. Mix(n)' = r_RX_Byte
    BY <1>1 DEF Mix
  <1>3. S1' = Digit1!Encoding(High(r_RX_Byte)) /\ S2' = Digit2!Encoding(Low(r_RX_Byte))
    BY NextParts
  <1>4. S1' = Digit1!Encoding(High(Mix(n)')) /\ S2' = Digit2!Encoding(Low(Mix(n)'))
    BY <1>2, <1>3
  <1> QED
    BY <1>1, <1>4 DEF DigitsShowMix

-----------------------------------------------------------------------------
LEMMA EchoInvInit == Init => EchoInv
  <1> SUFFICES ASSUME Init PROVE EchoInv
    OBVIOUS
  <1> USE Margins
  <1>1. L!Init
    BY DEF Init, L!Init, Host!Init, L!Host!Init, Rx!Init, L!Rx!Init, Host!Stop, L!Host!Stop,
       Host!Rested, L!Host!Rested, Host!Byte, L!Host!Byte
  <1>2. L!LinkInv
    BY <1>1, LinkAssumed, L!LinkInvInit
  <1>3. TxTypes /\ Ahead
    BY DEF Init, Tx!Init, Tx!TypeOK, Tx!State, Tx!Bit, Tx!Byte, TxTypes, Ahead
  <1>4. OldBits
    BY DEF Init, Tx!Init, Rx!Init, OldBits, BitsIn
  <1>5. DigitsShowMix
    BY DEF Init, Digit1!Init, DigitsShowMix
  <1> QED
    BY <1>2, <1>3, <1>4, <1>5 DEF EchoInv

LEMMA EchoInvNext ==
  ASSUME GAP >= 2, EchoInv, Next PROVE EchoInv'
  <1>1. L!LinkInv /\ TxTypes /\ Ahead /\ OldBits
    BY DEF EchoInv
  <1>2. L!Next /\ Tx!Clock(r_RX_DV, r_RX_Byte)
    BY NextParts
  <1>3. L!LinkInv'
    BY <1>1, <1>2, LinkAssumed, L!LinkInvNext
  <1>4. TxTypes'
    <2>1. r_RX_DV \in Tx!Bit /\ r_RX_Byte \in Tx!Byte
      BY <1>1 DEF L!LinkInv, L!TypeOK, L!Rx!TypeOK, L!Rx!Bit, L!Rx!Byte, Tx!Bit, Tx!Byte
    <2> QED
      BY <1>1, <1>2, <2>1, TxTypesStep
  <1>5. Ahead' /\ OldBits' /\ DigitsShowMix'
    BY <1>1, <1>2, AheadStep, OldBitsStep, DigitsStep
  <1> QED
    BY <1>3, <1>4, <1>5 DEF EchoInv

LEMMA EchoInvStutter ==
  ASSUME EchoInv, UNCHANGED vars PROVE EchoInv'
  <1>1. UNCHANGED L!vars /\ UNCHANGED Tx!vars /\ S1' = S1 /\ S2' = S2
    BY DEF vars, L!vars, Host!vars, L!Host!vars, Rx!vars, L!Rx!vars
  <1>2. L!LinkInv'
    BY <1>1, LinkAssumed, L!LinkInvStutter DEF EchoInv
  <1>3. /\ h_Pos' = h_Pos /\ h_Count' = h_Count /\ h_Byte' = h_Byte
        /\ r_SM_Main' = r_SM_Main /\ r_Bit_Index' = r_Bit_Index
        /\ r_RX_Byte' = r_RX_Byte /\ r_RX_DV' = r_RX_DV
        /\ TX' = TX /\ t_SM_Main' = t_SM_Main /\ t_Clock_Count' = t_Clock_Count
        /\ t_Bit_Index' = t_Bit_Index /\ r_TX_Data' = r_TX_Data
        /\ r_TX_Active' = r_TX_Active /\ r_TX_Done' = r_TX_Done
    BY <1>1 DEF L!vars, L!Host!vars, L!Rx!vars, Tx!vars
  <1>4. TxTypes' /\ Ahead' /\ OldBits'
    BY <1>3 DEF EchoInv, TxTypes, Tx!TypeOK, Ahead, Waiting, TxTime, HostTime, OldBits, BitsIn
  <1>5. DigitsShowMix'
    BY <1>1, <1>3 DEF EchoInv, DigitsShowMix, Mix
  <1> QED
    BY <1>2, <1>4, <1>5 DEF EchoInv

\* Terminal, receiver, transmitter and digits are in step in every state, if
\* the terminal rests for two clocks after each stop bit.
THEOREM EchoInvariant ==
  ASSUME GAP >= 2
  PROVE  Spec => []EchoInv
  <1>1. EchoInv /\ [Next]_vars => EchoInv'
    BY EchoInvNext, EchoInvStutter
  <1> QED
    BY EchoInvInit, <1>1, PTL DEF Spec

\* No byte is announced to a transmitter that is busy (UART_TX.v:43-60).
THEOREM NothingIsDropped ==
  ASSUME GAP >= 2
  PROVE  Spec => []NoneDropped
  <1>1. EchoInv => NoneDropped
    BY DoneInTime DEF EchoInv, NoneDropped, L!LinkInv
  <1> QED
    BY EchoInvariant, <1>1, PTL

\* The digits never show anything but some bits of the new byte over the old
\* one, and the whole new byte once it is announced (UART_TX_top.v:67-95).
THEOREM DigitsAreMixed ==
  ASSUME GAP >= 2
  PROVE  Spec => []DigitsShowMix
  <1>1. EchoInv => DigitsShowMix
    BY DEF EchoInv
  <1> QED
    BY EchoInvariant, <1>1, PTL

-----------------------------------------------------------------------------
\* The two places of the pipe and what comes out of it.
Front == IF InTransmitter THEN <<r_TX_Data>> ELSE << >>
Back == IF InReceiver THEN <<h_Byte>> ELSE << >>
Gone == IF t_SM_Main = "CLEANUP" THEN r_TX_Data ELSE None

\* A byte enters the pipe, or none does, and the oldest may leave it.
PipeMoves ==
  \E in \in {<< >>} \cup {<<b>> : b \in Rx!Byte} :
    \/ /\ Front \o Back # << >>
       /\ Gone' = Head(Front \o Back)
       /\ (Front \o Back)' = Tail(Front \o Back) \o in
    \/ Gone' = None /\ (Front \o Back)' = (Front \o Back) \o in

LEMMA TailOfTwo ==
  ASSUME NEW B, NEW p \in B, NEW q \in B
  PROVE  Tail(<<p>> \o <<q>>) = <<q>>
  <1> DEFINE two == <<p>> \o <<q>>
             rest == Tail(two)
  <1>1. two \in Seq(B) /\ Len(two) = 2 /\ two[2] = q /\ two # << >>
    OBVIOUS
  <1> HIDE DEF two
  <1>2. rest \in Seq(B) /\ Len(rest) = 1 /\ rest[1] = two[2]
    <2>1. two \in Seq(B) /\ two # << >>
      BY <1>1
    <2>2. /\ rest \in Seq(B) /\ Len(rest) = Len(two) - 1
          /\ \A i \in 1 .. Len(rest) : rest[i] = two[i + 1]
      BY <2>1, HeadTailProperties
    <2>3. Len(rest) = 1
      BY <1>1, <2>2
    <2>4. 1 \in 1 .. Len(rest) /\ 1 + 1 = 2
      BY <2>3
    <2>5. rest[1] = two[1 + 1]
      BY <2>2, <2>4, Zenon
    <2> QED
      BY <2>2, <2>3, <2>4, <2>5
  <1>3. <<q>> \in Seq(B) /\ Len(<<q>>) = 1 /\ <<q>>[1] = q
    OBVIOUS
  <1> HIDE DEF rest
  <1>4. rest = <<q>>
    BY <1>1, <1>2, <1>3, SeqEqual
  <1> QED
    BY <1>4 DEF two, rest

\* The back of the pipe takes in a byte, or none, or holds the one it has.
Takes(b, b2, in, q) ==
  \/ b = << >> /\ b2 = in /\ in \in {<< >>, <<q>>}
  \/ b = <<q>> /\ b2 = <<q>> /\ in = << >>

\* The front of the pipe has a byte, or none.
Has(f, p) == f = << >> \/ f = <<p>>

LEMMA FrontStays ==
  ASSUME NEW B, NEW p \in B, NEW q \in B, NEW f, Has(f, p),
         NEW b, NEW b2, NEW in, Takes(b, b2, in, q)
  PROVE  f \o b2 = (f \o b) \o in
  <1>1. << >> \o << >> = << >> /\ <<p>> \o << >> = <<p>> /\ << >> \o <<q>> = <<q>>
        /\ (<<p>> \o <<q>>) \o << >> = <<p>> \o <<q>> /\ <<q>> \o << >> = <<q>>
    OBVIOUS
  <1> QED
    BY <1>1 DEF Takes, Has

LEMMA FrontLeaves ==
  ASSUME NEW B, NEW p \in B, NEW q \in B,
         NEW b, NEW b2, NEW in, Takes(b, b2, in, q)
  PROVE  <<p>> \o b # << >> /\ Head(<<p>> \o b) = p /\ << >> \o b2 = Tail(<<p>> \o b) \o in
  <1>1. <<p>> \o << >> = <<p>> /\ <<p>> # << >> /\ Head(<<p>>) = p /\ Tail(<<p>>) = << >>
    OBVIOUS
  <1>2. <<p>> \o <<q>> # << >> /\ Head(<<p>> \o <<q>>) = p
    OBVIOUS
  <1>3. << >> \o <<q>> = <<q>> \o << >>
    OBVIOUS
  <1> QED
    BY <1>1, <1>2, <1>3, TailOfTwo DEF Takes

LEMMA NoMoreThanTwo ==
  ASSUME NEW B, NEW p \in B, NEW q \in B, NEW f \in {<< >>, <<p>>}, NEW b \in {<< >>, <<q>>}
  PROVE  Len(f \o b) <= 2
  <1>1. Len(<< >> \o << >>) = 0 /\ Len(<<p>> \o << >>) = 1 /\ Len(<< >> \o <<q>>) = 1
        /\ Len(<<p>> \o <<q>>) = 2
    OBVIOUS
  <1>2. CASE f = << >> /\ b = << >>
    BY <1>1, <1>2
  <1>3. CASE f = << >> /\ b = <<q>>
    BY <1>1, <1>3
  <1>4. CASE f = <<p>> /\ b = << >>
    BY <1>1, <1>4
  <1>5. CASE f = <<p>> /\ b = <<q>>
    BY <1>1, <1>5
  <1> QED
    BY <1>2, <1>3, <1>4, <1>5

\* A transmitter that is told nothing goes on with its byte, and hands it over
\* at the end of the stop bit (UART_TX.v:62-128).
LEMMA FrontStep ==
  ASSUME TxTypes, r_RX_DV # 1, Tx!Clock(r_RX_DV, r_RX_Byte)
  PROVE  \/ Front' = Front /\ Gone' = None
         \/ Front = <<r_TX_Data>> /\ Front' = << >> /\ Gone' = r_TX_Data
  BY DEF Tx!Clock, Tx!Idle, Tx!StartBit, Tx!DataBits, Tx!StopBit, Tx!Cleanup,
     Front, Gone, InTransmitter

\* One clock of the echo is one move of the pipe.
LEMMA PipeStep ==
  ASSUME GAP >= 2, EchoInv, Next
  PROVE  PipeMoves /\ Len((Front \o Back)') <= 2
  <1> USE Margins
  <1>1. /\ L!LinkInv /\ TxTypes /\ Ahead /\ OldBits
        /\ L!Next /\ Tx!Clock(r_RX_DV, r_RX_Byte)
        /\ r_RX_DV = 1 <=> r_SM_Main = "CLEANUP"
    BY NextParts DEF EchoInv, L!LinkInv
  <1>2. /\ r_TX_Data \in Rx!Byte /\ r_TX_Data' \in Rx!Byte
        /\ h_Byte \in Rx!Byte /\ h_Byte' \in Rx!Byte
    <2>1. EchoInv'
      BY EchoInvNext
    <2>2. EchoInv => r_TX_Data \in Rx!Byte /\ h_Byte \in Rx!Byte
      BY DEF EchoInv, TxTypes, Tx!TypeOK, L!LinkInv, L!TypeOK, L!Host!TypeOK, L!Host!Byte,
         Tx!Byte, Tx!Bit, Rx!Byte, Rx!Bit
    <2>3. EchoInv' => r_TX_Data' \in Rx!Byte /\ h_Byte' \in Rx!Byte
      BY DEF EchoInv, TxTypes, Tx!TypeOK, L!LinkInv, L!TypeOK, L!Host!TypeOK, L!Host!Byte,
         Tx!Byte, Tx!Bit, Rx!Byte, Rx!Bit
    <2> QED
      BY <2>1, <2>2, <2>3
  <1>3. (InReceiver <=> ~Waiting) /\ (InReceiver' <=> ~Waiting')
    BY DEF InReceiver, Waiting, Host!Stop, Stop
  <1>4. Len((Front \o Back)') <= 2
    <2>1. /\ Front' \in {<< >>, <<r_TX_Data'>>} /\ Back' \in {<< >>, <<h_Byte'>>}
          /\ (Front \o Back)' = Front' \o Back'
      BY DEF Front, Back
    <2> QED
      BY <2>1, <1>2, NoMoreThanTwo
  <1>5. CASE r_SM_Main = "CLEANUP"
    <2>1. t_SM_Main = "IDLE" /\ r_RX_DV = 1
      BY <1>1, <1>5, DoneInTime
    <2>2. t_SM_Main' = "TX_START_BIT" /\ r_TX_Data' = r_RX_Byte
      BY <1>1, <2>1 DEF Tx!Clock, Tx!Idle, Tx!StartBit, Tx!DataBits, Tx!StopBit, Tx!Cleanup
    <2>3. ~Waiting /\ Waiting' /\ r_RX_Byte = h_Byte
      BY <1>1, <1>5, AnnouncingStep DEF Waiting
    <2>4. Front = << >> /\ Back = <<h_Byte>> /\ Front' = <<h_Byte>> /\ Back' = << >>
          /\ Gone' = None
      BY <1>3, <2>1, <2>2, <2>3 DEF Front, Back, Gone, InTransmitter
    <2>5. (Front \o Back)' = (Front \o Back) \o << >> /\ Gone' = None
      BY <2>4
    <2> QED
      BY <1>4, <2>5 DEF PipeMoves
  <1>6. CASE r_SM_Main # "CLEANUP"
    <2>1. \/ Front' = Front /\ Gone' = None
          \/ Front = <<r_TX_Data>> /\ Front' = << >> /\ Gone' = r_TX_Data
      BY <1>1, <1>6, FrontStep
    <2>2. Front = << >> \/ Front = <<r_TX_Data>>
      BY DEF Front
    <2>3. PICK in \in {<< >>} \cup {<<b>> : b \in Rx!Byte} : Takes(Back, Back', in, h_Byte')
      <3>1. CASE Waiting
        <4>1. Back = << >> /\ Back' \in {<< >>, <<h_Byte'>>}
          BY <1>3, <3>1 DEF Back
        <4>2. Back' \in {<< >>} \cup {<<b>> : b \in Rx!Byte}
          BY <1>2, <4>1
        <4>3. Takes(Back, Back', Back', h_Byte')
          BY <4>1 DEF Takes
        <4> QED
          BY <4>2, <4>3, Zenon
      <3>2. CASE ~Waiting
        <4>1. Back = <<h_Byte'>> /\ Back' = <<h_Byte'>>
          BY <1>1, <1>3, <1>6, <3>2, ComingStep DEF Back, Waiting
        <4>2. << >> \in {<< >>} \cup {<<b>> : b \in Rx!Byte}
          OBVIOUS
        <4>3. Takes(Back, Back', << >>, h_Byte')
          BY <4>1 DEF Takes
        <4> QED
          BY <4>2, <4>3, Zenon
      <3> QED
        BY <3>1, <3>2
    <2>4. (Front \o Back)' = Front' \o Back'
      OBVIOUS
    <2>5. CASE Front' = Front /\ Gone' = None
      <3>1. Front \o Back' = (Front \o Back) \o in
        <4>1. Has(Front, r_TX_Data) /\ Takes(Back, Back', in, h_Byte')
          BY <2>2, <2>3 DEF Has
        <4> QED
          BY <1>2, <4>1, FrontStays
      <3> QED
        BY <1>4, <2>4, <2>5, <3>1 DEF PipeMoves
    <2>6. CASE Front = <<r_TX_Data>> /\ Front' = << >> /\ Gone' = r_TX_Data
      <3>1. /\ <<r_TX_Data>> \o Back # << >> /\ Head(<<r_TX_Data>> \o Back) = r_TX_Data
            /\ << >> \o Back' = Tail(<<r_TX_Data>> \o Back) \o in
        BY <1>2, <2>3, FrontLeaves
      <3> QED
        BY <1>4, <2>4, <2>6, <3>1 DEF PipeMoves
    <2> QED
      BY <2>1, <2>5, <2>6
  <1> QED
    BY <1>5, <1>6

\* Every byte comes back once, unchanged, in the order in which it was sent
\* (UART_TX_top.v:51-65).
THEOREM EchoIsAPipe ==
  ASSUME GAP >= 2
  PROVE  Spec => EchoesInOrder
  <1>1. Init => Pipe!Init
    <2> SUFFICES ASSUME Init PROVE Pipe!Init
      OBVIOUS
    <2>1. ~InTransmitter /\ ~InReceiver /\ t_SM_Main # "CLEANUP"
      BY DEF Init, Host!Init, Rx!Init, Tx!Init, InTransmitter, InReceiver
    <2> QED
      BY <2>1 DEF Pipe!Init
  <1>2. EchoInv /\ [Next]_vars => [Pipe!Next]_(Pipe!vars)
    <2>1. CASE EchoInv /\ Next
      BY <2>1, PipeStep DEF PipeMoves, Pipe!Next, Pipe!Move, Front, Back, Gone
    <2>2. CASE UNCHANGED vars
      BY <2>2 DEF vars, Host!vars, Rx!vars, Tx!vars, Pipe!vars, InTransmitter, InReceiver
    <2> QED
      BY <2>1, <2>2
  <1> QED
    BY EchoInvariant, <1>1, <1>2, PTL DEF Spec, EchoesInOrder, Pipe!Safety

-----------------------------------------------------------------------------
\* The picture of top_VGA beside the echo changes nothing in it.
LEMMA TopIsEcho == TopNext => Next
  BY DEF TopNext

LEMMA TopEchoInvariant ==
  ASSUME GAP >= 2
  PROVE  TopSpec => []EchoInv
  <1>1. TopInit => EchoInv
    BY EchoInvInit DEF TopInit
  <1>2. EchoInv /\ [TopNext]_topVars => EchoInv'
    <2>1. ASSUME EchoInv, UNCHANGED topVars PROVE EchoInv'
      BY <2>1, EchoInvStutter DEF topVars
    <2> QED
      BY <2>1, EchoInvNext, TopIsEcho
  <1> QED
    BY <1>1, <1>2, PTL DEF TopSpec

\* The pattern generator registers its colour from the byte that the decoders
\* register their segments from.
LEMMA ScreenStep ==
  ASSUME GAP >= 2, L!LinkInv, TxTypes, Ahead, OldBits, TopNext
  PROVE  ScreenShowsMix'
  <1>1. PICK n \in 0 .. LAST_BIT + 1 :
          /\ r_RX_Byte = [i \in 0..LAST_BIT |-> IF i < n THEN h_Byte'[i] ELSE r_TX_Data'[i]]
          /\ r_RX_DV' = 1 => n = LAST_BIT + 1
    BY TopIsEcho, NextParts, LastMix
  <1>2. Mix(n)' = r_RX_Byte
    BY <1>1 DEF Mix
  <1>3. lit' = IF o_HSync_PG' = 1 /\ o_VSync_PG' = 1
               THEN Screen!Colour(KeyOf(r_RX_Byte)) ELSE {}
    BY DEF TopNext, Picture, Screen!Pattern, Screen!Painted
  <1>4. lit' = IF o_HSync_PG' = 1 /\ o_VSync_PG' = 1
               THEN Screen!Colour(KeyOf(Mix(n)')) ELSE {}
    BY <1>2, <1>3
  <1> QED
    BY <1>1, <1>4 DEF ScreenShowsMix

\* Outside the sync pulses the screen never has a colour but that of some bits
\* of the new byte over the old one, and of the whole new byte once it is
\* announced (top_VGA.v:109-119).
THEOREM ScreenIsMixed ==
  ASSUME GAP >= 2
  PROVE  TopSpec => []ScreenShowsMix
  <1>1. TopInit => ScreenShowsMix
    BY DEF TopInit, Init, Digit1!Init, ScreenShowsMix
  <1>2. EchoInv /\ ScreenShowsMix /\ [TopNext]_topVars => ScreenShowsMix'
    <2>1. ASSUME EchoInv, TopNext PROVE ScreenShowsMix'
      BY <2>1, ScreenStep DEF EchoInv
    <2>2. ASSUME ScreenShowsMix, UNCHANGED topVars PROVE ScreenShowsMix'
      <3>1. /\ S1' = S1 /\ lit' = lit /\ o_HSync_PG' = o_HSync_PG /\ o_VSync_PG' = o_VSync_PG
            /\ r_RX_DV' = r_RX_DV /\ h_Byte' = h_Byte /\ r_TX_Data' = r_TX_Data
        BY <2>2 DEF topVars, vars, Host!vars, Rx!vars, Tx!vars
      <3> QED
        BY <2>2, <3>1 DEF ScreenShowsMix, Mix
    <2> QED
      BY <2>1, <2>2
  <1> QED
    BY TopEchoInvariant, <1>1, <1>2, PTL DEF TopSpec
=============================================================================
