----------------------------- MODULE TxRxProofs -----------------------------
(***************************************************************************)
(* The transmitter behind its multiplexer is a host without skew for the   *)
(* receiver, for every divider from 4 on and every number of data bits.    *)
(* What RxLinkProofs says of a host and a receiver then holds here, by the *)
(* instance L of that module under the mapping of TxRx.                    *)
(***************************************************************************)
EXTENDS TxRx, TLAPS

L == INSTANCE RxLinkProofs WITH
       SKEW <- 0, GAP <- 0,
       h_Pos <- Pos, h_Count <- Count, h_Byte <- SentByte

Stop == LAST_BIT + 2

-----------------------------------------------------------------------------
\* The line carries what the state machine said a clock ago.
TxPhase ==
  /\ t_Clock_Count < CLKS_PER_BIT
  /\ t_SM_Main \in {"IDLE", "CLEANUP"} => r_TX_Active = 0
  /\ t_SM_Main \notin {"IDLE", "CLEANUP"} => r_TX_Active = 1 /\ r_TX_Done = 0
  /\ t_SM_Main = "CLEANUP" => t_Clock_Count = 0
  /\ t_SM_Main = "TX_START_BIT" =>
       t_Bit_Index = 0 /\ TX = IF t_Clock_Count = 0 THEN 1 ELSE 0
  /\ t_SM_Main = "TX_DATA_BITS" =>
       TX = IF t_Clock_Count # 0 THEN r_TX_Data[t_Bit_Index]
            ELSE IF t_Bit_Index = 0 THEN 0 ELSE r_TX_Data[t_Bit_Index - 1]
  /\ t_SM_Main = "TX_STOP_BIT" =>
       TX = IF t_Clock_Count # 0 THEN 1 ELSE r_TX_Data[LAST_BIT]

\* Between two frames the receiver has the byte of the last one.
Received == r_SM_Main = "IDLE" /\ Pos = Stop => r_RX_Byte = SentByte

\* The inductive invariant.
TxRxInv == Tx!TypeOK /\ TxPhase /\ L!LinkInv /\ Received

-----------------------------------------------------------------------------
\* A host without skew and gap is one that RxLinkAssumption allows.
LEMMA LinkAssumed ==
  /\ CLKS_PER_BIT \in Nat \ {0}
  /\ LAST_BIT \in Nat
  /\ COUNT_SIZE \in Nat /\ CLKS_PER_BIT <= COUNT_SIZE
  /\ 0 \in Nat
  /\ 0 <= L!Rx!HalfBit + 1
  /\ 0 <= CLKS_PER_BIT - L!Rx!HalfBit - 2
  /\ 0 \in Int /\ 0 >= L!Rx!HalfBit + 3 - CLKS_PER_BIT
  /\ None \notin L!Rx!Byte
  <1>1. L!Rx!Byte = Rx!Byte
    BY DEF L!Rx!Byte, Rx!Byte, L!Rx!Bit, Rx!Bit
  <1>2. QED
    BY <1>1, TxRxAssumption DEF L!Rx!HalfBit

\* HalfBit in terms of the divider.
LEMMA HalfBit ==
  L!H \in Nat /\ 2 * L!H <= CLKS_PER_BIT - 1 /\ CLKS_PER_BIT - 1 <= 2 * L!H + 1
  BY LinkAssumed, L!HalfBitBounds

-----------------------------------------------------------------------------
\* A clock of the transmitter keeps its registers within their widths
\* (UART_TX.v:39-134).
LEMMA TxTypeStep ==
  ASSUME Tx!TypeOK, NEW dv \in Tx!Bit, NEW byte \in Tx!Byte, Tx!Clock(dv, byte)
  PROVE  Tx!TypeOK'
  <1> USE TxRxAssumption DEF Tx!TypeOK, Tx!State, Tx!Bit
  <1>0. Tx!NextCount \in 0 .. COUNT_SIZE - 1
    BY DEF Tx!NextCount
  <1>1. CASE Tx!Idle(dv, byte)
    BY <1>1 DEF Tx!Idle
  <1>2. CASE Tx!StartBit
    BY <1>0, <1>2 DEF Tx!StartBit
  <1>3. CASE Tx!DataBits
    <2>1. Tx!DataBit \in {0, 1}
      BY DEF Tx!DataBit, Tx!Byte
    <2>2. QED
      BY <1>0, <1>3, <2>1 DEF Tx!DataBits, Tx!AllBits
  <1>4. CASE Tx!StopBit
    BY <1>0, <1>4 DEF Tx!StopBit
  <1>5. CASE Tx!Cleanup
    BY <1>5 DEF Tx!Cleanup
  <1>6. QED
    BY <1>1, <1>2, <1>3, <1>4, <1>5 DEF Tx!Clock

\* Counting within a bit does not wrap the register.
LEMMA CountsUp ==
  ASSUME Tx!TypeOK, t_Clock_Count < CLKS_PER_BIT - 1
  PROVE  Tx!NextCount = t_Clock_Count + 1
  BY TxRxAssumption DEF Tx!TypeOK, Tx!NextCount

\* TX is one clock behind in every state (UART_TX.v:45, 64, 82, 108).
LEMMA TxPhaseStep ==
  ASSUME Tx!TypeOK, TxPhase,
         NEW dv \in Tx!Bit, NEW byte \in Tx!Byte, Tx!Clock(dv, byte)
  PROVE  TxPhase'
  <1> USE TxRxAssumption DEF Tx!TypeOK, TxPhase
  <1>1. CASE Tx!Idle(dv, byte)
    BY <1>1 DEF Tx!Idle
  <1>2. CASE Tx!StartBit
    BY <1>2, CountsUp DEF Tx!StartBit
  <1>3. CASE Tx!DataBits
    BY <1>3, CountsUp DEF Tx!DataBits, Tx!BitOver, Tx!AllBits, Tx!DataBit
  <1>4. CASE Tx!StopBit
    BY <1>4, CountsUp DEF Tx!StopBit, Tx!BitOver
  <1>5. CASE Tx!Cleanup
    BY <1>5 DEF Tx!Cleanup
  <1>6. QED
    BY <1>1, <1>2, <1>3, <1>4, <1>5 DEF Tx!Clock

\* Under the mapping each clock of the transmitter is a clock of a host: a
\* start edge when the accepted byte reaches the line, a shift when a bit does,
\* and otherwise the line stays as it is.
LEMMA HostStep ==
  ASSUME Tx!TypeOK, TxPhase,
         NEW dv \in Tx!Bit, NEW byte \in Tx!Byte, Tx!Clock(dv, byte),
         t_SM_Main = "IDLE" => r_RX_Byte' = r_TX_Data
  PROVE  L!Host!Clock
  <1> USE TxRxAssumption DEF Tx!TypeOK, TxPhase, L!Host!Stop
  <1>1. CASE Tx!Idle(dv, byte)
    <2>1. Pos = Stop /\ Count = CLKS_PER_BIT /\ SentByte = r_TX_Data
      BY <1>1 DEF Tx!Idle, Pos, Count, SentByte, Accepted, Stop
    <2>2. Pos' = Stop /\ Count' = CLKS_PER_BIT /\ SentByte' = r_TX_Data
      BY <1>1 DEF Tx!Idle, Pos, Count, SentByte, Accepted, Stop
    <2>3. L!Host!Rest
      BY <2>1, <2>2 DEF L!Host!Rest, L!Host!Rested, Stop
    <2>4. QED
      BY <2>3 DEF L!Host!Clock
  <1>2. CASE Tx!StartBit /\ t_Clock_Count = 0
    <2>1. Pos = Stop /\ Count = CLKS_PER_BIT
      BY <1>2 DEF Tx!StartBit, Pos, Count, Accepted, Stop
    <2>2. t_SM_Main' = "TX_START_BIT" /\ t_Clock_Count' = 1 /\ r_TX_Data' = r_TX_Data
      BY <1>2, CountsUp DEF Tx!StartBit
    <2>3. Pos' = 0 /\ Count' = 0 /\ SentByte' = r_TX_Data
      BY <2>2 DEF Pos, Count, SentByte, Accepted, Place
    <2>4. L!Host!Start(r_TX_Data)
      BY <2>1, <2>3 DEF L!Host!Start, Stop
    <2>5. QED
      BY <2>4 DEF L!Host!Clock, L!Host!Byte, Tx!Byte, Tx!Bit
  <1>3. CASE Tx!StartBit /\ t_Clock_Count # 0
    <2>1. Pos = 0 /\ Count = t_Clock_Count - 1 /\ SentByte = r_TX_Data
      BY <1>3 DEF Tx!StartBit, Pos, Count, SentByte, Accepted, Place
    <2>2. Pos' = 0 /\ Count' = t_Clock_Count /\ SentByte' = r_TX_Data
      BY <1>3, CountsUp DEF Tx!StartBit, Pos, Count, SentByte, Accepted, Place
    <2>3. L!Host!Hold
      BY <1>3, <2>1, <2>2 DEF L!Host!Hold, Tx!StartBit
    <2>4. QED
      BY <2>3 DEF L!Host!Clock
  <1>4. CASE Tx!DataBits
    <2>1. /\ Pos = IF t_Clock_Count = 0 THEN t_Bit_Index ELSE t_Bit_Index + 1
          /\ Count = IF t_Clock_Count = 0 THEN CLKS_PER_BIT - 1 ELSE t_Clock_Count - 1
          /\ SentByte = r_TX_Data
      BY <1>4 DEF Tx!DataBits, Pos, Count, SentByte, Accepted, Place
    <2>2. /\ Pos' = t_Bit_Index + 1
          /\ Count' = IF t_Clock_Count = 0 THEN 0 ELSE t_Clock_Count
          /\ SentByte' = r_TX_Data
      BY <1>4, CountsUp
         DEF Tx!DataBits, Tx!BitOver, Tx!AllBits, Pos, Count, SentByte, Accepted, Place
    <2>3. CASE t_Clock_Count = 0
      BY <2>1, <2>2, <2>3 DEF L!Host!Shift, L!Host!Clock
    <2>4. CASE t_Clock_Count # 0
      BY <2>1, <2>2, <2>4 DEF L!Host!Hold, L!Host!Clock
    <2>5. QED
      BY <2>3, <2>4
  <1>5. CASE Tx!StopBit
    <2>1. /\ Pos = IF t_Clock_Count = 0 THEN LAST_BIT + 1 ELSE Stop
          /\ Count = IF t_Clock_Count = 0 THEN CLKS_PER_BIT - 1 ELSE t_Clock_Count - 1
          /\ SentByte = r_TX_Data
      BY <1>5 DEF Tx!StopBit, Pos, Count, SentByte, Accepted, Place, Stop
    <2>2. /\ Pos' = Stop
          /\ Count' = IF t_Clock_Count = 0 THEN 0 ELSE t_Clock_Count
          /\ SentByte' = r_TX_Data
      BY <1>5, CountsUp
         DEF Tx!StopBit, Tx!BitOver, Pos, Count, SentByte, Accepted, Place, Stop
    <2>3. CASE t_Clock_Count = 0
      BY <2>1, <2>2, <2>3 DEF L!Host!Shift, L!Host!Clock, Stop
    <2>4. CASE t_Clock_Count # 0
      BY <2>1, <2>2, <2>4 DEF L!Host!Rest, L!Host!Rested, L!Host!Clock, Stop
    <2>5. QED
      BY <2>3, <2>4
  <1>6. CASE Tx!Cleanup
    <2>1. Pos = Stop /\ Count = CLKS_PER_BIT - 1 /\ SentByte = r_TX_Data
      BY <1>6 DEF Tx!Cleanup, Pos, Count, SentByte, Accepted, Stop
    <2>2. Pos' = Stop /\ Count' = CLKS_PER_BIT /\ SentByte' = r_TX_Data
      BY <1>6 DEF Tx!Cleanup, Pos, Count, SentByte, Accepted, Stop
    <2>3. QED
      BY <2>1, <2>2 DEF L!Host!Rest, L!Host!Rested, L!Host!Clock, Stop
  <1>7. QED
    BY <1>1, <1>2, <1>3, <1>4, <1>5, <1>6 DEF Tx!Clock

-----------------------------------------------------------------------------
\* The receiver hears what the host of the mapping drives: the multiplexer's
\* 1 is the host's rest (UART_TX_tb.v:36, w_UART_Line).
LEMMA LineAgrees ==
  ASSUME Tx!TypeOK, TxPhase
  PROVE  UartLine = L!Host!Line
  <1> USE TxRxAssumption
      DEF Tx!TypeOK, Tx!State, TxPhase, UartLine, L!Host!Line, Pos, Place, SentByte, Accepted
  <1>1. CASE t_SM_Main \in {"IDLE", "CLEANUP"}
    BY <1>1
  <1>2. CASE t_SM_Main = "TX_START_BIT"
    BY <1>2
  <1>3. CASE t_SM_Main = "TX_DATA_BITS"
    BY <1>3
  <1>4. CASE t_SM_Main = "TX_STOP_BIT"
    BY <1>4
  <1>5. QED
    BY <1>1, <1>2, <1>3, <1>4

\* The receiver of the instance is the receiver of TxRx.
LEMMA SameReceiver ==
  ASSUME NEW RX, Rx!Clock(RX)
  PROVE  L!Rx!Clock(RX)
  <1>1. CASE Rx!Idle(RX)
    BY <1>1 DEF Rx!Idle, L!Rx!Idle, L!Rx!Clock
  <1>2. CASE Rx!StartBit(RX)
    BY <1>2 DEF Rx!StartBit, L!Rx!StartBit, L!Rx!Clock, Rx!HalfBit, L!Rx!HalfBit,
       Rx!NextCount, L!Rx!NextCount
  <1>3. CASE Rx!DataBits(RX)
    BY <1>3 DEF Rx!DataBits, L!Rx!DataBits, L!Rx!Clock, Rx!BitOver, L!Rx!BitOver,
       Rx!AllBits, L!Rx!AllBits, Rx!NextCount, L!Rx!NextCount
  <1>4. CASE Rx!StopBit
    BY <1>4 DEF Rx!StopBit, L!Rx!StopBit, L!Rx!Clock, Rx!BitOver, L!Rx!BitOver,
       Rx!NextCount, L!Rx!NextCount
  <1>5. CASE Rx!Cleanup
    BY <1>5 DEF Rx!Cleanup, L!Rx!Cleanup, L!Rx!Clock
  <1>6. QED
    BY <1>1, <1>2, <1>3, <1>4, <1>5 DEF Rx!Clock

\* From the last clock of a stop bit on the receiver is done with the byte:
\* it announces it, or it is back in IDLE (UART_RX.v:102-125).
LEMMA ReceiverDone ==
  ASSUME TxRxInv, t_SM_Main \in {"IDLE", "CLEANUP"}
  PROVE  /\ r_SM_Main \in {"IDLE", "CLEANUP"}
         /\ t_SM_Main = "IDLE" => r_SM_Main = "IDLE"
         /\ r_RX_Byte = r_TX_Data
  <1> USE TxRxAssumption, HalfBit DEF L!LinkInv, L!TypeOK, L!Rx!TypeOK, L!Rx!State
  <1>1. /\ Pos = Stop /\ SentByte = r_TX_Data
        /\ Count = IF t_SM_Main = "IDLE" THEN CLKS_PER_BIT ELSE CLKS_PER_BIT - 1
    BY DEF TxRxInv, TxPhase, Pos, Count, SentByte, Accepted, Stop
  <1>2. r_SM_Main # "RX_START_BIT"
    BY <1>1 DEF TxRxInv, L!StartPhase, Stop
  <1>3. r_SM_Main # "RX_DATA_BITS"
    BY <1>1 DEF TxRxInv, L!DataPhase, L!Follows, Stop
  <1>4. r_SM_Main # "RX_STOP_BIT"
    BY <1>1 DEF TxRxInv, L!StopPhase, L!Follows, Stop
  <1>5. r_SM_Main = "CLEANUP" => Count = L!H + 2 /\ r_RX_Byte = SentByte
    BY DEF TxRxInv, L!CleanupPhase
  <1>6. r_SM_Main = "IDLE" => r_RX_Byte = SentByte
    BY <1>1 DEF TxRxInv, Received
  <1>7. QED
    BY <1>1, <1>2, <1>3, <1>4, <1>5, <1>6 DEF TxRxInv

\* A clock of the two machines is a step of the host and receiver.
LEMMA LinkStep ==
  ASSUME TxRxInv, NEW dv \in Tx!Bit, NEW byte \in Tx!Byte,
         Tx!Clock(dv, byte), Rx!Clock(UartLine)
  PROVE  L!Next
  <1>1. t_SM_Main = "IDLE" => r_RX_Byte' = r_TX_Data
    <2> SUFFICES ASSUME t_SM_Main = "IDLE" PROVE r_RX_Byte' = r_TX_Data
      OBVIOUS
    <2>1. r_SM_Main = "IDLE" /\ r_RX_Byte = r_TX_Data
      BY ReceiverDone
    <2>2. QED
      BY <2>1 DEF Rx!Clock, Rx!Idle, Rx!StartBit, Rx!DataBits, Rx!StopBit, Rx!Cleanup
  <1>2. L!Host!Clock
    BY <1>1, HostStep DEF TxRxInv
  <1>3. L!Rx!Clock(L!Host!Line)
    BY LineAgrees, SameReceiver DEF TxRxInv
  <1>4. QED
    BY <1>2, <1>3 DEF L!Next

\* What the receiver has in IDLE is the last byte on the line: it came there
\* through CLEANUP, and never by giving a start bit up (UART_RX.v:57-67).
LEMMA ReceivedStep ==
  ASSUME TxRxInv, L!Next, Rx!Clock(UartLine)
  PROVE  Received'
  <1> SUFFICES ASSUME r_SM_Main' = "IDLE", Pos' = Stop
               PROVE  r_RX_Byte' = SentByte'
    BY DEF Received, Stop
  <1> USE TxRxAssumption, HalfBit DEF TxRxInv, L!LinkInv, Stop
  <1>1. UartLine = L!Host!Line
    BY LineAgrees
  <1>2. Pos = Stop => SentByte' = SentByte
    BY DEF L!Next, L!Host!Clock, L!Host!Hold, L!Host!Shift, L!Host!Rest, L!Host!Start,
       L!Host!Stop
  <1>3. CASE Rx!Idle(UartLine)
    <2>1. UartLine # 0 /\ r_SM_Main = "IDLE" /\ r_RX_Byte' = r_RX_Byte
      BY <1>3 DEF Rx!Idle
    <2>2. Pos = Stop
      BY <1>1, <2>1 DEF L!IdlePhase, L!Host!Line, L!Host!Stop
    <2>3. QED
      BY <1>2, <2>1, <2>2 DEF Received
  <1>4. CASE Rx!StartBit(UartLine)
    <2>1. UartLine = 0
      BY <1>1, <1>4 DEF Rx!StartBit, L!StartPhase, L!Host!Line
    <2>2. QED
      BY <1>4, <2>1 DEF Rx!StartBit
  <1>5. CASE Rx!DataBits(UartLine) \/ Rx!StopBit
    BY <1>5 DEF Rx!DataBits, Rx!StopBit
  <1>6. CASE Rx!Cleanup
    <2>1. Pos = Stop /\ r_RX_Byte = SentByte /\ r_RX_Byte' = r_RX_Byte
      BY <1>6 DEF Rx!Cleanup, L!CleanupPhase, L!Host!Stop
    <2>2. QED
      BY <1>2, <2>1
  <1>7. QED
    BY <1>3, <1>4, <1>5, <1>6 DEF Rx!Clock

-----------------------------------------------------------------------------
\* At power-up the idle transmitter is a resting host, whatever TX is
\* (UART_TX.v:22, without an initial value).
LEMMA InitIsLinkInit == Init => L!Init
  <1> SUFFICES ASSUME Init PROVE L!Init
    OBVIOUS
  <1> USE DEF Init, Tx!Init, Rx!Init
  <1>1. Pos = Stop /\ Count = CLKS_PER_BIT /\ SentByte = r_TX_Data
    BY DEF Pos, Count, SentByte, Accepted, Stop
  <1>2. L!Host!Init
    BY <1>1, TxRxAssumption DEF L!Host!Init, L!Host!Rested, L!Host!Stop, L!Host!Byte, Stop
  <1>3. L!Rx!Init
    BY DEF L!Rx!Init
  <1>4. QED
    BY <1>2, <1>3 DEF L!Init

\* The phase of the registers at power-up.
LEMMA TxRxInvInit == Init => TxRxInv
  <1> SUFFICES ASSUME Init PROVE TxRxInv
    OBVIOUS
  <1>1. L!LinkInv
    BY LinkAssumed, InitIsLinkInit, L!LinkInvInit
  <1>2. Tx!TypeOK /\ TxPhase /\ Received
    BY TxRxAssumption DEF Init, Tx!Init, Rx!Init, Tx!TypeOK, Tx!State, Tx!Bit, Tx!Byte,
       TxPhase, Received, SentByte, Accepted
  <1>3. QED
    BY <1>1, <1>2 DEF TxRxInv

\* Each clock keeps the invariant.
LEMMA TxRxInvNext == TxRxInv /\ Next => TxRxInv' /\ L!Next
  <1> SUFFICES ASSUME TxRxInv, NEW dv \in Tx!Bit, NEW byte \in Tx!Byte,
                      Tx!Clock(dv, byte), Rx!Clock(UartLine)
               PROVE  TxRxInv' /\ L!Next
    BY DEF Next
  <1>1. L!Next
    BY LinkStep
  <1>2. L!LinkInv'
    BY <1>1, LinkAssumed, L!LinkInvNext DEF TxRxInv
  <1>3. Tx!TypeOK' /\ TxPhase'
    BY TxTypeStep, TxPhaseStep DEF TxRxInv
  <1>4. Received'
    BY <1>1, ReceivedStep
  <1>5. QED
    BY <1>1, <1>2, <1>3, <1>4 DEF TxRxInv

\* A step that changes no register changes nothing of the link.
LEMMA LinkStutters == UNCHANGED vars => UNCHANGED L!vars
  BY DEF vars, Tx!vars, Rx!vars, L!vars, L!Host!vars, L!Rx!vars,
     Pos, Count, SentByte, Accepted, Place

\* Nor does it disturb the invariant.
LEMMA TxRxInvStutter == TxRxInv /\ UNCHANGED vars => TxRxInv'
  <1> SUFFICES ASSUME TxRxInv, UNCHANGED vars PROVE TxRxInv'
    OBVIOUS
  <1>1. L!LinkInv'
    BY LinkStutters, LinkAssumed, L!LinkInvStutter DEF TxRxInv
  <1>2. Tx!TypeOK' /\ TxPhase' /\ Received'
    BY DEF TxRxInv, vars, Tx!vars, Rx!vars, Tx!TypeOK, TxPhase, Received, Pos, Stop,
       SentByte, Accepted, Place
  <1>3. QED
    BY <1>1, <1>2 DEF TxRxInv

-----------------------------------------------------------------------------
\* Transmitter, line and receiver keep the phase in every state.
THEOREM TxRxInvariant == Spec => []TxRxInv
  <1>1. TxRxInv /\ [Next]_vars => TxRxInv'
    BY TxRxInvNext, TxRxInvStutter
  <1>2. QED
    BY <1>1, TxRxInvInit, PTL DEF Spec

\* Both machines keep to the widths of their registers.
THEOREM TypeCorrect == Spec => []TypeOK
  <1>1. TxRxInv => TypeOK
    BY DEF TxRxInv, L!LinkInv, L!TypeOK, L!Rx!TypeOK, L!Rx!State, L!Rx!Byte, L!Rx!Bit,
       TypeOK, Rx!TypeOK, Rx!State, Rx!Byte, Rx!Bit
  <1>2. QED
    BY <1>1, TxRxInvariant, PTL

\* o_TX_Done is a promise about the far end (UART_TX.v:116-129).
THEOREM DoneIsReceived == Spec => []DoneMeansReceived
  <1>1. TxRxInv => DoneMeansReceived
    <2> SUFFICES ASSUME TxRxInv, r_TX_Done = 1
                 PROVE  r_RX_Byte = r_TX_Data /\ r_SM_Main \in {"CLEANUP", "IDLE"}
      BY DEF DoneMeansReceived
    <2>1. t_SM_Main \in {"IDLE", "CLEANUP"}
      BY DEF TxRxInv, TxPhase
    <2>2. QED
      BY <2>1, ReceiverDone
  <1>2. QED
    BY <1>1, TxRxInvariant, PTL

\* UART_TX behind its multiplexer is a host that is never early and never
\* late (UART_TX.v:43-129): what is proved of UART_RX with a host holds here.
THEOREM TxRxImplementsRxLink == Spec => ImplementsRxLink
  <1>1. Init => Serial!Init
    BY InitIsLinkInit
       DEF L!Init, L!Host!Init, L!Rx!Init, L!Host!Stop, L!Host!Rested, L!Host!Byte,
           Serial!Init, Serial!Host!Init, Serial!Rx!Init, Serial!Host!Stop,
           Serial!Host!Rested, Serial!Host!Byte
  <1>2. L!Next => Serial!Next
    <2>1. L!Host!Line = Serial!Host!Line
      BY DEF L!Host!Line, Serial!Host!Line
    <2>2. L!Host!Clock => Serial!Host!Clock
      BY DEF L!Host!Clock, L!Host!Hold, L!Host!Shift, L!Host!Rest, L!Host!Start,
         L!Host!Stop, L!Host!Rested, L!Host!Byte,
         Serial!Host!Clock, Serial!Host!Hold, Serial!Host!Shift, Serial!Host!Rest,
         Serial!Host!Start, Serial!Host!Stop, Serial!Host!Rested, Serial!Host!Byte
    <2>3. ASSUME NEW RX, L!Rx!Clock(RX) PROVE Serial!Rx!Clock(RX)
      BY <2>3
         DEF L!Rx!Clock, L!Rx!Idle, L!Rx!StartBit, L!Rx!DataBits, L!Rx!StopBit, L!Rx!Cleanup,
         L!Rx!HalfBit, L!Rx!NextCount, L!Rx!BitOver, L!Rx!AllBits,
         Serial!Rx!Clock, Serial!Rx!Idle, Serial!Rx!StartBit, Serial!Rx!DataBits,
         Serial!Rx!StopBit, Serial!Rx!Cleanup, Serial!Rx!HalfBit, Serial!Rx!NextCount,
         Serial!Rx!BitOver, Serial!Rx!AllBits
    <2>4. QED
      BY <2>1, <2>2, <2>3 DEF L!Next, Serial!Next
  <1>3. UNCHANGED vars => UNCHANGED Serial!vars
    BY LinkStutters
       DEF L!vars, L!Host!vars, L!Rx!vars, Serial!vars, Serial!Host!vars, Serial!Rx!vars
  <1>4. TxRxInv /\ [Next]_vars => [Serial!Next]_(Serial!vars)
    BY <1>2, <1>3, TxRxInvNext
  <1>5. QED
    BY <1>1, <1>4, TxRxInvariant, PTL DEF Spec, ImplementsRxLink

-----------------------------------------------------------------------------
(***************************************************************************)
(* Refinement of ByteLink.  A byte is on its way from its acceptance on,   *)
(* earlier than RxLinkProofs has it, so the steps are looked at once more, *)
(* by the state of the transmitter.                                        *)
(***************************************************************************)

\* What the receiver can be doing in each state of the transmitter.
Hears ==
  /\ r_RX_DV = 1 <=> r_SM_Main = "CLEANUP"
  /\ r_SM_Main = "RX_START_BIT" => UartLine = 0
  /\ t_SM_Main \in {"TX_START_BIT", "TX_DATA_BITS"} => r_SM_Main # "CLEANUP"
  /\ t_SM_Main = "TX_STOP_BIT" /\ t_Clock_Count = 0 =>
       r_SM_Main \notin {"CLEANUP", "IDLE"}
  /\ t_SM_Main = "TX_STOP_BIT" /\ r_SM_Main = "IDLE" => UartLine = 1
  /\ t_SM_Main = "TX_STOP_BIT" /\ r_SM_Main \in {"RX_STOP_BIT", "CLEANUP"} =>
       r_RX_Byte = r_TX_Data
  /\ t_SM_Main = "CLEANUP" =>
       r_SM_Main \in {"CLEANUP", "IDLE"} /\ r_RX_Byte = r_TX_Data /\ UartLine = 1
  /\ t_SM_Main = "IDLE" => r_SM_Main = "IDLE" /\ UartLine = 1

\* The phase between the two machines says so.
LEMMA PhaseHears == TxRxInv => Hears
  <1> SUFFICES ASSUME TxRxInv PROVE Hears
    OBVIOUS
  <1> USE TxRxAssumption, HalfBit DEF TxRxInv, L!LinkInv, Stop, L!Host!Stop
  <1>1. UartLine = L!Host!Line
    BY LineAgrees
  <1>2. r_SM_Main = "RX_START_BIT" => UartLine = 0
    BY <1>1 DEF L!StartPhase, L!Host!Line
  <1>3. r_SM_Main = "IDLE" /\ Pos # Stop => Pos = 0
    BY DEF L!IdlePhase
  <1>4. Pos = Stop => UartLine = 1
    BY <1>1 DEF L!Host!Line
  <1>5. r_SM_Main = "CLEANUP" => Pos = Stop /\ Count = L!H + 2 /\ r_RX_Byte = SentByte
    BY DEF L!CleanupPhase
  <1>6. CASE t_SM_Main = "TX_START_BIT"
    <2>1. Pos = 0 \/ Count = CLKS_PER_BIT
      BY <1>6 DEF Pos, Count, Accepted, Place, Tx!TypeOK
    <2>2. r_SM_Main # "CLEANUP"
      BY <1>5, <2>1
    <2>3. QED
      BY <1>2, <1>6, <2>2 DEF Hears
  <1>7. CASE t_SM_Main = "TX_DATA_BITS"
    <2>1. Pos = t_Bit_Index \/ Pos = t_Bit_Index + 1
      BY <1>7 DEF Pos, Accepted, Place, Tx!TypeOK
    <2>2. r_SM_Main # "CLEANUP"
      BY <1>5, <2>1 DEF Tx!TypeOK
    <2>3. QED
      BY <1>2, <1>7, <2>2 DEF Hears
  <1>8. CASE t_SM_Main = "TX_STOP_BIT"
    <2>1. SentByte = r_TX_Data /\ Pos = IF t_Clock_Count = 0 THEN LAST_BIT + 1 ELSE Stop
      BY <1>8 DEF Pos, SentByte, Accepted, Place, Tx!TypeOK
    <2>2. t_Clock_Count = 0 => r_SM_Main \notin {"CLEANUP", "IDLE"}
      BY <1>3, <1>5, <2>1
    <2>3. r_SM_Main = "IDLE" => UartLine = 1
      BY <1>3, <1>4, <2>1
    <2>4. r_SM_Main \in {"RX_STOP_BIT", "CLEANUP"} => r_RX_Byte = r_TX_Data
      BY <1>5, <2>1 DEF L!StopPhase
    <2>5. QED
      BY <1>2, <1>8, <2>2, <2>3, <2>4 DEF Hears
  <1>9. CASE t_SM_Main \in {"IDLE", "CLEANUP"}
    <2>1. UartLine = 1
      BY <1>9 DEF TxPhase, UartLine
    <2>2. QED
      BY <1>2, <1>9, <2>1, ReceiverDone DEF Hears
  <1>10. QED
    BY <1>6, <1>7, <1>8, <1>9 DEF Tx!TypeOK, Tx!State

LinkWire == IF OnItsWay THEN r_TX_Data ELSE None
LinkOut == IF r_RX_DV = 1 THEN r_RX_Byte ELSE None

\* An accepted byte enters the wire; an idle clock changes nothing.
LEMMA IdleRefines ==
  ASSUME Hears, Hears', NEW dv \in Tx!Bit, NEW byte \in Tx!Byte,
         Tx!Idle(dv, byte), Rx!Clock(UartLine)
  PROVE  [Link!Next]_(Link!vars)
  <1>1. LinkWire = None /\ LinkOut = None
    BY DEF Tx!Idle, Hears, LinkWire, LinkOut, OnItsWay
  <1>2. LinkOut' = None
    BY DEF Tx!Idle, Hears, LinkOut, Rx!Clock, Rx!Idle, Rx!StartBit, Rx!DataBits,
       Rx!StopBit, Rx!Cleanup
  <1>3. LinkWire' = byte \/ LinkWire' = None
    BY DEF Tx!Idle, LinkWire, OnItsWay
  <1>4. QED
    BY <1>1, <1>2, <1>3 DEF LinkWire, LinkOut, Link!Next, Link!Send, Link!vars

\* A byte whose start or data bits go out stays on its way.
LEMMA SendingRefines ==
  ASSUME Hears, Hears', Tx!StartBit \/ Tx!DataBits
  PROVE  [Link!Next]_(Link!vars)
  <1>1. LinkWire = r_TX_Data /\ LinkOut = None
    BY DEF Tx!StartBit, Tx!DataBits, Hears, LinkWire, LinkOut, OnItsWay
  <1>2. /\ \/ t_SM_Main' \in {"TX_START_BIT", "TX_DATA_BITS"}
           \/ t_SM_Main' = "TX_STOP_BIT" /\ t_Clock_Count' = 0
        /\ r_TX_Data' = r_TX_Data
    BY DEF Tx!StartBit, Tx!DataBits
  <1>3. LinkWire' = r_TX_Data
    BY <1>2 DEF Hears, LinkWire, OnItsWay
  <1>4. LinkOut' = None
    BY <1>2 DEF Hears, LinkOut
  <1>5. QED
    BY <1>1, <1>3, <1>4 DEF LinkWire, LinkOut, Link!vars

\* In the stop bit the receiver hands the byte over and ends the pulse.
LEMMA StoppingRefines ==
  ASSUME Hears, Hears', r_TX_Data \in Tx!Byte, None \notin Tx!Byte,
         Tx!StopBit, Rx!Clock(UartLine)
  PROVE  [Link!Next]_(Link!vars)
  <1> USE DEF LinkWire, LinkOut, OnItsWay, Link!vars
  <1>1. /\ t_SM_Main = "TX_STOP_BIT" /\ t_SM_Main' \in {"TX_STOP_BIT", "CLEANUP"}
        /\ r_TX_Data' = r_TX_Data
    BY DEF Tx!StopBit
  <1>2. CASE Rx!Idle(UartLine)
    <2>1. r_SM_Main = "IDLE" /\ r_SM_Main' = "IDLE"
      BY <1>1, <1>2 DEF Rx!Idle, Hears
    <2>2. QED
      BY <1>1, <2>1 DEF Hears
  <1>3. CASE Rx!StartBit(UartLine) \/ Rx!DataBits(UartLine)
    <2>1. r_SM_Main \notin {"IDLE", "CLEANUP"} /\ r_SM_Main' \notin {"IDLE", "CLEANUP"}
      BY <1>3 DEF Rx!StartBit, Rx!DataBits, Hears
    <2>2. t_SM_Main' = "TX_STOP_BIT"
      BY <1>1, <2>1 DEF Hears
    <2>3. QED
      BY <1>1, <2>1, <2>2 DEF Hears
  <1>4. CASE Rx!StopBit
    <2>1. /\ r_SM_Main = "RX_STOP_BIT" /\ r_SM_Main' \in {"RX_STOP_BIT", "CLEANUP"}
          /\ r_RX_Byte' = r_RX_Byte /\ r_RX_Byte = r_TX_Data
      BY <1>1, <1>4 DEF Rx!StopBit, Hears
    <2>2. CASE r_SM_Main' = "RX_STOP_BIT"
      <3>1. t_SM_Main' = "TX_STOP_BIT"
        BY <1>1, <2>2 DEF Hears
      <3>2. QED
        BY <1>1, <2>1, <2>2, <3>1 DEF Hears
    <2>3. CASE r_SM_Main' = "CLEANUP"
      <3>1. LinkWire = r_TX_Data /\ LinkOut = None
        BY <1>1, <2>1 DEF Hears
      <3>2. LinkWire' = None /\ LinkOut' = r_TX_Data
        BY <1>1, <2>1, <2>3 DEF Hears
      <3>3. QED
        BY <3>1, <3>2 DEF Link!Next, Link!Deliver
    <2>4. QED
      BY <2>1, <2>2, <2>3
  <1>5. CASE Rx!Cleanup
    <2>1. r_SM_Main = "CLEANUP" /\ r_SM_Main' = "IDLE" /\ r_RX_Byte = r_TX_Data
      BY <1>1, <1>5 DEF Rx!Cleanup, Hears
    <2>2. LinkWire = None /\ LinkOut = r_TX_Data
      BY <1>1, <2>1 DEF Hears
    <2>3. LinkWire' = None /\ LinkOut' = None
      BY <1>1, <2>1 DEF Hears
    <2>4. QED
      BY <2>2, <2>3 DEF Link!Next, Link!Release
  <1>6. QED
    BY <1>2, <1>3, <1>4, <1>5 DEF Rx!Clock

\* In CLEANUP the pulse is over, or it ends now.
LEMMA CleanupRefines ==
  ASSUME Hears, Hears', r_TX_Data \in Tx!Byte, None \notin Tx!Byte,
         Tx!Cleanup, Rx!Clock(UartLine)
  PROVE  [Link!Next]_(Link!vars)
  <1> USE DEF LinkWire, LinkOut, OnItsWay, Link!vars
  <1>1. /\ t_SM_Main = "CLEANUP" /\ t_SM_Main' = "IDLE"
        /\ r_SM_Main \in {"CLEANUP", "IDLE"} /\ r_SM_Main' = "IDLE"
        /\ r_RX_Byte = r_TX_Data
    BY DEF Tx!Cleanup, Hears
  <1>2. LinkWire = None /\ LinkWire' = None /\ LinkOut' = None
    BY <1>1 DEF Hears
  <1>3. CASE r_SM_Main = "IDLE"
    BY <1>2, <1>3 DEF Hears
  <1>4. CASE r_SM_Main = "CLEANUP"
    <2>1. LinkOut = r_TX_Data
      BY <1>1, <1>4 DEF Hears
    <2>2. QED
      BY <1>2, <2>1 DEF Link!Next, Link!Release
  <1>5. QED
    BY <1>1, <1>3, <1>4

\* Every byte accepted from i_TX_Byte comes out of o_RX_Byte, once, in order
\* and unchanged (UART_TX_tb.v:59-62), for every divider and word length.
THEOREM TxRxImplementsByteLink == Spec => ImplementsByteLink
  <1>1. Init => Link!Init
    BY DEF Init, Tx!Init, Rx!Init, Link!Init, OnItsWay
  <1>2. Spec => []Hears
    BY TxRxInvariant, PhaseHears, PTL
  <1>3. TxRxInv /\ Hears /\ Hears' /\ [Next]_vars => [Link!Next]_(Link!vars)
    <2> SUFFICES ASSUME TxRxInv, Hears, Hears', [Next]_vars
                 PROVE  [Link!Next]_(Link!vars)
      OBVIOUS
    <2>1. r_TX_Data \in Tx!Byte /\ None \notin Tx!Byte
      BY TxRxAssumption DEF TxRxInv, Tx!TypeOK, Tx!Byte, Tx!Bit, Rx!Byte, Rx!Bit
    <2>2. CASE Next
      <3>1. PICK dv \in Tx!Bit, byte \in Tx!Byte : Tx!Clock(dv, byte) /\ Rx!Clock(UartLine)
        BY <2>2 DEF Next
      <3>2. CASE Tx!Idle(dv, byte)
        BY <3>1, <3>2, IdleRefines
      <3>3. CASE Tx!StartBit \/ Tx!DataBits
        BY <3>3, SendingRefines
      <3>4. CASE Tx!StopBit
        BY <2>1, <3>1, <3>4, StoppingRefines
      <3>5. CASE Tx!Cleanup
        BY <2>1, <3>1, <3>5, CleanupRefines
      <3>6. QED
        BY <3>1, <3>2, <3>3, <3>4, <3>5 DEF Tx!Clock
    <2>3. CASE UNCHANGED vars
      BY <2>3 DEF vars, Tx!vars, Rx!vars, Link!vars, OnItsWay
    <2>4. QED
      BY <2>2, <2>3
  <1>4. QED
    BY <1>1, <1>2, <1>3, TxRxInvariant, PTL DEF Spec, ImplementsByteLink, Link!Safety
=============================================================================
