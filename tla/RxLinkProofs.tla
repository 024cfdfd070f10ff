---------------------------- MODULE RxLinkProofs ----------------------------
(***************************************************************************)
(* The receiver delivers every byte for every divider, number of data      *)
(* bits, skew and gap that RxLinkAssumption allows.  The argument is the   *)
(* phase between the two machines: in every state of the receiver its      *)
(* counter fixes how far the host is in its frame.                         *)
(***************************************************************************)
EXTENDS RxLink, TLAPS

H == Rx!HalfBit

-----------------------------------------------------------------------------
\* The host's own bounds: an edge is off by SKEW at most.
HostBounds ==
  /\ h_Count >= -SKEW
  /\ h_Pos # Host!Stop => h_Count < CLKS_PER_BIT + SKEW

\* In IDLE the receiver waits in a stop bit it has seen enough of, or the
\* start edge has come just now.
IdlePhase ==
  r_SM_Main = "IDLE" =>
    \/ h_Pos = Host!Stop /\ h_Count >= H + 3
    \/ h_Pos = 0 /\ h_Count = 0

StartPhase ==
  r_SM_Main = "RX_START_BIT" =>
    /\ h_Pos = 0 /\ h_Count = r_Clock_Count + 1
    /\ r_Clock_Count <= H
    /\ r_Bit_Index = 0

\* The host is in bit p, or it is already in the next one.
Follows(p) ==
  /\ r_Clock_Count < CLKS_PER_BIT
  /\ \/ h_Pos = p /\ h_Count = r_Clock_Count + H + 2
     \/ h_Pos = p + 1 /\ h_Count = r_Clock_Count + H + 2 - CLKS_PER_BIT

DataPhase ==
  r_SM_Main = "RX_DATA_BITS" =>
    /\ Follows(r_Bit_Index)
    /\ \A i \in 0 .. r_Bit_Index - 1 : r_RX_Byte[i] = h_Byte[i]

StopPhase ==
  r_SM_Main = "RX_STOP_BIT" => Follows(LAST_BIT + 1) /\ r_RX_Byte = h_Byte

CleanupPhase ==
  r_SM_Main = "CLEANUP" =>
    h_Pos = Host!Stop /\ h_Count = H + 2 /\ r_RX_Byte = h_Byte

\* The inductive invariant.
LinkInv ==
  /\ TypeOK
  /\ HostBounds
  /\ IdlePhase /\ StartPhase /\ DataPhase /\ StopPhase /\ CleanupPhase
  /\ r_RX_DV = 1 <=> r_SM_Main = "CLEANUP"

-----------------------------------------------------------------------------
\* The middle of a bit: HalfBit rounds down.
LEMMA HalfBitBounds ==
  H \in Nat /\ 2 * H <= CLKS_PER_BIT - 1 /\ CLKS_PER_BIT - 1 <= 2 * H + 1
  BY RxLinkAssumption DEF H, Rx!HalfBit

\* The assumption in terms of H: what the steps below need of it.
LEMMA Margins ==
  /\ CLKS_PER_BIT \in Nat \ {0} /\ LAST_BIT \in Nat /\ COUNT_SIZE \in Nat
  /\ CLKS_PER_BIT <= COUNT_SIZE
  /\ SKEW \in Nat /\ SKEW <= H + 1 /\ SKEW <= CLKS_PER_BIT - H - 2
  /\ GAP \in Int /\ GAP >= H + 3 - CLKS_PER_BIT
  BY RxLinkAssumption DEF H

\* At power-up the host rests and the receiver is in IDLE (UART_RX.v:29-33).
LEMMA LinkInvInit == Init => LinkInv
  <1> SUFFICES ASSUME Init PROVE LinkInv
    OBVIOUS
  <1> USE HalfBitBounds, Margins
  <1>1. Host!Rested \in Int /\ Host!Rested >= H + 3
    BY DEF Host!Rested
  <1>2. TypeOK
    BY <1>1 DEF Init, Host!Init, Rx!Init, TypeOK, Host!TypeOK, Rx!TypeOK, Host!Stop,
       Host!Byte, Rx!Byte, Rx!Bit, Rx!State
  <1>3. QED
    BY <1>1, <1>2 DEF Init, Host!Init, Rx!Init, LinkInv, HostBounds, IdlePhase,
       StartPhase, DataPhase, StopPhase, CleanupPhase

\* A clock of the host keeps its edges within SKEW of their places.
LEMMA HostStep ==
  ASSUME Host!TypeOK, HostBounds, Host!Clock
  PROVE  Host!TypeOK' /\ HostBounds'
  <1> USE Margins DEF Host!TypeOK, HostBounds, Host!Stop
  <1>1. CASE Host!Hold
    BY <1>1 DEF Host!Hold
  <1>2. CASE Host!Shift
    BY <1>2 DEF Host!Shift
  <1>3. CASE Host!Rest
    BY <1>3 DEF Host!Rest
  <1>4. CASE \E b \in Host!Byte : Host!Start(b)
    BY <1>4 DEF Host!Start
  <1>5. QED
    BY <1>1, <1>2, <1>3, <1>4 DEF Host!Clock

\* The wire carries a 0 or a 1 at every place of the frame (UART_RX_tb.sv:29-43).
LEMMA LineIsBit == ASSUME Host!TypeOK PROVE Host!Line \in Rx!Bit
  BY Margins DEF Host!TypeOK, Host!Line, Host!Stop, Host!Byte, Rx!Bit

\* A clock of the receiver keeps every register within its width
\* (UART_RX.v:37-132).
LEMMA RxTypeStep ==
  ASSUME Rx!TypeOK, NEW RX \in Rx!Bit, Rx!Clock(RX)
  PROVE  Rx!TypeOK'
  <1> USE Margins DEF Rx!TypeOK, Rx!State, Rx!Bit
  <1>0. Rx!NextCount \in 0 .. COUNT_SIZE - 1
    BY DEF Rx!NextCount
  <1>1. CASE Rx!Idle(RX)
    BY <1>1 DEF Rx!Idle
  <1>2. CASE Rx!StartBit(RX)
    BY <1>0, <1>2 DEF Rx!StartBit
  <1>3. CASE Rx!DataBits(RX)
    BY <1>0, <1>3 DEF Rx!DataBits, Rx!AllBits, Rx!Byte
  <1>4. CASE Rx!StopBit
    BY <1>0, <1>4 DEF Rx!StopBit
  <1>5. CASE Rx!Cleanup
    BY <1>5 DEF Rx!Cleanup
  <1>6. QED
    BY <1>1, <1>2, <1>3, <1>4, <1>5 DEF Rx!Clock

(***************************************************************************)
(* One lemma per state of the receiver: from its phase, a clock of both    *)
(* machines leads to the phase of the receiver's next state.               *)
(***************************************************************************)
Phases ==
  /\ IdlePhase /\ StartPhase /\ DataPhase /\ StopPhase /\ CleanupPhase
  /\ r_RX_DV = 1 <=> r_SM_Main = "CLEANUP"

\* IDLE (UART_RX.v:41-51): a start edge is seen at the clock after it came.
LEMMA FromIdle ==
  ASSUME LinkInv, Rx!Idle(Host!Line), Host!Clock
  PROVE  Phases'
  <1> USE HalfBitBounds, Margins
      DEF Phases, IdlePhase, StartPhase, DataPhase, StopPhase, CleanupPhase,
          LinkInv, TypeOK, Host!TypeOK, Host!Stop, Rx!Idle
  <1>1. CASE h_Pos = 0 /\ h_Count = 0
    <2>1. Host!Line = 0
      BY <1>1 DEF Host!Line
    <2>2. h_Pos' = 0 /\ h_Count' = 1
      BY <1>1 DEF Host!Clock, Host!Hold, Host!Shift, Host!Rest, Host!Start
    <2>3. QED
      BY <2>1, <2>2
  <1>2. CASE h_Pos = Host!Stop /\ h_Count >= H + 3
    <2>1. Host!Line = 1
      BY <1>2 DEF Host!Line
    <2>2. \/ h_Pos' = Host!Stop /\ h_Count' >= H + 3
          \/ h_Pos' = 0 /\ h_Count' = 0
      BY <1>2 DEF Host!Clock, Host!Hold, Host!Shift, Host!Rest, Host!Start
    <2>3. QED
      BY <2>1, <2>2
  <1>3. QED
    BY <1>1, <1>2

\* RX_START_BIT (UART_RX.v:53-71): the middle of the start bit is found, and
\* the line is still 0 there.
LEMMA FromStartBit ==
  ASSUME LinkInv, Rx!StartBit(Host!Line), Host!Clock
  PROVE  Phases'
  <1> USE HalfBitBounds, Margins
      DEF Phases, IdlePhase, StartPhase, DataPhase, StopPhase, CleanupPhase,
          LinkInv, TypeOK, Host!TypeOK, Rx!TypeOK, Host!Stop, Rx!StartBit
  <1>1. h_Pos = 0 /\ h_Count = r_Clock_Count + 1 /\ r_Clock_Count <= H
    OBVIOUS
  <1>2. Host!Line = 0
    BY <1>1 DEF Host!Line
  <1>3. \/ h_Pos' = 0 /\ h_Count' = h_Count + 1
        \/ r_Clock_Count = H /\ h_Pos' = 1 /\ h_Count' = h_Count + 1 - CLKS_PER_BIT
    BY <1>1 DEF Host!Clock, Host!Hold, Host!Shift, Host!Rest, Host!Start
  <1>4. CASE r_Clock_Count = H
    BY <1>1, <1>2, <1>3, <1>4 DEF Follows, H
  <1>5. CASE r_Clock_Count # H
    <2>1. Rx!NextCount = r_Clock_Count + 1
      BY <1>1 DEF Rx!NextCount
    <2>2. QED
      BY <1>1, <1>3, <1>5, <2>1 DEF H
  <1>6. QED
    BY <1>4, <1>5

\* While the receiver counts through a bit p of the frame the host keeps pace.
LEMMA Pace ==
  ASSUME TypeOK, HostBounds, Host!Clock,
         NEW p \in 0 .. LAST_BIT + 1, Follows(p)
  PROVE  /\ h_Byte' = h_Byte
         /\ r_Clock_Count < CLKS_PER_BIT - 1 =>
              \/ h_Pos' = p /\ h_Count' = r_Clock_Count + 1 + H + 2
              \/ h_Pos' = p + 1 /\ h_Count' = r_Clock_Count + 1 + H + 2 - CLKS_PER_BIT
         /\ r_Clock_Count = CLKS_PER_BIT - 1 =>
              /\ h_Pos = p + 1
              /\ \/ h_Pos' = p + 1 /\ h_Count' = H + 2
                 \/ h_Pos' = p + 2 /\ h_Count' = H + 2 - CLKS_PER_BIT
  <1> USE HalfBitBounds, Margins
      DEF TypeOK, HostBounds, Follows, Host!TypeOK, Rx!TypeOK, Host!Stop
  <1>1. r_Clock_Count = CLKS_PER_BIT - 1 => h_Pos = p + 1
    OBVIOUS
  <1>2. CASE Host!Hold
    BY <1>1, <1>2 DEF Host!Hold
  <1>3. CASE Host!Shift
    BY <1>1, <1>3 DEF Host!Shift
  <1>4. CASE Host!Rest
    BY <1>1, <1>4 DEF Host!Rest, Host!Rested
  <1>5. CASE \E b \in Host!Byte : Host!Start(b)
    BY <1>1, <1>5 DEF Host!Start
  <1>6. QED
    BY <1>2, <1>3, <1>4, <1>5 DEF Host!Clock

\* Counting in the middle of a bit does not wrap the register.
LEMMA CountsUp ==
  ASSUME Rx!TypeOK, r_Clock_Count < CLKS_PER_BIT - 1
  PROVE  Rx!NextCount = r_Clock_Count + 1
  BY Margins DEF Rx!TypeOK, Rx!NextCount

\* RX_DATA_BITS (UART_RX.v:74-99): each bit is sampled while the host drives it.
LEMMA FromDataBits ==
  ASSUME LinkInv, Rx!DataBits(Host!Line), Host!Clock
  PROVE  Phases'
  <1> USE HalfBitBounds, Margins
      DEF Phases, IdlePhase, StartPhase, DataPhase, StopPhase, CleanupPhase,
          LinkInv, TypeOK, Host!TypeOK, Rx!TypeOK, Host!Stop, Rx!DataBits, Rx!AllBits, Follows
  <1>1. Follows(r_Bit_Index) /\ r_Bit_Index \in 0..LAST_BIT
    OBVIOUS
  <1>2. CASE ~Rx!BitOver
    <2>1. r_Clock_Count < CLKS_PER_BIT - 1
      BY <1>2 DEF Rx!BitOver
    <2>2. r_Clock_Count' = r_Clock_Count + 1
      BY <1>2, <2>1, CountsUp
    <2>3. QED
      BY <1>1, <1>2, <2>1, <2>2, Pace
  <1>3. CASE Rx!BitOver
    <2>1. r_Clock_Count = CLKS_PER_BIT - 1
      BY <1>1, <1>3 DEF Rx!BitOver
    <2>2. h_Pos = r_Bit_Index + 1 /\ h_Byte' = h_Byte
      BY <1>1, <2>1, Pace
    <2>3. Host!Line = h_Byte[r_Bit_Index]
      BY <1>1, <2>2 DEF Host!Line
    <2>4. \A i \in 0..r_Bit_Index : r_RX_Byte'[i] = h_Byte'[i]
      BY <1>1, <1>3, <2>2, <2>3 DEF Rx!Byte, Host!Byte
    <2>5. \/ h_Pos' = r_Bit_Index + 1 /\ h_Count' = H + 2
          \/ h_Pos' = r_Bit_Index + 2 /\ h_Count' = H + 2 - CLKS_PER_BIT
      BY <1>1, <2>1, Pace
    <2>6. CASE r_Bit_Index < LAST_BIT
      BY <1>1, <1>3, <2>4, <2>5, <2>6
    <2>7. CASE r_Bit_Index = LAST_BIT
      <3>1. h_Byte' \in Host!Byte /\ r_RX_Byte' \in Rx!Byte
        BY <1>1, <1>3, <2>2, LineIsBit DEF Rx!Byte, Rx!Bit
      <3>2. r_RX_Byte' = h_Byte'
        BY <2>4, <2>7, <3>1 DEF Rx!Byte, Host!Byte, Rx!Bit
      <3>3. QED
        BY <1>1, <1>3, <2>5, <2>7, <3>2
    <2>8. QED
      BY <1>1, <2>6, <2>7
  <1>4. QED
    BY <1>2, <1>3

\* RX_STOP_BIT (UART_RX.v:102-117): the byte is announced in the stop bit.
LEMMA FromStopBit ==
  ASSUME LinkInv, Rx!StopBit, Host!Clock
  PROVE  Phases'
  <1> USE HalfBitBounds, Margins
      DEF Phases, IdlePhase, StartPhase, DataPhase, StopPhase, CleanupPhase,
          LinkInv, TypeOK, Host!TypeOK, Rx!TypeOK, Host!Stop, Rx!StopBit, Follows
  <1>1. Follows(LAST_BIT + 1) /\ r_RX_Byte = h_Byte
    OBVIOUS
  <1>2. CASE ~Rx!BitOver
    <2>1. r_Clock_Count < CLKS_PER_BIT - 1
      BY <1>2 DEF Rx!BitOver
    <2>2. r_Clock_Count' = r_Clock_Count + 1
      BY <1>2, <2>1, CountsUp
    <2>3. QED
      BY <1>1, <1>2, <2>1, <2>2, Pace
  <1>3. CASE Rx!BitOver
    <2>1. r_Clock_Count = CLKS_PER_BIT - 1
      BY <1>1, <1>3 DEF Rx!BitOver
    <2>2. h_Pos' = Host!Stop /\ h_Count' = H + 2 /\ h_Byte' = h_Byte
      BY <1>1, <2>1, Pace DEF Host!Clock, Host!Hold, Host!Shift, Host!Rest, Host!Start
    <2>3. QED
      BY <1>1, <1>3, <2>2
  <1>4. QED
    BY <1>2, <1>3

\* CLEANUP (UART_RX.v:120-125): the receiver is back before the next start edge.
LEMMA FromCleanup ==
  ASSUME LinkInv, Rx!Cleanup, Host!Clock
  PROVE  Phases'
  <1> USE HalfBitBounds, Margins
      DEF Phases, IdlePhase, StartPhase, DataPhase, StopPhase, CleanupPhase,
          LinkInv, TypeOK, Host!TypeOK, Rx!TypeOK, Host!Stop, Rx!Cleanup
  <1>1. h_Pos = Host!Stop /\ h_Count = H + 2
    OBVIOUS
  <1>2. Host!Rested >= H + 3
    BY DEF Host!Rested
  <1>3. \/ h_Pos' = Host!Stop /\ h_Count' = H + 3
        \/ h_Pos' = 0 /\ h_Count' = 0
    BY <1>1, <1>2 DEF Host!Clock, Host!Hold, Host!Shift, Host!Rest, Host!Start, Host!Rested
  <1>4. QED
    BY <1>3

\* A clock of both machines takes LinkInv to LinkInv.
LEMMA LinkInvNext == ASSUME LinkInv, Next PROVE LinkInv'
  <1>1. Host!TypeOK' /\ HostBounds'
    BY HostStep DEF LinkInv, TypeOK, Next
  <1>2. Rx!TypeOK'
    BY LineIsBit, RxTypeStep DEF LinkInv, TypeOK, Next
  <1>3. Phases'
    <2>1. CASE Rx!Idle(Host!Line)
      BY <2>1, FromIdle DEF Next
    <2>2. CASE Rx!StartBit(Host!Line)
      BY <2>2, FromStartBit DEF Next
    <2>3. CASE Rx!DataBits(Host!Line)
      BY <2>3, FromDataBits DEF Next
    <2>4. CASE Rx!StopBit
      BY <2>4, FromStopBit DEF Next
    <2>5. CASE Rx!Cleanup
      BY <2>5, FromCleanup DEF Next
    <2>6. QED
      BY <2>1, <2>2, <2>3, <2>4, <2>5 DEF Next, Rx!Clock
  <1>4. QED
    BY <1>1, <1>2, <1>3 DEF LinkInv, Phases, TypeOK

\* A step that changes nothing keeps LinkInv.
LEMMA LinkInvStutter == ASSUME LinkInv, UNCHANGED vars PROVE LinkInv'
  BY DEF LinkInv, TypeOK, Host!TypeOK, Rx!TypeOK, HostBounds, IdlePhase, StartPhase,
     DataPhase, StopPhase, CleanupPhase, Follows, vars, Host!vars, Rx!vars

\* The phase relation between host and receiver holds in every state.
THEOREM LinkInvariant == Spec => []LinkInv
  <1>1. Init => LinkInv
    BY LinkInvInit
  <1>2. LinkInv /\ [Next]_vars => LinkInv'
    BY LinkInvNext, LinkInvStutter
  <1>3. QED
    BY <1>1, <1>2, PTL DEF Spec

\* Every register keeps to its width, in every configuration.
THEOREM TypeCorrect == Spec => []TypeOK
  <1>1. LinkInv => TypeOK
    BY DEF LinkInv
  <1>2. QED
    BY <1>1, LinkInvariant, PTL

\* What o_RX_DV announces is what was sent (UART_RX.v:103-117).
THEOREM Correct == Spec => []ReceivedIsSent
  <1>1. LinkInv => ReceivedIsSent
    BY DEF LinkInv, CleanupPhase, ReceivedIsSent
  <1>2. QED
    BY <1>1, LinkInvariant, PTL

\* The receiver is back in IDLE in time for every start edge (UART_RX.v:41-51).
THEOREM NeverLate == Spec => []StartIsSeen
  <1>1. LinkInv => StartIsSeen
    <2> SUFFICES ASSUME LinkInv, h_Pos = 0, h_Count = 0 PROVE r_SM_Main = "IDLE"
      BY DEF StartIsSeen
    <2> USE HalfBitBounds, Margins DEF LinkInv, TypeOK, Rx!TypeOK, Host!Stop
    <2>1. r_SM_Main # "RX_START_BIT"
      BY DEF StartPhase
    <2>2. r_SM_Main # "RX_DATA_BITS"
      BY DEF DataPhase, Follows
    <2>3. r_SM_Main # "RX_STOP_BIT" /\ r_SM_Main # "CLEANUP"
      BY DEF StopPhase, CleanupPhase, Follows
    <2>4. QED
      BY <2>1, <2>2, <2>3 DEF Rx!State
  <1>2. QED
    BY <1>1, LinkInvariant, PTL

-----------------------------------------------------------------------------
(***************************************************************************)
(* Refinement: one lemma per state of the receiver, then the theorem.      *)
(***************************************************************************)
LinkStep == Link!Next \/ UNCHANGED Link!vars

\* The bytes of the two machines are the same set, and None is none of them.
LEMMA SameBytes == Host!Byte = Rx!Byte /\ None \notin Host!Byte
  BY RxLinkAssumption DEF Host!Byte, Rx!Byte, Rx!Bit

\* In IDLE the wire is empty, or the frame has begun; a start edge is a Send.
LEMMA IdleRefines ==
  ASSUME LinkInv, Rx!Idle(Host!Line), Host!Clock
  PROVE  LinkStep
  <1> USE HalfBitBounds, Margins DEF LinkInv, IdlePhase, Host!Stop, Rx!Idle
  <1>1. Out = None /\ Out' = None
    BY DEF Out
  <1>2. CASE h_Pos = 0 /\ h_Count = 0
    <2>1. h_Pos' = 0 /\ h_Byte' = h_Byte
      BY <1>2 DEF Host!Clock, Host!Hold, Host!Shift, Host!Rest, Host!Start
    <2>2. QED
      BY <1>1, <1>2, <2>1 DEF LinkStep, Link!vars, Wire, Announced
  <1>3. CASE h_Pos = Host!Stop
    <2>1. Host!Line = 1 /\ Wire = None
      BY <1>3 DEF Host!Line, Wire, Announced
    <2>2. CASE Host!Rest
      BY <1>1, <1>3, <2>1, <2>2 DEF Host!Rest, LinkStep, Link!vars, Wire, Announced
    <2>3. CASE \E b \in Host!Byte : Host!Start(b)
      <3>1. PICK b \in Host!Byte : Host!Start(b)
        BY <2>3
      <3>2. Wire' = b
        BY <3>1 DEF Host!Start, Wire, Announced
      <3>3. QED
        BY <1>1, <2>1, <3>2, SameBytes DEF LinkStep, Link!Next, Link!Send
    <2>4. QED
      BY <1>3, <2>2, <2>3 DEF Host!Clock, Host!Hold, Host!Shift
  <1>4. QED
    BY <1>2, <1>3

\* A byte being sampled stays on its way.
LEMMA SamplingRefines ==
  ASSUME LinkInv, Host!Clock,
         Rx!StartBit(Host!Line) \/ Rx!DataBits(Host!Line)
  PROVE  LinkStep
  <1>1. h_Byte' = h_Byte /\ ~Announced /\ ~Announced'
    <2>1. CASE Rx!StartBit(Host!Line)
      <3>1. h_Pos = 0 /\ h_Byte' = h_Byte
        BY <2>1, HalfBitBounds, Margins DEF Rx!StartBit, LinkInv, StartPhase, Host!Stop,
           Host!Clock, Host!Hold, Host!Shift, Host!Rest, Host!Start
      <3>2. Host!Line = 0
        BY <3>1 DEF Host!Line
      <3>3. QED
        BY <2>1, <3>1, <3>2 DEF Rx!StartBit, Announced
    <2>2. CASE Rx!DataBits(Host!Line)
      <3>1. Follows(r_Bit_Index) /\ r_Bit_Index \in 0 .. LAST_BIT + 1
        BY <2>2, Margins DEF Rx!DataBits, LinkInv, DataPhase, TypeOK, Rx!TypeOK
      <3>2. QED
        BY <2>2, <3>1, Pace DEF Rx!DataBits, Announced, LinkInv
    <2>3. QED
      BY <2>1, <2>2
  <1>2. Out = None /\ Out' = None
    BY DEF Out, LinkInv, Rx!StartBit, Rx!DataBits
  <1>3. QED
    BY <1>1, <1>2 DEF LinkStep, Link!vars, Wire

\* At the end of the stop bit the byte is handed over.
LEMMA StopRefines ==
  ASSUME LinkInv, Rx!StopBit, Host!Clock
  PROVE  LinkStep
  <1> USE DEF Rx!StopBit
  <1>1. /\ h_Byte' = h_Byte /\ h_Byte \in Host!Byte
        /\ r_RX_Byte = h_Byte /\ r_RX_Byte' = h_Byte
    BY Margins, Pace DEF LinkInv, StopPhase, TypeOK, Host!TypeOK
  <1>2. Wire = h_Byte /\ Out = None
    BY DEF Wire, Announced, Out, LinkInv
  <1>3. CASE ~Rx!BitOver
    BY <1>1, <1>2, <1>3 DEF LinkStep, Link!vars, Wire, Announced, Out, LinkInv
  <1>4. CASE Rx!BitOver
    <2>1. h_Pos' = Host!Stop
      BY <1>4, FromStopBit DEF Phases, CleanupPhase
    <2>2. Wire' = None /\ Out' = h_Byte
      BY <1>1, <1>4, <2>1 DEF Wire, Announced, Out
    <2>3. QED
      BY <1>1, <1>2, <2>2, SameBytes DEF LinkStep, Link!Next, Link!Deliver
  <1>5. QED
    BY <1>3, <1>4

\* The pulse ends, perhaps at the very start edge of the next byte.
LEMMA CleanupRefines ==
  ASSUME LinkInv, Rx!Cleanup, Host!Clock
  PROVE  LinkStep
  <1> USE DEF Rx!Cleanup
  <1>1. h_Pos = Host!Stop /\ r_RX_Byte = h_Byte /\ h_Byte \in Host!Byte /\ r_RX_DV = 1
    BY DEF LinkInv, CleanupPhase, TypeOK, Host!TypeOK
  <1>2. Wire = None /\ Out # None /\ Out' = None
    BY <1>1, SameBytes DEF Wire, Announced, Out
  <1>3. CASE Host!Rest
    <2>1. Wire' = None
      BY <1>1, <1>3 DEF Host!Rest, Wire, Announced
    <2>2. QED
      BY <1>2, <2>1 DEF LinkStep, Link!Next, Link!Release
  <1>4. CASE \E b \in Host!Byte : Host!Start(b)
    <2>1. PICK b \in Host!Byte : Host!Start(b)
      BY <1>4
    <2>2. Wire' = b
      BY <2>1, Margins DEF Host!Start, Wire, Announced, Host!Stop
    <2>3. QED
      BY <1>2, <2>2, SameBytes DEF LinkStep, Link!Next, Link!Send
  <1>5. QED
    BY <1>1, <1>3, <1>4 DEF Host!Clock, Host!Hold, Host!Shift

\* UART_RX behind its pin is a serial link (UART_RX.v:4-10): every byte a
\* host within the tolerance sends is announced once, in order, unchanged.
THEOREM RxImplementsByteLink == Spec => ImplementsByteLink
  <1>1. Init => Link!Init
    BY DEF Init, Host!Init, Rx!Init, Link!Init, Wire, Announced, Out
  <1>2. LinkInv /\ [Next]_vars => [Link!Next]_(Link!vars)
    <2>1. CASE LinkInv /\ Next
      BY <2>1, IdleRefines, SamplingRefines, StopRefines, CleanupRefines
         DEF Next, Rx!Clock, LinkStep
    <2>2. CASE UNCHANGED vars
      BY <2>2 DEF vars, Host!vars, Rx!vars, Link!vars, Wire, Announced, Out
    <2>3. QED
      BY <2>1, <2>2
  <1>3. QED
    BY <1>1, <1>2, LinkInvariant, PTL DEF Spec, ImplementsByteLink, Link!Safety
=============================================================================
