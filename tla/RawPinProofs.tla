--------------------------- MODULE RawPinProofs -----------------------------
(***************************************************************************)
(* The two circuits that look at a raw pin, which may be at any level at   *)
(* any clock.  The receiver samples an arbitrary line in the middle of the *)
(* bits, for every divider, every number of data bits and every width of   *)
(* the clock count; and the push-button counter is right, however the      *)
(* button bounces, for every debounce limit that fits its register.        *)
(***************************************************************************)
EXTENDS RxSampling, SevenSegCounter, SequenceTheorems, TLAPS

\* The clock of the middle of the bit at place p of a frame.
Place(p) == HalfBit + 2 + p * CLKS_PER_BIT

\* The start bit was there at its detection and in its middle, and the bits
\* before bit n are those in the middle of their time.
SampledTo(n) ==
  /\ samples[1] = 0 /\ Middle(0) = 0
  /\ \A i \in 0 .. n - 1 : r_RX_Byte[i] = Middle(i + 1)

Types ==
  /\ r_SM_Main \in State /\ r_Clock_Count \in 0 .. COUNT_SIZE - 1
  /\ r_Bit_Index \in 0..LAST_BIT /\ r_RX_Byte \in Byte
  /\ line \in Bit /\ samples \in Seq(Bit)

\* Where the history ends in each state of the machine.
Timed ==
  /\ r_SM_Main = "RX_START_BIT" =>
       /\ r_Clock_Count <= HalfBit
       /\ Len(samples) = r_Clock_Count + 1
       /\ samples[1] = 0
       /\ r_Bit_Index = 0
  /\ r_SM_Main = "RX_DATA_BITS" =>
       /\ r_Clock_Count < CLKS_PER_BIT
       /\ Len(samples) = Place(r_Bit_Index) + r_Clock_Count
       /\ SampledTo(r_Bit_Index)
  /\ r_SM_Main = "RX_STOP_BIT" =>
       /\ r_Clock_Count < CLKS_PER_BIT
       /\ Len(samples) = Place(LAST_BIT + 1) + r_Clock_Count
       /\ SampledTo(LAST_BIT + 1)
  /\ r_SM_Main = "CLEANUP" =>
       /\ Len(samples) = Place(LAST_BIT + 2)
       /\ SampledTo(LAST_BIT + 1)

\* A divider that the register can hold is kept; with any other the machine
\* never gets beyond its first data bit.
IInv ==
  /\ Types
  /\ r_RX_DV = IF r_SM_Main = "CLEANUP" THEN 1 ELSE 0
  /\ CLKS_PER_BIT <= COUNT_SIZE => Timed
  /\ CLKS_PER_BIT > COUNT_SIZE => r_SM_Main \in {"IDLE", "RX_START_BIT", "RX_DATA_BITS"}

-----------------------------------------------------------------------------
LEMMA Halves == HalfBit \in Nat /\ HalfBit < CLKS_PER_BIT
  BY UartRxAssumption DEF HalfBit

LEMMA Places ==
  ASSUME NEW p \in Nat
  PROVE  /\ Place(p) \in Nat /\ Place(p) >= HalfBit + 2
         /\ Place(p + 1) = Place(p) + CLKS_PER_BIT
         /\ Place(0) = HalfBit + 2
  <1>1. p * CLKS_PER_BIT \in Nat /\ (p + 1) * CLKS_PER_BIT = p * CLKS_PER_BIT + CLKS_PER_BIT
    BY UartRxAssumption
  <1>2. 0 * CLKS_PER_BIT = 0
    BY UartRxAssumption
  <1>3. QED
    BY <1>1, <1>2, Halves, UartRxAssumption DEF Place

LEMMA PlacesGrow ==
  ASSUME NEW p \in Nat, NEW q \in Nat, p <= q
  PROVE  Place(p) <= Place(q)
  <1>1. q * CLKS_PER_BIT = p * CLKS_PER_BIT + (q - p) * CLKS_PER_BIT
    BY UartRxAssumption
  <1>2. (q - p) * CLKS_PER_BIT \in Nat /\ p * CLKS_PER_BIT \in Nat
    BY UartRxAssumption
  <1>3. QED
    BY <1>1, <1>2, Halves DEF Place

\* One more sample leaves the middles before it alone.
LEMMA Longer ==
  ASSUME Types, NEW n \in 0 .. LAST_BIT + 1, SampledTo(n), Place(n) <= Len(samples),
         samples' = Append(samples, line),
         \A i \in 0 .. n - 1 : r_RX_Byte'[i] = r_RX_Byte[i]
  PROVE  /\ samples'[1] = 0 /\ Middle(0)' = 0
         /\ \A i \in 0 .. n - 1 : r_RX_Byte'[i] = Middle(i + 1)'
  <1>1. \A k \in 0..n : Place(k) \in 1 .. Len(samples)
    <2>1. \A k \in 0..n : k \in Nat /\ n \in Nat /\ k <= n
      BY UartRxAssumption
    <2>2. ASSUME NEW k \in 0..n
          PROVE  Place(k) \in Nat /\ Place(k) >= 1 /\ Place(k) <= Place(n)
      <3>1. k \in Nat /\ n \in Nat /\ k <= n
        BY <2>1
      <3>2. Place(k) \in Nat /\ Place(k) >= HalfBit + 2
        BY <3>1, Places
      <3>3. Place(k) <= Place(n)
        BY <3>1, PlacesGrow
      <3>4. QED
        BY <3>2, <3>3, Halves
    <2>3. Place(n) \in Nat /\ Len(samples) \in Nat
      BY <2>1, Places DEF Types
    <2>4. QED
      BY <2>2, <2>3
  <1>2. \A k \in 1 .. Len(samples) : samples'[k] = samples[k]
    BY DEF Types
  <1>3. \A k \in 0..n : Middle(k)' = Middle(k)
    BY <1>1, <1>2 DEF Middle, Place, HalfBit
  <1>4. 1 \in 1 .. Len(samples)
    BY <1>1, UartRxAssumption DEF Types
  <1>5. \A i \in 0 .. n - 1 : i + 1 \in 0..n
    BY UartRxAssumption
  <1>6. 0 \in 0..n
    BY UartRxAssumption
  <1>7. QED
    BY <1>2, <1>3, <1>4, <1>5, <1>6 DEF SampledTo

LEMMA TypesKept == ASSUME Types, SamplingNext PROVE Types'
  <1>1. UartRxAssumption /\ NextCount \in 0 .. COUNT_SIZE - 1
    BY UartRxAssumption DEF Types, NextCount
  <1>2. line' \in Bit /\ samples' \in Seq(Bit)
    BY DEF Types, SamplingNext, LineNext
  <1>3. r_RX_Byte' \in Byte
    BY DEF Types, SamplingNext, LineNext, Clock, Idle, StartBit, DataBits, StopBit, Cleanup,
           Byte
  <1>4. r_SM_Main' \in State
    BY DEF Types, SamplingNext, LineNext, Clock, Idle, StartBit, DataBits, StopBit, Cleanup,
           State
  <1>5. r_Clock_Count' \in 0 .. COUNT_SIZE - 1
    BY <1>1, UartRxAssumption
    DEF Types, SamplingNext, LineNext, Clock, Idle, StartBit, DataBits, StopBit, Cleanup
  <1>6. r_Bit_Index' \in 0..LAST_BIT
    BY UartRxAssumption
    DEF Types, SamplingNext, LineNext, Clock, Idle, StartBit, DataBits, StopBit, Cleanup,
        AllBits
  <1>7. QED
    BY <1>2, <1>3, <1>4, <1>5, <1>6 DEF Types

LEMMA DVKept ==
  ASSUME IInv, SamplingNext
  PROVE  r_RX_DV' = IF r_SM_Main' = "CLEANUP" THEN 1 ELSE 0
  BY DEF IInv, Types, SamplingNext, LineNext, Clock, Idle, StartBit, DataBits, StopBit, Cleanup

\* A count that cannot reach the last clock of a bit.
LEMMA Stuck ==
  ASSUME IInv, SamplingNext, CLKS_PER_BIT > COUNT_SIZE
  PROVE  r_SM_Main' \in {"IDLE", "RX_START_BIT", "RX_DATA_BITS"}
  <1>1. ~BitOver
    BY UartRxAssumption DEF IInv, Types, BitOver
  <1>2. QED
    BY <1>1
    DEF IInv, SamplingNext, LineNext, Clock, Idle, StartBit, DataBits, StopBit, Cleanup

-----------------------------------------------------------------------------
LEMMA TimedKept ==
  ASSUME IInv, SamplingNext, CLKS_PER_BIT <= COUNT_SIZE
  PROVE  Timed'
  <1> USE UartRxAssumption, Halves
  <1>1. Types /\ Timed /\ Types'
    BY TypesKept DEF IInv
  <1>2. CASE Idle(line)
    BY <1>1, <1>2 DEF Idle, Timed, SamplingNext, Types
  <1>3. ASSUME r_SM_Main \in {"RX_START_BIT", "RX_DATA_BITS", "RX_STOP_BIT"}
        PROVE  /\ samples' = Append(samples, line) /\ Len(samples') = Len(samples) + 1
               /\ samples'[Len(samples')] = line
    <2>1. Place(LAST_BIT + 1) \in Nat /\ FrameLength = Place(LAST_BIT + 1) + CLKS_PER_BIT
      BY Places DEF FrameLength, Place
    <2>2. Len(samples) < MaxSamples
      <3>1. CASE r_SM_Main = "RX_START_BIT"
        <4>1. Place(LAST_BIT + 1) >= HalfBit + 2
          BY Places
        <4>2. QED
          BY <3>1, <4>1, <2>1, <1>1 DEF Timed, MaxSamples, Types
      <3>2. CASE r_SM_Main = "RX_DATA_BITS"
        <4>1. r_Bit_Index \in Nat /\ r_Bit_Index <= LAST_BIT + 1
          BY <1>1 DEF Types
        <4>2. Place(r_Bit_Index) \in Nat /\ Place(r_Bit_Index) <= Place(LAST_BIT + 1)
          BY <4>1, Places, PlacesGrow
        <4>3. QED
          BY <3>2, <4>2, <2>1, <1>1 DEF Timed, MaxSamples, Types
      <3>3. CASE r_SM_Main = "RX_STOP_BIT"
        BY <3>3, <2>1, <1>1 DEF Timed, MaxSamples, Types
      <3>4. QED
        BY <3>1, <3>2, <3>3, <1>3
    <2>3. samples' = Append(samples, line)
      BY <1>3, <2>2 DEF SamplingNext
    <2>4. QED
      BY <2>3, <1>1 DEF Types
  <1>4. CASE StartBit(line)
    <2>1. r_SM_Main = "RX_START_BIT" /\ samples' = Append(samples, line)
          /\ Len(samples') = Len(samples) + 1 /\ samples'[Len(samples')] = line
          /\ samples'[1] = samples[1]
      BY <1>1, <1>3, <1>4 DEF StartBit, Timed, Types
    <2>2. CASE r_Clock_Count # HalfBit
      <3>1. NextCount = r_Clock_Count + 1
        BY <2>1, <2>2, <1>1 DEF NextCount, Timed, Types
      <3>2. QED
        BY <2>1, <2>2, <3>1, <1>1, <1>4 DEF StartBit, Timed, Types
    <2>3. CASE r_Clock_Count = HalfBit /\ line = 0
      <3>1. /\ r_SM_Main' = "RX_DATA_BITS" /\ r_Clock_Count' = 0
            /\ r_Bit_Index' = r_Bit_Index /\ r_RX_Byte' = r_RX_Byte
        BY <2>1, <2>3, <1>4 DEF StartBit
      <3>2. Len(samples') = Place(0) /\ samples'[1] = 0
        BY <2>1, <2>3, <1>1, Places DEF Timed, Types
      <3>3. Middle(0)' = 0
        BY <3>2, <2>1, <2>3 DEF Middle, Place, HalfBit
      <3>4. SampledTo(r_Bit_Index)' /\ r_Bit_Index' = 0
        <4>1. r_Bit_Index = 0 /\ 0 .. r_Bit_Index - 1 = {}
          BY <1>1, <2>1 DEF Timed
        <4>2. QED
          BY <4>1, <3>1, <3>2, <3>3 DEF SampledTo
      <3>5. QED
        BY <3>1, <3>2, <3>4, Places DEF Timed, Place, HalfBit
    <2>4. CASE r_Clock_Count = HalfBit /\ line # 0
      BY <2>1, <2>4, <1>4 DEF StartBit, Timed
    <2>5. QED
      BY <2>2, <2>3, <2>4
  <1>5. CASE DataBits(line)
    <2>1. /\ r_SM_Main = "RX_DATA_BITS" /\ samples' = Append(samples, line)
          /\ Len(samples') = Len(samples) + 1 /\ samples'[Len(samples')] = line
          /\ r_Bit_Index \in 0 .. LAST_BIT
      BY <1>1, <1>3, <1>5 DEF DataBits, Types
    <2>2. /\ Place(r_Bit_Index) \in Nat
          /\ Place(r_Bit_Index + 1) = Place(r_Bit_Index) + CLKS_PER_BIT
      <3>1. r_Bit_Index \in Nat
        BY <2>1
      <3>2. QED
        BY <3>1, Places
    <2>3. /\ r_Clock_Count < CLKS_PER_BIT /\ SampledTo(r_Bit_Index)
          /\ Len(samples) = Place(r_Bit_Index) + r_Clock_Count
          /\ Place(r_Bit_Index) <= Len(samples)
      BY <1>1, <2>1, <2>2 DEF Timed, Types
    <2>4. \A i \in 0 .. r_Bit_Index - 1 : r_RX_Byte'[i] = r_RX_Byte[i]
      BY <1>1, <1>5, <2>1 DEF DataBits, Types, Byte
    <2>5. /\ samples'[1] = 0 /\ Middle(0)' = 0
          /\ \A i \in 0 .. r_Bit_Index - 1 : r_RX_Byte'[i] = Middle(i + 1)'
      BY <1>1, <2>1, <2>3, <2>4, Longer
    <2>6. CASE ~BitOver
      <3>1. NextCount = r_Clock_Count + 1 /\ r_Clock_Count + 1 < CLKS_PER_BIT
        BY <2>3, <2>6, <1>1 DEF NextCount, BitOver, Types
      <3>2. /\ r_SM_Main' = "RX_DATA_BITS" /\ r_Clock_Count' = r_Clock_Count + 1
            /\ r_Bit_Index' = r_Bit_Index
        BY <3>1, <2>6, <1>5 DEF DataBits
      <3>3. Len(samples') = Place(r_Bit_Index') + r_Clock_Count'
        BY <3>2, <2>1, <2>2, <2>3, <1>1 DEF Types
      <3>4. SampledTo(r_Bit_Index)'
        BY <3>2, <2>5 DEF SampledTo
      <3>5. QED
        BY <3>1, <3>2, <3>3, <3>4 DEF Timed, Place, HalfBit
    <2>7. CASE BitOver
      <3>1. r_Clock_Count = CLKS_PER_BIT - 1
        BY <2>3, <2>7, <1>1 DEF BitOver, Types
      <3>2. Len(samples') = Place(r_Bit_Index + 1)
        BY <3>1, <2>1, <2>2, <2>3
      <3>3. samples'[Place(r_Bit_Index + 1)] = line
        BY <3>2, <2>1
      <3>4. r_RX_Byte'[r_Bit_Index] = line
        BY <2>1, <2>7, <1>1, <1>5 DEF DataBits, Types, Byte
      <3>5. \A i \in 0 .. r_Bit_Index : r_RX_Byte'[i] = samples'[Place(i + 1)]
        <4> SUFFICES ASSUME NEW i \in 0 .. r_Bit_Index
                     PROVE  r_RX_Byte'[i] = samples'[Place(i + 1)]
          OBVIOUS
        <4>1. CASE i = r_Bit_Index
          BY <4>1, <3>3, <3>4
        <4>2. CASE i # r_Bit_Index
          <5>1. i \in 0 .. r_Bit_Index - 1
            BY <4>2, <2>1
          <5>2. r_RX_Byte'[i] = Middle(i + 1)'
            BY <5>1, <2>5
          <5>3. QED
            BY <5>2 DEF Middle, Place, HalfBit
        <4>3. QED
          BY <4>1, <4>2
      <3>6. /\ Place(0)' = Place(0) /\ samples'[Place(0)] = 0
        BY <2>5 DEF Middle, Place, HalfBit
      <3>7. CASE ~AllBits
        <4>1. /\ r_SM_Main' = "RX_DATA_BITS" /\ r_Clock_Count' = 0
              /\ r_Bit_Index' = r_Bit_Index + 1
          BY <3>7, <2>7, <1>5 DEF DataBits
        <4>2. SampledTo(r_Bit_Index)'
          <5>1. r_Bit_Index' - 1 = r_Bit_Index
            BY <4>1, <2>1
          <5>2. QED
            BY <5>1, <3>5, <2>5 DEF SampledTo, Middle, Place, HalfBit
        <4>3. Len(samples') = Place(r_Bit_Index') + r_Clock_Count'
          BY <4>1, <3>2, <2>1, <2>2
        <4>4. QED
          BY <4>1, <4>2, <4>3 DEF Timed, Place, HalfBit
      <3>8. CASE AllBits
        <4>1. r_SM_Main' = "RX_STOP_BIT" /\ r_Clock_Count' = 0 /\ r_Bit_Index = LAST_BIT
          BY <3>8, <2>1, <2>7, <1>5 DEF DataBits, AllBits
        <4>2. SampledTo(LAST_BIT + 1)'
          <5>1. LAST_BIT + 1 - 1 = r_Bit_Index
            BY <4>1
          <5>2. QED
            BY <5>1, <3>5, <2>5 DEF SampledTo, Middle, Place, HalfBit
        <4>3. Len(samples') = Place(LAST_BIT + 1) + r_Clock_Count'
          BY <4>1, <3>2, <2>2
        <4>4. QED
          BY <4>1, <4>2, <4>3 DEF Timed, Place, HalfBit
      <3>9. QED
        BY <3>7, <3>8
    <2>8. QED
      BY <2>6, <2>7
  <1>6. CASE StopBit
    <2>1. /\ r_SM_Main = "RX_STOP_BIT" /\ samples' = Append(samples, line)
          /\ Len(samples') = Len(samples) + 1 /\ r_RX_Byte' = r_RX_Byte
      BY <1>3, <1>6 DEF StopBit
    <2>2. /\ Place(LAST_BIT + 1) \in Nat
          /\ Place(LAST_BIT + 2) = Place(LAST_BIT + 1) + CLKS_PER_BIT
      <3>1. LAST_BIT + 1 \in Nat /\ (LAST_BIT + 1) + 1 = LAST_BIT + 2
        OBVIOUS
      <3>2. QED
        BY <3>1, Places
    <2>3. /\ r_Clock_Count < CLKS_PER_BIT /\ SampledTo(LAST_BIT + 1)
          /\ Len(samples) = Place(LAST_BIT + 1) + r_Clock_Count
          /\ Place(LAST_BIT + 1) <= Len(samples)
      BY <1>1, <2>1, <2>2 DEF Timed, Types
    <2>4. SampledTo(LAST_BIT + 1)'
      BY <1>1, <2>1, <2>3, Longer DEF SampledTo
    <2>5. CASE ~BitOver
      <3>1. NextCount = r_Clock_Count + 1 /\ r_Clock_Count + 1 < CLKS_PER_BIT
        BY <2>3, <2>5, <1>1 DEF NextCount, BitOver, Types
      <3>2. r_SM_Main' = "RX_STOP_BIT" /\ r_Clock_Count' = r_Clock_Count + 1
        BY <3>1, <2>5, <1>6, <2>1 DEF StopBit
      <3>3. Len(samples') = Place(LAST_BIT + 1) + r_Clock_Count'
        BY <3>2, <2>1, <2>2, <2>3, <1>1 DEF Types
      <3>4. QED
        BY <3>1, <3>2, <3>3, <2>4 DEF Timed, Place, HalfBit
    <2>6. CASE BitOver
      <3>1. r_Clock_Count = CLKS_PER_BIT - 1 /\ r_SM_Main' = "CLEANUP"
        BY <2>3, <2>6, <1>1, <1>6 DEF BitOver, Types, StopBit
      <3>2. Len(samples') = Place(LAST_BIT + 2)
        BY <3>1, <2>1, <2>2, <2>3
      <3>3. QED
        BY <3>1, <3>2, <2>4 DEF Timed, Place, HalfBit
    <2>7. QED
      BY <2>5, <2>6
  <1>7. CASE Cleanup
    BY <1>7 DEF Cleanup, Timed
  <1>8. QED
    BY <1>2, <1>4, <1>5, <1>6, <1>7 DEF SamplingNext, LineNext, Clock

-----------------------------------------------------------------------------
\* The invariant, for every divider, frame length and width of the count.
THEOREM SamplingInvariant == SamplingSpec => []IInv
  <1>1. ASSUME SamplingInit PROVE IInv
    BY <1>1, UartRxAssumption
    DEF SamplingInit, LineInit, Init, IInv, Types, Timed, State, Byte, Bit
  <1>2. ASSUME IInv, SamplingNext PROVE IInv'
    BY <1>2, TypesKept, DVKept, Stuck, TimedKept DEF IInv
  <1>3. ASSUME IInv, UNCHANGED samplingVars PROVE IInv'
    BY <1>3
    DEF IInv, Types, Timed, SampledTo, Middle, Place, HalfBit, samplingVars, lineVars, vars
  <1>4. QED
    BY <1>1, <1>2, <1>3, PTL DEF SamplingSpec

\* A byte is announced only at the middle of the stop bit, after a start bit
\* that was still there in its middle, and its bits are those the line had in
\* the middle of their times (UART_RX.v:54-117).
THEOREM SamplesInTheMiddle == SamplingSpec => []SampledInTheMiddle
  <1>1. ASSUME IInv PROVE SampledInTheMiddle
    <2>1. SUFFICES ASSUME r_RX_DV = 1 PROVE SampledInTheMiddle
      BY DEF SampledInTheMiddle
    <2>2. r_SM_Main = "CLEANUP" /\ CLKS_PER_BIT <= COUNT_SIZE
      BY <1>1, <2>1, UartRxAssumption DEF IInv
    <2>3. Len(samples) = Place(LAST_BIT + 2) /\ SampledTo(LAST_BIT + 1)
      BY <1>1, <2>2 DEF IInv, Timed
    <2>4. LAST_BIT + 1 - 1 = LAST_BIT
      BY UartRxAssumption
    <2>5. \A i \in 0..LAST_BIT : r_RX_Byte[i] = Middle(i + 1)
      BY <2>3, <2>4, UartRxAssumption DEF SampledTo
    <2>6. Len(samples) = FrameLength
      BY <2>3 DEF FrameLength, Place
    <2>7. samples[1] = 0 /\ Middle(0) = 0
      BY <2>3 DEF SampledTo
    <2>8. QED
      BY <2>5, <2>6, <2>7 DEF SampledInTheMiddle
  <1>2. QED
    BY <1>1, SamplingInvariant, PTL

\* A divider that the clock count cannot hold (UART_RX.v:26, 30): no byte is
\* ever announced, whatever is sent at whatever rate.
THEOREM TooSlowIsDeaf == CLKS_PER_BIT > COUNT_SIZE => (SamplingSpec => [](r_RX_DV = 0))
  <1> SUFFICES ASSUME CLKS_PER_BIT > COUNT_SIZE PROVE SamplingSpec => [](r_RX_DV = 0)
    OBVIOUS
  <1>1. IInv => r_RX_DV = 0
    BY DEF IInv
  <1>2. QED
    BY <1>1, SamplingInvariant, PTL

\* With one whose half the count cannot hold either, the receiver never leaves
\* the first start bit it sees (UART_RX.v:58-79): what rx_slow_baud shows at
\* 2604 clocks a bit holds of every such divider.
THEOREM TooSlowIsTrapped ==
  HalfBit >= COUNT_SIZE =>
    (SamplingSpec =>
      [][r_SM_Main = "RX_START_BIT" => r_SM_Main' = "RX_START_BIT"]_samplingVars)
  <1> SUFFICES ASSUME HalfBit >= COUNT_SIZE
               PROVE  SamplingSpec =>
                        [][r_SM_Main = "RX_START_BIT" => r_SM_Main' = "RX_START_BIT"]_samplingVars
    OBVIOUS
  <1>1. IInv /\ [SamplingNext]_samplingVars =>
          [r_SM_Main = "RX_START_BIT" => r_SM_Main' = "RX_START_BIT"]_samplingVars
    <2>1. SUFFICES ASSUME IInv, SamplingNext, r_SM_Main = "RX_START_BIT"
                   PROVE  r_SM_Main' = "RX_START_BIT"
      OBVIOUS
    <2>2. r_Clock_Count # HalfBit
      BY <2>1, Halves, UartRxAssumption DEF IInv, Types
    <2>3. QED
      BY <2>1, <2>2
      DEF SamplingNext, LineNext, Clock, Idle, StartBit, DataBits, StopBit, Cleanup
  <1>2. QED
    BY <1>1, SamplingInvariant, PTL DEF SamplingSpec
-----------------------------------------------------------------------------
(***************************************************************************)
(* The push-button counter.  The register r_Count measures the run of raw  *)
(* samples that differ from the filtered switch, and nothing else; the     *)
(* rest follows.                                                           *)
(***************************************************************************)

\* While the raw switch agrees with the filter there is nothing to count;
\* while it does not, r_Count is the length of the disagreement.
CountIsRun ==
  /\ level = r_State => r_Count = 0
  /\ level # r_State => r_Count = run /\ run <= DEBOUNCE_LIMIT

CounterInv == CounterTypeOK /\ CountIsRun

-----------------------------------------------------------------------------
\* At power-up nothing is pressed and nothing is counted (Debounce_Switch.v:8-9).
LEMMA CounterInvInit == CounterInit => CounterInv
  BY SevenSegCounterAssumption
     DEF CounterInit, Filter!Init, Digit!Init, CounterInv, CounterTypeOK, Filter!TypeOK, Filter!Bit, CountIsRun

\* What one clock does to the filter and to the history of the raw switch.
LEMMA FilterStep ==
  ASSUME CounterInv, NEW SW1 \in {0, 1}, Filter!Clock(SW1), Watch(SW1)
  PROVE  /\ Filter!TypeOK' /\ CountIsRun'
         /\ level' \in {0, 1} /\ run' \in 0 .. DEBOUNCE_LIMIT + 1
         /\ r_State' = IF run' > DEBOUNCE_LIMIT THEN level' ELSE r_State
  <1> USE SevenSegCounterAssumption
      DEF CounterInv, CounterTypeOK, Filter!TypeOK, Filter!Bit, CountIsRun, Watch
  <1>1. CASE Filter!CountUp(SW1)
    <2>1. r_Count' = r_Count + 1 /\ r_State' = r_State
      BY <1>1 DEF Filter!CountUp
    <2>2. QED
      BY <1>1, <2>1 DEF Filter!CountUp
  <1>2. CASE Filter!Commit(SW1)
    BY <1>2 DEF Filter!Commit
  <1>3. CASE Filter!StartOver(SW1)
    BY <1>3 DEF Filter!StartOver
  <1>4. QED
    BY <1>1, <1>2, <1>3 DEF Filter!Clock

\* Every code of the table is a set of segments.
LEMMA EncodingType == \A n \in 0..15 : Digit!Encoding(n) \subseteq Digit!Segments
  BY DEF Digit!Encoding, Digit!Segments

\* A clock of the whole circuit takes CounterInv to CounterInv.
LEMMA CounterInvStep == CounterInv /\ [CounterNext]_counterVars => CounterInv'
  <1> SUFFICES ASSUME CounterInv, [CounterNext]_counterVars PROVE CounterInv'
    OBVIOUS
  <1>1. CASE CounterNext
    <2>1. PICK SW1 \in {0, 1} :
            Filter!Clock(SW1) /\ CountReleases /\ Display /\ Watch(SW1)
      BY <1>1 DEF CounterNext
    <2>2. /\ Filter!TypeOK' /\ CountIsRun'
          /\ level' \in {0, 1} /\ run' \in 0 .. DEBOUNCE_LIMIT + 1
      BY <2>1, FilterStep
    <2>3. r_SW1' \in {0, 1} /\ r_Count1' \in 0..9 /\ r_LED1' \in {0, 1}
      BY <2>1 DEF CountReleases, NextDigit, CounterInv, CounterTypeOK, Filter!TypeOK, Filter!Bit
    <2>4. hex_encoding' \subseteq Digit!Segments
      BY <2>1, EncodingType DEF Display, Digit!Clock, CounterInv, CounterTypeOK
    <2>5. QED
      BY <2>2, <2>3, <2>4 DEF CounterInv, CounterTypeOK
  <1>2. CASE UNCHANGED counterVars
    BY <1>2 DEF counterVars, digitVars, Filter!vars, CounterInv, CounterTypeOK, Filter!TypeOK, CountIsRun
  <1>3. QED
    BY <1>1, <1>2

\* The register measures the disagreement in every state.
THEOREM CounterInvariant == CounterSpec => []CounterInv
  BY CounterInvInit, CounterInvStep, PTL DEF CounterSpec

\* Every register keeps to its width, for every limit below the register's size.
THEOREM CounterTypeCorrect == CounterSpec => []CounterTypeOK
  <1>1. CounterInv => CounterTypeOK
    BY DEF CounterInv
  <1>2. QED
    BY <1>1, CounterInvariant, PTL

\* Releases are counted exactly (Debounce_Switch.v:11-19 with
\* Seven_Seg_Counter.v:33-42): the circuit implements ButtonCounter.
THEOREM CounterImplementsButton == CounterSpec => CountsReleases
  <1>1. CounterInit => Button!Init
    BY DEF CounterInit, Filter!Init, Button!Init, Released
  <1>2. CounterInv /\ [CounterNext]_counterVars => [Button!Next]_(Button!vars)
    <2> SUFFICES ASSUME CounterInv, [CounterNext]_counterVars
                 PROVE  Button!Next \/ UNCHANGED Button!vars
      OBVIOUS
    <2>1. CASE CounterNext
      <3>1. PICK SW1 \in {0, 1} :
              Filter!Clock(SW1) /\ CountReleases /\ Display /\ Watch(SW1)
        BY <2>1 DEF CounterNext
      <3>2. Button!Look(SW1)
        BY <3>1 DEF Watch, Button!Look
      <3>3. r_State' = IF run' > DEBOUNCE_LIMIT THEN level' ELSE r_State
        BY <3>1, FilterStep
      <3>4. (IF Released' THEN NextDigit' ELSE r_Count1') =
              IF r_State = 1 /\ r_State' = 0
              THEN ((IF Released THEN NextDigit ELSE r_Count1) + 1) % 10
              ELSE IF Released THEN NextDigit ELSE r_Count1
        <4>1. r_SW1' = r_State
          BY <3>1 DEF CountReleases
        <4>2. r_Count1' = IF Released THEN NextDigit ELSE r_Count1
          BY <3>1 DEF CountReleases
        <4>3. r_Count1' \in 0..9
          BY <4>2 DEF NextDigit, CounterInv, CounterTypeOK
        <4>4. NextDigit' = (r_Count1' + 1) % 10
          BY <4>3 DEF NextDigit
        <4>5. Released' <=> r_State = 1 /\ r_State' = 0
          BY <4>1 DEF Released
        <4>6. QED
          BY <4>2, <4>4, <4>5
      <3>5. QED
        BY <3>2, <3>3, <3>4 DEF Button!Next
    <2>2. CASE UNCHANGED counterVars
      BY <2>2 DEF counterVars, digitVars, Filter!vars, Button!vars, Released, NextDigit
    <2>3. QED
      BY <2>1, <2>2
  <1>3. QED
    BY <1>1, <1>2, CounterInvariant, PTL DEF CounterSpec, CountsReleases, Button!Safety

\* The parities of digit and LED move together (Seven_Seg_Counter.v:35-41).
THEOREM LedAgrees == CounterSpec => LedFollowsDigit
  <1>1. CounterInv /\ [CounterNext]_counterVars =>
          [(r_Count1' + r_LED1') % 2 = (r_Count1 + r_LED1) % 2]_counterVars
    <2> SUFFICES ASSUME CounterInv, CounterNext
                 PROVE  (r_Count1' + r_LED1') % 2 = (r_Count1 + r_LED1) % 2
      OBVIOUS
    <2>1. CountReleases /\ r_Count1 \in 0..9 /\ r_LED1 \in {0, 1}
      BY DEF CounterNext, CounterInv, CounterTypeOK
    <2>2. CASE Released
      BY <2>1, <2>2 DEF CountReleases, NextDigit
    <2>3. CASE ~Released
      BY <2>1, <2>3 DEF CountReleases
    <2>4. QED
      BY <2>2, <2>3
  <1>2. QED
    BY <1>1, CounterInvariant, PTL DEF CounterSpec, LedFollowsDigit
=============================================================================
