----------------------------- MODULE RxSampling -----------------------------
(***************************************************************************)
(* What the receiver makes of an arbitrary line.  The history variable     *)
(* samples holds the values it was clocked with since it was last in IDLE; *)
(* it observes the line only, so that the places at which the code samples *)
(* can be compared with those a UART is meant to sample.                   *)
(***************************************************************************)
EXTENDS RxLine, Sequences

VARIABLE samples

samplingVars == <<lineVars, samples>>

SamplingInit == LineInit /\ samples = << >>

\* Clocks from the start bit's detection to the middle of the stop bit.
FrameLength == HalfBit + 2 + (LAST_BIT + 2) * CLKS_PER_BIT

\* The history is not kept beyond this length; a frame never gets there.
MaxSamples == FrameLength + 1

SamplingNext ==
  /\ LineNext
  /\ samples' = IF r_SM_Main = "IDLE" THEN <<line>>
                ELSE IF Len(samples) < MaxSamples THEN Append(samples, line)
                ELSE samples

SamplingSpec ==
  SamplingInit /\ [][SamplingNext]_samplingVars /\ WF_samplingVars(SamplingNext)

\* The sample in the middle of the bit at place p of a frame, 0 the start bit.
Middle(p) == samples[HalfBit + 2 + p * CLKS_PER_BIT]

\* A byte is announced only after a start bit that was still there in its
\* middle, at the middle of the stop bit, and each of its bits is the value
\* the line had in the middle of that bit's time (UART_RX.v:54-117).
SampledInTheMiddle ==
  r_RX_DV = 1 =>
    /\ samples[1] = 0 /\ Middle(0) = 0
    /\ Len(samples) = FrameLength
    /\ \A i \in 0..LAST_BIT : r_RX_Byte[i] = Middle(i + 1)
=============================================================================
