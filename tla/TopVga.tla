------------------------------- MODULE TopVga -------------------------------
(***************************************************************************)
(* The whole of VGA_UART/top_VGA.v: the echo and the two digits of         *)
(* UartEcho, and the picture of VgaUart painted by the byte that the       *)
(* receiver has, bit by bit, while it comes in.                            *)
(***************************************************************************)
EXTENDS UartEcho

CONSTANTS
  COLS, ROWS, VISIBLE_COLS, VISIBLE_ROWS, H_FRONT, H_BACK, V_FRONT, V_BACK,
  CODE_1, CODE_2, CODE_3  \* the bytes that name a colour: 8'h31, 8'h32, 8'h33

VARIABLES o_CountCol, o_CountRow, o_HSync_PG, o_VSync_PG, lit

Screen == INSTANCE VgaUart WITH hRun <- 0, vRun <- 0

topVars == <<vars, Screen!Beam!vars, o_HSync_PG, o_VSync_PG, lit>>

KeyOf(byte) ==
  LET code == Number(byte, 0, LAST_BIT)
  IN  CASE code = CODE_1 -> "1"
        [] code = CODE_2 -> "2"
        [] code = CODE_3 -> "3"
        [] OTHER -> "other"

TopInit == Init /\ Screen!Init

\* Fault: the pattern generator takes the byte of the transmitter's side.
PictureOfOldByte == Screen!Beam!Clock /\ Screen!Pattern(KeyOf(r_TX_Data))

Picture == Screen!Beam!Clock /\ Screen!Pattern(KeyOf(r_RX_Byte))

TopNext == Next /\ Picture

TopSpec == TopInit /\ [][TopNext]_topVars /\ WF_topVars(TopNext)

-----------------------------------------------------------------------------
\* A byte changes the colour bit by bit, so that a third colour may flash
\* between two (top_VGA.v:109-119: i_Byte is wired without o_RX_DV).  Outside
\* the pulses the screen has the colour of some number of bits of the new
\* byte over the old one, and of the new byte once it is announced.
ScreenShowsMix ==
  S1 # {} =>
    \E n \in 0 .. LAST_BIT + 1 :
      /\ lit = IF o_HSync_PG = 1 /\ o_VSync_PG = 1
               THEN Screen!Colour(KeyOf(Mix(n))) ELSE {}
      /\ r_RX_DV = 1 => n = LAST_BIT + 1

\* Whatever the terminal sends, frame follows frame: the row counter comes
\* round (Sync_Pulse.v:8-20).
FramesGoOn == []<>(o_VSync_PG = 0) /\ []<>(o_VSync_PG = 1)
=============================================================================
