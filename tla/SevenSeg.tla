------------------------------ MODULE SevenSeg ------------------------------
(***************************************************************************)
(* The decoder of one digit, module Binary_To_Seven_Seg of                 *)
(* UART_RX/Binary_To_Seven_Seg.v and its four identical copies.  Clock(n)  *)
(* is one rising edge of CLK with n on binary_num.                         *)
(***************************************************************************)
EXTENDS Naturals

VARIABLE hex_encoding  \* the segments that are lit; empty until the first clock

Segments == {"A", "B", "C", "D", "E", "F", "G"}

\* The table: bit 6 of a code is A, bit 0 is G.
Encoding(n) ==
  CASE n = 0 -> Segments \ {"G"}
    [] n = 1 -> {"B", "C"}
    [] n = 2 -> Segments \ {"C", "F"}
    [] n = 3 -> Segments \ {"E", "F"}
    [] n = 4 -> {"B", "C", "F", "G"}
    [] n = 5 -> Segments \ {"B", "E"}
    [] n = 6 -> Segments \ {"B"}
    [] n = 7 -> {"A", "B", "C"}
    [] n = 8 -> Segments
    [] n = 9 -> Segments \ {"E"}
    [] n = 10 -> Segments \ {"D"}
    [] n = 11 -> Segments \ {"A", "B"}
    [] n = 12 -> {"A", "D", "E", "F"}
    [] n = 13 -> Segments \ {"A", "F"}
    [] n = 14 -> {"A", "D", "E", "F", "G"}
    [] n = 15 -> {"A", "E", "F", "G"}

Init == hex_encoding = {}

Clock(n) == hex_encoding' = Encoding(n)
=============================================================================
