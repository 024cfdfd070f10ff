------------------------------ MODULE MCRxLink ------------------------------
(***************************************************************************)
(* RxLink at the edge of its assumption: at 8 clocks a bit HalfBit is 3,   *)
(* so SKEW may be 3, and the next frame may begin 2 clocks before the      *)
(* nominal end of a stop bit.  Four data bits have a first, a middle and   *)
(* a last one.                                                             *)
(***************************************************************************)
EXTENDS RxLink

EarlyStart == -2
=============================================================================
