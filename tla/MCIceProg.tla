----------------------------- MODULE MCIceProg ------------------------------
(***************************************************************************)
(* IceProg on a chip of two chunks of two pages of two bytes, with a file  *)
(* shorter than a page and one that crosses a page and, from offset 3, a   *)
(* chunk.                                                                  *)
(***************************************************************************)
EXTENDS IceProg

MCFiles == {<<>>, <<1, 0, 0>>}
=============================================================================
