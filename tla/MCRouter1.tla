----------------------------- MODULE MCRouter1 ------------------------------
(***************************************************************************)
(* A cell with two LUT inputs, l0 and l1.  Net A drives l0 and an output p *)
(* elsewhere, the carry net C its own wire c, which is also the carry      *)
(* input of the next cell, and l1.  Each of the local wires i0 and i1 can  *)
(* lead to either LUT input but to one only: its pips share a switch.  The *)
(* span m serves both nets.                                                *)
(***************************************************************************)
EXTENDS Router1

W == {"sA", "c", "m", "i0", "i1", "l0", "l1", "p"}
P == {<<"sA", "m">>, <<"sA", "i0">>, <<"c", "m">>, <<"c", "i1">>,
      <<"m", "i0">>, <<"m", "i1">>, <<"m", "p">>, <<"sA", "p">>,
      <<"i0", "l0">>, <<"i0", "l1">>, <<"i1", "l0">>, <<"i1", "l1">>}
From == [q \in P |-> q[1]]
To == [q \in P |-> q[2]]
\* One switch for the pips to m, i0, i1 and p; of the LUT inputs one for the
\* pips from i0 (LUT0) and one for those from i1 (LUT1).
Switch == [q \in P |->
  IF q[2] \in {"l0", "l1"} THEN IF q[1] = "i0" THEN "LUT0" ELSE "LUT1" ELSE q[2]]
SourceOf == [n \in {"A", "C"} |-> IF n = "A" THEN "sA" ELSE "c"]
NetOf == [a \in {"A0", "Ap", "Cc", "C1"} |-> IF a \in {"A0", "Ap"} THEN "A" ELSE "C"]
SinkOf == [a \in {"A0", "Ap", "Cc", "C1"} |->
  CASE a = "A0" -> "l0" [] a = "Ap" -> "p" [] a = "Cc" -> "c" [] a = "C1" -> "l1"]
=============================================================================
