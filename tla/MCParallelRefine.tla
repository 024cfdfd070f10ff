-------------------------- MODULE MCParallelRefine --------------------------
(***************************************************************************)
(* Three columns: two rows of tiles with one bel or two.  A cluster of two *)
(* cells side by side, which a cut may part, a cluster of one cell, two    *)
(* cells that may not share a tile, and one the user has placed.           *)
(***************************************************************************)
EXTENDS ParallelRefine

B == ((0 .. 2) \X {0, 1} \X {0}) \cup {<<2, 0, 1>>}
C == {"a0", "a1", "b", "f", "g", "l"}
ClusterOf == [c \in C |->
  IF c \in {"a0", "a1"} THEN "A" ELSE IF c = "b" THEN "B" ELSE "none"]
RootOf == [k \in {"A", "B"} |-> IF k = "A" THEN "a0" ELSE "b"]
OffsetOf == [c \in C |-> IF c = "a1" THEN <<1, 0, 0>> ELSE <<0, 0, 0>>]
Fit == {s \in SUBSET C : ~({"f", "g"} \subseteq s)}
Placed_l == [c \in {"l"} |-> <<0, 0, 0>>]
PinsOf == [n \in {"n"} |-> <<"f", "a1", "g", "g">>]
=============================================================================
