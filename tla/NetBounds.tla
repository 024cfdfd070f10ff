------------------------------ MODULE NetBounds -----------------------------
(***************************************************************************)
(* The bounding box of a net, from scratch and kept up to date while cells *)
(* move (detail_place_core).  A box has two axes, x and y, and each axis   *)
(* two edges: side 1 is the lower one; side -1 the upper one, whose        *)
(* positions are negated, so that less is further out on both.             *)
(***************************************************************************)
EXTENDS Integers, Sequences, FiniteSetsExt

CONSTANT Nets, Pins  \* of each net, the cells of its driver and of its users

Axes == {1, 2}
Sides == {1, -1}

\* NetBB::compute: each edge is where the outermost pins are, and how many.
Box(net, at) ==
  [i \in Axes |-> [d \in Sides |->
    LET pos(k) == d * at[Pins[net][k]][i]
        edge == Min({pos(k) : k \in DOMAIN Pins[net]})
    IN  [at |-> edge,
         n |-> Cardinality({k \in DOMAIN Pins[net] : pos(k) = edge})]]]

Hpwl(box) == -(box[1][1].at + box[1][-1].at + box[2][1].at + box[2][-1].at)

\* A box while a move is put together: for each axis "no", "moved" or "full"
\* (the last pin has left an edge: the box has to be computed again).
Still(box) == [box |-> box, change |-> [i \in Axes |-> "no"]]

\* Fault: the last pin that leaves an edge is counted like any other.
EdgeMoves(edge, old, new) ==
  CASE new < edge.at -> <<[at |-> new, n |-> 1], "moved">>
    [] new = edge.at /\ old > edge.at -> <<[edge EXCEPT !.n = @ + 1], "moved">>
    [] old = edge.at /\ new > edge.at -> <<[edge EXCEPT !.n = @ - 1], "moved">>
    [] OTHER -> <<edge, "no">>

\* A pin goes from old to new: the edge, and what has happened to it.
Edge(edge, old, new) ==
  CASE new < edge.at -> <<[at |-> new, n |-> 1], "moved">>
    [] new = edge.at /\ old > edge.at -> <<[edge EXCEPT !.n = @ + 1], "moved">>
    [] old = edge.at /\ new > edge.at /\ edge.n = 1 -> <<edge, "full">>
    [] old = edge.at /\ new > edge.at /\ edge.n # 1 -> <<[edge EXCEPT !.n = @ - 1], "moved">>
    [] OTHER -> <<edge, "no">>

\* compute_changes_for_cell, one pin of one net.
PinMoves(b, old, new) ==
  LET e == [i \in Axes |-> [d \in Sides |-> Edge(b.box[i][d], d * old[i], d * new[i])]]
  IN  [box |-> [i \in Axes |-> [d \in Sides |-> e[i][d][1]]],
       change |-> [i \in Axes |->
         LET seen == {b.change[i], e[i][1][2], e[i][-1][2]}
         IN  IF "full" \in seen THEN "full" ELSE IF "moved" \in seen THEN "moved" ELSE "no"]]

\* compute_changes_for_cell: once for every pin the cell has on the net.
CellMoves(b, net, c, old, new) ==
  LET B[k \in 0 .. Len(Pins[net])] ==
        IF k = 0 THEN b
        ELSE IF Pins[net][k] = c THEN PinMoves(B[k - 1], old, new) ELSE B[k - 1]
  IN  B[Len(Pins[net])]

\* compute_total_change: the new box of the net, with the cells at their new
\* places.
Total(b, net, at) ==
  IF \E i \in Axes : b.change[i] = "full" THEN [b EXCEPT !.box = Box(net, at)] ELSE b
=============================================================================
