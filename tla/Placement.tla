------------------------------ MODULE Placement -----------------------------
(***************************************************************************)
(* What a refinement of a placement promises: from a legal placement, one  *)
(* cell to a bel, to another, as a whole, and never a step in between.     *)
(***************************************************************************)
EXTENDS Integers

CONSTANTS Bels, Cells, Locked, Compatible, Clusters, Cluster, Root, Offset

VARIABLE at  \* the bel of each cell

Rigid(k) == \A c \in Cells : Cluster[c] = k =>
  \A i \in 1 .. 3 : at[c][i] = at[Root[k]][i] + Offset[c][i]

Sharing(b) == {c \in Cells : at[c][1] = b[1] /\ at[c][2] = b[2]}

\* No bel holds two cells, clusters keep their shape, and the cells of a tile
\* are compatible.
Legal ==
  /\ at \in [Cells -> Bels]
  /\ \A c, d \in Cells : c # d => at[c] # at[d]
  /\ \A k \in Clusters : Rigid(k)
  /\ \A b \in Bels : Sharing(b) \in Compatible

Refine == Legal' /\ \A c \in Locked : at'[c] = at[c]

PlacementSpec == Legal /\ [][Refine]_at
=============================================================================
