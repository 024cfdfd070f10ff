--------------------------- MODULE ParallelRefine ---------------------------
(***************************************************************************)
(* parallel_refine: the grid is cut into as many rectangles as there are   *)
(* threads, each thread tries out moves of the cells in its rectangle, the *)
(* threads are joined, and all begins again until the wires do not get any *)
(* shorter.  What a move costs is left out: any move may be accepted.      *)
(***************************************************************************)
EXTENDS DetailPlace

CONSTANTS
  Clusters, NoCluster,
  Cluster,           \* of each cell
  Root,              \* the root cell of each cluster
  Offset,            \* of each cell, from the root of its cluster
  UserBel,           \* of each locked cell
  Moves              \* bound: moves a thread tries in an iteration

ASSUME ParallelRefineAssumption ==
  /\ NoCluster \notin Clusters
  /\ Cluster \in [Cells -> Clusters \cup {NoCluster}]
  /\ Root \in [Clusters -> Cells] /\ \A k \in Clusters : Cluster[Root[k]] = k
  /\ Offset \in [Cells -> Int \X Int \X Int]
  /\ \A k \in Clusters : Offset[Root[k]] = <<0, 0, 0>>
  /\ \A c, d \in Cells :
       c # d /\ Cluster[c] # NoCluster /\ Cluster[c] = Cluster[d] => Offset[c] # Offset[d]
  \* A cell the user has placed is in no cluster.
  /\ \A c \in Locked : Cluster[c] = NoCluster
  /\ UserBel \in [Locked -> Bels]
  /\ Moves \in Nat

VARIABLES
  phase,        \* "partition", "iterate", "done"
  parts,        \* the rectangles and their cells, while they are cut
  axis,         \* the axis of the next cut
  min_wirelen

vars == <<bel, bound, th, aborted, phase, parts, axis, min_wirelen>>

Plus(b, o) == <<b[1] + o[1], b[2] + o[2], b[3] + o[3]>>
Minus(b, c) == <<b[1] - c[1], b[2] - c[2], b[3] - c[3]>>

Clustered(c) == Cluster[c] # NoCluster
Members(k) == {c \in Cells : Cluster[c] = k}

Goto(t, s) == th' = [th EXCEPT ![t] = s] /\ UNCHANGED <<bel, bound, aborted>>

-----------------------------------------------------------------------------
\* PlacePartition(ctx), and update_global_costs.
Whole ==
  [lo |-> [i \in Axes |-> Min({bel[c][i] : c \in Cells})],
   hi |-> [i \in Axes |-> Max({bel[c][i] : c \in Cells})],
   cells |-> Cells]

TotalWirelen == MapThenSumSet(LAMBDA n : Hpwl(Boxes[n]), Nets)

\* PlacePartition::split: a little less than half of the cells, in the order of
\* the coordinate, and all that share the last one's coordinate go to the left.
PivotPoints(n) == IF n = 0 THEN {0} ELSE (45 * n) \div 100 .. (n - 1) \div 2

PivotCoord(p, i, v) ==
  \E k \in PivotPoints(Cardinality(p.cells)) :
    LET upTo(x) == Cardinality({c \in p.cells : bel[c][i] <= x})
    IN  IF k = 0 THEN v = p.hi[i]
        ELSE upTo(v - 1) < k /\ k <= upTo(v)

Left(p, i, v) ==
  [p EXCEPT !.hi[i] = v, !.cells = {c \in @ : bel[c][i] <= v}]

\* Fault: the two halves share the column of the cut.
RightShared(p, i, v) ==
  [p EXCEPT !.lo[i] = v, !.cells = {c \in @ : bel[c][i] > v}]

Right(p, i, v) ==
  [p EXCEPT !.lo[i] = IF v = p.hi[i] THEN v ELSE v + 1,
            !.cells = {c \in @ : bel[c][i] > v}]

\* do_partition: all parts are cut in two until there is one for each thread.
Cut ==
  /\ phase = "partition" /\ Len(parts) < N
  /\ \E v \in [DOMAIN parts -> 0 .. Whole.hi[axis]] :
       /\ \A j \in DOMAIN parts : PivotCoord(parts[j], axis, v[j])
       /\ parts' = [j \in 1 .. 2 * Len(parts) |->
            LET k == (j + 1) \div 2
            IN  IF j % 2 = 1 THEN Left(parts[k], axis, v[k]) ELSE Right(parts[k], axis, v[k])]
  /\ axis' = 3 - axis
  /\ UNCHANGED <<bel, bound, th, aborted, phase, min_wirelen>>

\* Every thread takes its part and runs.
Start ==
  /\ phase = "partition" /\ Len(parts) = N
  /\ th' = [t \in Threads |-> Ready(parts[t], Moves)]
  /\ phase' = "iterate"
  /\ UNCHANGED <<bel, bound, aborted, parts, axis, min_wirelen>>

\* Fault: an iteration that changes nothing is followed by another.
JoinAgain ==
  /\ phase = "iterate" /\ \A t \in Threads : th[t].pc = "done"
  /\ IF TotalWirelen > min_wirelen
     THEN phase' = "done" /\ UNCHANGED <<parts, axis, min_wirelen>>
     ELSE /\ phase' = "partition" /\ parts' = <<Whole>> /\ axis' = 1
          /\ min_wirelen' = TotalWirelen
  /\ UNCHANGED <<bel, bound, th, aborted>>

\* The threads are joined; another iteration follows if the wires got shorter.
Join ==
  /\ phase = "iterate" /\ \A t \in Threads : th[t].pc = "done"
  /\ IF TotalWirelen >= min_wirelen
     THEN phase' = "done" /\ UNCHANGED <<parts, axis, min_wirelen>>
     ELSE /\ phase' = "partition" /\ parts' = <<Whole>> /\ axis' = 1
          /\ min_wirelen' = TotalWirelen
  /\ UNCHANGED <<bel, bound, th, aborted>>

\* The next move of the thread counts.
Idle(t) == th[t].pc = "idle" /\ th[t].left > 0
Tried(t) == [th[t] EXCEPT !.left = @ - 1]

\* single_cell_swap, up to the cost: the cell changes places with whatever is
\* there.
SingleCellSwap(t) ==
  /\ Idle(t)
  /\ \E c \in th[t].p.cells \ Locked, new \in {b \in Bels : Inside(th[t].p, b)} :
       LET old == bel[c]
           other == bound[new]
           s == Add(Tried(t), c, old, new)
       IN  /\ ~Clustered(c) /\ new # old
           /\ Goto(t, IF \/ other \in Locked
                         \/ other # NoCell /\ Clustered(other)
                         \/ ~CanAdd(s, old, new)
                      THEN Tried(t)
                      ELSE Decide(IF other = NoCell THEN s ELSE Add(s, other, new, old)))

\* chain_swap, its beginning: a cluster is to go where its root is at new.
ChainSwap(t) ==
  /\ Idle(t)
  /\ \E k \in Clusters, new \in {b \in Bels : Inside(th[t].p, b)} :
       /\ Root[k] \in th[t].p.cells
       /\ new # bel[Root[k]] /\ new[3] = bel[Root[k]][3]
       /\ Goto(t, [Tried(t) EXCEPT !.pc = "chain", !.queue = <<<<k, new>>>>])

\* The next cluster to be moved, if all its cells have a place; its cells are
\* taken one by one, the root first.
ChainCluster(t) ==
  LET s == th[t]
      k == Head(s.queue)[1]
      to == [c \in Members(k) |-> Plus(Head(s.queue)[2], Offset[c])]
  IN  /\ s.pc = "chain" /\ s.dest = <<>>
      /\ \/ s.queue = <<>> /\ Goto(t, Decide(s))
         \/ /\ s.queue # <<>>
            /\ \/ /\ \E c \in Members(k) : to[c] \notin Bels
                  /\ Goto(t, Reset(s))
               \/ /\ \A c \in Members(k) : to[c] \in Bels
                  /\ Goto(t, [s EXCEPT !.queue = Tail(@), !.dest = to])

\* A cell that is to move is still bound: its bel is not free for another.
Occupant(s, b) == bound[b]

\* One cell of the cluster: what is at its new bel is displaced, a single cell
\* to the old bel, a cluster as a whole by the same distance.
ChainCell(t) ==
  LET s == th[t]
      k == CHOOSE j \in Clusters : DOMAIN s.dest \subseteq Members(j)
  IN  /\ s.pc = "chain" /\ s.dest # <<>>
      /\ \E c \in DOMAIN s.dest :
           LET old == bel[c]
               new == s.dest[c]
               a == [Add(s, c, old, new) EXCEPT
                       !.used = @ \cup {new},
                       !.dest = [d \in DOMAIN @ \ {c} |-> @[d]]]
               other == Occupant(a, new)
               root == Plus(old, Minus(bel[Root[Cluster[other]]], bel[other]))
           IN  /\ Root[k] \in DOMAIN s.dest => c = Root[k]
               /\ IF c \in DOMAIN s.moved \/ ~CanAdd(s, old, new) THEN Goto(t, Reset(s))
                  ELSE IF \/ new \in s.used
                          \/ other # NoCell /\ (other \in DOMAIN a.moved \/ other \in Locked)
                  THEN Goto(t, Reset(a))
                  ELSE IF other = NoCell THEN Goto(t, a)
                  ELSE IF Clustered(other)
                  THEN Goto(t, IF root \notin Bels THEN Reset(a)
                               ELSE [a EXCEPT !.queue = Append(@, <<Cluster[other], root>>)])
                  ELSE Goto(t, IF old \in a.used \/ ~CanAdd(a, new, old) THEN Reset(a)
                               ELSE Add([a EXCEPT !.used = @ \cup {old}], other, bel[other], old))

\* do_tile_swaps: tile2cell is filled in; each tile in it is tried once.
TileSwaps(t) ==
  LET cells(x) == {c \in th[t].p.cells : TileOf(bel[c]) = x}
  IN  /\ Idle(t)
      /\ Goto(t, [Tried(t) EXCEPT !.pc = "tiles",
           !.tiles = [x \in Tiles |-> cells(x)],
           !.todo = {x \in Tiles : cells(x) # {}}])

\* do_tile_swap: the cells of two tiles change places, each at its own z.
TileSwap(t) ==
  LET s == th[t]
      fixed(x) == \E c \in s.tiles[x] :
        \/ c \in Locked
        \/ Clustered(c) /\ \E d \in Members(Cluster[c]) : TileOf(bel[d]) # x
      at(c, x) == <<x[1], x[2], bel[c][3]>>
  IN  /\ s.pc = "tiles"
      /\ \E x \in s.todo, y \in {z \in Tiles : Inside(s.p, z)} :
           LET cells == s.tiles[x] \cup s.tiles[y]
               to == [c \in cells |-> at(c, IF c \in s.tiles[x] THEN y ELSE x)]
               next == [s EXCEPT !.todo = @ \ {x}]
           IN  Goto(t, IF \/ x = y
                          \/ fixed(x) \/ fixed(y)
                          \/ \E c \in cells : to[c] \notin Bels
                          \/ \E c \in cells : ~CanAdd(s, bel[c], to[c])
                       THEN next
                       ELSE Decide([AddAll(next, to) EXCEPT !.swap = <<x, y>>]))

\* The end of do_tile_swaps, and of run_iter.
EndTileSwaps(t) ==
  /\ th[t].pc = "tiles" /\ th[t].todo = {}
  /\ Goto(t, [th[t] EXCEPT !.pc = "idle", !.tiles = <<>>])

EndIter(t) ==
  /\ th[t].pc = "idle"
  /\ Goto(t, [th[t] EXCEPT !.pc = "done"])

-----------------------------------------------------------------------------
Tries(t) ==
  \/ SingleCellSwap(t) \/ ChainSwap(t) \/ ChainCluster(t) \/ ChainCell(t)
  \/ TileSwaps(t) \/ TileSwap(t) \/ EndTileSwaps(t) \/ EndIter(t)

Settles(t) ==
  \/ Reject(t) \/ BindMove(t) \/ CheckValidity(t) \/ RevertMove(t) \/ CommitMove(t)

Thread(t) == (Tries(t) \/ Settles(t)) /\ UNCHANGED <<phase, parts, axis, min_wirelen>>

Stop == phase = "done" /\ UNCHANGED vars

\* The placement outside the moves that are being tried out.
Moving(t, c) == c \in DOMAIN th[t].moved
Placed == [c \in Cells |->
  IF \E t \in Threads : Moving(t, c)
  THEN th[CHOOSE t \in Threads : Moving(t, c)].moved[c].old ELSE bel[c]]

P == INSTANCE Placement WITH at <- Placed

\* placer_heap has placed every cell and checked every bel.
Init ==
  /\ bel \in [Cells -> Bels]
  /\ \A c, d \in Cells : c # d => bel[c] # bel[d]
  /\ th = [t \in Threads |-> [Ready([Whole EXCEPT !.cells = {}], 0) EXCEPT !.pc = "done"]]
  /\ P!Legal
  /\ \A c \in Locked : bel[c] = UserBel[c]
  /\ bound = [b \in Bels |-> IF \E c \in Cells : bel[c] = b THEN CHOOSE c \in Cells : bel[c] = b
                             ELSE NoCell]
  /\ aborted = FALSE
  /\ phase = "partition" /\ parts = <<Whole>> /\ axis = 1
  /\ min_wirelen = TotalWirelen

Next ==
  \/ Cut \/ Start \/ Join \/ Stop
  \/ \E t \in Threads : Thread(t)

\* All threads run, and are joined.
Spec == Init /\ [][Next]_vars /\ WF_vars(Cut \/ Start \/ Join)
             /\ \A t \in Threads : WF_vars(Thread(t))

-----------------------------------------------------------------------------
\* No NPNR_ASSERT fails: no thread unbinds a bel that is free or binds one that
\* is taken, whatever the others are trying out (arch.h:450-477).
NeverAborts == ~aborted

\* The two tables agree, also in the middle of every thread's moves: a cell is
\* in bel_to_cell where its own bel says, and nowhere else (arch.h:450-477).
TablesAgree ==
  /\ bel \in [Cells -> Bels \cup {NoBel}]
  /\ \A c \in Cells, b \in Bels : bound[b] = c <=> bel[c] = b

\* What a thread has read without holding the lock until it binds is still
\* so: the cells of its move are where they were, and each target is free or
\* held by a cell of the move.  bind_move cannot fail
\* (detail_place_core.cc:220-239, parallel_refine.cc:70-84, 120-134).
ReadsStayTrue ==
  \A t \in Threads : th[t].pc = "decide" =>
    \A c \in DOMAIN th[t].moved :
      /\ bel[c] = th[t].moved[c].old
      /\ bound[th[t].moved[c].new] \in DOMAIN th[t].moved \cup {NoCell}

\* The boxes that were kept up to date pin by pin are those that would have
\* been computed from the thread's own map, and in that map the cells of the
\* thread are where they really are (detail_place_core.cc:301-428).
BoxesAreExact ==
  \A t \in Threads : phase = "iterate" /\ th[t].moved = <<>> =>
    /\ \A n \in DOMAIN th[t].box : th[t].box[n] = Box(n, th[t].local)
    /\ \A c \in th[t].p.cells : th[t].local[c] = bel[c]

\* tile2cell follows the swaps: it lists for every tile the cells that are
\* there (parallel_refine.cc:301, 311-315).
TilesAreTrue ==
  \A t \in Threads : th[t].pc = "tiles" =>
    \A x \in Tiles : th[t].tiles[x] = {c \in th[t].p.cells : TileOf(bel[c]) = x}

\* "Displace the entire cluster" (parallel_refine.cc:142): while a cluster in
\* the way of another is moved, cell by cell, and its cells that are left have
\* bels to go to that are free or left by cells of this move, the move is not
\* given up.  The code always gives it up: a cell of the move that is to leave a
\* bel is still bound there, and counts as one that moves twice (lines 136-138).
Displacing(s) ==
  /\ s.pc = "chain"
  /\ \E c \in DOMAIN s.dest, d \in DOMAIN s.moved :
       Clustered(d) /\ Cluster[c] # Cluster[d]

HasRoom(s) ==
  \A c \in DOMAIN s.dest :
    /\ c \notin DOMAIN s.moved /\ CanAdd(s, bel[c], s.dest[c])
    /\ s.dest[c] \notin s.used
    /\ bound[s.dest[c]] \in DOMAIN s.moved \cup {NoCell}

ClusterIsDisplaced ==
  [][\A t \in Threads :
       Displacing(th[t]) /\ HasRoom(th[t]) => th'[t].moved # <<>>]_vars

\* The placement goes from one legal placement to another in steps that are
\* whole moves, whatever is bound on the way.
RefinesPlacement == P!PlacementSpec

\* The refinement ends.
RefinementEnds == <>(phase = "done")
=============================================================================
