----------------------------- MODULE DetailPlace ----------------------------
(***************************************************************************)
(* detail_place_core: moves of cells to other bels, put together by        *)
(* threads that each own a rectangle of the grid, and the bindings of the  *)
(* ice40 architecture they are tried out on.  Every section under the lock *)
(* archapi_mutex is one step.                                              *)
(***************************************************************************)
EXTENDS NetBounds

CONSTANTS
  Bels,              \* <<x, y, z>>: every bel is where getBelLocation says
  Cells,             \* logic cells, so that every bel fits every cell
  Locked,            \* the cells bound stronger than STRENGTH_STRONG
  Compatible,        \* the sets of cells that may share a tile
  N,                 \* threads
  NoBel, NoCell

Threads == 1 .. N

ASSUME DetailPlaceAssumption ==
  /\ N \in Nat \ {0}
  /\ Bels \subseteq Nat \X Nat \X Nat /\ NoBel \notin Bels
  /\ IsFiniteSet(Cells) /\ NoCell \notin Cells /\ Locked \subseteq Cells
  /\ Compatible \subseteq SUBSET Cells
  /\ Pins \in [Nets -> Seq(Cells)]

VARIABLES
  bel,        \* of each cell
  bound,      \* bel_to_cell
  th,         \* the threads
  aborted     \* an NPNR_ASSERT has failed

TileOf(b) == <<b[1], b[2]>>
Tiles == {TileOf(b) : b \in Bels}

Inside(p, b) == \A i \in Axes : p.lo[i] <= b[i] /\ b[i] <= p.hi[i]

NetsOf(cells) == {n \in Nets : \E k \in DOMAIN Pins[n] : Pins[n][k] \in cells}

Boxes == [n \in Nets |-> Box(n, bel)]

-----------------------------------------------------------------------------
\* set_partition and setup_initial_state.
Ready(p, moves) ==
  [p |-> p, pc |-> "idle", left |-> moves,
   moved |-> <<>>,                               \* cell -> its old and new bel
   local |-> bel,                                \* local_cell2bel
   box |-> [n \in NetsOf(p.cells) |-> Boxes[n]], \* net_bounds
   next |-> [n \in NetsOf(p.cells) |-> Still(Boxes[n])],
   queue |-> <<>>, dest |-> <<>>, used |-> {},   \* of chain_swap
   tiles |-> <<>>, todo |-> {}, swap |-> <<>>]   \* of do_tile_swaps

\* add_to_move: what it may refuse, and what it records.
CanAdd(s, old, new) == Inside(s.p, old) /\ Inside(s.p, new)

Add(s, c, old, new) ==
  [s EXCEPT !.moved = [d \in DOMAIN @ \cup {c} |->
                         IF d = c THEN [old |-> old, new |-> new] ELSE @[d]],
            !.local[c] = new,
            !.next = [n \in DOMAIN @ |-> CellMoves(@[n], n, c, old, new)]]

\* add_to_move for every cell of a function, cell -> bel, to begin a move with.
AllMove(b, net, to) ==
  FoldSet(LAMBDA c, box : CellMoves(box, net, c, bel[c], to[c]), b, DOMAIN to)

AddAll(s, to) ==
  [s EXCEPT !.moved = [c \in DOMAIN to |-> [old |-> bel[c], new |-> to[c]]],
            !.local = [c \in Cells |-> IF c \in DOMAIN to THEN to[c] ELSE @[c]],
            !.next = [n \in DOMAIN @ |-> AllMove(@[n], n, to)]]

\* revert_move, its local part, and reset_move_state: the thread is ready for
\* its next move.
Reset(s) ==
  [s EXCEPT !.pc = IF s.tiles = <<>> THEN "idle" ELSE "tiles",
            !.local = [c \in Cells |-> IF c \in DOMAIN s.moved THEN s.moved[c].old ELSE @[c]],
            !.moved = <<>>,
            !.next = [n \in DOMAIN @ |-> Still(s.box[n])],
            !.queue = <<>>, !.dest = <<>>, !.used = {}, !.swap = <<>>]

\* compute_total_change.
Decide(s) ==
  [s EXCEPT !.pc = "decide", !.next = [n \in DOMAIN @ |-> Total(@[n], n, s.local)]]

\* accept_move turns the move down, whatever its cost.
Reject(t) ==
  /\ th[t].pc = "decide"
  /\ th' = [th EXCEPT ![t] = Reset(@)]
  /\ UNCHANGED <<bel, bound, aborted>>

\* unbindBel of a set of bels; bindBel of the cells of a function, cell -> bel.
Unbind(bels) ==
  [bel |-> [c \in Cells |-> IF \E b \in bels : bound[b] = c THEN NoBel ELSE bel[c]],
   bound |-> [b \in Bels |-> IF b \in bels THEN NoCell ELSE bound[b]]]

Bind(s, to) ==
  [bel |-> [c \in Cells |-> IF c \in DOMAIN to THEN to[c] ELSE s.bel[c]],
   bound |-> [b \in Bels |->
     IF \E c \in DOMAIN to : to[c] = b THEN CHOOSE c \in DOMAIN to : to[c] = b
     ELSE s.bound[b]]]

\* The targets are free and no two the same.
Free(s, to) ==
  \A c \in DOMAIN to : s.bound[to[c]] = NoCell /\ \A d \in DOMAIN to \ {c} : to[d] # to[c]

\* bind_move: all moved cells are unbound, then bound one by one until a target
\* is taken.
BindMove(t) ==
  LET m == th[t].moved
      old == {m[c].old : c \in DOMAIN m}
      s == Unbind(old)
      To(cells) == [c \in cells |-> m[c].new]
  IN  /\ th[t].pc = "decide"
      /\ aborted' = (aborted \/ \E b \in old : bound[b] = NoCell)
      /\ \E done \in SUBSET DOMAIN m :
           /\ Free(s, To(done))
           /\ done = DOMAIN m \/ \E c \in DOMAIN m \ done : ~Free(s, To(done \cup {c}))
           /\ bel' = Bind(s, To(done)).bel
           /\ bound' = Bind(s, To(done)).bound
           /\ th' = [th EXCEPT ![t].pc = IF done = DOMAIN m THEN "validate" ELSE "revert"]

\* isBelLocationValid: the cells of the tile are compatible.
Valid(b) == {bound[x] : x \in {y \in Bels : TileOf(y) = TileOf(b)}} \ {NoCell} \in Compatible

\* Fault: the move is not checked.
CheckNothing(t) ==
  /\ th[t].pc = "validate"
  /\ th' = [th EXCEPT ![t].pc = "commit"]
  /\ UNCHANGED <<bel, bound, aborted>>

\* check_validity: the tiles the cells have left and those they are in now.
CheckValidity(t) ==
  LET m == th[t].moved
  IN  /\ th[t].pc = "validate"
      /\ th' = [th EXCEPT ![t].pc =
           IF \A c \in DOMAIN m : Valid(m[c].old) /\ Valid(m[c].new)
           THEN "commit" ELSE "revert"]
      /\ UNCHANGED <<bel, bound, aborted>>

\* Fault: the old bels get their cells back, the new ones are not unbound.
RevertHalf(t) ==
  LET m == th[t].moved
      to == [c \in DOMAIN m |-> m[c].old]
  IN  /\ th[t].pc = "revert"
      /\ bel' = Bind([bel |-> bel, bound |-> bound], to).bel
      /\ bound' = Bind([bel |-> bel, bound |-> bound], to).bound
      /\ th' = [th EXCEPT ![t] = Reset(@)]
      /\ UNCHANGED aborted

\* revert_move once bind_move has been called: whatever the moved cells are
\* bound to now is unbound, and they are bound to their old bels.
RevertMove(t) ==
  LET m == th[t].moved
      s == Unbind({bel[c] : c \in DOMAIN m} \ {NoBel})
      to == [c \in DOMAIN m |-> m[c].old]
  IN  /\ th[t].pc = "revert"
      /\ aborted' = (aborted \/ ~Free(s, to))
      /\ bel' = Bind(s, to).bel
      /\ bound' = Bind(s, to).bound
      /\ th' = [th EXCEPT ![t] = Reset(@)]

\* Fault: tile2cell stays as it was.
SwapNothing(tiles, swap) == tiles

\* The two entries of tile2cell change places after a tile swap.
SwapTiles(tiles, swap) ==
  IF swap = <<>> THEN tiles
  ELSE [tiles EXCEPT ![swap[1]] = tiles[swap[2]], ![swap[2]] = tiles[swap[1]]]

\* commit_move and reset_move_state.
CommitMove(t) ==
  LET s == th[t]
      kept == [s EXCEPT
        !.box = [n \in DOMAIN @ |->
          IF \E i \in Axes : s.next[n].change[i] # "no" THEN s.next[n].box ELSE @[n]],
        !.moved = <<>>,
        !.tiles = SwapTiles(@, s.swap)]
  IN  /\ s.pc = "commit"
      /\ th' = [th EXCEPT ![t] = Reset(kept)]
      /\ UNCHANGED <<bel, bound, aborted>>
=============================================================================
