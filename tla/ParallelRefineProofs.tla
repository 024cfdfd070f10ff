------------------------ MODULE ParallelRefineProofs ------------------------
(***************************************************************************)
(* The parallel refinement keeps its tables and its placement true, for    *)
(* every number of threads, every netlist and every grid.                  *)
(***************************************************************************)
EXTENDS ParallelRefine, FiniteSetTheorems, FunctionTheorems, SequenceTheorems,
        WellFoundedInduction, TLAPS

-----------------------------------------------------------------------------
\* The phases between two moves, and those where a move is bound.
Settled == {"idle", "tiles", "done"}
Binding == {"validate", "commit", "revert"}

Fields == {"p", "pc", "left", "moved", "local", "box", "next", "queue", "dest", "used",
           "tiles", "todo", "swap"}
Shape(s) == s = [f \in Fields |-> s[f]]

\* The two tables are two views of one placement.
Tables(bl, bd) ==
  /\ bl \in [Cells -> Bels] /\ bd \in [Bels -> Cells \cup {NoCell}]
  /\ \A c \in Cells, b \in Bels : bd[b] = c <=> bl[c] = b

\* A part that has cells has exactly those that are in its rectangle.
Region(p, bl) ==
  /\ p = [lo |-> p.lo, hi |-> p.hi, cells |-> p.cells]
  /\ p.cells \subseteq Cells
  /\ p.cells # {} =>
       /\ p.lo \in [Axes -> Int] /\ p.hi \in [Axes -> Int]
       /\ \A c \in Cells : c \in p.cells <=> Inside(p, bl[c])

\* Two parts that have cells have no bel in common.
Apart(p, q) ==
  p.cells # {} /\ q.cells # {} => \A b \in Bels : ~(Inside(p, b) /\ Inside(q, b))

\* The cells of a move are the thread's own and not locked; they go from one
\* bel of its rectangle to another, no two to the same, and are at the new ones
\* once they are bound.
Recorded(s, bl) ==
  /\ DOMAIN s.moved \subseteq s.p.cells \ Locked
  /\ \A c \in DOMAIN s.moved :
       /\ s.moved[c].old \in Bels /\ Inside(s.p, s.moved[c].old)
       /\ s.moved[c].new \in Bels /\ Inside(s.p, s.moved[c].new)
       /\ bl[c] = IF s.pc \in Binding THEN s.moved[c].new ELSE s.moved[c].old
       /\ \A d \in DOMAIN s.moved : c # d => s.moved[c].new # s.moved[d].new

\* The thread's map has its own cells where they are, or will be.
LocalTrue(s, bl) ==
  /\ DOMAIN s.local = Cells
  /\ \A c \in s.p.cells :
       s.local[c] = IF c \in DOMAIN s.moved THEN s.moved[c].new ELSE bl[c]

\* Each target is free or held by a cell of the move.
Closed(s, bd) ==
  \A c \in DOMAIN s.moved : bd[s.moved[c].new] \in DOMAIN s.moved \cup {NoCell}

\* A cluster is moved as a whole and keeps its shape.
Carried(s, k) ==
  \A c \in Members(k) :
    c \in DOMAIN s.moved /\ s.moved[c].new = Plus(s.moved[Root[k]].new, Offset[c])

Together(s) == \A c \in DOMAIN s.moved : Clustered(c) => Carried(s, Cluster[c])

OneCluster(s) ==
  \A c, d \in DOMAIN s.moved : Clustered(c) /\ Clustered(d) => Cluster[c] = Cluster[d]

\* Where a cell was before the move.
Before(s, bl, c) == IF c \in DOMAIN s.moved THEN s.moved[c].old ELSE bl[c]

Listed(s, bl) ==
  /\ s.tiles \in [Tiles -> SUBSET Cells] /\ s.todo \subseteq Tiles
  /\ \A x \in Tiles : s.tiles[x] = {c \in s.p.cells : TileOf(Before(s, bl, c)) = x}

\* The move is a swap of two tiles.
Swapped(s) ==
  \E x, y \in Tiles :
    /\ x # y /\ s.swap = <<x, y>>
    /\ DOMAIN s.moved = s.tiles[x] \cup s.tiles[y]
    /\ \A c \in DOMAIN s.moved : TileOf(s.moved[c].new) = IF c \in s.tiles[x] THEN y ELSE x

\* The tile of b may hold what the table says.
Fits(b, bd) == {bd[x] : x \in {y \in Bels : TileOf(y) = TileOf(b)}} \ {NoCell} \in Compatible

\* A cluster that chain_swap has put in its queue, to go to root, will not get
\* there: one of its cells would have to go where a cell of the move is bound.
Doomed(s, bl, k, root) ==
  \E c \in Members(k), d \in DOMAIN s.moved : Plus(root, Offset[c]) = bl[d]

DoomedQueue(s, bl) ==
  \A i \in 1 .. Len(s.queue) : Doomed(s, bl, s.queue[i][1], s.queue[i][2])

DoomedDest(s, bl) ==
  \E c \in DOMAIN s.dest, d \in DOMAIN s.moved : s.dest[c] = bl[d]

\* The first cluster is on its way to root: some of its cells have been moved,
\* the others are still to be.
UnderWay(s, k, root) ==
  /\ DOMAIN s.dest \subseteq Members(k)
  /\ \A c \in DOMAIN s.moved : Clustered(c) => Cluster[c] = k
  /\ \A c \in Members(k) :
       IF c \in DOMAIN s.dest THEN s.dest[c] = Plus(root, Offset[c])
       ELSE c \in DOMAIN s.moved /\ s.moved[c].new = Plus(root, Offset[c])

FirstCluster(s, bd) ==
  /\ \E k \in Clusters, root \in Bels : UnderWay(s, k, root)
  /\ s.queue # <<>> \/ Closed(s, bd)

Chain(s, bl, bd) ==
  /\ s.p.cells # {}
  /\ s.queue \in Seq(Clusters \X Bels)
  /\ \A c \in DOMAIN s.dest : c \in Cells \ Locked /\ s.dest[c] \in Bels
  /\ s.used = {s.moved[c].new : c \in DOMAIN s.moved}
  /\ \/ s.moved = <<>> /\ s.dest = <<>> /\ Len(s.queue) = 1
     \/ DoomedQueue(s, bl) /\ (DoomedDest(s, bl) \/ FirstCluster(s, bd))

\* The move is complete: clusters go as a whole, and it is a swap of two tiles
\* or one of the other two, which move no two clusters.
Complete(s, bl) ==
  /\ Together(s)
  /\ \/ s.swap = <<>> /\ s.tiles = <<>> /\ OneCluster(s)
     \/ Listed(s, bl) /\ Swapped(s)

\* A thread in each of its phases.
Phase(s, bl, bd) ==
  /\ s.pc \in Settled \cup Binding \cup {"chain", "decide"}
  /\ s.pc \in Settled => s.moved = <<>> /\ s.queue = <<>> /\ s.dest = <<>> /\ s.used = {}
  /\ s.pc \in Settled \cup {"chain"} => s.swap = <<>>
  /\ s.pc \in {"idle", "done", "chain"} => s.tiles = <<>>
  /\ s.pc = "tiles" => Listed(s, bl)
  /\ s.pc = "chain" => Chain(s, bl, bd)
  /\ s.pc \in Binding \cup {"decide"} => Complete(s, bl)
  /\ s.pc = "decide" => Closed(s, bd)
  /\ s.pc = "commit" =>
       \A c \in DOMAIN s.moved : Fits(s.moved[c].old, bd) /\ Fits(s.moved[c].new, bd)

Good(s, bl, bd) ==
  Shape(s) /\ Region(s.p, bl) /\ Recorded(s, bl) /\ LocalTrue(s, bl) /\ Phase(s, bl, bd)

Team(h, bl, bd) ==
  /\ h = [t \in Threads |-> h[t]]
  /\ \A t \in Threads : Good(h[t], bl, bd)
  /\ \A t, u \in Threads : t # u => Apart(h[t].p, h[u].p)

\* The parts while they are cut.
Parts ==
  /\ Len(parts) \in Nat \ {0} /\ parts = [j \in 1 .. Len(parts) |-> parts[j]]
  /\ phase = "partition" =>
       /\ axis \in Axes
       /\ \A j \in 1 .. Len(parts) : Region(parts[j], bel)
       /\ \A j, k \in 1 .. Len(parts) : j # k => Apart(parts[j], parts[k])

IInv ==
  /\ Tables(bel, bound)
  /\ Team(th, bel, bound)
  /\ phase # "iterate" => \A t \in Threads : th[t].pc = "done"
  /\ Parts
  /\ P!Legal
  /\ ~aborted

-----------------------------------------------------------------------------
\* What each operation on a thread leaves in its fields.
LEMMA ResetIs ==
  ASSUME NEW s, Shape(s)
  PROVE  /\ Shape(Reset(s))
         /\ Reset(s).p = s.p
         /\ Reset(s).pc = IF s.tiles = <<>> THEN "idle" ELSE "tiles"
         /\ Reset(s).moved = <<>> /\ Reset(s).queue = <<>> /\ Reset(s).dest = <<>>
         /\ Reset(s).used = {} /\ Reset(s).swap = <<>>
         /\ Reset(s).tiles = s.tiles /\ Reset(s).todo = s.todo
         /\ Reset(s).local =
              [c \in Cells |-> IF c \in DOMAIN s.moved THEN s.moved[c].old ELSE s.local[c]]
  BY DEF Shape, Reset, Fields

LEMMA AddIs ==
  ASSUME NEW s, Shape(s), NEW c, NEW old, NEW new, NEW a, a = Add(s, c, old, new)
  PROVE  /\ Shape(a) /\ a.p = s.p /\ a.pc = s.pc
         /\ a.queue = s.queue /\ a.dest = s.dest /\ a.used = s.used
         /\ a.tiles = s.tiles /\ a.todo = s.todo /\ a.swap = s.swap
         /\ DOMAIN a.local = DOMAIN s.local
         /\ \A d \in DOMAIN s.local : a.local[d] = IF d = c THEN new ELSE s.local[d]
         /\ DOMAIN a.moved = DOMAIN s.moved \cup {c}
         /\ a.moved[c].old = old /\ a.moved[c].new = new
         /\ \A d \in DOMAIN s.moved : d # c => a.moved[d] = s.moved[d]
  <1>1. /\ Shape(a) /\ a.p = s.p /\ a.pc = s.pc
        /\ a.queue = s.queue /\ a.dest = s.dest /\ a.used = s.used
        /\ a.tiles = s.tiles /\ a.todo = s.todo /\ a.swap = s.swap
        /\ a.local = [s.local EXCEPT ![c] = new]
        /\ a.moved = [d \in DOMAIN s.moved \cup {c} |->
                        IF d = c THEN [old |-> old, new |-> new] ELSE s.moved[d]]
    BY DEF Shape, Add, Fields
  <1> QED BY <1>1

LEMMA AddAllIs ==
  ASSUME NEW s, Shape(s), NEW to, NEW a, a = AddAll(s, to)
  PROVE  /\ Shape(a) /\ a.p = s.p /\ a.pc = s.pc
         /\ a.queue = s.queue /\ a.dest = s.dest /\ a.used = s.used
         /\ a.tiles = s.tiles /\ a.todo = s.todo /\ a.swap = s.swap
         /\ DOMAIN a.local = Cells
         /\ \A c \in Cells : a.local[c] = IF c \in DOMAIN to THEN to[c] ELSE s.local[c]
         /\ DOMAIN a.moved = DOMAIN to
         /\ \A c \in DOMAIN to : a.moved[c].old = bel[c] /\ a.moved[c].new = to[c]
  <1>1. /\ Shape(a) /\ a.p = s.p /\ a.pc = s.pc
        /\ a.queue = s.queue /\ a.dest = s.dest /\ a.used = s.used
        /\ a.tiles = s.tiles /\ a.todo = s.todo /\ a.swap = s.swap
        /\ a.local = [c \in Cells |-> IF c \in DOMAIN to THEN to[c] ELSE s.local[c]]
        /\ a.moved = [c \in DOMAIN to |-> [old |-> bel[c], new |-> to[c]]]
    BY DEF Shape, AddAll, Fields
  <1> QED BY <1>1

LEMMA DecideIs ==
  ASSUME NEW s, Shape(s)
  PROVE  /\ Shape(Decide(s)) /\ Decide(s).pc = "decide"
         /\ Decide(s).p = s.p /\ Decide(s).moved = s.moved /\ Decide(s).local = s.local
         /\ Decide(s).queue = s.queue /\ Decide(s).dest = s.dest /\ Decide(s).used = s.used
         /\ Decide(s).tiles = s.tiles /\ Decide(s).todo = s.todo /\ Decide(s).swap = s.swap
  BY DEF Shape, Decide, Fields

LEMMA ReadyIs ==
  ASSUME NEW p, NEW n, NEW s, s = Ready(p, n)
  PROVE  /\ Shape(s) /\ s.pc = "idle" /\ s.p = p /\ s.moved = <<>> /\ s.local = bel
         /\ s.queue = <<>> /\ s.dest = <<>> /\ s.used = {} /\ s.tiles = <<>> /\ s.swap = <<>>
  BY DEF Shape, Ready, Fields

\* The tile of a bel.
LEMMA EmptyDomain == DOMAIN <<>> = {}
  OBVIOUS

LEMMA InTiles ==
  ASSUME NEW b \in Bels
  PROVE  TileOf(b) \in Tiles
  BY DEF Tiles

LEMMA Coordinates ==
  ASSUME NEW b \in Bels
  PROVE  b = <<b[1], b[2], b[3]>> /\ b[1] \in Nat /\ b[2] \in Nat /\ b[3] \in Nat
  BY DetailPlaceAssumption

\* A tile is inside a rectangle or outside of it.
LEMMA TileInside ==
  ASSUME NEW p, NEW a, NEW b, TileOf(a) = TileOf(b)
  PROVE  Inside(p, a) <=> Inside(p, b)
  <1>1. a[1] = b[1] /\ a[2] = b[2]
    BY DEF TileOf
  <1> QED BY <1>1 DEF Inside, Axes

-----------------------------------------------------------------------------
\* The move of a thread leaves the other threads as they are: it changes the
\* bels of its own cells, which stay in its rectangle, and what is bound there.
Only(p, bl, bd, bl2, bd2) ==
  /\ \A c \in Cells : bl2[c] # bl[c] => c \in p.cells /\ Inside(p, bl2[c])
  /\ \A b \in Bels : bd2[b] # bd[b] => p.cells # {} /\ Inside(p, b)

LEMMA OthersCells ==
  ASSUME NEW p, NEW q, NEW bl, NEW bd, NEW bl2, NEW bd2,
         Region(p, bl), Region(q, bl), Apart(p, q),
         bl \in [Cells -> Bels], bl2 \in [Cells -> Bels],
         Only(q, bl, bd, bl2, bd2), p.cells # {}
  PROVE  /\ \A c \in p.cells : c \notin q.cells /\ bl2[c] = bl[c]
         /\ \A c \in Cells \ p.cells : ~Inside(p, bl2[c])
         /\ \A b \in Bels : Inside(p, b) => bd2[b] = bd[b]
  <1>1. ASSUME NEW c \in p.cells PROVE c \notin q.cells
    BY <1>1 DEF Region, Apart
  <1>2. ASSUME NEW c \in p.cells PROVE bl2[c] = bl[c]
    BY <1>1, <1>2 DEF Region, Only
  <1>3. ASSUME NEW c \in Cells \ p.cells PROVE ~Inside(p, bl2[c])
    <2>1. CASE bl2[c] = bl[c]
      BY <2>1 DEF Region
    <2>2. CASE bl2[c] # bl[c]
      BY <2>2 DEF Only, Apart
    <2> QED BY <2>1, <2>2
  <1>4. ASSUME NEW b \in Bels, Inside(p, b) PROVE bd2[b] = bd[b]
    BY <1>4 DEF Only, Apart
  <1> QED BY <1>1, <1>2, <1>3, <1>4

LEMMA OthersStay ==
  ASSUME NEW s, NEW q, NEW bl, NEW bd, NEW bl2, NEW bd2,
         Region(q, bl), Apart(s.p, q),
         bl \in [Cells -> Bels], bl2 \in [Cells -> Bels],
         Only(q, bl, bd, bl2, bd2), Good(s, bl, bd)
  PROVE  Good(s, bl2, bd2)
  <1>1. CASE s.p.cells = {}
    <2>1. DOMAIN s.moved = {}
      BY <1>1 DEF Good, Recorded
    <2>2. Region(s.p, bl2) /\ Recorded(s, bl2) /\ LocalTrue(s, bl2)
      BY <1>1, <2>1 DEF Good, Region, Recorded, LocalTrue
    <2>3. s.pc # "chain"
      BY <1>1 DEF Good, Phase, Chain
    <2>4. Listed(s, bl) => Listed(s, bl2)
      BY <1>1 DEF Listed
    <2>5. Complete(s, bl) => Complete(s, bl2)
      BY <2>4 DEF Complete
    <2>6. Phase(s, bl2, bd2)
      BY <2>1, <2>3, <2>4, <2>5 DEF Good, Phase, Closed
    <2> QED BY <2>2, <2>6 DEF Good
  <1>2. CASE s.p.cells # {}
    <2>1. /\ \A c \in s.p.cells : bl2[c] = bl[c]
          /\ \A c \in Cells \ s.p.cells : ~Inside(s.p, bl2[c])
          /\ \A b \in Bels : Inside(s.p, b) => bd2[b] = bd[b]
      BY <1>2, OthersCells DEF Good
    <2>2. s.p.cells \subseteq Cells /\ DOMAIN s.moved \subseteq s.p.cells
      BY DEF Good, Region, Recorded
    <2>3. Region(s.p, bl2)
      BY <2>1, <2>2 DEF Good, Region
    <2>4. Recorded(s, bl2)
      BY <2>1, <2>2 DEF Good, Recorded
    <2>5. LocalTrue(s, bl2)
      BY <2>1 DEF Good, LocalTrue
    <2>6. Listed(s, bl) => Listed(s, bl2)
      BY <2>1 DEF Listed, Before
    <2>7. Closed(s, bd) => Closed(s, bd2)
      BY <2>1, <2>2 DEF Good, Recorded, Closed
    <2>8. Chain(s, bl, bd) => Chain(s, bl2, bd2)
      BY <2>1, <2>2, <2>7 DEF Chain, DoomedQueue, Doomed, DoomedDest, FirstCluster
    <2>9. Complete(s, bl) => Complete(s, bl2)
      BY <2>6 DEF Complete
    <2>10. ASSUME NEW b \in Bels, Inside(s.p, b), Fits(b, bd) PROVE Fits(b, bd2)
      <3>1. \A y \in Bels : TileOf(y) = TileOf(b) => bd2[y] = bd[y]
        BY <2>1, <2>10, TileInside
      <3> QED BY <2>10, <3>1 DEF Fits
    <2>11. \A c \in DOMAIN s.moved :
             Fits(s.moved[c].old, bd) /\ Fits(s.moved[c].new, bd) =>
             Fits(s.moved[c].old, bd2) /\ Fits(s.moved[c].new, bd2)
      BY <2>10 DEF Good, Recorded
    <2>12. Phase(s, bl2, bd2)
      BY <2>6, <2>7, <2>8, <2>9, <2>11 DEF Good, Phase
    <2> QED BY <2>3, <2>4, <2>5, <2>12 DEF Good
  <1> QED BY <1>1, <1>2

-----------------------------------------------------------------------------
\* Where a cell is outside the moves, from the threads and the table.
Where(h, bl, c) ==
  IF \E t \in Threads : c \in DOMAIN h[t].moved
  THEN h[CHOOSE t \in Threads : c \in DOMAIN h[t].moved].moved[c].old ELSE bl[c]

\* What P!Legal says, of any placement.
Lawful(pl) ==
  /\ pl \in [Cells -> Bels]
  /\ \A c, d \in Cells : c # d => pl[c] # pl[d]
  /\ \A k \in Clusters, c \in Cells : Cluster[c] = k =>
       \A i \in 1 .. 3 : pl[c][i] = pl[Root[k]][i] + Offset[c][i]
  /\ \A b \in Bels : {c \in Cells : pl[c][1] = b[1] /\ pl[c][2] = b[2]} \in Compatible

LEMMA LegalIsLawful == P!Legal <=> Lawful(Placed)
  BY DEF P!Legal, P!Rigid, P!Sharing, Lawful

LEMMA PlacedIsWhere == Placed = [c \in Cells |-> Where(th, bel, c)]
  BY DEF Placed, Where, Moving

\* No cell is moved by two threads.
LEMMA OneMover ==
  ASSUME NEW h, NEW bl, NEW bd, Tables(bl, bd), Team(h, bl, bd),
         NEW t \in Threads, NEW u \in Threads, NEW c,
         c \in h[t].p.cells, c \in h[u].p.cells
  PROVE  t = u
  <1>1. c \in Cells /\ Inside(h[t].p, bl[c]) /\ Inside(h[u].p, bl[c])
    BY DEF Team, Good, Region
  <1> QED BY <1>1 DEF Team, Apart, Tables

\* A cell of a thread is where it was before the thread's move.
LEMMA OwnPlace ==
  ASSUME NEW h, NEW bl, NEW bd, Tables(bl, bd), Team(h, bl, bd),
         NEW t \in Threads, NEW c \in h[t].p.cells
  PROVE  Where(h, bl, c) = Before(h[t], bl, c)
  <1>1. \A u \in Threads : c \in DOMAIN h[u].moved => u = t
    BY OneMover DEF Team, Good, Recorded
  <1>2. CASE c \in DOMAIN h[t].moved
    <2>1. (CHOOSE u \in Threads : c \in DOMAIN h[u].moved) = t
      BY <1>1, <1>2
    <2> QED BY <1>2, <2>1 DEF Where, Before
  <1>3. CASE c \notin DOMAIN h[t].moved
    BY <1>1, <1>3 DEF Where, Before
  <1> QED BY <1>2, <1>3

\* A cell that nobody moves is where its bel is.
LEMMA StillPlace ==
  ASSUME NEW h, NEW bl, NEW c, \A u \in Threads : c \notin DOMAIN h[u].moved
  PROVE  Where(h, bl, c) = bl[c]
  BY DEF Where

\* Any cell is inside its thread's rectangle, before the move too, and outside
\* of the others'.
LEMMA PlaceInside ==
  ASSUME NEW h, NEW bl, NEW bd, Tables(bl, bd), Team(h, bl, bd),
         NEW t \in Threads, h[t].p.cells # {}, NEW c \in Cells
  PROVE  /\ Where(h, bl, c) \in Bels
         /\ c \in h[t].p.cells <=> Inside(h[t].p, Where(h, bl, c))
  <1>1. CASE \A u \in Threads : c \notin DOMAIN h[u].moved
    <2>1. Where(h, bl, c) = bl[c] /\ bl[c] \in Bels
      BY <1>1, StillPlace DEF Tables
    <2>2. Region(h[t].p, bl)
      BY DEF Team, Good
    <2> QED BY <2>1, <2>2 DEF Region
  <1>2. CASE \E u \in Threads : c \in DOMAIN h[u].moved
    <2>1. PICK u \in Threads : c \in DOMAIN h[u].moved
      BY <1>2
    <2>2. c \in h[u].p.cells /\ Where(h, bl, c) = h[u].moved[c].old
      BY <2>1, OwnPlace DEF Team, Good, Recorded, Before
    <2>3. Where(h, bl, c) \in Bels /\ Inside(h[u].p, Where(h, bl, c))
      BY <2>1, <2>2 DEF Team, Good, Recorded
    <2>4. CASE u = t
      BY <2>2, <2>3, <2>4
    <2>5. CASE u # t
      <3>1. c \notin h[t].p.cells
        BY <2>2, <2>5, OneMover
      <3>2. ~Inside(h[t].p, Where(h, bl, c))
        BY <2>2, <2>3, <2>5 DEF Team, Apart
      <3> QED BY <2>3, <3>1, <3>2
    <2> QED BY <2>4, <2>5
  <1> QED BY <1>1, <1>2

\* While a thread only puts a move together, its cells are where they were.
LEMMA OwnBel ==
  ASSUME NEW h, NEW bl, NEW bd, Tables(bl, bd), Team(h, bl, bd),
         NEW t \in Threads, h[t].pc \notin Binding, NEW c \in h[t].p.cells
  PROVE  Where(h, bl, c) = bl[c]
  <1>1. Where(h, bl, c) = Before(h[t], bl, c)
    BY OwnPlace
  <1> QED BY <1>1 DEF Team, Good, Recorded, Before

\* So are the other cells of a cluster that it has a cell of.
LEMMA ClusterBel ==
  ASSUME NEW h, NEW bl, NEW bd, Tables(bl, bd), Team(h, bl, bd),
         NEW t \in Threads, h[t].pc \notin Binding,
         NEW c \in h[t].p.cells, Clustered(c), NEW d \in Members(Cluster[c])
  PROVE  Where(h, bl, d) = bl[d]
  <1>1. CASE \A u \in Threads : d \notin DOMAIN h[u].moved
    BY <1>1, StillPlace
  <1>2. ASSUME NEW u \in Threads, d \in DOMAIN h[u].moved, h[u].pc \in Binding
        PROVE FALSE
    <2>1. Clustered(d) /\ Cluster[d] = Cluster[c] /\ c \in Cells
      BY DEF Members, Clustered, Team, Good, Region
    <2>2. Carried(h[u], Cluster[c])
      BY <1>2, <2>1 DEF Team, Good, Phase, Complete, Together
    <2>3. c \in h[u].p.cells
      BY <2>1, <2>2 DEF Carried, Members, Team, Good, Recorded
    <2> QED BY <1>2, <2>3, OneMover
  <1>3. ASSUME NEW u \in Threads, d \in DOMAIN h[u].moved, h[u].pc \notin Binding
        PROVE Where(h, bl, d) = bl[d]
    BY <1>3, OwnBel DEF Team, Good, Recorded
  <1> QED BY <1>1, <1>2, <1>3

\* Such a cluster has its shape in the table, not only in the placement.
LEMMA ClusterShape ==
  ASSUME NEW h, NEW bl, NEW bd, NEW pl, Tables(bl, bd), Team(h, bl, bd),
         \A c \in Cells : pl[c] = Where(h, bl, c), Lawful(pl),
         NEW t \in Threads, h[t].pc \notin Binding,
         NEW c \in h[t].p.cells, Clustered(c), NEW d \in Members(Cluster[c])
  PROVE  \A i \in 1 .. 3 : bl[d][i] = bl[Root[Cluster[c]]][i] + Offset[d][i]
  <1> DEFINE k == Cluster[c]
  <1>1. c \in Cells /\ k \in Clusters
    BY ParallelRefineAssumption DEF Clustered, Team, Good, Region
  <1>2. Root[k] \in Members(k) /\ d \in Cells /\ Cluster[d] = k /\ Root[k] \in Cells
    BY <1>1, ParallelRefineAssumption DEF Members
  <1>3. pl[d] = bl[d] /\ pl[Root[k]] = bl[Root[k]]
    BY <1>2, ClusterBel
  <1> QED BY <1>1, <1>2, <1>3 DEF Lawful

-----------------------------------------------------------------------------
\* The move of one thread, t, from s to s2.
OneMoves(h, bl, bd, t, h2, bl2, bd2) ==
  /\ t \in Threads /\ h2 = [h EXCEPT ![t] = h2[t]]
  /\ h2[t].p = h[t].p
  /\ Good(h2[t], bl2, bd2)
  /\ Tables(bl2, bd2)
  /\ Only(h[t].p, bl, bd, bl2, bd2)

LEMMA TeamStep ==
  ASSUME NEW h, NEW bl, NEW bd, NEW t, NEW h2, NEW bl2, NEW bd2,
         Tables(bl, bd), Team(h, bl, bd), OneMoves(h, bl, bd, t, h2, bl2, bd2)
  PROVE  Team(h2, bl2, bd2)
  <1>1. h2 = [u \in Threads |-> h2[u]] /\ \A u \in Threads \ {t} : h2[u] = h[u]
    BY DEF OneMoves, Team
  <1>2. \A u \in Threads : h2[u].p = h[u].p
    BY <1>1 DEF OneMoves
  <1>3. ASSUME NEW u \in Threads, u # t PROVE Good(h2[u], bl2, bd2)
    <2>1. Region(h[t].p, bl) /\ Apart(h[u].p, h[t].p) /\ Good(h[u], bl, bd)
      BY <1>3 DEF Team, Good, OneMoves
    <2> QED BY <1>1, <1>3, <2>1, OthersStay DEF OneMoves, Tables
  <1>4. \A u \in Threads : Good(h2[u], bl2, bd2)
    BY <1>3 DEF OneMoves
  <1>5. \A u, v \in Threads : u # v => Apart(h2[u].p, h2[v].p)
    BY <1>2 DEF Team
  <1> QED BY <1>1, <1>4, <1>5 DEF Team

\* Where the cells are after it: the others' are where they were.
LEMMA PlaceStep ==
  ASSUME NEW h, NEW bl, NEW bd, NEW t, NEW h2, NEW bl2, NEW bd2,
         Tables(bl, bd), Team(h, bl, bd), OneMoves(h, bl, bd, t, h2, bl2, bd2),
         NEW c \in Cells
  PROVE  Where(h2, bl2, c) = IF c \in h[t].p.cells THEN Before(h2[t], bl2, c)
                             ELSE Where(h, bl, c)
  <1>1. Team(h2, bl2, bd2) /\ Tables(bl2, bd2) /\ t \in Threads
    BY TeamStep DEF OneMoves
  <1>2. \A u \in Threads \ {t} : h2[u] = h[u]
    BY DEF OneMoves, Team
  <1>3. CASE c \in h[t].p.cells
    BY <1>1, <1>3, OwnPlace DEF OneMoves
  <1>4. CASE c \notin h[t].p.cells
    <2>1. c \notin DOMAIN h[t].moved /\ c \notin DOMAIN h2[t].moved /\ bl2[c] = bl[c]
      BY <1>1, <1>4 DEF Team, Good, Recorded, OneMoves, Only
    <2>2. CASE \A u \in Threads : c \notin DOMAIN h[u].moved
      <3>1. \A u \in Threads : c \notin DOMAIN h2[u].moved
        BY <1>2, <2>1, <2>2
      <3> QED BY <1>4, <2>1, <2>2, <3>1, StillPlace
    <2>3. ASSUME NEW u \in Threads, c \in DOMAIN h[u].moved
          PROVE Where(h2, bl2, c) = Where(h, bl, c)
      <3>1. u # t /\ h2[u] = h[u] /\ c \in h[u].p.cells
        BY <1>2, <2>1, <2>3 DEF Team, Good, Recorded
      <3>2. Where(h2, bl2, c) = Before(h2[u], bl2, c)
        BY <1>1, <3>1, OwnPlace
      <3>3. Where(h, bl, c) = Before(h[u], bl, c)
        BY <3>1, OwnPlace
      <3> QED BY <2>1, <3>1, <3>2, <3>3 DEF Before
    <2> QED BY <1>4, <2>2, <2>3
  <1> QED BY <1>3, <1>4

-----------------------------------------------------------------------------
\* A thread's state without its phase.
Sound(s, bl) == Shape(s) /\ Region(s.p, bl) /\ Recorded(s, bl) /\ LocalTrue(s, bl)

LEMMA SoundSame ==
  ASSUME NEW s, NEW s2, NEW bl, Sound(s, bl), Shape(s2),
         s2.p = s.p, s2.moved = s.moved, s2.local = s.local,
         s2.pc \in Binding <=> s.pc \in Binding
  PROVE  Sound(s2, bl)
  <1>1. Region(s2.p, bl) /\ LocalTrue(s2, bl)
    BY DEF Sound, LocalTrue
  <1>2. Recorded(s2, bl)
    BY DEF Sound, Recorded
  <1> QED BY <1>1, <1>2 DEF Sound

\* add_to_move.
LEMMA SoundAdd ==
  ASSUME NEW s, NEW bl, bl \in [Cells -> Bels], Sound(s, bl), s.pc \notin Binding,
         NEW c \in s.p.cells \ Locked, c \notin DOMAIN s.moved,
         NEW new \in Bels, Inside(s.p, new),
         \A d \in DOMAIN s.moved : s.moved[d].new # new,
         NEW a, a = Add(s, c, bl[c], new)
  PROVE  Sound(a, bl)
  <1>1. /\ Shape(a) /\ a.p = s.p /\ a.pc = s.pc
        /\ DOMAIN a.local = DOMAIN s.local
        /\ \A d \in DOMAIN s.local : a.local[d] = IF d = c THEN new ELSE s.local[d]
        /\ DOMAIN a.moved = DOMAIN s.moved \cup {c}
        /\ a.moved[c].old = bl[c] /\ a.moved[c].new = new
        /\ \A d \in DOMAIN s.moved : a.moved[d] = s.moved[d]
    <2>1. Shape(s)
      BY DEF Sound
    <2> QED BY <2>1, AddIs
  <1>2. c \in Cells /\ bl[c] \in Bels /\ Inside(s.p, bl[c])
    BY DEF Sound, Region
  <1>3. Recorded(a, bl)
    <2>1. DOMAIN a.moved \subseteq a.p.cells \ Locked
      BY <1>1 DEF Sound, Recorded
    <2>2. ASSUME NEW d \in DOMAIN a.moved
          PROVE  /\ a.moved[d].old \in Bels /\ Inside(a.p, a.moved[d].old)
                 /\ a.moved[d].new \in Bels /\ Inside(a.p, a.moved[d].new)
                 /\ bl[d] = a.moved[d].old
      BY <1>1, <1>2 DEF Sound, Recorded
    <2>3. ASSUME NEW d \in DOMAIN a.moved, NEW e \in DOMAIN a.moved, d # e
          PROVE  a.moved[d].new # a.moved[e].new
      BY <1>1, <2>3 DEF Sound, Recorded
    <2> QED BY <1>1, <2>1, <2>2, <2>3 DEF Recorded
  <1>4. LocalTrue(a, bl)
    BY <1>1 DEF Sound, LocalTrue, Region
  <1> QED BY <1>1, <1>3, <1>4 DEF Sound

\* compute_total_change, at the end of a complete move.
LEMMA GoodDecide ==
  ASSUME NEW s, NEW bl, NEW bd, Sound(s, bl), s.pc \notin Binding,
         Complete(s, bl), Closed(s, bd)
  PROVE  Good(Decide(s), bl, bd)
  <1> DEFINE a == Decide(s)
  <1>1. /\ Shape(a) /\ a.pc = "decide" /\ a.p = s.p /\ a.moved = s.moved /\ a.local = s.local
        /\ a.queue = s.queue /\ a.dest = s.dest /\ a.used = s.used
        /\ a.tiles = s.tiles /\ a.todo = s.todo /\ a.swap = s.swap
    BY DecideIs DEF Sound
  <1> HIDE DEF a
  <1>2. Sound(a, bl)
    BY <1>1, SoundSame DEF Binding
  <1>3. Together(s) => Together(a)
    BY <1>1 DEF Together, Carried
  <1>4. OneCluster(s) => OneCluster(a)
    BY <1>1 DEF OneCluster
  <1>5. Listed(s, bl) => Listed(a, bl)
    BY <1>1 DEF Listed, Before
  <1>6. Swapped(s) => Swapped(a)
    BY <1>1 DEF Swapped
  <1>7. Closed(a, bd)
    BY <1>1 DEF Closed
  <1>8. Complete(a, bl)
    BY <1>1, <1>3, <1>4, <1>5, <1>6 DEF Complete
  <1>9. Phase(a, bl, bd)
    BY <1>1, <1>7, <1>8 DEF Phase, Settled, Binding
  <1> QED BY <1>2, <1>9 DEF Sound, Good, a

\* tile2cell when no move is under way.
ListedNow(s, bl) ==
  /\ s.tiles \in [Tiles -> SUBSET Cells] /\ s.todo \subseteq Tiles
  /\ \A x \in Tiles : s.tiles[x] = {c \in s.p.cells : TileOf(bl[c]) = x}

LEMMA ListedAgain ==
  ASSUME NEW s, NEW bl, Recorded(s, bl), s.pc \notin Binding
  PROVE  Listed(s, bl) <=> ListedNow(s, bl)
  <1>1. \A c \in s.p.cells : Before(s, bl, c) = bl[c]
    BY DEF Recorded, Before
  <1>2. \A x \in Tiles : {c \in s.p.cells : TileOf(Before(s, bl, c)) = x} =
                         {c \in s.p.cells : TileOf(bl[c]) = x}
    BY <1>1
  <1> QED BY <1>2 DEF Listed, ListedNow

\* revert_move and reset_move_state, from anywhere in a move.
LEMMA GoodReset ==
  ASSUME NEW s, NEW bl, NEW bd, Shape(s), Region(s.p, bl), DOMAIN s.local = Cells,
         \A c \in s.p.cells :
           IF c \in DOMAIN s.moved THEN s.moved[c].old = bl[c] ELSE s.local[c] = bl[c],
         s.tiles = <<>> \/ ListedNow(s, bl)
  PROVE  Good(Reset(s), bl, bd)
  <1> DEFINE a == Reset(s)
  <1>1. /\ Shape(a) /\ a.p = s.p
        /\ a.pc = IF s.tiles = <<>> THEN "idle" ELSE "tiles"
        /\ a.moved = <<>> /\ a.queue = <<>> /\ a.dest = <<>> /\ a.used = {} /\ a.swap = <<>>
        /\ a.tiles = s.tiles /\ a.todo = s.todo
        /\ a.local = [c \in Cells |-> IF c \in DOMAIN s.moved THEN s.moved[c].old
                                      ELSE s.local[c]]
    BY ResetIs
  <1> HIDE DEF a
  <1>2. DOMAIN a.moved = {}
    BY <1>1, EmptyDomain
  <1>3. Recorded(a, bl)
    BY <1>2 DEF Recorded
  <1>4. LocalTrue(a, bl)
    BY <1>1, <1>2 DEF LocalTrue, Region
  <1>5. a.pc = "tiles" => Listed(a, bl)
    <2>1. a.pc = "tiles" => ListedNow(a, bl)
      BY <1>1 DEF ListedNow
    <2> QED BY <1>3, <2>1, ListedAgain DEF Binding
  <1>6. Phase(a, bl, bd)
    BY <1>1, <1>5 DEF Phase, Settled, Binding
  <1> QED BY <1>1, <1>3, <1>4, <1>6 DEF Good, a

\* What a thread that is putting a move together can reset to.
LEMMA SoundReset ==
  ASSUME NEW s, NEW bl, NEW bd, Sound(s, bl), s.pc \notin Binding,
         s.tiles = <<>> \/ Listed(s, bl)
  PROVE  Good(Reset(s), bl, bd)
  <1>1. /\ DOMAIN s.local = Cells
        /\ \A c \in s.p.cells :
             IF c \in DOMAIN s.moved THEN s.moved[c].old = bl[c] ELSE s.local[c] = bl[c]
    BY DEF Sound, LocalTrue, Recorded
  <1>2. s.tiles = <<>> \/ ListedNow(s, bl)
    BY ListedAgain DEF Sound
  <1> QED BY <1>1, <1>2, GoodReset DEF Sound

\* Between two moves.
LEMMA GoodSettled ==
  ASSUME NEW s, NEW bl, NEW bd, Shape(s), Region(s.p, bl),
         s.pc \in Settled, s.moved = <<>>, s.queue = <<>>, s.dest = <<>>, s.used = {},
         s.swap = <<>>, DOMAIN s.local = Cells, \A c \in s.p.cells : s.local[c] = bl[c],
         IF s.pc = "tiles" THEN ListedNow(s, bl) ELSE s.tiles = <<>>
  PROVE  Good(s, bl, bd)
  <1>1. DOMAIN s.moved = {}
    BY EmptyDomain
  <1>2. Recorded(s, bl) /\ LocalTrue(s, bl)
    BY <1>1 DEF Recorded, LocalTrue
  <1>3. s.pc = "tiles" => Listed(s, bl)
    BY <1>2, ListedAgain DEF Binding
  <1>4. Phase(s, bl, bd)
    BY <1>3 DEF Phase, Settled, Binding
  <1> QED BY <1>2, <1>4 DEF Good

-----------------------------------------------------------------------------
\* The steps of a thread that leave the placement where it is.
Now == Tables(bel, bound) /\ Team(th, bel, bound) /\ P!Legal

Steps(t) == OneMoves(th, bel, bound, t, th', bel', bound')

Kept(t) == Steps(t) /\ Placed' = Placed /\ (~aborted => ~aborted')

LEMMA PlacedStays ==
  ASSUME Now, NEW t \in Threads, Steps(t),
         \A c \in th[t].p.cells : Before(th'[t], bel', c) = Before(th[t], bel, c)
  PROVE  Placed' = Placed
  <1>1. ASSUME NEW c \in Cells PROVE Where(th', bel', c) = Where(th, bel, c)
    <2>1. Where(th', bel', c) = IF c \in th[t].p.cells THEN Before(th'[t], bel', c)
                                ELSE Where(th, bel, c)
      BY PlaceStep DEF Now, Steps
    <2>2. c \in th[t].p.cells => Where(th, bel, c) = Before(th[t], bel, c)
      BY OwnPlace DEF Now
    <2> QED BY <2>1, <2>2
  <1>2. Placed' = [c \in Cells |-> Where(th', bel', c)]
    BY DEF Placed, Where, Moving
  <1>3. Placed = [c \in Cells |-> Where(th, bel, c)]
    BY PlacedIsWhere
  <1> QED BY <1>1, <1>2, <1>3

LEMMA NowIs ==
  ASSUME Now, NEW t \in Threads
  PROVE  /\ Good(th[t], bel, bound) /\ Sound(th[t], bel)
         /\ bel \in [Cells -> Bels] /\ th[t].p.cells \subseteq Cells
         /\ DOMAIN th = Threads
  BY DEF Now, Team, Tables, Good, Sound, Region

LEMMA ShapeNow ==
  ASSUME Now, NEW t \in Threads, th[t].pc \notin Binding,
         NEW c \in th[t].p.cells, Clustered(c), NEW d \in Members(Cluster[c])
  PROVE  \A i \in 1 .. 3 : bel[d][i] = bel[Root[Cluster[c]]][i] + Offset[d][i]
  <1>1. (\A x \in Cells : Placed[x] = Where(th, bel, x)) /\ Lawful(Placed)
    BY PlacedIsWhere, LegalIsLawful DEF Now
  <1> HIDE DEF Placed
  <1>2. Tables(bel, bound) /\ Team(th, bel, bound)
    BY DEF Now
  <1> QED BY <1>1, <1>2, ClusterShape

LEMMA GotoSteps ==
  ASSUME Now, NEW t \in Threads, NEW s2, Goto(t, s2), Good(s2, bel, bound), s2.p = th[t].p
  PROVE  Steps(t) /\ th'[t] = s2 /\ bel' = bel /\ bound' = bound /\ aborted' = aborted
  <1>1. /\ th' = [th EXCEPT ![t] = s2] /\ th'[t] = s2
        /\ bel' = bel /\ bound' = bound /\ aborted' = aborted
    BY NowIs DEF Goto
  <1>2. Only(th[t].p, bel, bound, bel', bound')
    BY <1>1 DEF Only
  <1> QED BY <1>1, <1>2 DEF Steps, OneMoves, Now

LEMMA GotoKept ==
  ASSUME Now, NEW t \in Threads, th[t].pc \notin Binding,
         NEW s2, Goto(t, s2), Good(s2, bel, bound), s2.p = th[t].p, s2.pc \notin Binding
  PROVE  Kept(t)
  <1>1. Steps(t) /\ th'[t] = s2 /\ bel' = bel /\ aborted' = aborted
    BY GotoSteps
  <1>2. \A c \in th[t].p.cells : Before(th[t], bel, c) = bel[c]
    BY NowIs DEF Good, Recorded, Before
  <1>3. \A c \in th[t].p.cells : Before(s2, bel, c) = bel[c]
    BY DEF Good, Recorded, Before
  <1> QED BY <1>1, <1>2, <1>3, PlacedStays DEF Kept

LEMMA GotoReset ==
  ASSUME Now, NEW t \in Threads, th[t].pc \notin Binding,
         NEW s2, Goto(t, Reset(s2)), Good(Reset(s2), bel, bound),
         Shape(s2), s2.p = th[t].p
  PROVE  Kept(t)
  <1>1. Reset(s2).p = th[t].p /\ Reset(s2).pc \notin Binding
    BY ResetIs DEF Binding
  <1> QED BY <1>1, GotoKept

-----------------------------------------------------------------------------
\* The beginning and the end of an iteration and of a move.
LEMMA TriedIs ==
  ASSUME Now, NEW t \in Threads, Idle(t), NEW s, s = Tried(t)
  PROVE  /\ Good(s, bel, bound) /\ Sound(s, bel)
         /\ th[t].pc = "idle" /\ s.pc = "idle" /\ s.p = th[t].p
         /\ s.moved = <<>> /\ DOMAIN s.moved = {} /\ s.queue = <<>> /\ s.dest = <<>>
         /\ s.used = {} /\ s.tiles = <<>> /\ s.swap = <<>>
         /\ th[t].local = s.local /\ DOMAIN s.local = Cells
         /\ \A c \in s.p.cells : s.local[c] = bel[c]
  <1>1. Good(th[t], bel, bound) /\ Sound(th[t], bel) /\ th[t].pc = "idle"
    BY NowIs DEF Idle
  <1>2. /\ th[t].moved = <<>> /\ th[t].queue = <<>> /\ th[t].dest = <<>>
        /\ th[t].used = {} /\ th[t].tiles = <<>> /\ th[t].swap = <<>>
    BY <1>1 DEF Good, Phase, Settled
  <1>3. /\ Shape(s) /\ s.p = th[t].p /\ s.pc = th[t].pc /\ s.moved = th[t].moved
        /\ s.local = th[t].local /\ s.queue = th[t].queue /\ s.dest = th[t].dest
        /\ s.used = th[t].used /\ s.tiles = th[t].tiles /\ s.swap = th[t].swap
    BY <1>1 DEF Sound, Shape, Fields, Tried
  <1>4. Sound(s, bel) /\ DOMAIN s.moved = {}
    BY <1>1, <1>2, <1>3, SoundSame, EmptyDomain
  <1>5. DOMAIN s.local = Cells /\ \A c \in s.p.cells : s.local[c] = bel[c]
    BY <1>4 DEF Sound, LocalTrue
  <1>6. Good(s, bel, bound)
    BY <1>1, <1>2, <1>3, <1>4, <1>5, GoodSettled DEF Sound, Settled
  <1> QED BY <1>1, <1>2, <1>3, <1>4, <1>5, <1>6

LEMMA EndIterKept ==
  ASSUME Now, NEW t \in Threads, EndIter(t)
  PROVE  Kept(t)
  <1> DEFINE s == th[t]
             s2 == [s EXCEPT !.pc = "done"]
  <1>1. Good(s, bel, bound) /\ Sound(s, bel) /\ s.pc = "idle" /\ Goto(t, s2)
    BY NowIs DEF EndIter
  <1>2. /\ s.moved = <<>> /\ s.queue = <<>> /\ s.dest = <<>>
        /\ s.used = {} /\ s.tiles = <<>> /\ s.swap = <<>>
    BY <1>1 DEF Good, Phase, Settled
  <1>3. DOMAIN s.local = Cells /\ \A c \in s.p.cells : s.local[c] = bel[c]
    BY <1>1, <1>2, EmptyDomain DEF Sound, LocalTrue
  <1>4. /\ Shape(s2) /\ s2.p = s.p /\ s2.pc = "done" /\ s2.moved = s.moved
        /\ s2.local = s.local /\ s2.queue = s.queue /\ s2.dest = s.dest
        /\ s2.used = s.used /\ s2.tiles = s.tiles /\ s2.swap = s.swap
    BY <1>1 DEF Sound, Shape, Fields
  <1> HIDE DEF s2
  <1>5. Good(s2, bel, bound)
    BY <1>1, <1>2, <1>3, <1>4, GoodSettled DEF Sound, Settled
  <1> QED BY <1>1, <1>4, <1>5, GotoKept DEF Binding

LEMMA EndTileSwapsKept ==
  ASSUME Now, NEW t \in Threads, EndTileSwaps(t)
  PROVE  Kept(t)
  <1> DEFINE s == th[t]
             s2 == [s EXCEPT !.pc = "idle", !.tiles = <<>>]
  <1>1. Good(s, bel, bound) /\ Sound(s, bel) /\ s.pc = "tiles" /\ Goto(t, s2)
    BY NowIs DEF EndTileSwaps
  <1>2. s.moved = <<>> /\ s.queue = <<>> /\ s.dest = <<>> /\ s.used = {} /\ s.swap = <<>>
    BY <1>1 DEF Good, Phase, Settled
  <1>3. DOMAIN s.local = Cells /\ \A c \in s.p.cells : s.local[c] = bel[c]
    BY <1>1, <1>2, EmptyDomain DEF Sound, LocalTrue
  <1>4. /\ Shape(s2) /\ s2.p = s.p /\ s2.pc = "idle" /\ s2.moved = s.moved
        /\ s2.local = s.local /\ s2.queue = s.queue /\ s2.dest = s.dest
        /\ s2.used = s.used /\ s2.tiles = <<>> /\ s2.swap = s.swap
    BY <1>1 DEF Sound, Shape, Fields
  <1> HIDE DEF s2
  <1>5. Good(s2, bel, bound)
    BY <1>1, <1>2, <1>3, <1>4, GoodSettled DEF Sound, Settled
  <1> QED BY <1>1, <1>4, <1>5, GotoKept DEF Binding

LEMMA RejectKept ==
  ASSUME Now, NEW t \in Threads, Reject(t)
  PROVE  Kept(t)
  <1>1. /\ Good(th[t], bel, bound) /\ Sound(th[t], bel) /\ th[t].pc = "decide"
        /\ Goto(t, Reset(th[t])) /\ th[t].pc \notin Binding /\ Shape(th[t])
    BY NowIs DEF Reject, Goto, Binding, Sound
  <1>2. th[t].tiles = <<>> \/ Listed(th[t], bel)
    BY <1>1 DEF Good, Phase, Complete
  <1>3. Good(Reset(th[t]), bel, bound)
    BY <1>1, <1>2, SoundReset
  <1> QED BY <1>1, <1>3, GotoReset

LEMMA TileSwapsKept ==
  ASSUME Now, NEW t \in Threads, TileSwaps(t)
  PROVE  Kept(t)
  <1> DEFINE cells(x) == {c \in th[t].p.cells : TileOf(bel[c]) = x}
             s == Tried(t)
             s2 == [s EXCEPT !.pc = "tiles", !.tiles = [x \in Tiles |-> cells(x)],
                             !.todo = {x \in Tiles : cells(x) # {}}]
  <1>1. Idle(t) /\ Goto(t, s2)
    BY DEF TileSwaps
  <1> HIDE DEF s
  <1>2. /\ Good(s, bel, bound) /\ Sound(s, bel) /\ s.p = th[t].p /\ th[t].pc = "idle"
        /\ s.moved = <<>> /\ s.queue = <<>> /\ s.dest = <<>>
        /\ s.used = {} /\ s.swap = <<>>
        /\ DOMAIN s.local = Cells /\ \A c \in s.p.cells : s.local[c] = bel[c]
    BY <1>1, TriedIs DEF s
  <1>3. /\ Shape(s2) /\ s2.p = s.p /\ s2.pc = "tiles" /\ s2.moved = s.moved
        /\ s2.local = s.local /\ s2.queue = s.queue /\ s2.dest = s.dest
        /\ s2.used = s.used /\ s2.swap = s.swap
        /\ s2.tiles = [x \in Tiles |-> cells(x)]
        /\ s2.todo = {x \in Tiles : cells(x) # {}}
    BY <1>2 DEF Sound, Shape, Fields
  <1>4. \A x : cells(x) \in SUBSET Cells
    BY NowIs
  <1>5. ListedNow(s2, bel)
    BY <1>2, <1>3, <1>4 DEF ListedNow
  <1> HIDE DEF s2
  <1>6. Good(s2, bel, bound)
    BY <1>2, <1>3, <1>5, GoodSettled DEF Sound, Settled
  <1> QED BY <1>1, <1>2, <1>3, <1>6, GotoKept DEF Binding

-----------------------------------------------------------------------------
\* single_cell_swap.
LEMMA SingleCellSwapKept ==
  ASSUME Now, NEW t \in Threads, SingleCellSwap(t)
  PROVE  Kept(t)
  <1> DEFINE s == Tried(t)
  <1>1. PICK c \in th[t].p.cells \ Locked, new \in {b \in Bels : Inside(th[t].p, b)} :
          LET old == bel[c]
              other == bound[new]
              a == Add(s, c, old, new)
          IN  /\ ~Clustered(c) /\ new # old
              /\ Goto(t, IF \/ other \in Locked
                            \/ other # NoCell /\ Clustered(other)
                            \/ ~CanAdd(a, old, new)
                         THEN s
                         ELSE Decide(IF other = NoCell THEN a ELSE Add(a, other, new, old)))
    BY DEF SingleCellSwap
  <1> DEFINE old == bel[c]
             other == bound[new]
             a == Add(s, c, old, new)
             e == Add(a, other, new, old)
  <1>2. Idle(t)
    BY DEF SingleCellSwap
  <1> HIDE DEF s
  <1>3. /\ Good(s, bel, bound) /\ Sound(s, bel) /\ th[t].pc = "idle" /\ s.pc = "idle"
        /\ s.p = th[t].p /\ DOMAIN s.moved = {} /\ s.tiles = <<>> /\ s.swap = <<>>
    BY <1>2, TriedIs DEF s
  <1> HIDE DEF a
  <1>4. CASE other \in Locked \/ (other # NoCell /\ Clustered(other)) \/ ~CanAdd(a, old, new)
    <2>1. Goto(t, s)
      BY <1>1, <1>4 DEF a
    <2> QED BY <1>3, <2>1, GotoKept DEF Binding
  <1>5. CASE /\ other \notin Locked /\ ~(other # NoCell /\ Clustered(other))
             /\ CanAdd(a, old, new)
    <2>1. Goto(t, Decide(IF other = NoCell THEN a ELSE e)) /\ ~Clustered(c) /\ new # old
      BY <1>1, <1>5 DEF a
    <2>2. bel \in [Cells -> Bels] /\ bound \in [Bels -> Cells \cup {NoCell}]
          /\ \A x \in Cells, b \in Bels : bound[b] = x <=> bel[x] = b
      BY DEF Now, Tables
    <2>3. c \in Cells /\ old \in Bels /\ bound[old] = c /\ Inside(s.p, old) /\ other # c
      BY <1>3, <2>1, <2>2 DEF Sound, Region
    <2>4. /\ Sound(a, bel) /\ a.p = s.p /\ a.pc = "idle" /\ DOMAIN a.moved = {c}
          /\ a.moved[c].old = old /\ a.moved[c].new = new
          /\ a.tiles = <<>> /\ a.swap = <<>>
      <3>1. Sound(a, bel)
        BY <1>3, <2>2, SoundAdd DEF a, Binding
      <3>2. Shape(s)
        BY <1>3 DEF Sound
      <3> QED BY <1>3, <3>1, <3>2, AddIs DEF a
    <2>5. CASE other = NoCell
      <3>1. Closed(a, bound)
        BY <2>4, <2>5 DEF Closed
      <3>2. Complete(a, bel)
        BY <2>1, <2>4 DEF Complete, Together, OneCluster
      <3>3. Good(Decide(a), bel, bound)
        BY <2>4, <3>1, <3>2, GoodDecide DEF Binding
      <3>4. Goto(t, Decide(a)) /\ Decide(a).p = th[t].p /\ Decide(a).pc = "decide"
        BY <1>3, <2>1, <2>4, <2>5, DecideIs DEF Sound
      <3> QED BY <1>3, <3>3, <3>4, GotoKept DEF Binding
    <2>6. CASE other # NoCell
      <3>1. other \in Cells /\ bel[other] = new /\ other \in s.p.cells \ Locked
        BY <1>3, <1>5, <2>2, <2>6 DEF Sound, Region
      <3> HIDE DEF e
      <3>2. /\ Sound(e, bel) /\ e.p = s.p /\ e.pc = "idle" /\ DOMAIN e.moved = {c, other}
            /\ e.moved[c].old = old /\ e.moved[c].new = new
            /\ e.moved[other].old = new /\ e.moved[other].new = old
            /\ e.tiles = <<>> /\ e.swap = <<>>
        <4>1. Sound(e, bel)
          BY <2>1, <2>2, <2>3, <2>4, <3>1, SoundAdd DEF e, Binding
        <4>2. Shape(a)
          BY <2>4 DEF Sound
        <4> QED BY <2>3, <2>4, <4>1, <4>2, AddIs DEF e
      <3>3. Closed(e, bound)
        BY <2>3, <3>2 DEF Closed
      <3>4. Complete(e, bel)
        BY <1>5, <2>1, <2>6, <3>2 DEF Complete, Together, OneCluster
      <3>5. Good(Decide(e), bel, bound)
        BY <3>2, <3>3, <3>4, GoodDecide DEF Binding
      <3>6. Goto(t, Decide(e)) /\ Decide(e).p = th[t].p /\ Decide(e).pc = "decide"
        BY <1>3, <2>1, <2>6, <3>2, DecideIs DEF Sound
      <3> QED BY <1>3, <3>5, <3>6, GotoKept DEF Binding
    <2> QED BY <2>5, <2>6
  <1> QED BY <1>4, <1>5

-----------------------------------------------------------------------------
\* chain_swap.
LEMMA ChainSwapKept ==
  ASSUME Now, NEW t \in Threads, ChainSwap(t)
  PROVE  Kept(t)
  <1> DEFINE s == Tried(t)
  <1>1. PICK k \in Clusters, new \in {b \in Bels : Inside(th[t].p, b)} :
          /\ Root[k] \in th[t].p.cells
          /\ Goto(t, [s EXCEPT !.pc = "chain", !.queue = <<<<k, new>>>>])
    BY DEF ChainSwap
  <1> DEFINE s2 == [s EXCEPT !.pc = "chain", !.queue = <<<<k, new>>>>]
  <1>2. Idle(t)
    BY DEF ChainSwap
  <1> HIDE DEF s
  <1>3. /\ Good(s, bel, bound) /\ Sound(s, bel) /\ th[t].pc = "idle" /\ s.pc = "idle"
        /\ s.p = th[t].p /\ s.moved = <<>> /\ DOMAIN s.moved = {} /\ s.dest = <<>>
        /\ s.used = {} /\ s.tiles = <<>> /\ s.swap = <<>>
    BY <1>2, TriedIs DEF s
  <1>4. /\ Shape(s2) /\ s2.p = s.p /\ s2.pc = "chain" /\ s2.moved = s.moved
        /\ s2.local = s.local /\ s2.queue = <<<<k, new>>>> /\ s2.dest = s.dest
        /\ s2.used = s.used /\ s2.swap = s.swap /\ s2.tiles = s.tiles
    BY <1>3 DEF Sound, Shape, Fields
  <1> HIDE DEF s2
  <1>5. Sound(s2, bel)
    BY <1>3, <1>4, SoundSame DEF Binding
  <1>6. s2.queue \in Seq(Clusters \X Bels) /\ Len(s2.queue) = 1
    BY <1>4
  <1>7. Chain(s2, bel, bound)
    BY <1>1, <1>3, <1>4, <1>6, EmptyDomain DEF Chain
  <1>8. Good(s2, bel, bound)
    BY <1>3, <1>4, <1>5, <1>7 DEF Good, Sound, Phase, Settled, Binding
  <1>9. Goto(t, s2)
    BY <1>1 DEF s2
  <1> QED BY <1>3, <1>4, <1>8, <1>9, GotoKept DEF Binding

LEMMA PlusZero ==
  ASSUME NEW b \in Bels, NEW o
  PROVE  Plus(Plus(b, <<0, 0, 0>>), o) = Plus(b, o)
  BY Coordinates DEF Plus

\* The members of a cluster are cells, and its root one of them.
LEMMA ClusterFacts ==
  ASSUME NEW k \in Clusters
  PROVE  /\ Root[k] \in Members(k) /\ Members(k) \subseteq Cells \ Locked
         /\ k # NoCluster /\ \A c \in Members(k) : Cluster[c] = k /\ Clustered(c)
         /\ Offset[Root[k]] = <<0, 0, 0>>
  BY ParallelRefineAssumption, DetailPlaceAssumption DEF Members, Clustered

\* The queue is empty and the first cluster has been moved: the move is complete.
LEMMA ChainComplete ==
  ASSUME NEW s, NEW bl, NEW bd, Sound(s, bl), Chain(s, bl, bd),
         s.queue = <<>>, DOMAIN s.dest = {}, s.swap = <<>>, s.tiles = <<>>
  PROVE  Complete(s, bl) /\ Closed(s, bd)
  <1>1. FirstCluster(s, bd) /\ ~DoomedDest(s, bl)
    BY DEF Chain, DoomedDest
  <1>2. PICK k \in Clusters, root \in Bels : UnderWay(s, k, root)
    BY <1>1 DEF FirstCluster
  <1>3. \A c \in Members(k) :
          c \in DOMAIN s.moved /\ s.moved[c].new = Plus(root, Offset[c])
    BY <1>2 DEF UnderWay
  <1>4. s.moved[Root[k]].new = Plus(root, <<0, 0, 0>>)
    BY <1>3, ClusterFacts
  <1>5. Carried(s, k)
    BY <1>3, <1>4, PlusZero DEF Carried
  <1>6. Together(s) /\ OneCluster(s)
    BY <1>2, <1>5 DEF UnderWay, Together, OneCluster
  <1>7. Closed(s, bd)
    BY <1>1 DEF FirstCluster
  <1> QED BY <1>6, <1>7 DEF Complete

LEMMA ChainIs ==
  ASSUME Now, NEW t \in Threads, th[t].pc = "chain"
  PROVE  /\ Good(th[t], bel, bound) /\ Sound(th[t], bel) /\ Chain(th[t], bel, bound)
         /\ th[t].swap = <<>> /\ th[t].tiles = <<>> /\ th[t].pc \notin Binding
  BY NowIs DEF Good, Phase, Binding

\* The next cluster of the queue.
LEMMA ChainNext ==
  ASSUME NEW s, NEW bl, NEW bd, NEW s2, NEW to, NEW k, NEW root,
         Chain(s, bl, bd), s.queue # <<>>, DOMAIN s.dest = {},
         k = Head(s.queue)[1], root = Head(s.queue)[2],
         DOMAIN to = Members(k), \A c \in Members(k) : to[c] = Plus(root, Offset[c]),
         \A c \in Members(k) : to[c] \in Bels,
         s2.p = s.p, s2.moved = s.moved, s2.used = s.used,
         s2.queue = Tail(s.queue), s2.dest = to
  PROVE  Chain(s2, bl, bd)
  <1>1. /\ s.queue \in Seq(Clusters \X Bels) /\ Head(s.queue) = s.queue[1]
        /\ s2.queue \in Seq(Clusters \X Bels) /\ Len(s2.queue) = Len(s.queue) - 1
        /\ \A i \in 1 .. Len(s2.queue) : s2.queue[i] = s.queue[i + 1]
        /\ Len(s.queue) \in Nat /\ Len(s.queue) >= 1
    BY HeadTailProperties, EmptySeq DEF Chain
  <1>2. k \in Clusters /\ root \in Bels
    BY <1>1
  <1>3. \A c \in DOMAIN s2.dest : c \in Cells \ Locked /\ s2.dest[c] \in Bels
    BY <1>2, ClusterFacts
  <1>4. CASE s.moved = <<>> /\ Len(s.queue) = 1
    <2>1. DOMAIN s2.moved = {} /\ Len(s2.queue) = 0
      BY <1>1, <1>4, EmptyDomain
    <2>2. DoomedQueue(s2, bl) /\ Closed(s2, bd)
      BY <2>1 DEF DoomedQueue, Closed
    <2>3. UnderWay(s2, k, root)
      BY <2>1 DEF UnderWay
    <2>4. FirstCluster(s2, bd)
      BY <1>2, <2>2, <2>3 DEF FirstCluster
    <2> QED BY <1>1, <1>3, <2>2, <2>4 DEF Chain
  <1>5. CASE DoomedQueue(s, bl)
    <2>1. Doomed(s, bl, k, root)
      BY <1>1, <1>5 DEF DoomedQueue
    <2>2. DoomedDest(s2, bl)
      BY <2>1 DEF Doomed, DoomedDest
    <2>3. DoomedQueue(s2, bl)
      <3> SUFFICES ASSUME NEW i \in 1 .. Len(s2.queue)
                   PROVE Doomed(s2, bl, s2.queue[i][1], s2.queue[i][2])
        BY DEF DoomedQueue
      <3>1. i + 1 \in 1 .. Len(s.queue) /\ s2.queue[i] = s.queue[i + 1]
        BY <1>1
      <3>2. Doomed(s, bl, s.queue[i + 1][1], s.queue[i + 1][2])
        BY <1>5, <3>1 DEF DoomedQueue
      <3> QED BY <3>1, <3>2 DEF Doomed
    <2> QED BY <1>1, <1>3, <2>2, <2>3 DEF Chain
  <1> QED BY <1>4, <1>5 DEF Chain

LEMMA ChainClusterKept ==
  ASSUME Now, NEW t \in Threads, ChainCluster(t)
  PROVE  Kept(t)
  <1> DEFINE s == th[t]
             k == Head(s.queue)[1]
             root == Head(s.queue)[2]
             to == [c \in Members(k) |-> Plus(root, Offset[c])]
             s2 == [s EXCEPT !.queue = Tail(@), !.dest = to]
  <1>1. /\ Good(s, bel, bound) /\ Sound(s, bel) /\ Chain(s, bel, bound)
        /\ s.swap = <<>> /\ s.tiles = <<>> /\ s.pc \notin Binding
        /\ s.pc = "chain" /\ s.dest = <<>> /\ DOMAIN s.dest = {}
    BY ChainIs, EmptyDomain DEF ChainCluster
  <1>2. CASE s.queue = <<>> /\ Goto(t, Decide(s))
    <2>1. Good(Decide(s), bel, bound)
      BY <1>1, <1>2, ChainComplete, GoodDecide
    <2>2. Decide(s).p = s.p /\ Decide(s).pc \notin Binding
      BY <1>1, DecideIs DEF Sound, Binding
    <2> QED BY <1>1, <1>2, <2>1, <2>2, GotoKept
  <1>3. CASE Goto(t, Reset(s))
    <2>1. Good(Reset(s), bel, bound)
      BY <1>1, SoundReset
    <2> QED BY <1>1, <1>3, <2>1, GotoReset DEF Sound
  <1>4. CASE /\ s.queue # <<>> /\ \A c \in Members(k) : to[c] \in Bels
             /\ Goto(t, s2)
    <2>1. /\ Shape(s2) /\ s2.p = s.p /\ s2.pc = s.pc /\ s2.moved = s.moved
          /\ s2.local = s.local /\ s2.queue = Tail(s.queue) /\ s2.dest = to
          /\ s2.used = s.used /\ s2.swap = s.swap /\ s2.tiles = s.tiles
      BY <1>1 DEF Sound, Shape, Fields
    <2> HIDE DEF s2
    <2>2. Sound(s2, bel)
      BY <1>1, <2>1, SoundSame
    <2>3. DOMAIN to = Members(k) /\ \A c \in Members(k) : to[c] = Plus(root, Offset[c])
      OBVIOUS
    <2> HIDE DEF to
    <2>4. Chain(s2, bel, bound)
      BY <1>1, <1>4, <2>1, <2>3, ChainNext
    <2>5. Good(s2, bel, bound)
      BY <1>1, <2>1, <2>2, <2>4 DEF Good, Sound, Phase, Settled, Binding
    <2> QED BY <1>1, <1>4, <2>1, <2>5, GotoKept
  <1> QED BY <1>2, <1>3, <1>4 DEF ChainCluster

\* One cell of the cluster, c, is to go to its new bel.
Taken(s, c, bl) ==
  [Add(s, c, bl[c], s.dest[c]) EXCEPT
     !.used = @ \cup {s.dest[c]}, !.dest = [d \in DOMAIN @ \ {c} |-> @[d]]]

LEMMA TakenIs ==
  ASSUME NEW s, Shape(s), NEW c, NEW bl, NEW a, a = Taken(s, c, bl)
  PROVE  /\ Shape(a) /\ a.p = s.p /\ a.pc = s.pc
         /\ a.queue = s.queue /\ a.tiles = s.tiles /\ a.swap = s.swap
         /\ a.used = s.used \cup {s.dest[c]}
         /\ DOMAIN a.dest = DOMAIN s.dest \ {c}
         /\ \A d \in DOMAIN a.dest : a.dest[d] = s.dest[d]
         /\ a.moved = Add(s, c, bl[c], s.dest[c]).moved
         /\ a.local = Add(s, c, bl[c], s.dest[c]).local
         /\ DOMAIN a.local = DOMAIN s.local
         /\ \A d \in DOMAIN s.local : d # c => a.local[d] = s.local[d]
         /\ DOMAIN a.moved = DOMAIN s.moved \cup {c}
         /\ a.moved[c].old = bl[c] /\ a.moved[c].new = s.dest[c]
         /\ \A d \in DOMAIN s.moved : d # c => a.moved[d] = s.moved[d]
  <1> DEFINE e == Add(s, c, bl[c], s.dest[c])
  <1> HIDE DEF e
  <1>1. /\ Shape(e) /\ e.p = s.p /\ e.pc = s.pc
        /\ e.queue = s.queue /\ e.dest = s.dest /\ e.used = s.used
        /\ e.tiles = s.tiles /\ e.todo = s.todo /\ e.swap = s.swap
        /\ DOMAIN e.local = DOMAIN s.local
        /\ \A d \in DOMAIN s.local : d # c => e.local[d] = s.local[d]
        /\ DOMAIN e.moved = DOMAIN s.moved \cup {c}
        /\ e.moved[c].old = bl[c] /\ e.moved[c].new = s.dest[c]
        /\ \A d \in DOMAIN s.moved : d # c => e.moved[d] = s.moved[d]
    BY AddIs DEF e
  <1>2. a = [e EXCEPT !.used = @ \cup {s.dest[c]},
                      !.dest = [d \in DOMAIN @ \ {c} |-> @[d]]]
    BY DEF Taken, e
  <1>3. /\ Shape(a) /\ a.p = e.p /\ a.pc = e.pc /\ a.queue = e.queue /\ a.tiles = e.tiles
        /\ a.swap = e.swap /\ a.used = e.used \cup {s.dest[c]}
        /\ a.dest = [d \in DOMAIN e.dest \ {c} |-> e.dest[d]]
        /\ a.moved = e.moved /\ a.local = e.local
    BY <1>1, <1>2 DEF Shape, Fields
  <1> QED BY <1>1, <1>3 DEF e

\* The move may fail there.
LEMMA TakenReset ==
  ASSUME NEW s, NEW c, NEW bl, NEW bd, Sound(s, bl), s.pc \notin Binding, s.tiles = <<>>,
         NEW a, a = Taken(s, c, bl)
  PROVE  Shape(a) /\ a.p = s.p /\ Good(Reset(a), bl, bd)
  <1>1. Shape(s) /\ Region(s.p, bl) /\ Recorded(s, bl) /\ LocalTrue(s, bl)
    BY DEF Sound
  <1>2. /\ Shape(a) /\ a.p = s.p /\ a.tiles = s.tiles
        /\ DOMAIN a.local = DOMAIN s.local
        /\ \A d \in DOMAIN s.local : d # c => a.local[d] = s.local[d]
        /\ DOMAIN a.moved = DOMAIN s.moved \cup {c}
        /\ a.moved[c].old = bl[c]
        /\ \A d \in DOMAIN s.moved : d # c => a.moved[d] = s.moved[d]
    BY <1>1, TakenIs
  <1>3. ASSUME NEW x \in a.p.cells
        PROVE  IF x \in DOMAIN a.moved THEN a.moved[x].old = bl[x] ELSE a.local[x] = bl[x]
    BY <1>1, <1>2 DEF Region, Recorded, LocalTrue
  <1>4. DOMAIN a.local = Cells
    BY <1>1, <1>2 DEF LocalTrue
  <1> QED BY <1>1, <1>2, <1>3, <1>4, GoodReset

\* If it does not, what was to fail later still is.
LEMMA TakenOn ==
  ASSUME NEW s, NEW c \in DOMAIN s.dest, NEW bl, NEW bd,
         Tables(bl, bd), Sound(s, bl), s.pc \notin Binding, Chain(s, bl, bd),
         c \notin DOMAIN s.moved, Inside(s.p, bl[c]), Inside(s.p, s.dest[c]),
         s.dest[c] \notin s.used, bd[s.dest[c]] \notin DOMAIN s.moved,
         NEW a, a = Taken(s, c, bl)
  PROVE  /\ Sound(a, bl) /\ c \in s.p.cells \ Locked /\ s.dest[c] \in Bels
         /\ a.used = {a.moved[d].new : d \in DOMAIN a.moved}
         /\ DoomedQueue(a, bl)
         /\ \/ DoomedDest(a, bl)
            \/ /\ \E k \in Clusters, root \in Bels : UnderWay(a, k, root)
               /\ s.queue # <<>> \/ Closed(s, bd)
  <1>1. /\ s.p.cells # {} /\ c \in Cells \ Locked /\ s.dest[c] \in Bels
        /\ s.used = {s.moved[d].new : d \in DOMAIN s.moved}
        /\ DoomedQueue(s, bl) /\ (DoomedDest(s, bl) \/ FirstCluster(s, bd))
    BY EmptyDomain DEF Chain
  <1>2. c \in s.p.cells \ Locked
    BY <1>1 DEF Sound, Region
  <1>3. Shape(s)
    BY DEF Sound
  <1>4. /\ Shape(a) /\ a.p = s.p /\ a.pc = s.pc /\ a.queue = s.queue
        /\ a.used = s.used \cup {s.dest[c]}
        /\ DOMAIN a.dest = DOMAIN s.dest \ {c}
        /\ \A d \in DOMAIN a.dest : a.dest[d] = s.dest[d]
        /\ a.moved = Add(s, c, bl[c], s.dest[c]).moved
        /\ a.local = Add(s, c, bl[c], s.dest[c]).local
        /\ DOMAIN a.moved = DOMAIN s.moved \cup {c}
        /\ a.moved[c].new = s.dest[c]
        /\ \A d \in DOMAIN s.moved : a.moved[d] = s.moved[d]
    BY <1>3, TakenIs
  <1>5. Sound(a, bl)
    <2>1. Sound(Add(s, c, bl[c], s.dest[c]), bl)
      BY <1>1, <1>2, SoundAdd DEF Tables
    <2>2. Add(s, c, bl[c], s.dest[c]).p = s.p /\ Add(s, c, bl[c], s.dest[c]).pc = s.pc
      BY <1>3, AddIs
    <2> QED BY <1>4, <2>1, <2>2, SoundSame
  <1>6. a.used = {a.moved[d].new : d \in DOMAIN a.moved}
    BY <1>1, <1>4
  <1>7. DoomedQueue(a, bl)
    BY <1>1, <1>4 DEF DoomedQueue, Doomed
  <1>8. CASE DoomedDest(s, bl)
    <2>1. PICK x \in DOMAIN s.dest, d \in DOMAIN s.moved : s.dest[x] = bl[d]
      BY <1>8 DEF DoomedDest
    <2>2. d \in Cells
      BY DEF Sound, Region, Recorded
    <2>3. x # c
      BY <1>1, <2>1, <2>2 DEF Tables
    <2>4. DoomedDest(a, bl)
      BY <1>4, <2>1, <2>3 DEF DoomedDest
    <2> QED BY <1>1, <1>2, <1>5, <1>6, <1>7, <2>4
  <1>9. CASE FirstCluster(s, bd)
    <2>1. PICK k \in Clusters, root \in Bels : UnderWay(s, k, root)
      BY <1>9 DEF FirstCluster
    <2>2. UnderWay(a, k, root)
      BY <1>4, <2>1 DEF UnderWay, Members
    <2>3. s.queue # <<>> \/ Closed(s, bd)
      BY <1>9 DEF FirstCluster
    <2> QED BY <1>1, <1>2, <1>5, <1>6, <1>7, <2>2, <2>3
  <1> QED BY <1>1, <1>8, <1>9

\* Nothing is there.
LEMMA TakenFree ==
  ASSUME NEW s, NEW c \in DOMAIN s.dest, NEW bl, NEW bd,
         Tables(bl, bd), Sound(s, bl), s.pc \notin Binding, Chain(s, bl, bd),
         c \notin DOMAIN s.moved, Inside(s.p, bl[c]), Inside(s.p, s.dest[c]),
         s.dest[c] \notin s.used, bd[s.dest[c]] = NoCell,
         NEW a, a = Taken(s, c, bl)
  PROVE  Sound(a, bl) /\ Chain(a, bl, bd)
  <1>1. NoCell \notin DOMAIN s.moved /\ Shape(s)
    BY DetailPlaceAssumption DEF Sound, Region, Recorded
  <1>2. /\ Sound(a, bl) /\ a.used = {a.moved[d].new : d \in DOMAIN a.moved}
        /\ DoomedQueue(a, bl)
        /\ \/ DoomedDest(a, bl)
           \/ /\ \E k \in Clusters, root \in Bels : UnderWay(a, k, root)
              /\ s.queue # <<>> \/ Closed(s, bd)
    BY <1>1, TakenOn
  <1>3. /\ a.p = s.p /\ a.queue = s.queue /\ DOMAIN a.dest = DOMAIN s.dest \ {c}
        /\ \A d \in DOMAIN a.dest : a.dest[d] = s.dest[d]
        /\ DOMAIN a.moved = DOMAIN s.moved \cup {c} /\ a.moved[c].new = s.dest[c]
        /\ \A d \in DOMAIN s.moved : a.moved[d] = s.moved[d]
    BY <1>1, TakenIs
  <1>4. Closed(s, bd) => Closed(a, bd)
    BY <1>3 DEF Closed
  <1>5. DoomedDest(a, bl) \/ FirstCluster(a, bd)
    BY <1>2, <1>3, <1>4 DEF FirstCluster
  <1> QED BY <1>2, <1>3, <1>5 DEF Chain

\* A cluster goes where its displaced cell was to go.
LEMMA RootBack ==
  ASSUME NEW bl, NEW bd, Tables(bl, bd), NEW c \in Cells, NEW other \in Cells, NEW root \in Bels,
         Clustered(other),
         \A i \in 1 .. 3 : bl[other][i] = bl[Root[Cluster[other]]][i] + Offset[other][i],
         root = Plus(bl[c], Minus(bl[Root[Cluster[other]]], bl[other]))
  PROVE  Plus(root, Offset[other]) = bl[c]
  <1>0. Cluster[other] \in Clusters
    BY ParallelRefineAssumption DEF Clustered
  <1>1. /\ bl[c] \in Bels /\ bl[other] \in Bels
        /\ Root[Cluster[other]] \in Cells /\ bl[Root[Cluster[other]]] \in Bels
    BY <1>0, ParallelRefineAssumption DEF Tables
  <1>2. Offset[other] \in Int \X Int \X Int
    BY ParallelRefineAssumption
  <1>3. /\ bl[other][1] = bl[Root[Cluster[other]]][1] + Offset[other][1]
        /\ bl[other][2] = bl[Root[Cluster[other]]][2] + Offset[other][2]
        /\ bl[other][3] = bl[Root[Cluster[other]]][3] + Offset[other][3]
    OBVIOUS
  <1>4. /\ root[1] = bl[c][1] + (bl[Root[Cluster[other]]][1] - bl[other][1])
        /\ root[2] = bl[c][2] + (bl[Root[Cluster[other]]][2] - bl[other][2])
        /\ root[3] = bl[c][3] + (bl[Root[Cluster[other]]][3] - bl[other][3])
    BY DEF Plus, Minus
  <1>5. /\ root[1] + Offset[other][1] = bl[c][1]
        /\ root[2] + Offset[other][2] = bl[c][2]
        /\ root[3] + Offset[other][3] = bl[c][3]
    <2>1. ASSUME NEW i \in 1 .. 3
          PROVE  /\ bl[c][i] \in Int /\ bl[Root[Cluster[other]]][i] \in Int
                 /\ bl[other][i] \in Int /\ Offset[other][i] \in Int /\ root[i] \in Int
      <3>1. \A b \in Bels : b[i] \in Int
        BY Coordinates
      <3>2. Offset[other][i] \in Int
        BY <1>2
      <3> QED BY <1>1, <3>1, <3>2
    <2>2. ASSUME NEW i \in 1 .. 3,
                 root[i] = bl[c][i] + (bl[Root[Cluster[other]]][i] - bl[other][i])
          PROVE  root[i] + Offset[other][i] = bl[c][i]
      <3>1. bl[other][i] = bl[Root[Cluster[other]]][i] + Offset[other][i]
        OBVIOUS
      <3> DEFINE aa == bl[c][i]
                 bb == bl[Root[Cluster[other]]][i]
                 mm == bl[other][i]
                 oo == Offset[other][i]
                 rr == root[i]
      <3>2. aa \in Int /\ bb \in Int /\ mm \in Int /\ oo \in Int /\ rr \in Int
        BY <2>1
      <3>3. mm = bb + oo /\ rr = aa + (bb - mm)
        BY <2>2, <3>1
      <3> HIDE DEF aa, bb, mm, oo, rr
      <3>4. rr + oo = aa
        BY <3>2, <3>3
      <3> QED BY <3>4 DEF rr, oo, aa
    <2>3. 1 \in 1 .. 3 /\ 2 \in 1 .. 3 /\ 3 \in 1 .. 3
      OBVIOUS
    <2> QED BY <1>4, <2>2, <2>3, Zenon
  <1> QED BY <1>1, <1>5, Coordinates DEF Plus

Appended(S, u, q, w) ==
  /\ w \in Seq(S) /\ w # <<>> /\ Len(u) \in Nat /\ Len(w) = Len(u) + 1
  /\ \A i \in 1 .. Len(u) : w[i] = u[i]
  /\ w[Len(u) + 1] = q

LEMMA AppendIs ==
  ASSUME NEW S, NEW u, NEW q, u \in Seq(S), q \in S
  PROVE  \A w : w = Append(u, q) => Appended(S, u, q, w)
  BY AppendProperties DEF Appended

Queued(a, q) == [a EXCEPT !.queue = Append(@, q)]

LEMMA QueuedIs ==
  ASSUME NEW a, Shape(a), NEW q, NEW e, e = Queued(a, q)
  PROVE  /\ Shape(e) /\ e.p = a.p /\ e.pc = a.pc /\ e.tiles = a.tiles /\ e.swap = a.swap
         /\ e.moved = a.moved /\ e.local = a.local /\ e.used = a.used /\ e.dest = a.dest
         /\ e.queue = Append(a.queue, q)
  BY DEF Shape, Fields, Queued

\* A cluster is there: it is queued, and has no way out.
LEMMA TakenCluster ==
  ASSUME NEW s, NEW c \in DOMAIN s.dest, NEW bl, NEW bd, NEW other \in Cells, NEW root \in Bels,
         Tables(bl, bd), Sound(s, bl), s.pc \notin Binding, Chain(s, bl, bd),
         c \notin DOMAIN s.moved, Inside(s.p, bl[c]), Inside(s.p, s.dest[c]),
         s.dest[c] \notin s.used, bd[s.dest[c]] = other, other \notin DOMAIN s.moved,
         Clustered(other), Plus(root, Offset[other]) = bl[c],
         NEW a, a = Taken(s, c, bl),
         NEW e, e = Queued(a, <<Cluster[other], root>>)
  PROVE  /\ Sound(e, bl) /\ Chain(e, bl, bd)
         /\ e.p = a.p /\ e.pc = a.pc /\ e.tiles = a.tiles /\ e.swap = a.swap
  <1>1. Shape(s) /\ c \in Cells /\ s.queue \in Seq(Clusters \X Bels)
    BY DEF Sound, Chain
  <1>2. /\ Sound(a, bl) /\ a.used = {a.moved[d].new : d \in DOMAIN a.moved}
        /\ DoomedQueue(a, bl) /\ s.dest[c] \in Bels
        /\ \/ DoomedDest(a, bl)
           \/ \E k \in Clusters, r \in Bels : UnderWay(a, k, r)
    BY TakenOn
  <1>3. /\ Shape(a) /\ a.p = s.p /\ a.pc = s.pc /\ a.queue = s.queue
        /\ DOMAIN a.dest = DOMAIN s.dest \ {c}
        /\ \A d \in DOMAIN a.dest : a.dest[d] = s.dest[d]
        /\ DOMAIN a.moved = DOMAIN s.moved \cup {c}
    BY <1>1, TakenIs
  <1> DEFINE q == <<Cluster[other], root>>
  <1>4. /\ Shape(e) /\ e.p = a.p /\ e.pc = a.pc /\ e.tiles = a.tiles /\ e.swap = a.swap
        /\ e.moved = a.moved /\ e.local = a.local /\ e.used = a.used /\ e.dest = a.dest
        /\ e.queue = Append(a.queue, q)
    BY <1>3, QueuedIs
  <1>5. Sound(e, bl)
    BY <1>2, <1>4, SoundSame
  <1>6. Cluster[other] \in Clusters /\ other \in Members(Cluster[other])
    BY ParallelRefineAssumption DEF Clustered, Members
  <1>7. q \in Clusters \X Bels /\ q[1] = Cluster[other] /\ q[2] = root
    BY <1>6
  <1> HIDE DEF q
  <1>8. /\ e.queue \in Seq(Clusters \X Bels) /\ Len(e.queue) = Len(s.queue) + 1
        /\ Len(s.queue) \in Nat /\ e.queue # <<>>
        /\ \A i \in 1 .. Len(s.queue) : e.queue[i] = s.queue[i]
        /\ e.queue[Len(s.queue) + 1] = q
    <2>1. s.queue \in Seq(Clusters \X Bels) /\ q \in Clusters \X Bels
      BY <1>1, <1>7
    <2>2. e.queue = Append(s.queue, q)
      BY <1>3, <1>4
    <2>3. Appended(Clusters \X Bels, s.queue, q, e.queue)
      BY <2>1, <2>2, AppendIs
    <2> QED BY <2>3 DEF Appended
  <1>10. Doomed(e, bl, q[1], q[2])
    BY <1>3, <1>4, <1>6, <1>7 DEF Doomed
  <1>11. DoomedQueue(e, bl)
    <2> SUFFICES ASSUME NEW i \in 1 .. Len(e.queue)
                 PROVE Doomed(e, bl, e.queue[i][1], e.queue[i][2])
      BY DEF DoomedQueue
    <2>1. CASE i = Len(s.queue) + 1
      BY <1>8, <1>10, <2>1
    <2>2. CASE i # Len(s.queue) + 1
      <3>1. i \in 1 .. Len(s.queue)
        BY <1>8, <2>2
      <3>2. Doomed(a, bl, a.queue[i][1], a.queue[i][2])
        BY <1>2, <1>3, <3>1 DEF DoomedQueue
      <3>3. e.queue[i] = a.queue[i] /\ e.moved = a.moved
        BY <1>3, <1>4, <1>8, <3>1
      <3> QED BY <3>2, <3>3 DEF Doomed
    <2> QED BY <2>1, <2>2
  <1>12. DoomedDest(e, bl) \/ FirstCluster(e, bd)
    <2>1. DoomedDest(a, bl) => DoomedDest(e, bl)
      BY <1>4 DEF DoomedDest
    <2>2. \A k \in Clusters, r \in Bels : UnderWay(a, k, r) => UnderWay(e, k, r)
      BY <1>4 DEF UnderWay
    <2>3. e.queue # <<>>
      BY <1>8
    <2> QED BY <1>2, <2>1, <2>2, <2>3 DEF FirstCluster
  <1>13. Chain(e, bl, bd)
    <2>1. e.p.cells # {} /\ e.queue \in Seq(Clusters \X Bels)
      BY <1>3, <1>4, <1>8 DEF Chain
    <2>2. \A d \in DOMAIN e.dest : d \in Cells \ Locked /\ e.dest[d] \in Bels
      BY <1>3, <1>4 DEF Chain
    <2>3. e.used = {e.moved[d].new : d \in DOMAIN e.moved}
      BY <1>2, <1>4
    <2> QED BY <1>11, <1>12, <2>1, <2>2, <2>3 DEF Chain
  <1> QED BY <1>4, <1>5, <1>13

\* A single cell is there: it goes to the bel that becomes free.
Freed(a, b) == [a EXCEPT !.used = @ \cup {b}]

LEMMA FreedIs ==
  ASSUME NEW a, Shape(a), NEW b, NEW e, e = Freed(a, b)
  PROVE  /\ Shape(e) /\ e.p = a.p /\ e.pc = a.pc /\ e.tiles = a.tiles /\ e.swap = a.swap
         /\ e.moved = a.moved /\ e.local = a.local /\ e.queue = a.queue /\ e.dest = a.dest
         /\ e.used = a.used \cup {b}
  BY DEF Shape, Fields, Freed

LEMMA SingleIs ==
  ASSUME NEW a, Shape(a), NEW other, NEW from, NEW old, NEW e,
         e = Add(Freed(a, old), other, from, old)
  PROVE  /\ e.p = a.p /\ e.pc = a.pc /\ e.tiles = a.tiles /\ e.swap = a.swap
         /\ e.queue = a.queue /\ e.dest = a.dest /\ e.used = a.used \cup {old}
         /\ DOMAIN e.moved = DOMAIN a.moved \cup {other} /\ e.moved[other].new = old
         /\ \A d \in DOMAIN a.moved : d # other => e.moved[d] = a.moved[d]
  <1> DEFINE b == Freed(a, old)
  <1>1. /\ Shape(b) /\ b.p = a.p /\ b.pc = a.pc /\ b.tiles = a.tiles /\ b.swap = a.swap
        /\ b.moved = a.moved /\ b.queue = a.queue /\ b.dest = a.dest
        /\ b.used = a.used \cup {old}
    BY FreedIs
  <1> QED BY <1>1, AddIs

LEMMA SingleSound ==
  ASSUME NEW a, NEW bl, Sound(a, bl), a.pc \notin Binding, bl \in [Cells -> Bels],
         NEW other \in a.p.cells \ Locked, other \notin DOMAIN a.moved,
         NEW old \in Bels, Inside(a.p, old), \A d \in DOMAIN a.moved : a.moved[d].new # old,
         NEW e, e = Add(Freed(a, old), other, bl[other], old)
  PROVE  Sound(e, bl)
  <1> DEFINE b == Freed(a, old)
  <1>1. Shape(a)
    BY DEF Sound
  <1>2. /\ Shape(b) /\ b.p = a.p /\ b.pc = a.pc /\ b.moved = a.moved /\ b.local = a.local
    BY <1>1, FreedIs
  <1>3. Sound(b, bl)
    BY <1>2, SoundSame
  <1> QED BY <1>2, <1>3, SoundAdd

LEMMA TakenSingle ==
  ASSUME NEW s, NEW c \in DOMAIN s.dest, NEW bl, NEW bd, NEW other \in Cells \ Locked,
         Tables(bl, bd), Sound(s, bl), s.pc \notin Binding, Chain(s, bl, bd),
         c \notin DOMAIN s.moved, Inside(s.p, bl[c]), Inside(s.p, s.dest[c]),
         s.dest[c] \notin s.used, bd[s.dest[c]] = other,
         other \notin DOMAIN s.moved, other # c, ~Clustered(other),
         bl[c] \notin Taken(s, c, bl).used
  PROVE  LET e == Add(Freed(Taken(s, c, bl), bl[c]), other, bl[other], bl[c])
         IN  /\ Sound(e, bl) /\ Chain(e, bl, bd)
             /\ e.p = s.p /\ e.pc = s.pc /\ e.tiles = s.tiles /\ e.swap = s.swap
  <1> DEFINE a == Taken(s, c, bl)
             e == Add(Freed(a, bl[c]), other, bl[other], bl[c])
  <1>1. Shape(s) /\ c \in Cells /\ s.p.cells # {} /\ bl \in [Cells -> Bels]
    BY DEF Sound, Chain, Tables
  <1>2. /\ Sound(a, bl) /\ a.used = {a.moved[d].new : d \in DOMAIN a.moved}
        /\ DoomedQueue(a, bl) /\ s.dest[c] \in Bels
        /\ \/ DoomedDest(a, bl)
           \/ /\ \E k \in Clusters, r \in Bels : UnderWay(a, k, r)
              /\ s.queue # <<>> \/ Closed(s, bd)
    BY TakenOn
  <1>3. /\ Shape(a) /\ a.p = s.p /\ a.pc = s.pc /\ a.queue = s.queue
        /\ a.tiles = s.tiles /\ a.swap = s.swap
        /\ DOMAIN a.dest = DOMAIN s.dest \ {c}
        /\ \A d \in DOMAIN a.dest : a.dest[d] = s.dest[d]
        /\ DOMAIN a.moved = DOMAIN s.moved \cup {c} /\ a.moved[c].new = s.dest[c]
        /\ \A d \in DOMAIN s.moved : a.moved[d] = s.moved[d]
    BY <1>1, TakenIs
  <1>4. /\ bl[other] = s.dest[c] /\ bl[c] \in Bels /\ bd[bl[c]] = c
        /\ other \in s.p.cells \ Locked
    BY <1>1, <1>2 DEF Tables, Sound, Region
  <1>5. bl[c] \notin a.used
    OBVIOUS
  <1> HIDE DEF a
  <1>6. other \notin DOMAIN a.moved /\ \A d \in DOMAIN a.moved : a.moved[d].new # bl[c]
    BY <1>2, <1>3, <1>5
  <1>7. e = Add(Freed(a, bl[c]), other, bl[other], bl[c])
    OBVIOUS
  <1> HIDE DEF e
  <1>8. Sound(e, bl)
    BY <1>1, <1>2, <1>3, <1>4, <1>6, <1>7, SingleSound
  <1>9. /\ e.p = a.p /\ e.pc = a.pc /\ e.tiles = a.tiles /\ e.swap = a.swap
        /\ e.queue = a.queue /\ e.dest = a.dest /\ e.used = a.used \cup {bl[c]}
        /\ DOMAIN e.moved = DOMAIN a.moved \cup {other} /\ e.moved[other].new = bl[c]
        /\ \A d \in DOMAIN a.moved : e.moved[d] = a.moved[d]
    BY <1>3, <1>6, <1>7, SingleIs
  <1>10. Chain(e, bl, bd)
    <2>1. e.used = {e.moved[d].new : d \in DOMAIN e.moved}
      BY <1>2, <1>9
    <2>2. \A d \in DOMAIN e.dest : d \in Cells \ Locked /\ e.dest[d] \in Bels
      BY <1>3, <1>9 DEF Chain
    <2>3. DoomedQueue(e, bl)
      BY <1>2, <1>9 DEF DoomedQueue, Doomed
    <2>4. DoomedDest(a, bl) => DoomedDest(e, bl)
      BY <1>9 DEF DoomedDest
    <2>5. ASSUME NEW k \in Clusters, NEW r \in Bels, UnderWay(a, k, r)
          PROVE UnderWay(e, k, r)
      BY <1>9, <2>5 DEF UnderWay
    <2>6. Closed(s, bd) => Closed(e, bd)
      <3>1. \A d \in DOMAIN e.moved : d = other \/ d = c \/ d \in DOMAIN s.moved
        BY <1>3, <1>9
      <3>2. /\ e.moved[c].new = s.dest[c]
            /\ \A d \in DOMAIN s.moved : e.moved[d].new = s.moved[d].new
            /\ DOMAIN s.moved \subseteq DOMAIN e.moved
            /\ c \in DOMAIN e.moved /\ other \in DOMAIN e.moved
        BY <1>3, <1>9
      <3> QED BY <1>4, <1>9, <3>1, <3>2 DEF Closed
    <2>7. DoomedDest(e, bl) \/ FirstCluster(e, bd)
      BY <1>2, <1>3, <1>9, <2>4, <2>5, <2>6 DEF FirstCluster
    <2> QED BY <1>1, <1>3, <1>9, <2>1, <2>2, <2>3, <2>7 DEF Chain
  <1>11. /\ Sound(e, bl) /\ Chain(e, bl, bd)
         /\ e.p = s.p /\ e.pc = s.pc /\ e.tiles = s.tiles /\ e.swap = s.swap
    BY <1>3, <1>8, <1>9, <1>10
  <1> QED BY <1>11 DEF e, a

\* What goes on with a chain.
LEMMA GotoChain ==
  ASSUME Now, NEW t \in Threads, th[t].pc = "chain",
         NEW e, Goto(t, e), Sound(e, bel), Chain(e, bel, bound),
         e.p = th[t].p, e.pc = "chain", e.tiles = <<>>, e.swap = <<>>
  PROVE  Kept(t)
  <1>1. Good(e, bel, bound)
    BY DEF Good, Sound, Phase, Settled, Binding
  <1> QED BY <1>1, GotoKept DEF Binding

LEMMA ChainCellKept ==
  ASSUME Now, NEW t \in Threads, ChainCell(t)
  PROVE  Kept(t)
  <1> DEFINE s == th[t]
  <1>1. /\ Good(s, bel, bound) /\ Sound(s, bel) /\ Chain(s, bel, bound) /\ Shape(s)
        /\ s.swap = <<>> /\ s.tiles = <<>> /\ s.pc \notin Binding /\ s.pc = "chain"
        /\ Tables(bel, bound)
    BY ChainIs DEF ChainCell, Sound, Now
  <1>2. PICK c \in DOMAIN s.dest :
          LET old == bel[c]
              new == s.dest[c]
              a == [Add(s, c, old, new) EXCEPT
                      !.used = @ \cup {new},
                      !.dest = [d \in DOMAIN @ \ {c} |-> @[d]]]
              other == bound[new]
              root == Plus(old, Minus(bel[Root[Cluster[other]]], bel[other]))
          IN  IF c \in DOMAIN s.moved \/ ~CanAdd(s, old, new) THEN Goto(t, Reset(s))
              ELSE IF \/ new \in s.used
                      \/ other # NoCell /\ (other \in DOMAIN a.moved \/ other \in Locked)
              THEN Goto(t, Reset(a))
              ELSE IF other = NoCell THEN Goto(t, a)
              ELSE IF Clustered(other)
              THEN Goto(t, IF root \notin Bels THEN Reset(a)
                           ELSE [a EXCEPT !.queue = Append(@, <<Cluster[other], root>>)])
              ELSE Goto(t, IF old \in a.used \/ ~CanAdd(a, new, old) THEN Reset(a)
                           ELSE Add([a EXCEPT !.used = @ \cup {old}], other, bel[other], old))
    BY DEF ChainCell, Occupant
  <1> DEFINE old == bel[c]
             new == s.dest[c]
             a == Taken(s, c, bel)
             other == bound[new]
             root == Plus(old, Minus(bel[Root[Cluster[other]]], bel[other]))
             queued == Queued(a, <<Cluster[other], root>>)
             freed == Freed(a, old)
             both == Add(freed, other, bel[other], old)
             refused == c \in DOMAIN s.moved \/ ~CanAdd(s, old, new)
             fails == \/ refused
                      \/ new \in s.used
                      \/ other # NoCell /\ (other \in DOMAIN a.moved \/ other \in Locked)
  <1>3. IF refused THEN Goto(t, Reset(s))
        ELSE IF fails THEN Goto(t, Reset(a))
        ELSE IF other = NoCell THEN Goto(t, a)
        ELSE IF Clustered(other)
        THEN Goto(t, IF root \notin Bels THEN Reset(a) ELSE queued)
        ELSE Goto(t, IF old \in a.used \/ ~CanAdd(a, new, old) THEN Reset(a) ELSE both)
    BY <1>2 DEF Taken, Freed, Queued
  <1>4. Shape(a) /\ a.p = s.p /\ Good(Reset(a), bel, bound)
    BY <1>1, TakenReset
  <1>5. CASE Goto(t, Reset(a)) \/ Goto(t, Reset(s))
    <2>1. Good(Reset(s), bel, bound)
      BY <1>1, SoundReset
    <2> QED BY <1>1, <1>4, <1>5, <2>1, GotoReset
  <1>6. ASSUME ~fails
        PROVE  /\ c \notin DOMAIN s.moved /\ Inside(s.p, old) /\ Inside(s.p, new)
               /\ new \notin s.used /\ other \notin DOMAIN s.moved
               /\ other # NoCell => other \in Cells \ Locked /\ other # c
               /\ a.pc = "chain" /\ a.tiles = <<>> /\ a.swap = <<>>
    <2>1. DOMAIN a.moved = DOMAIN s.moved \cup {c}
          /\ a.pc = "chain" /\ a.tiles = <<>> /\ a.swap = <<>>
      BY <1>1, TakenIs
    <2>2. NoCell \notin DOMAIN s.moved
      BY <1>1, DetailPlaceAssumption DEF Sound, Region, Recorded
    <2>3. new \in Bels
      BY <1>1 DEF Chain
    <2>4. other \in Cells \cup {NoCell}
      BY <1>1, <2>3 DEF Tables
    <2> HIDE DEF a
    <2> QED BY <1>6, <2>1, <2>2, <2>4 DEF CanAdd
  <1> HIDE DEF fails
  <1>7. CASE ~fails /\ other = NoCell /\ Goto(t, a)
    <2>1. Sound(a, bel) /\ Chain(a, bel, bound)
      BY <1>1, <1>6, <1>7, TakenFree
    <2> QED BY <1>1, <1>4, <1>6, <1>7, <2>1, GotoChain
  <1>8. CASE ~fails /\ other # NoCell /\ Clustered(other) /\ root \in Bels /\ Goto(t, queued)
    <2>1. other \in s.p.cells
      <3>1. new \in Bels /\ other \in Cells /\ s.p.cells # {}
        BY <1>1, <1>6, <1>8 DEF Chain
      <3>2. bel[other] = new
        BY <1>1, <3>1 DEF Tables
      <3> QED BY <1>1, <1>6, <1>8, <3>1, <3>2 DEF Sound, Region
    <2>2. \A i \in 1 .. 3 : bel[other][i] = bel[Root[Cluster[other]]][i] + Offset[other][i]
      <3>1. other \in Members(Cluster[other])
        BY <1>6, <1>8 DEF Members
      <3> QED BY <1>1, <1>8, <2>1, <3>1, ShapeNow
    <2>3. /\ Sound(queued, bel) /\ Chain(queued, bel, bound)
          /\ queued.p = a.p /\ queued.pc = a.pc /\ queued.tiles = a.tiles
          /\ queued.swap = a.swap
      <3>1. other \in Cells /\ c \in Cells
        BY <1>1, <1>6, <1>8 DEF Chain
      <3>2. Plus(root, Offset[other]) = old
        BY <1>1, <1>8, <2>2, <3>1, RootBack
      <3> HIDE DEF a, root
      <3>3. a = Taken(s, c, bel)
        BY DEF a
      <3> QED BY <1>1, <1>6, <1>8, <3>1, <3>2, <3>3, TakenCluster
    <2> QED BY <1>1, <1>4, <1>6, <1>8, <2>3, GotoChain
  <1>9. CASE /\ ~fails /\ other # NoCell /\ ~Clustered(other)
             /\ old \notin a.used /\ Goto(t, both)
    <2>1. /\ Sound(both, bel) /\ Chain(both, bel, bound)
          /\ both.p = s.p /\ both.pc = s.pc /\ both.tiles = s.tiles /\ both.swap = s.swap
      <3>1. other \in Cells \ Locked
        BY <1>6, <1>9
      <3> QED BY <1>1, <1>6, <1>9, <3>1, TakenSingle
    <2> QED BY <1>1, <1>9, <2>1, GotoChain
  <1> QED BY <1>3, <1>5, <1>7, <1>8, <1>9

-----------------------------------------------------------------------------
\* do_tile_swap.
LEMMA TileIs ==
  ASSUME NEW x \in Tiles
  PROVE  x = <<x[1], x[2]>> /\ x[1] \in Nat /\ x[2] \in Nat
  <1>1. PICK b \in Bels : x = TileOf(b)
    BY DEF Tiles
  <1> QED BY <1>1, Coordinates DEF TileOf

\* A cell and the root of its cluster, in one tile, go to one tile.
LEMMA TileShift ==
  ASSUME NEW b \in Bels, NEW r \in Bels, NEW o \in Int \X Int \X Int,
         \A i \in 1 .. 3 : b[i] = r[i] + o[i], TileOf(b) = TileOf(r), NEW x \in Tiles
  PROVE  <<x[1], x[2], b[3]>> = Plus(<<x[1], x[2], r[3]>>, o)
  <1>1. /\ b[1] \in Int /\ b[2] \in Int /\ r[1] \in Int /\ r[2] \in Int
        /\ o[1] \in Int /\ o[2] \in Int /\ x[1] \in Int /\ x[2] \in Int
    BY Coordinates, TileIs
  <1>2. b[1] = r[1] /\ b[2] = r[2]
    BY DEF TileOf
  <1>3. b[1] = r[1] + o[1] /\ b[2] = r[2] + o[2] /\ b[3] = r[3] + o[3]
    OBVIOUS
  <1>4. o[1] = 0 /\ o[2] = 0
    BY <1>1, <1>2, <1>3
  <1> QED BY <1>1, <1>3, <1>4 DEF Plus

LEMMA TilesIs ==
  ASSUME Now, NEW t \in Threads, th[t].pc = "tiles"
  PROVE  /\ Sound(th[t], bel) /\ ListedNow(th[t], bel) /\ th[t].pc \notin Binding
         /\ th[t].moved = <<>> /\ DOMAIN th[t].moved = {}
         /\ th[t].queue = <<>> /\ th[t].dest = <<>> /\ th[t].used = {} /\ th[t].swap = <<>>
         /\ DOMAIN th[t].local = Cells /\ \A c \in th[t].p.cells : th[t].local[c] = bel[c]
  <1>1. Good(th[t], bel, bound) /\ Sound(th[t], bel)
    BY NowIs
  <1>2. /\ Listed(th[t], bel) /\ th[t].moved = <<>> /\ th[t].queue = <<>>
        /\ th[t].dest = <<>> /\ th[t].used = {} /\ th[t].swap = <<>>
    BY <1>1 DEF Good, Phase, Settled
  <1>3. ListedNow(th[t], bel)
    BY <1>1, <1>2, ListedAgain DEF Sound, Binding
  <1>4. DOMAIN th[t].moved = {}
    BY <1>2, EmptyDomain
  <1>5. DOMAIN th[t].local = Cells /\ \A c \in th[t].p.cells : th[t].local[c] = bel[c]
    BY <1>1, <1>4 DEF Sound, LocalTrue
  <1> QED BY <1>1, <1>2, <1>3, <1>4, <1>5 DEF Binding

\* The tile x need not be tried again.
TileDone(s, x) == [s EXCEPT !.todo = @ \ {x}]

LEMMA TileDoneIs ==
  ASSUME NEW s, Shape(s), NEW x, NEW e, e = TileDone(s, x)
  PROVE  /\ Shape(e) /\ e.p = s.p /\ e.pc = s.pc /\ e.moved = s.moved /\ e.local = s.local
         /\ e.queue = s.queue /\ e.dest = s.dest /\ e.used = s.used
         /\ e.tiles = s.tiles /\ e.swap = s.swap /\ e.todo = s.todo \ {x}
  BY DEF Shape, Fields, TileDone

TwoTiles(s, to, x, y) == [AddAll(TileDone(s, x), to) EXCEPT !.swap = <<x, y>>]

LEMMA TwoTilesIs ==
  ASSUME NEW s, Shape(s), NEW to, NEW x, NEW y, NEW e, e = TwoTiles(s, to, x, y)
  PROVE  /\ Shape(e) /\ e.p = s.p /\ e.pc = s.pc
         /\ e.tiles = s.tiles /\ e.todo = s.todo \ {x} /\ e.swap = <<x, y>>
         /\ DOMAIN e.local = Cells
         /\ \A c \in Cells : e.local[c] = IF c \in DOMAIN to THEN to[c] ELSE s.local[c]
         /\ DOMAIN e.moved = DOMAIN to
         /\ \A c \in DOMAIN to : e.moved[c].old = bel[c] /\ e.moved[c].new = to[c]
  <1> DEFINE n == TileDone(s, x)
             a == AddAll(n, to)
  <1>1. /\ Shape(n) /\ n.p = s.p /\ n.pc = s.pc /\ n.local = s.local
        /\ n.tiles = s.tiles /\ n.todo = s.todo \ {x}
    BY TileDoneIs
  <1> HIDE DEF n
  <1>2. /\ Shape(a) /\ a.p = n.p /\ a.pc = n.pc /\ a.tiles = n.tiles /\ a.todo = n.todo
        /\ DOMAIN a.local = Cells
        /\ \A c \in Cells : a.local[c] = IF c \in DOMAIN to THEN to[c] ELSE n.local[c]
        /\ DOMAIN a.moved = DOMAIN to
        /\ \A c \in DOMAIN to : a.moved[c].old = bel[c] /\ a.moved[c].new = to[c]
    BY <1>1, AddAllIs
  <1>3. e = [a EXCEPT !.swap = <<x, y>>]
    BY DEF TwoTiles, n
  <1> HIDE DEF a
  <1>4. /\ Shape(e) /\ e.p = a.p /\ e.pc = a.pc /\ e.tiles = a.tiles /\ e.todo = a.todo
        /\ e.swap = <<x, y>> /\ e.local = a.local /\ e.moved = a.moved
    BY <1>2, <1>3 DEF Shape, Fields
  <1> QED BY <1>1, <1>2, <1>4

\* What do_tile_swap knows when it records the move of all cells of x and y.
Swaps(s, to, x, y) ==
  /\ x \in Tiles /\ y \in Tiles /\ x # y
  /\ DOMAIN to = s.tiles[x] \cup s.tiles[y]
  /\ \A c \in s.tiles[x] : to[c] = <<y[1], y[2], bel[c][3]>>
  /\ \A c \in s.tiles[y] : to[c] = <<x[1], x[2], bel[c][3]>>
  /\ \A c \in DOMAIN to : c \notin Locked /\ to[c] \in Bels /\ Inside(s.p, to[c])
  /\ \A z \in {x, y} : \A c \in s.tiles[z] :
       Clustered(c) => \A d \in Members(Cluster[c]) : TileOf(bel[d]) = z

SwapOf(s, to, x, y, bl, c) ==
  /\ c \in s.p.cells /\ c \in Cells
  /\ bl[c] \in Bels /\ Inside(s.p, bl[c])
  /\ TileOf(bl[c]) = IF c \in s.tiles[x] THEN x ELSE y
  /\ TileOf(to[c]) = IF c \in s.tiles[x] THEN y ELSE x
  /\ to[c][3] = bl[c][3]

LEMMA SwapsFacts ==
  ASSUME Now, NEW t \in Threads, th[t].pc = "tiles", NEW to, NEW x, NEW y,
         Swaps(th[t], to, x, y), NEW c \in DOMAIN to
  PROVE  SwapOf(th[t], to, x, y, bel, c)
  <1> DEFINE s == th[t]
  <1>1. ListedNow(s, bel) /\ Sound(s, bel) /\ bel \in [Cells -> Bels]
    BY TilesIs DEF Now, Tables
  <1>2. x \in Tiles /\ y \in Tiles
    BY DEF Swaps
  <1>3. \A z \in {x, y} : \A d \in s.tiles[z] : d \in s.p.cells /\ TileOf(bel[d]) = z
    BY <1>1, <1>2 DEF ListedNow
  <1>4. c \in s.tiles[x] \/ (c \in s.tiles[y] /\ c \notin s.tiles[x])
    BY DEF Swaps
  <1>5. c \in s.p.cells /\ TileOf(bel[c]) = IF c \in s.tiles[x] THEN x ELSE y
    BY <1>3, <1>4
  <1>6. c \in Cells /\ bel[c] \in Bels /\ Inside(s.p, bel[c])
    BY <1>1, <1>5 DEF Sound, Region
  <1>7. to[c] = IF c \in s.tiles[x] THEN <<y[1], y[2], bel[c][3]>>
                ELSE <<x[1], x[2], bel[c][3]>>
    BY <1>4 DEF Swaps
  <1>8. x = <<x[1], x[2]>> /\ y = <<y[1], y[2]>>
    BY <1>2, TileIs
  <1>9. TileOf(to[c]) = (IF c \in s.tiles[x] THEN y ELSE x) /\ to[c][3] = bel[c][3]
    BY <1>7, <1>8 DEF TileOf
  <1> QED BY <1>5, <1>6, <1>9 DEF SwapOf

LEMMA SwapsApart ==
  ASSUME Now, NEW t \in Threads, th[t].pc = "tiles", NEW to, NEW x, NEW y,
         Swaps(th[t], to, x, y), NEW c \in DOMAIN to, NEW d \in DOMAIN to, c # d
  PROVE  to[c] # to[d]
  <1> SUFFICES ASSUME to[c] = to[d] PROVE FALSE
    OBVIOUS
  <1> DEFINE s == th[t]
  <1>1. SwapOf(s, to, x, y, bel, c) /\ SwapOf(s, to, x, y, bel, d)
    BY SwapsFacts
  <1>2. TileOf(bel[c]) = TileOf(bel[d]) /\ bel[c][3] = bel[d][3]
    BY <1>1 DEF Swaps, SwapOf
  <1>3. bel[c] = bel[d]
    <2>1. bel[c][1] = bel[d][1] /\ bel[c][2] = bel[d][2]
      BY <1>2 DEF TileOf
    <2>2. bel[c] \in Bels /\ bel[d] \in Bels
      BY <1>1 DEF SwapOf
    <2> QED BY <1>2, <2>1, <2>2, Coordinates
  <1> QED BY <1>1, <1>3 DEF Now, Tables, SwapOf

WithRoot(to, c, d) ==
  /\ d \in DOMAIN to /\ Root[Cluster[c]] \in DOMAIN to
  /\ to[d] = Plus(to[Root[Cluster[c]]], Offset[d])

LEMMA SwapsTogether ==
  ASSUME Now, NEW t \in Threads, th[t].pc = "tiles", NEW to, NEW x, NEW y,
         Swaps(th[t], to, x, y), NEW c \in DOMAIN to, Clustered(c),
         NEW d \in Members(Cluster[c])
  PROVE  WithRoot(to, c, d)
  <1> DEFINE s == th[t]
             r == Root[Cluster[c]]
             z == IF c \in s.tiles[x] THEN x ELSE y
             w == IF c \in s.tiles[x] THEN y ELSE x
  <1>1. ListedNow(s, bel) /\ Sound(s, bel) /\ s.pc \notin Binding /\ bel \in [Cells -> Bels]
    BY TilesIs DEF Now, Tables
  <1>2. /\ c \in s.p.cells /\ c \in Cells /\ bel[c] \in Bels /\ Inside(s.p, bel[c])
        /\ TileOf(bel[c]) = z
    <2>1. SwapOf(s, to, x, y, bel, c)
      BY SwapsFacts
    <2> QED BY <2>1 DEF SwapOf
  <1>3. c \in s.tiles[z] /\ z \in Tiles /\ w \in Tiles /\ z \in {x, y}
    BY DEF Swaps
  <1>4. Cluster[c] \in Clusters
    BY <1>2, ParallelRefineAssumption DEF Clustered
  <1>5. r \in Members(Cluster[c]) /\ Members(Cluster[c]) \subseteq Cells
    BY <1>4, ClusterFacts
  <1>6. \A e \in Members(Cluster[c]) : TileOf(bel[e]) = z
    BY <1>3 DEF Swaps
  <1>7. ASSUME NEW e \in Members(Cluster[c])
        PROVE  e \in s.tiles[z] /\ e \in DOMAIN to /\ to[e] = <<w[1], w[2], bel[e][3]>>
    <2>1. e \in Cells /\ bel[e] \in Bels /\ TileOf(bel[e]) = z
      BY <1>1, <1>5, <1>6
    <2>2. Inside(s.p, bel[e])
      BY <1>2, <2>1, TileInside
    <2>3. e \in s.p.cells
      BY <1>1, <1>2, <2>1, <2>2 DEF Sound, Region
    <2>4. e \in s.tiles[z]
      BY <1>1, <1>3, <2>1, <2>3 DEF ListedNow
    <2> QED BY <2>4 DEF Swaps
  <1>8. bel[d] \in Bels /\ bel[r] \in Bels /\ TileOf(bel[d]) = TileOf(bel[r])
        /\ Offset[d] \in Int \X Int \X Int
    BY <1>1, <1>5, <1>6, ParallelRefineAssumption
  <1>9. \A i \in 1 .. 3 : bel[d][i] = bel[r][i] + Offset[d][i]
    BY <1>1, <1>2, ShapeNow
  <1>10. <<w[1], w[2], bel[d][3]>> = Plus(<<w[1], w[2], bel[r][3]>>, Offset[d])
    BY <1>3, <1>8, <1>9, TileShift
  <1> QED BY <1>5, <1>7, <1>10 DEF WithRoot

LEMMA SwapsGood ==
  ASSUME Now, NEW t \in Threads, th[t].pc = "tiles", NEW to, NEW x, NEW y,
         Swaps(th[t], to, x, y), NEW e, e = TwoTiles(th[t], to, x, y)
  PROVE  Good(Decide(e), bel, bound) /\ Decide(e).p = th[t].p /\ Decide(e).pc = "decide"
  <1> DEFINE s == th[t]
  <1>1. /\ ListedNow(s, bel) /\ Sound(s, bel) /\ s.pc \notin Binding
        /\ DOMAIN s.local = Cells /\ \A c \in s.p.cells : s.local[c] = bel[c]
    BY TilesIs
  <1>2. Shape(s)
    BY <1>1 DEF Sound
  <1>3. /\ Shape(e) /\ e.p = s.p /\ e.pc = s.pc
        /\ e.tiles = s.tiles /\ e.todo = s.todo \ {x} /\ e.swap = <<x, y>>
        /\ DOMAIN e.local = Cells
        /\ \A c \in Cells : e.local[c] = IF c \in DOMAIN to THEN to[c] ELSE s.local[c]
        /\ DOMAIN e.moved = DOMAIN to
        /\ \A c \in DOMAIN to : e.moved[c].old = bel[c] /\ e.moved[c].new = to[c]
    BY <1>2, TwoTilesIs
  <1>4. \A c \in DOMAIN to : SwapOf(s, to, x, y, bel, c)
    BY SwapsFacts
  <1>5. \A c \in DOMAIN to : c \notin Locked /\ to[c] \in Bels /\ Inside(s.p, to[c])
    BY DEF Swaps
  <1>6. Recorded(e, bel)
    <2>1. DOMAIN e.moved \subseteq e.p.cells \ Locked
      BY <1>3, <1>4, <1>5 DEF SwapOf
    <2>2. ASSUME NEW c \in DOMAIN e.moved
          PROVE  /\ e.moved[c].old \in Bels /\ Inside(e.p, e.moved[c].old)
                 /\ e.moved[c].new \in Bels /\ Inside(e.p, e.moved[c].new)
                 /\ bel[c] = e.moved[c].old
      BY <1>3, <1>4, <1>5 DEF SwapOf
    <2>3. ASSUME NEW c \in DOMAIN e.moved, NEW d \in DOMAIN e.moved, c # d
          PROVE  e.moved[c].new # e.moved[d].new
      <3>1. c \in DOMAIN to /\ d \in DOMAIN to /\ s.pc = "tiles"
        BY <1>3
      <3>2. to[c] # to[d]
        BY <2>3, <3>1, SwapsApart
      <3> QED BY <1>3, <3>1, <3>2
    <2> QED BY <1>1, <1>3, <2>1, <2>2, <2>3 DEF Recorded
  <1>7. LocalTrue(e, bel)
    BY <1>1, <1>3 DEF LocalTrue, Sound, Region
  <1>8. Sound(e, bel)
    BY <1>1, <1>3, <1>6, <1>7 DEF Sound
  <1>9. Together(e)
    <2> SUFFICES ASSUME NEW c \in DOMAIN e.moved, Clustered(c), NEW d \in Members(Cluster[c])
                 PROVE  /\ d \in DOMAIN e.moved
                        /\ e.moved[d].new = Plus(e.moved[Root[Cluster[c]]].new, Offset[d])
      BY DEF Together, Carried
    <2>1. WithRoot(to, c, d)
      BY <1>3, SwapsTogether
    <2> QED BY <1>3, <2>1 DEF WithRoot
  <1>10. Listed(e, bel)
    <2>1. ListedNow(e, bel)
      BY <1>1, <1>3 DEF ListedNow
    <2> QED BY <1>1, <1>3, <1>6, <2>1, ListedAgain
  <1>11. Swapped(e)
    <2>1. x \in Tiles /\ y \in Tiles /\ x # y /\ DOMAIN to = s.tiles[x] \cup s.tiles[y]
      BY DEF Swaps
    <2>2. \A c \in DOMAIN e.moved :
            TileOf(e.moved[c].new) = IF c \in e.tiles[x] THEN y ELSE x
      BY <1>3, <1>4 DEF SwapOf
    <2> QED BY <1>3, <2>1, <2>2 DEF Swapped
  <1>12. Closed(e, bound)
    <2> SUFFICES ASSUME NEW c \in DOMAIN to, bound[to[c]] # NoCell
                 PROVE  bound[to[c]] \in DOMAIN to
      BY <1>3 DEF Closed
    <2> DEFINE o == bound[to[c]]
               z == IF c \in s.tiles[x] THEN y ELSE x
    <2>1. o \in Cells /\ bel[o] = to[c]
      BY <1>5 DEF Now, Tables
    <2>2. o \in s.p.cells
      BY <1>1, <1>4, <1>5, <2>1 DEF Sound, Region, SwapOf
    <2>3. TileOf(bel[o]) = z /\ z \in Tiles
      BY <1>4, <2>1 DEF SwapOf, Swaps
    <2>4. o \in s.tiles[z]
      BY <1>1, <2>2, <2>3 DEF ListedNow
    <2> QED BY <2>4 DEF Swaps
  <1>13. Complete(e, bel)
    BY <1>9, <1>10, <1>11 DEF Complete
  <1>14. Good(Decide(e), bel, bound)
    BY <1>1, <1>3, <1>8, <1>12, <1>13, GoodDecide
  <1>15. Decide(e).p = s.p /\ Decide(e).pc = "decide"
    BY <1>3, DecideIs
  <1> QED BY <1>14, <1>15

LEMMA TileSwapKept ==
  ASSUME Now, NEW t \in Threads, TileSwap(t)
  PROVE  Kept(t)
  <1> DEFINE s == th[t]
             fixed(x) == \E c \in s.tiles[x] :
               \/ c \in Locked
               \/ Clustered(c) /\ \E d \in Members(Cluster[c]) : TileOf(bel[d]) # x
             cells(x, y) == s.tiles[x] \cup s.tiles[y]
             at(c, x) == <<x[1], x[2], bel[c][3]>>
             to(x, y) == [c \in cells(x, y) |-> at(c, IF c \in s.tiles[x] THEN y ELSE x)]
  <1>1. /\ s.pc = "tiles" /\ ListedNow(s, bel) /\ Sound(s, bel) /\ s.pc \notin Binding
        /\ s.moved = <<>> /\ s.queue = <<>> /\ s.dest = <<>> /\ s.used = {} /\ s.swap = <<>>
        /\ DOMAIN s.local = Cells /\ \A c \in s.p.cells : s.local[c] = bel[c]
    BY TilesIs DEF TileSwap
  <1>2. PICK x \in s.todo, y \in {z \in Tiles : Inside(s.p, z)} :
          Goto(t, IF \/ x = y
                     \/ fixed(x) \/ fixed(y)
                     \/ \E c \in cells(x, y) : to(x, y)[c] \notin Bels
                     \/ \E c \in cells(x, y) : ~CanAdd(s, bel[c], to(x, y)[c])
                  THEN TileDone(s, x)
                  ELSE Decide(TwoTiles(s, to(x, y), x, y)))
    BY DEF TileSwap, TileDone, TwoTiles
  <1>3. x \in Tiles /\ y \in Tiles
    BY <1>1 DEF ListedNow
  <1>4. CASE Goto(t, TileDone(s, x))
    <2> DEFINE e == TileDone(s, x)
    <2>1. /\ Shape(e) /\ e.p = s.p /\ e.pc = s.pc /\ e.moved = s.moved /\ e.local = s.local
          /\ e.queue = s.queue /\ e.dest = s.dest /\ e.used = s.used
          /\ e.tiles = s.tiles /\ e.swap = s.swap /\ e.todo = s.todo \ {x}
      BY <1>1, TileDoneIs DEF Sound
    <2> HIDE DEF e
    <2>2. ListedNow(e, bel)
      BY <1>1, <2>1 DEF ListedNow
    <2>3. Good(e, bel, bound)
      BY <1>1, <2>1, <2>2, GoodSettled DEF Sound, Settled
    <2>4. Goto(t, e)
      BY <1>4 DEF e
    <2> QED BY <1>1, <2>1, <2>3, <2>4, GotoKept
  <1>5. CASE /\ x # y /\ ~fixed(x) /\ ~fixed(y)
             /\ \A c \in cells(x, y) : to(x, y)[c] \in Bels /\ CanAdd(s, bel[c], to(x, y)[c])
             /\ Goto(t, Decide(TwoTiles(s, to(x, y), x, y)))
    <2> DEFINE f == to(x, y)
    <2>1. s.tiles[x] \cap s.tiles[y] = {}
      BY <1>1, <1>3, <1>5 DEF ListedNow
    <2>2. /\ DOMAIN f = s.tiles[x] \cup s.tiles[y]
          /\ \A c \in s.tiles[x] : f[c] = <<y[1], y[2], bel[c][3]>>
          /\ \A c \in s.tiles[y] : f[c] = <<x[1], x[2], bel[c][3]>>
      BY <2>1
    <2>3. \A c \in s.tiles[x] \cup s.tiles[y] : f[c] \in Bels /\ CanAdd(s, bel[c], f[c])
      BY <1>5
    <2>4. Goto(t, Decide(TwoTiles(s, f, x, y)))
      BY <1>5
    <2> HIDE DEF f
    <2>5. /\ \A c \in DOMAIN f : c \notin Locked
          /\ \A z \in {x, y} : \A c \in s.tiles[z] :
               Clustered(c) => \A d \in Members(Cluster[c]) : TileOf(bel[d]) = z
      BY <1>5, <2>2
    <2>6. Swaps(s, f, x, y)
      BY <1>3, <1>5, <2>2, <2>3, <2>5 DEF Swaps, CanAdd
    <2> DEFINE e == TwoTiles(s, f, x, y)
    <2>7. Good(Decide(e), bel, bound) /\ Decide(e).p = s.p /\ Decide(e).pc = "decide"
      BY <1>1, <2>6, SwapsGood
    <2> QED BY <1>1, <2>4, <2>7, GotoKept DEF Binding
  <1> QED BY <1>2, <1>4, <1>5

-----------------------------------------------------------------------------
\* bind_move and revert_move: some cells are unbound and bound to other bels,
\* each free or left by one of them.
Rebound(to, bl, bd, bl2, bd2) ==
  /\ Tables(bl2, bd2)
  /\ \A c \in Cells : bl2[c] = IF c \in DOMAIN to THEN to[c] ELSE bl[c]
  /\ \A b \in Bels : bd2[b] # bd[b] => \E c \in DOMAIN to : b = to[c] \/ b = bl[c]

Distinct(to) ==
  /\ DOMAIN to \subseteq Cells
  /\ \A c \in DOMAIN to : to[c] \in Bels /\ \A d \in DOMAIN to : c # d => to[c] # to[d]

LEMMA UnbindIs ==
  ASSUME Tables(bel, bound), NEW to, Distinct(to),
         NEW gone, \A b : b \in gone <=> \E c \in DOMAIN to : b = bel[c]
  PROVE  /\ \A c \in Cells : Unbind(gone).bel[c] = IF c \in DOMAIN to THEN NoBel ELSE bel[c]
         /\ \A b \in Bels : Unbind(gone).bound[b] = IF b \in gone THEN NoCell ELSE bound[b]
         /\ gone \subseteq Bels /\ \A b \in gone : bound[b] # NoCell
  <1>1. \A c \in Cells : (\E b \in gone : bound[b] = c) <=> c \in DOMAIN to
    BY DEF Tables, Distinct
  <1>2. gone \subseteq Bels /\ \A b \in gone : bound[b] # NoCell
    BY DetailPlaceAssumption DEF Tables, Distinct
  <1> QED BY <1>1, <1>2 DEF Unbind

LEMMA Rebind ==
  ASSUME Tables(bel, bound), NEW to, Distinct(to),
         NEW gone, \A b : b \in gone <=> \E c \in DOMAIN to : b = bel[c],
         \A c \in DOMAIN to : bound[to[c]] \in DOMAIN to \cup {NoCell}
  PROVE  /\ Free(Unbind(gone), to)
         /\ Rebound(to, bel, bound, Bind(Unbind(gone), to).bel, Bind(Unbind(gone), to).bound)
  <1> DEFINE u == Unbind(gone)
             bl2 == Bind(u, to).bel
             bd2 == Bind(u, to).bound
  <1>1. /\ \A c \in Cells : u.bel[c] = IF c \in DOMAIN to THEN NoBel ELSE bel[c]
        /\ \A b \in Bels : u.bound[b] = IF b \in gone THEN NoCell ELSE bound[b]
        /\ gone \subseteq Bels
    BY UnbindIs
  <1> HIDE DEF u
  <1>2. /\ bl2 = [c \in Cells |-> IF c \in DOMAIN to THEN to[c] ELSE u.bel[c]]
        /\ bd2 = [b \in Bels |->
             IF \E c \in DOMAIN to : to[c] = b THEN CHOOSE c \in DOMAIN to : to[c] = b
             ELSE u.bound[b]]
    BY DEF Bind
  <1> HIDE DEF bl2, bd2
  <1>3. /\ bl2 \in [Cells -> Bels]
        /\ \A c \in Cells : bl2[c] = IF c \in DOMAIN to THEN to[c] ELSE bel[c]
    BY <1>1, <1>2 DEF Tables, Distinct
  <1>4. ASSUME NEW c \in DOMAIN to PROVE to[c] \in Bels /\ bd2[to[c]] = c
    <2>1. to[c] \in Bels /\ \A d \in DOMAIN to : to[d] = to[c] => d = c
      BY DEF Distinct
    <2>2. (CHOOSE d \in DOMAIN to : to[d] = to[c]) = c
      BY <2>1
    <2> QED BY <1>2, <2>1, <2>2
  <1>5. ASSUME NEW b \in Bels, \A c \in DOMAIN to : to[c] # b
        PROVE  bd2[b] = IF b \in gone THEN NoCell ELSE bound[b]
    BY <1>1, <1>2, <1>5
  <1>6. \A c \in DOMAIN to : u.bound[to[c]] = NoCell
    <2> SUFFICES ASSUME NEW c \in DOMAIN to, to[c] \notin gone PROVE bound[to[c]] = NoCell
      BY <1>1 DEF Distinct
    <2>1. \A d \in DOMAIN to : bound[to[c]] # d
      BY DEF Tables, Distinct
    <2> QED BY <2>1
  <1>7. bd2 \in [Bels -> Cells \cup {NoCell}]
    <2>1. ASSUME NEW b \in Bels PROVE bd2[b] \in Cells \cup {NoCell}
      <3>1. CASE \E c \in DOMAIN to : to[c] = b
        BY <1>4, <3>1 DEF Distinct
      <3>2. CASE \A c \in DOMAIN to : to[c] # b
        BY <1>5, <3>2 DEF Tables
      <3> QED BY <3>1, <3>2
    <2> QED BY <1>2, <2>1
  <1>8. ASSUME NEW c \in Cells, NEW b \in Bels PROVE bd2[b] = c <=> bl2[c] = b
    <2>1. CASE \E d \in DOMAIN to : to[d] = b
      <3>1. PICK d \in DOMAIN to : to[d] = b
        BY <2>1
      <3>2. bd2[b] = d /\ d \in Cells /\ bl2[d] = b
        BY <1>3, <1>4, <3>1 DEF Distinct
      <3>3. CASE c \in DOMAIN to
        BY <1>3, <3>1, <3>2, <3>3 DEF Distinct
      <3>4. CASE c \notin DOMAIN to
        <4>1. bl2[c] = bel[c] /\ bd2[b] # c
          BY <1>3, <3>2, <3>4
        <4>2. bel[c] # b
          <5>1. bound[b] \in DOMAIN to \cup {NoCell}
            BY <3>1
          <5>2. c # NoCell
            BY DetailPlaceAssumption
          <5> QED BY <3>4, <5>1, <5>2 DEF Tables
        <4> QED BY <4>1, <4>2
      <3> QED BY <3>3, <3>4
    <2>2. CASE \A d \in DOMAIN to : to[d] # b
      <3>1. bd2[b] = IF b \in gone THEN NoCell ELSE bound[b]
        BY <1>5, <2>2
      <3>2. CASE c \in DOMAIN to
        <4>1. bl2[c] # b
          BY <1>3, <2>2, <3>2
        <4>2. bound[b] = c => b \in gone
          BY <3>2 DEF Tables
        <4> QED BY <3>1, <4>1, <4>2, DetailPlaceAssumption
      <3>3. CASE c \notin DOMAIN to
        <4>1. bl2[c] = bel[c]
          BY <1>3, <3>3
        <4>2. bel[c] = b => b \notin gone
          BY <3>3 DEF Tables, Distinct
        <4> QED BY <3>1, <4>1, <4>2, DetailPlaceAssumption DEF Tables
      <3> QED BY <3>2, <3>3
    <2> QED BY <2>1, <2>2
  <1>9. \A b \in Bels : bd2[b] # bound[b] => \E c \in DOMAIN to : b = to[c] \/ b = bel[c]
    BY <1>5
  <1>10. Free(u, to)
    BY <1>6 DEF Free, Distinct
  <1>11. Rebound(to, bel, bound, bl2, bd2)
    BY <1>3, <1>7, <1>8, <1>9 DEF Rebound, Tables
  <1> QED BY <1>10, <1>11 DEF u, bl2, bd2

\* The cells of a part go to bels of its own.
Within(p, to) == DOMAIN to \subseteq p.cells /\ \A c \in DOMAIN to : Inside(p, to[c])

Gone(p, to, bl, bl2) == \A c \in p.cells : bl2[c] = IF c \in DOMAIN to THEN to[c] ELSE bl[c]

\* The thread's part and map are right after it, and nothing else is touched.
LEMMA ReboundOnly ==
  ASSUME NEW p, NEW to, NEW bl, NEW bd, NEW bl2, NEW bd2,
         Region(p, bl), Rebound(to, bl, bd, bl2, bd2),
         Within(p, to)
  PROVE  /\ Region(p, bl2) /\ Only(p, bl, bd, bl2, bd2) /\ Tables(bl2, bd2)
         /\ Gone(p, to, bl, bl2)
  <1>1. \A c \in Cells : bl2[c] = IF c \in DOMAIN to THEN to[c] ELSE bl[c]
    BY DEF Rebound
  <1>2. Region(p, bl2)
    BY <1>1 DEF Region, Within
  <1>3. Only(p, bl, bd, bl2, bd2)
    BY <1>1 DEF Region, Rebound, Only, Within
  <1> QED BY <1>1, <1>2, <1>3 DEF Region, Rebound, Gone

\* A complete move, bound.
LEMMA GoodBound ==
  ASSUME NEW s, NEW s2, NEW bl, NEW bl2, NEW bd2, Sound(s, bl), s.pc \notin Binding,
         Complete(s, bl),
         Shape(s2), s2.p = s.p, s2.moved = s.moved, s2.local = s.local,
         s2.tiles = s.tiles, s2.todo = s.todo, s2.swap = s.swap, s2.pc = "validate",
         Region(s.p, bl2),
         \A c \in s.p.cells : bl2[c] = IF c \in DOMAIN s.moved THEN s.moved[c].new ELSE bl[c]
  PROVE  Good(s2, bl2, bd2)
  <1>1. Recorded(s2, bl2)
    BY DEF Sound, Recorded, Binding
  <1>2. LocalTrue(s2, bl2)
    BY DEF Sound, LocalTrue
  <1>3. \A c \in s.p.cells : Before(s2, bl2, c) = Before(s, bl, c)
    BY DEF Before
  <1>4. Listed(s, bl) => Listed(s2, bl2)
    BY <1>3 DEF Listed
  <1>5. (Together(s) => Together(s2)) /\ (OneCluster(s) => OneCluster(s2))
    BY DEF Together, Carried, OneCluster
  <1>6. Swapped(s) => Swapped(s2)
    BY DEF Swapped
  <1>7. Complete(s2, bl2)
    BY <1>4, <1>5, <1>6 DEF Complete
  <1>8. Phase(s2, bl2, bd2)
    BY <1>7 DEF Phase, Settled, Binding
  <1> QED BY <1>1, <1>2, <1>8 DEF Good

DecidedOn(s) ==
  /\ Sound(s, bel) /\ Complete(s, bel) /\ Closed(s, bound) /\ s.pc \notin Binding
  /\ DOMAIN s.moved \subseteq s.p.cells /\ s.p.cells \subseteq Cells
  /\ \A c \in DOMAIN s.moved :
       /\ s.moved[c].old = bel[c]
       /\ s.moved[c].new \in Bels /\ Inside(s.p, s.moved[c].new)
       /\ \A d \in DOMAIN s.moved : c # d => s.moved[c].new # s.moved[d].new

LEMMA DecideFacts ==
  ASSUME Now, NEW t \in Threads, th[t].pc = "decide"
  PROVE  DecidedOn(th[t])
  <1>1. Good(th[t], bel, bound) /\ Sound(th[t], bel)
    BY NowIs
  <1>2. Complete(th[t], bel) /\ Closed(th[t], bound) /\ th[t].pc \notin Binding
    BY <1>1 DEF Good, Phase, Binding
  <1> QED BY <1>1, <1>2 DEF DecidedOn, Good, Region, Recorded

LEMMA BindMoveKept ==
  ASSUME Now, NEW t \in Threads, BindMove(t)
  PROVE  Kept(t)
  <1> DEFINE s == th[t]
             m == s.moved
             old == {m[c].old : c \in DOMAIN m}
             To(cells) == [c \in cells |-> m[c].new]
             to == To(DOMAIN m)
             u == Unbind(old)
  <1>1. DecidedOn(s) /\ Tables(bel, bound)
    BY DecideFacts DEF BindMove, Now
  <1>2. /\ aborted' = (aborted \/ \E b \in old : bound[b] = NoCell)
        /\ \E done \in SUBSET DOMAIN m :
             /\ Free(u, To(done))
             /\ done = DOMAIN m \/ \E c \in DOMAIN m \ done : ~Free(u, To(done \cup {c}))
             /\ bel' = Bind(u, To(done)).bel
             /\ bound' = Bind(u, To(done)).bound
             /\ th' = [th EXCEPT ![t].pc = IF done = DOMAIN m THEN "validate" ELSE "revert"]
    BY DEF BindMove
  <1>3. DOMAIN to = DOMAIN m /\ \A c \in DOMAIN m : to[c] = m[c].new
    OBVIOUS
  <1>4. Distinct(to)
    BY <1>1, <1>3 DEF DecidedOn, Distinct
  <1>5. \A b : b \in old <=> \E c \in DOMAIN to : b = bel[c]
    BY <1>1, <1>3 DEF DecidedOn
  <1>6. \A c \in DOMAIN to : bound[to[c]] \in DOMAIN to \cup {NoCell}
    BY <1>1, <1>3 DEF DecidedOn, Closed
  <1>7. /\ Free(u, to)
        /\ Rebound(to, bel, bound, Bind(u, to).bel, Bind(u, to).bound)
    <2> HIDE DEF to, old
    <2> QED BY <1>1, <1>4, <1>5, <1>6, Rebind
  <1>8. \A b \in old : bound[b] # NoCell
    <2> HIDE DEF to, old
    <2> QED BY <1>1, <1>4, <1>5, UnbindIs
  <1> HIDE DEF u, old
  <1>9. PICK done \in SUBSET DOMAIN m :
          /\ done = DOMAIN m \/ \E c \in DOMAIN m \ done : ~Free(u, To(done \cup {c}))
          /\ bel' = Bind(u, To(done)).bel
          /\ bound' = Bind(u, To(done)).bound
          /\ th' = [th EXCEPT ![t].pc = IF done = DOMAIN m THEN "validate" ELSE "revert"]
    BY <1>2
  <1>10. \A c \in DOMAIN m \ done : Free(u, To(done \cup {c}))
    BY <1>7 DEF Free
  <1>11. done = DOMAIN m
    BY <1>9, <1>10
  <1> HIDE DEF to, To, m
  <1>12. /\ Rebound(to, bel, bound, bel', bound')
         /\ th' = [th EXCEPT ![t].pc = "validate"] /\ (~aborted => ~aborted')
    <2>1. To(done) = to
      BY <1>11 DEF to
    <2>2. bel' = Bind(u, to).bel /\ bound' = Bind(u, to).bound
      BY <1>9, <2>1
    <2>3. Rebound(to, bel, bound, bel', bound')
      BY <1>7, <2>2
    <2>4. th' = [th EXCEPT ![t].pc = "validate"]
      BY <1>9, <1>11
    <2> QED BY <1>2, <1>8, <2>3, <2>4
  <1> DEFINE s2 == th'[t]
  <1>13. s2 = [s EXCEPT !.pc = "validate"] /\ th' = [th EXCEPT ![t] = s2]
    BY <1>12, NowIs
  <1>14. /\ Shape(s2) /\ s2.p = s.p /\ s2.pc = "validate" /\ s2.moved = s.moved
         /\ s2.local = s.local /\ s2.tiles = s.tiles /\ s2.todo = s.todo /\ s2.swap = s.swap
    BY <1>1, <1>13 DEF DecidedOn, Sound, Shape, Fields
  <1>15. /\ Region(s.p, bel') /\ Only(s.p, bel, bound, bel', bound') /\ Tables(bel', bound')
         /\ \A c \in s.p.cells : bel'[c] = IF c \in DOMAIN to THEN to[c] ELSE bel[c]
    <2>1. Region(s.p, bel)
      BY <1>1 DEF DecidedOn, Sound
    <2>2. Within(s.p, to)
      BY <1>1, <1>3 DEF DecidedOn, Within, m
    <2>3. /\ Region(s.p, bel') /\ Only(s.p, bel, bound, bel', bound') /\ Tables(bel', bound')
          /\ Gone(s.p, to, bel, bel')
      BY <1>12, <2>1, <2>2, ReboundOnly
    <2> QED BY <2>3 DEF Gone
  <1> HIDE DEF s2
  <1>16. Good(s2, bel', bound')
    BY <1>1, <1>3, <1>14, <1>15, GoodBound DEF DecidedOn, m
  <1>17. Steps(t)
    BY <1>13, <1>14, <1>15, <1>16 DEF Steps, OneMoves, s2
  <1>18. \A c \in s.p.cells : Before(s2, bel', c) = Before(s, bel, c)
    BY <1>3, <1>14, <1>15 DEF Before, m
  <1>19. Placed' = Placed
    BY <1>17, <1>18, PlacedStays DEF s2
  <1> QED BY <1>12, <1>17, <1>19 DEF Kept

-----------------------------------------------------------------------------
\* check_validity.
BoundFacts(s) ==
  /\ Sound(s, bel) /\ Complete(s, bel) /\ s.pc \in Binding
  /\ DOMAIN s.moved \subseteq s.p.cells \ Locked /\ s.p.cells \subseteq Cells
  /\ \A c \in DOMAIN s.moved :
       /\ s.moved[c].old \in Bels /\ Inside(s.p, s.moved[c].old)
       /\ s.moved[c].new \in Bels /\ Inside(s.p, s.moved[c].new)
       /\ bel[c] = s.moved[c].new
  /\ s.tiles = <<>> \/ Listed(s, bel)

LEMMA BindingIs ==
  ASSUME Now, NEW t \in Threads, th[t].pc \in Binding
  PROVE  BoundFacts(th[t])
  <1>1. Good(th[t], bel, bound) /\ Sound(th[t], bel)
    BY NowIs
  <1>2. Complete(th[t], bel)
    BY <1>1 DEF Good, Phase
  <1>3. th[t].tiles = <<>> \/ Listed(th[t], bel)
    BY <1>2 DEF Complete
  <1> QED BY <1>1, <1>2, <1>3 DEF BoundFacts, Good, Region, Recorded

\* What check_validity leaves.
LEMMA GoodChecked ==
  ASSUME NEW s, NEW s2, NEW bl, NEW bd, Sound(s, bl), s.pc \in Binding, Complete(s, bl),
         Shape(s2), s2.p = s.p, s2.moved = s.moved, s2.local = s.local,
         s2.tiles = s.tiles, s2.todo = s.todo, s2.swap = s.swap, s2.pc \in {"commit", "revert"},
         s2.pc = "commit" =>
           \A c \in DOMAIN s.moved : Fits(s.moved[c].old, bd) /\ Fits(s.moved[c].new, bd)
  PROVE  Good(s2, bl, bd)
  <1>1. Sound(s2, bl)
    BY SoundSame DEF Binding
  <1>2. Listed(s, bl) => Listed(s2, bl)
    BY DEF Listed, Before
  <1>3. (Together(s) => Together(s2)) /\ (OneCluster(s) => OneCluster(s2))
    BY DEF Together, Carried, OneCluster
  <1>4. Swapped(s) => Swapped(s2)
    BY DEF Swapped
  <1>5. Complete(s2, bl)
    BY <1>2, <1>3, <1>4 DEF Complete
  <1>6. Phase(s2, bl, bd)
    BY <1>5 DEF Phase, Settled, Binding
  <1> QED BY <1>1, <1>6 DEF Good, Sound

LEMMA CheckValidityKept ==
  ASSUME Now, NEW t \in Threads, CheckValidity(t)
  PROVE  Kept(t)
  <1> DEFINE s == th[t]
             ok == \A c \in DOMAIN s.moved : Valid(s.moved[c].old) /\ Valid(s.moved[c].new)
             s2 == [s EXCEPT !.pc = IF ok THEN "commit" ELSE "revert"]
  <1>1. BoundFacts(s)
    BY BindingIs DEF CheckValidity, Binding
  <1>2. Goto(t, s2)
    BY NowIs DEF CheckValidity, Goto
  <1> HIDE DEF ok
  <1>3. /\ Shape(s2) /\ s2.p = s.p /\ s2.moved = s.moved /\ s2.local = s.local
        /\ s2.tiles = s.tiles /\ s2.todo = s.todo /\ s2.swap = s.swap
        /\ s2.pc = IF ok THEN "commit" ELSE "revert"
    BY <1>1 DEF BoundFacts, Sound, Shape, Fields
  <1> HIDE DEF s2
  <1>4. ok => \A c \in DOMAIN s.moved :
                Fits(s.moved[c].old, bound) /\ Fits(s.moved[c].new, bound)
    BY DEF ok, Valid, Fits
  <1>5. Good(s2, bel, bound)
    BY <1>1, <1>3, <1>4, GoodChecked DEF BoundFacts
  <1>6. Steps(t) /\ th'[t] = s2 /\ bel' = bel /\ aborted' = aborted
    BY <1>2, <1>3, <1>5, GotoSteps
  <1>7. \A c \in s.p.cells : Before(s2, bel, c) = Before(s, bel, c)
    BY <1>3 DEF Before
  <1> QED BY <1>6, <1>7, PlacedStays DEF Kept

-----------------------------------------------------------------------------
\* revert_move: the old bels are free again, whoever is bound now.
Olds(s) == [c \in DOMAIN s.moved |-> s.moved[c].old]

LEMMA OldsFree ==
  ASSUME Now, NEW t \in Threads, th[t].pc \in Binding,
         NEW to, to = Olds(th[t])
  PROVE  /\ Distinct(to) /\ Within(th[t].p, to)
         /\ \A c \in DOMAIN to : bound[to[c]] \in DOMAIN to \cup {NoCell}
  <1> DEFINE s == th[t]
  <1>1. BoundFacts(s) /\ Good(s, bel, bound) /\ Tables(bel, bound)
    BY BindingIs, NowIs DEF Now
  <1>2. DOMAIN to = DOMAIN s.moved /\ \A c \in DOMAIN to : to[c] = s.moved[c].old
    BY DEF Olds
  <1>3. /\ DOMAIN to \subseteq s.p.cells /\ s.p.cells \subseteq Cells
        /\ \A c \in DOMAIN to : to[c] \in Bels /\ Inside(s.p, to[c])
    BY <1>1, <1>2 DEF BoundFacts
  <1>4. \A c \in s.p.cells : Placed[c] = IF c \in DOMAIN to THEN to[c] ELSE bel[c]
    <2>1. \A c \in s.p.cells : Where(th, bel, c) = Before(s, bel, c)
      BY OwnPlace DEF Now
    <2>2. \A c \in Cells : Placed[c] = Where(th, bel, c)
      BY PlacedIsWhere
    <2> QED BY <1>2, <1>3, <2>1, <2>2 DEF Before
  <1>5. \A c, d \in Cells : c # d => Placed[c] # Placed[d]
    BY LegalIsLawful DEF Now, Lawful
  <1>6. Distinct(to)
    BY <1>3, <1>4, <1>5 DEF Distinct
  <1>7. ASSUME NEW c \in DOMAIN to, bound[to[c]] # NoCell PROVE bound[to[c]] \in DOMAIN to
    <2>1. bound[to[c]] \in Cells /\ bel[bound[to[c]]] = to[c]
      BY <1>1, <1>3, <1>7 DEF Tables
    <2>2. bound[to[c]] \in s.p.cells
      BY <1>1, <1>3, <2>1 DEF Good, Region
    <2> QED BY <1>3, <1>4, <1>5, <2>1, <2>2
  <1> QED BY <1>3, <1>6, <1>7 DEF Within

\* What revert_move leaves is the thread before its move.
LEMMA GoodReverted ==
  ASSUME NEW s, NEW bl, NEW bl2, NEW bd2, Sound(s, bl), s.tiles = <<>> \/ Listed(s, bl),
         Region(s.p, bl2), NEW to, to = Olds(s), Gone(s.p, to, bl, bl2)
  PROVE  /\ Good(Reset(s), bl2, bd2)
         /\ \A c \in s.p.cells : Before(s, bl, c) = Before(Reset(s), bl2, c)
  <1>1. DOMAIN to = DOMAIN s.moved /\ \A c \in DOMAIN to : to[c] = s.moved[c].old
    BY DEF Olds
  <1>2. \A c \in s.p.cells : Before(s, bl, c) = bl2[c]
    BY <1>1 DEF Gone, Before
  <1>3. \A c \in s.p.cells :
          IF c \in DOMAIN s.moved THEN s.moved[c].old = bl2[c] ELSE s.local[c] = bl2[c]
    BY <1>1 DEF Gone, Sound, LocalTrue
  <1>4. s.tiles = <<>> \/ ListedNow(s, bl2)
    <2>1. \A x \in Tiles : {c \in s.p.cells : TileOf(Before(s, bl, c)) = x} =
                           {c \in s.p.cells : TileOf(bl2[c]) = x}
      BY <1>2
    <2> QED BY <2>1 DEF Listed, ListedNow
  <1>5. Shape(s) /\ DOMAIN s.local = Cells
    BY DEF Sound, LocalTrue
  <1>6. Good(Reset(s), bl2, bd2)
    BY <1>3, <1>4, <1>5, GoodReset
  <1>7. DOMAIN Reset(s).moved = {}
    BY <1>5, ResetIs, EmptyDomain
  <1> QED BY <1>2, <1>6, <1>7 DEF Before

LEMMA RevertMoveKept ==
  ASSUME Now, NEW t \in Threads, RevertMove(t)
  PROVE  Kept(t)
  <1> DEFINE s == th[t]
             to == Olds(s)
             gone == {bel[c] : c \in DOMAIN s.moved} \ {NoBel}
             u == Unbind(gone)
  <1>1. BoundFacts(s) /\ s.pc \in Binding
    BY BindingIs DEF RevertMove, Binding
  <1>2. /\ Distinct(to) /\ Within(s.p, to)
        /\ \A c \in DOMAIN to : bound[to[c]] \in DOMAIN to \cup {NoCell}
    BY <1>1, OldsFree
  <1>3. /\ aborted' = (aborted \/ ~Free(u, to))
        /\ bel' = Bind(u, to).bel /\ bound' = Bind(u, to).bound
        /\ th' = [th EXCEPT ![t] = Reset(@)]
    BY DEF RevertMove, Olds
  <1>4. \A b : b \in gone <=> \E c \in DOMAIN to : b = bel[c]
    <2>1. DOMAIN to = DOMAIN s.moved /\ \A c \in DOMAIN s.moved : bel[c] # NoBel
      BY <1>1, DetailPlaceAssumption DEF BoundFacts, Olds
    <2> QED BY <2>1
  <1> HIDE DEF to, gone
  <1>5. Free(u, to) /\ Rebound(to, bel, bound, Bind(u, to).bel, Bind(u, to).bound)
    BY <1>2, <1>4, Rebind DEF Now
  <1> HIDE DEF u
  <1>6. Rebound(to, bel, bound, bel', bound') /\ (~aborted => ~aborted')
    BY <1>3, <1>5
  <1>7. Region(s.p, bel) /\ Sound(s, bel)
    BY <1>1 DEF BoundFacts, Sound
  <1>8. /\ Region(s.p, bel') /\ Only(s.p, bel, bound, bel', bound') /\ Tables(bel', bound')
        /\ Gone(s.p, to, bel, bel')
    BY <1>2, <1>6, <1>7, ReboundOnly
  <1>9. s.tiles = <<>> \/ Listed(s, bel)
    BY <1>1 DEF BoundFacts
  <1>10. to = Olds(s)
    BY DEF to
  <1>11. /\ Good(Reset(s), bel', bound')
         /\ \A c \in s.p.cells : Before(s, bel, c) = Before(Reset(s), bel', c)
    BY <1>7, <1>8, <1>9, <1>10, GoodReverted
  <1>12. th'[t] = Reset(s) /\ th' = [th EXCEPT ![t] = Reset(s)] /\ Reset(s).p = s.p
    BY <1>3, <1>7, NowIs, ResetIs DEF Sound
  <1>13. Steps(t)
    BY <1>8, <1>11, <1>12 DEF Steps, OneMoves
  <1>14. Placed' = Placed
    BY <1>11, <1>12, <1>13, PlacedStays
  <1> QED BY <1>6, <1>13, <1>14 DEF Kept

-----------------------------------------------------------------------------
\* commit_move: tile2cell follows the swap.
LEMMA SwapListed ==
  ASSUME NEW s, NEW bl, Listed(s, bl), Swapped(s), Recorded(s, bl), s.pc \in Binding,
         NEW k, k.p = s.p, k.tiles = SwapTiles(s.tiles, s.swap), k.todo = s.todo
  PROVE  ListedNow(k, bl)
  <1>1. PICK x \in Tiles, y \in Tiles :
          /\ x # y /\ s.swap = <<x, y>>
          /\ DOMAIN s.moved = s.tiles[x] \cup s.tiles[y]
          /\ \A c \in DOMAIN s.moved : TileOf(s.moved[c].new) = IF c \in s.tiles[x] THEN y ELSE x
    BY DEF Swapped
  <1>2. /\ s.tiles \in [Tiles -> SUBSET Cells] /\ s.todo \subseteq Tiles
        /\ \A z \in Tiles : s.tiles[z] = {c \in s.p.cells : TileOf(Before(s, bl, c)) = z}
    BY DEF Listed
  <1>3. /\ k.tiles \in [Tiles -> SUBSET Cells]
        /\ k.tiles[x] = s.tiles[y] /\ k.tiles[y] = s.tiles[x]
        /\ \A z \in Tiles \ {x, y} : k.tiles[z] = s.tiles[z]
    <2>1. s.swap[1] = x /\ s.swap[2] = y /\ s.swap # <<>>
      BY <1>1
    <2>2. k.tiles = [s.tiles EXCEPT ![x] = s.tiles[y], ![y] = s.tiles[x]]
      BY <2>1 DEF SwapTiles
    <2> QED BY <1>1, <1>2, <2>2
  <1>4. \A c \in DOMAIN s.moved : bl[c] = s.moved[c].new /\ c \in s.p.cells
    BY DEF Recorded
  <1>5. \A c \in s.p.cells \ DOMAIN s.moved : Before(s, bl, c) = bl[c]
    BY DEF Before
  <1>6. ASSUME NEW z \in Tiles, NEW c PROVE c \in k.tiles[z] <=> c \in s.p.cells /\ TileOf(bl[c]) = z
    <2>1. c \in s.tiles[x] => c \notin s.tiles[y]
      BY <1>1, <1>2
    <2>2. CASE c \in DOMAIN s.moved
      <3>1. TileOf(bl[c]) = (IF c \in s.tiles[x] THEN y ELSE x) /\ c \in s.p.cells
        BY <1>1, <1>4, <2>2
      <3>2. z \notin {x, y} => c \notin s.tiles[z]
        BY <1>1, <1>2, <2>2
      <3> QED BY <1>1, <1>3, <2>1, <2>2, <3>1, <3>2
    <2>3. CASE c \notin DOMAIN s.moved
      <3>1. c \notin s.tiles[x] /\ c \notin s.tiles[y]
        BY <1>1, <2>3
      <3>2. c \in s.tiles[z] <=> c \in s.p.cells /\ TileOf(bl[c]) = z
        BY <1>2, <1>5, <2>3
      <3> QED BY <1>3, <3>1, <3>2
    <2> QED BY <2>2, <2>3
  <1>7. \A z \in Tiles : k.tiles[z] = {c \in s.p.cells : TileOf(bl[c]) = z}
    BY <1>6
  <1> QED BY <1>2, <1>3, <1>7 DEF ListedNow

\* The thread at the end of commit_move.
Committed(s) ==
  [s EXCEPT
    !.box = [n \in DOMAIN @ |->
      IF \E i \in Axes : s.next[n].change[i] # "no" THEN s.next[n].box ELSE @[n]],
    !.moved = <<>>,
    !.tiles = SwapTiles(@, s.swap)]

LEMMA GoodCommitted ==
  ASSUME NEW s, NEW bl, NEW bd, Good(s, bl, bd), s.pc = "commit"
  PROVE  /\ Good(Reset(Committed(s)), bl, bd) /\ Reset(Committed(s)).p = s.p
         /\ Reset(Committed(s)).moved = <<>>
  <1> DEFINE k == Committed(s)
  <1>1. /\ Shape(k) /\ k.p = s.p /\ k.local = s.local /\ k.moved = <<>>
        /\ k.tiles = SwapTiles(s.tiles, s.swap) /\ k.todo = s.todo
    BY DEF Good, Shape, Fields, Committed
  <1> HIDE DEF k
  <1>2. DOMAIN k.moved = {}
    BY <1>1, EmptyDomain
  <1>3. \A c \in k.p.cells : k.local[c] = bl[c]
    BY <1>1 DEF Good, LocalTrue, Recorded, Binding
  <1>4. k.tiles = <<>> \/ ListedNow(k, bl)
    <2>1. Complete(s, bl) /\ s.pc \in Binding /\ Recorded(s, bl)
      BY DEF Good, Phase, Binding
    <2>2. CASE s.swap = <<>> /\ s.tiles = <<>>
      BY <1>1, <2>2 DEF SwapTiles
    <2>3. CASE Listed(s, bl) /\ Swapped(s)
      BY <1>1, <2>1, <2>3, SwapListed
    <2> QED BY <2>1, <2>2, <2>3 DEF Complete
  <1>5. Region(k.p, bl) /\ DOMAIN k.local = Cells
    BY <1>1 DEF Good, LocalTrue
  <1>6. Good(Reset(k), bl, bd)
    BY <1>1, <1>2, <1>3, <1>4, <1>5, GoodReset
  <1> QED BY <1>1, <1>6, ResetIs DEF k

\* What a thread commits: its cells' places change, and the other cells are
\* outside of its rectangle.
Commits(s, bl, bd, pl, pl2) ==
  /\ Tables(bl, bd) /\ Good(s, bl, bd) /\ s.pc = "commit" /\ Lawful(pl)
  /\ pl2 = [c \in Cells |-> pl2[c]]
  /\ \A c \in Cells : pl2[c] = IF c \in s.p.cells THEN bl[c] ELSE pl[c]
  /\ \A c \in s.p.cells : pl[c] = Before(s, bl, c)
  /\ s.p.cells # {} => \A c \in Cells : c \in s.p.cells <=> Inside(s.p, pl[c])

LEMMA CommitsFacts ==
  ASSUME NEW s, NEW bl, NEW bd, NEW pl, NEW pl2, Commits(s, bl, bd, pl, pl2)
  PROVE  /\ DOMAIN s.moved \subseteq s.p.cells \ Locked /\ s.p.cells \subseteq Cells
         /\ \A c \in Cells : pl2[c] \in Bels
         /\ \A c \in Cells \ DOMAIN s.moved : pl2[c] = pl[c]
         /\ \A c \in DOMAIN s.moved :
              /\ pl2[c] = s.moved[c].new /\ Inside(s.p, s.moved[c].new)
              /\ pl[c] = s.moved[c].old /\ Inside(s.p, s.moved[c].old)
         /\ s.p.cells # {} => \A c \in Cells : c \in s.p.cells <=> Inside(s.p, pl2[c])
         /\ s.p.cells # {} => \A c \in Cells : c \in s.p.cells <=> Inside(s.p, bl[c])
  <1>1. Region(s.p, bl) /\ Recorded(s, bl) /\ s.pc \in Binding
    BY DEF Commits, Good, Binding
  <1>2. DOMAIN s.moved \subseteq s.p.cells \ Locked /\ s.p.cells \subseteq Cells
    BY <1>1 DEF Recorded, Region
  <1>3. \A c \in Cells : pl2[c] \in Bels
    BY DEF Commits, Tables, Lawful
  <1>4. \A c \in Cells \ DOMAIN s.moved : pl2[c] = pl[c]
    BY DEF Commits, Before
  <1>5. ASSUME NEW c \in DOMAIN s.moved
        PROVE  /\ pl2[c] = s.moved[c].new /\ Inside(s.p, s.moved[c].new)
               /\ pl[c] = s.moved[c].old /\ Inside(s.p, s.moved[c].old)
    BY <1>1, <1>2 DEF Commits, Recorded, Before
  <1>6. s.p.cells # {} => \A c \in Cells : c \in s.p.cells <=> Inside(s.p, bl[c])
    BY <1>1 DEF Region
  <1>7. s.p.cells # {} => \A c \in Cells : c \in s.p.cells <=> Inside(s.p, pl2[c])
    BY <1>6 DEF Commits
  <1> QED BY <1>2, <1>3, <1>4, <1>5, <1>6, <1>7

LEMMA CommitsApart ==
  ASSUME NEW s, NEW bl, NEW bd, NEW pl, NEW pl2, Commits(s, bl, bd, pl, pl2),
         NEW c \in Cells, NEW d \in Cells, c # d
  PROVE  pl2[c] # pl2[d]
  <1>1. \A x \in Cells : pl2[x] = IF x \in s.p.cells THEN bl[x] ELSE pl[x]
    BY DEF Commits
  <1>2. CASE c \in s.p.cells /\ d \in s.p.cells
    BY <1>1, <1>2 DEF Commits, Tables
  <1>3. CASE c \notin s.p.cells /\ d \notin s.p.cells
    BY <1>1, <1>3 DEF Commits, Lawful
  <1>4. s.p.cells # {} => \A x \in Cells : x \in s.p.cells <=> Inside(s.p, pl2[x])
    BY CommitsFacts
  <1> QED BY <1>2, <1>3, <1>4

LEMMA CommitsRigid ==
  ASSUME NEW s, NEW bl, NEW bd, NEW pl, NEW pl2, Commits(s, bl, bd, pl, pl2),
         NEW k \in Clusters, NEW c \in Cells, Cluster[c] = k, NEW i \in 1 .. 3
  PROVE  pl2[c][i] = pl2[Root[k]][i] + Offset[c][i]
  <1> DEFINE r == Root[k]
  <1>1. /\ r \in Cells /\ Cluster[r] = k /\ k # NoCluster /\ c \in Members(k) /\ r \in Members(k)
    BY ParallelRefineAssumption DEF Members
  <1>2. \A d \in Cells \ DOMAIN s.moved : pl2[d] = pl[d]
    BY CommitsFacts
  <1>3. \A d \in DOMAIN s.moved : pl2[d] = s.moved[d].new /\ d \in Cells
    BY CommitsFacts
  <1>4. Together(s)
    BY DEF Commits, Good, Phase, Complete, Binding
  <1>5. CASE c \in DOMAIN s.moved \/ r \in DOMAIN s.moved
    <2>1. Carried(s, k)
      BY <1>1, <1>4, <1>5 DEF Together, Clustered
    <2>2. c \in DOMAIN s.moved /\ r \in DOMAIN s.moved
          /\ s.moved[c].new = Plus(s.moved[r].new, Offset[c])
      BY <1>1, <2>1 DEF Carried
    <2>3. pl2[c] = Plus(pl2[r], Offset[c])
      BY <1>3, <2>2
    <2> HIDE DEF r
    <2>4. pl2[c][1] = pl2[r][1] + Offset[c][1] /\ pl2[c][2] = pl2[r][2] + Offset[c][2]
          /\ pl2[c][3] = pl2[r][3] + Offset[c][3]
      BY <2>3 DEF Plus
    <2>5. i = 1 \/ i = 2 \/ i = 3
      OBVIOUS
    <2> QED BY <2>4, <2>5 DEF r
  <1>6. CASE c \notin DOMAIN s.moved /\ r \notin DOMAIN s.moved
    <2>1. pl2[c] = pl[c] /\ pl2[r] = pl[r]
      BY <1>1, <1>2, <1>6
    <2>2. pl[c][i] = pl[r][i] + Offset[c][i]
      BY DEF Commits, Lawful
    <2> QED BY <2>1, <2>2
  <1> QED BY <1>5, <1>6

LEMMA CommitsSharing ==
  ASSUME NEW s, NEW bl, NEW bd, NEW pl, NEW pl2, Commits(s, bl, bd, pl, pl2), NEW b \in Bels
  PROVE  {c \in Cells : pl2[c][1] = b[1] /\ pl2[c][2] = b[2]} \in Compatible
  <1> DEFINE In(x) == x[1] = b[1] /\ x[2] = b[2]
  <1>1. \A x : In(x) <=> TileOf(x) = TileOf(b)
    BY DEF TileOf
  <1>2. CASE \E c \in DOMAIN s.moved : In(s.moved[c].old) \/ In(s.moved[c].new)
    <2>1. PICK o : /\ Inside(s.p, o) /\ TileOf(o) = TileOf(b) /\ Fits(o, bd)
                   /\ s.p.cells # {}
      <3>1. PICK c \in DOMAIN s.moved : In(s.moved[c].old) \/ In(s.moved[c].new)
        BY <1>2
      <3>2. Fits(s.moved[c].old, bd) /\ Fits(s.moved[c].new, bd)
        BY DEF Commits, Good, Phase
      <3>3. /\ Inside(s.p, s.moved[c].old) /\ Inside(s.p, s.moved[c].new)
            /\ s.p.cells # {}
        BY CommitsFacts
      <3> HIDE DEF In
      <3> QED BY <1>1, <3>1, <3>2, <3>3
    <2>2. \A c \in Cells : In(bl[c]) <=> In(pl2[c])
      <3> SUFFICES ASSUME NEW c \in Cells PROVE In(bl[c]) <=> In(pl2[c])
        OBVIOUS
      <3>1. \A x : In(x) => Inside(s.p, x)
        BY <1>1, <2>1, TileInside
      <3>2. (c \in s.p.cells <=> Inside(s.p, pl2[c])) /\ (c \in s.p.cells <=> Inside(s.p, bl[c]))
        BY <2>1, CommitsFacts
      <3>3. c \in s.p.cells => pl2[c] = bl[c]
        BY DEF Commits
      <3> HIDE DEF In
      <3> QED BY <3>1, <3>2, <3>3
    <2> DEFINE held == {bd[x] : x \in {y \in Bels : TileOf(y) = TileOf(o)}} \ {NoCell}
               there == {c \in Cells : In(pl2[c])}
    <2>3. \A y \in Bels : TileOf(y) = TileOf(o) <=> In(y)
      BY <1>1, <2>1
    <2>4. bl \in [Cells -> Bels] /\ bd \in [Bels -> Cells \cup {NoCell}] /\ NoCell \notin Cells
          /\ \A c \in Cells, x \in Bels : bd[x] = c <=> bl[c] = x
      BY DetailPlaceAssumption DEF Commits, Tables
    <2>5. ASSUME NEW c PROVE c \in held <=> c \in Cells /\ In(bl[c])
      <3> HIDE DEF In
      <3>1. c \in held <=> \E y \in Bels : In(y) /\ c = bd[y] /\ c # NoCell
        BY <2>3
      <3> HIDE DEF held
      <3>2. ASSUME NEW y \in Bels, In(y), c = bd[y], c # NoCell PROVE c \in Cells /\ In(bl[c])
        BY <2>4, <3>2
      <3>3. ASSUME c \in Cells, In(bl[c]) PROVE \E y \in Bels : In(y) /\ c = bd[y] /\ c # NoCell
        BY <2>4, <3>3
      <3> QED BY <3>1, <3>2, <3>3
    <2>6. held = there
      <3> HIDE DEF In, held
      <3> QED BY <2>2, <2>5
    <2>7. held \in Compatible
      BY <2>1 DEF Fits
    <2> QED BY <2>6, <2>7
  <1>3. CASE \A c \in DOMAIN s.moved : ~In(s.moved[c].old) /\ ~In(s.moved[c].new)
    <2>1. \A c \in Cells : In(pl2[c]) <=> In(pl[c])
      <3> SUFFICES ASSUME NEW c \in Cells PROVE In(pl2[c]) <=> In(pl[c])
        OBVIOUS
      <3>1. IF c \in DOMAIN s.moved THEN pl2[c] = s.moved[c].new /\ pl[c] = s.moved[c].old
            ELSE pl2[c] = pl[c]
        BY CommitsFacts
      <3> HIDE DEF In
      <3> QED BY <1>3, <3>1
    <2>2. {c \in Cells : In(pl2[c])} = {c \in Cells : In(pl[c])}
      BY <2>1
    <2>3. {c \in Cells : In(pl[c])} \in Compatible
      BY DEF Commits, Lawful
    <2> QED BY <2>2, <2>3
  <1> QED BY <1>2, <1>3

LEMMA CommitsLawful ==
  ASSUME NEW s, NEW bl, NEW bd, NEW pl, NEW pl2, Commits(s, bl, bd, pl, pl2)
  PROVE  Lawful(pl2) /\ \A c \in Locked : pl2[c] = pl[c]
  <1>1. \A c \in Cells : pl2[c] \in Bels
    BY CommitsFacts
  <1>2. pl2 = [c \in Cells |-> pl2[c]]
    BY DEF Commits
  <1>3. pl2 \in [Cells -> Bels]
    BY <1>1, <1>2
  <1>4. \A c, d \in Cells : c # d => pl2[c] # pl2[d]
    BY CommitsApart
  <1>5. \A k \in Clusters, c \in Cells : Cluster[c] = k =>
          \A i \in 1 .. 3 : pl2[c][i] = pl2[Root[k]][i] + Offset[c][i]
    BY CommitsRigid
  <1>6. \A b \in Bels : {c \in Cells : pl2[c][1] = b[1] /\ pl2[c][2] = b[2]} \in Compatible
    BY CommitsSharing
  <1>7. \A c \in Locked : pl2[c] = pl[c]
    BY CommitsFacts, DetailPlaceAssumption
  <1> QED BY <1>3, <1>4, <1>5, <1>6, <1>7 DEF Lawful

\* What a step of a thread keeps.
Moved(t) ==
  /\ Steps(t) /\ (~aborted => ~aborted')
  /\ Lawful(Placed') /\ \A c \in Locked : Placed'[c] = Placed[c]

LEMMA CommitMoveMoves ==
  ASSUME Now, NEW t \in Threads, CommitMove(t)
  PROVE  Moved(t)
  <1> DEFINE s == th[t]
  <1>1. /\ Good(s, bel, bound) /\ s.pc = "commit" /\ Tables(bel, bound)
        /\ Goto(t, Reset(Committed(s)))
    BY NowIs DEF CommitMove, Committed, Goto, Now
  <1>2. /\ Good(Reset(Committed(s)), bel, bound) /\ Reset(Committed(s)).p = s.p
        /\ Reset(Committed(s)).moved = <<>>
    BY <1>1, GoodCommitted
  <1>3. /\ Steps(t) /\ th'[t] = Reset(Committed(s))
        /\ bel' = bel /\ bound' = bound /\ aborted' = aborted
    BY <1>1, <1>2, GotoSteps
  <1>4. \A c \in s.p.cells : Before(th'[t], bel', c) = bel[c]
    BY <1>2, <1>3, EmptyDomain DEF Before
  <1>5. \A c \in Cells : Placed[c] = Where(th, bel, c)
    BY PlacedIsWhere
  <1>6. Placed' = [c \in Cells |-> Where(th', bel', c)]
    BY DEF Placed, Where, Moving
  <1>7. \A c \in Cells : Where(th', bel', c) = IF c \in s.p.cells THEN Before(th'[t], bel', c)
                                               ELSE Where(th, bel, c)
    BY <1>3, PlaceStep DEF Now, Steps
  <1>8. \A c \in s.p.cells : Where(th, bel, c) = Before(s, bel, c)
    BY OwnPlace DEF Now
  <1>9. s.p.cells # {} =>
          \A c \in Cells : c \in s.p.cells <=> Inside(s.p, Where(th, bel, c))
    BY PlaceInside DEF Now
  <1>10. Lawful(Placed)
    BY LegalIsLawful DEF Now
  <1>11. s.p.cells \subseteq Cells
    BY NowIs
  <1>12. /\ Placed' = [c \in Cells |-> Placed'[c]]
         /\ \A c \in Cells : Placed'[c] = IF c \in s.p.cells THEN bel[c] ELSE Placed[c]
    BY <1>4, <1>5, <1>6, <1>7
  <1>13. Commits(s, bel, bound, Placed, Placed')
    <2>1. \A c \in s.p.cells : Placed[c] = Before(s, bel, c)
      BY <1>5, <1>8, <1>11
    <2>2. s.p.cells # {} => \A c \in Cells : c \in s.p.cells <=> Inside(s.p, Placed[c])
      BY <1>5, <1>9
    <2> QED BY <1>1, <1>10, <1>12, <2>1, <2>2 DEF Commits
  <1>14. Lawful(Placed') /\ \A c \in Locked : Placed'[c] = Placed[c]
    BY <1>13, CommitsLawful
  <1> QED BY <1>3, <1>14 DEF Moved

LEMMA KeptMoves ==
  ASSUME Now, NEW t \in Threads, Kept(t)
  PROVE  Moved(t)
  <1>1. Lawful(Placed) /\ Placed' = Placed
    BY LegalIsLawful DEF Now, Kept
  <1> QED BY <1>1 DEF Kept, Moved

LEMMA ThreadMoves ==
  ASSUME Now, NEW t \in Threads, Thread(t)
  PROVE  Moved(t) /\ UNCHANGED <<phase, parts, axis>> /\ th[t].pc # "done"
  <1>1. UNCHANGED <<phase, parts, axis>> /\ (Tries(t) \/ Settles(t))
    BY DEF Thread
  <1>2. ASSUME SingleCellSwap(t) PROVE Moved(t) /\ th[t].pc # "done"
    <2>1. Moved(t)
      BY <1>2, SingleCellSwapKept, KeptMoves
    <2>2. th[t].pc = "idle"
      BY <1>2 DEF SingleCellSwap, Idle
    <2> QED BY <2>1, <2>2
  <1>3. ASSUME ChainSwap(t) PROVE Moved(t) /\ th[t].pc # "done"
    <2>1. Moved(t)
      BY <1>3, ChainSwapKept, KeptMoves
    <2>2. th[t].pc = "idle"
      BY <1>3 DEF ChainSwap, Idle
    <2> QED BY <2>1, <2>2
  <1>4. ASSUME ChainCluster(t) PROVE Moved(t) /\ th[t].pc # "done"
    <2>1. Moved(t)
      BY <1>4, ChainClusterKept, KeptMoves
    <2>2. th[t].pc = "chain"
      BY <1>4 DEF ChainCluster
    <2> QED BY <2>1, <2>2
  <1>5. ASSUME ChainCell(t) PROVE Moved(t) /\ th[t].pc # "done"
    <2>1. Moved(t)
      BY <1>5, ChainCellKept, KeptMoves
    <2>2. th[t].pc = "chain"
      BY <1>5 DEF ChainCell
    <2> QED BY <2>1, <2>2
  <1>6. ASSUME TileSwaps(t) PROVE Moved(t) /\ th[t].pc # "done"
    <2>1. Moved(t)
      BY <1>6, TileSwapsKept, KeptMoves
    <2>2. th[t].pc = "idle"
      BY <1>6 DEF TileSwaps, Idle
    <2> QED BY <2>1, <2>2
  <1>7. ASSUME TileSwap(t) PROVE Moved(t) /\ th[t].pc # "done"
    <2>1. Moved(t)
      BY <1>7, TileSwapKept, KeptMoves
    <2>2. th[t].pc = "tiles"
      BY <1>7 DEF TileSwap
    <2> QED BY <2>1, <2>2
  <1>8. ASSUME EndTileSwaps(t) PROVE Moved(t) /\ th[t].pc # "done"
    <2>1. Moved(t)
      BY <1>8, EndTileSwapsKept, KeptMoves
    <2>2. th[t].pc = "tiles"
      BY <1>8 DEF EndTileSwaps
    <2> QED BY <2>1, <2>2
  <1>9. ASSUME EndIter(t) PROVE Moved(t) /\ th[t].pc # "done"
    <2>1. Moved(t)
      BY <1>9, EndIterKept, KeptMoves
    <2>2. th[t].pc = "idle"
      BY <1>9 DEF EndIter
    <2> QED BY <2>1, <2>2
  <1>10. ASSUME Reject(t) PROVE Moved(t) /\ th[t].pc # "done"
    <2>1. Moved(t)
      BY <1>10, RejectKept, KeptMoves
    <2>2. th[t].pc = "decide"
      BY <1>10 DEF Reject
    <2> QED BY <2>1, <2>2
  <1>11. ASSUME BindMove(t) PROVE Moved(t) /\ th[t].pc # "done"
    <2>1. Moved(t)
      BY <1>11, BindMoveKept, KeptMoves
    <2>2. th[t].pc = "decide"
      BY <1>11 DEF BindMove
    <2> QED BY <2>1, <2>2
  <1>12. ASSUME CheckValidity(t) PROVE Moved(t) /\ th[t].pc # "done"
    <2>1. Moved(t)
      BY <1>12, CheckValidityKept, KeptMoves
    <2>2. th[t].pc = "validate"
      BY <1>12 DEF CheckValidity
    <2> QED BY <2>1, <2>2
  <1>13. ASSUME RevertMove(t) PROVE Moved(t) /\ th[t].pc # "done"
    <2>1. Moved(t)
      BY <1>13, RevertMoveKept, KeptMoves
    <2>2. th[t].pc = "revert"
      BY <1>13 DEF RevertMove
    <2> QED BY <2>1, <2>2
  <1>14. ASSUME CommitMove(t) PROVE Moved(t) /\ th[t].pc # "done"
    <2>1. Moved(t)
      BY <1>14, CommitMoveMoves
    <2>2. th[t].pc = "commit"
      BY <1>14 DEF CommitMove
    <2> QED BY <2>1, <2>2
  <1> QED BY <1>1, <1>2, <1>3, <1>4, <1>5, <1>6, <1>7, <1>8, <1>9, <1>10, <1>11, <1>12, <1>13, <1>14
         DEF Tries, Settles

-----------------------------------------------------------------------------
\* The least and the greatest of finitely many numbers.
LEMMA LeastNat ==
  ASSUME NEW T, T \subseteq Nat, T # {}
  PROVE  \E n \in T : \A m \in T : n <= m
  <1> DEFINE R == {ss \in Nat \X Nat : ss[1] < ss[2]}
  <1>1. IsWellFoundedOn(R, Nat)
    BY NatLessThanWellFounded DEF OpToRel
  <1> HIDE DEF R
  <1>2. PICK n \in T : \A m \in T : ~(<<m, n>> \in R)
    BY <1>1, WFMin
  <1>3. ASSUME NEW m \in T PROVE n <= m
    <2>1. <<m, n>> \notin R /\ m \in Nat /\ n \in Nat
      BY <1>2
    <2>2. <<m, n>> \in Nat \X Nat /\ <<m, n>>[1] = m /\ <<m, n>>[2] = n
      BY <2>1
    <2>3. ~(<<m, n>>[1] < <<m, n>>[2])
      BY <2>1, <2>2 DEF R
    <2> QED BY <2>1, <2>2, <2>3
  <1> QED BY <1>3

LEMMA Bounded ==
  ASSUME NEW S \in SUBSET Nat, IsFiniteSet(S)
  PROVE  \E u \in Nat : \A x \in S : x <= u
  <1> DEFINE Unbounded(T) == ~ \E u \in Nat : \A x \in T : x <= u
             Bad(n) == \E T \in SUBSET Nat :
                         IsFiniteSet(T) /\ Cardinality(T) = n /\ Unbounded(T)
             Bads == {n \in Nat : Bad(n)}
  <1>1. SUFFICES ASSUME Bads # {} PROVE FALSE
    <2>1. Cardinality(S) \in Nat
      BY FS_CardinalityType
    <2> QED BY <2>1
  <1>2. PICK n \in Bads : \A m \in Bads : n <= m
    <2>1. Bads \subseteq Nat
      OBVIOUS
    <2> HIDE DEF Bads
    <2> QED BY <1>1, <2>1, LeastNat
  <1>3. PICK T \in SUBSET Nat : IsFiniteSet(T) /\ Cardinality(T) = n /\ Unbounded(T)
    BY <1>2
  <1>4. PICK y \in T : TRUE
    BY <1>3
  <1>5. IsFiniteSet(T \ {y}) /\ Cardinality(T \ {y}) = n - 1 /\ n - 1 \in Nat
    <2>1. IsFiniteSet(T \ {y}) /\ Cardinality(T \ {y}) = Cardinality(T) - 1
      BY <1>3, <1>4, FS_RemoveElement
    <2>2. Cardinality(T \ {y}) \in Nat
      BY <2>1, FS_CardinalityType
    <2> QED BY <1>3, <2>1, <2>2
  <1>6. n - 1 \notin Bads
    BY <1>2, <1>5
  <1>7. PICK u \in Nat : \A x \in T \ {y} : x <= u
    BY <1>5, <1>6, T \ {y} \in SUBSET Nat
  <1>8. \A x \in T : x <= (IF y <= u THEN u ELSE y)
    BY <1>7
  <1>9. (IF y <= u THEN u ELSE y) \in Nat
    OBVIOUS
  <1> QED BY <1>3, <1>8, <1>9

LEMMA MaxIs ==
  ASSUME NEW S \in SUBSET Nat, IsFiniteSet(S), S # {}
  PROVE  Max(S) \in Nat /\ \A x \in S : x <= Max(S)
  <1> DEFINE B == {u \in Nat : \A x \in S : x <= u}
  <1>1. PICK u \in B : \A v \in B : u <= v
    <2>1. B \subseteq Nat /\ B # {}
      BY Bounded
    <2> HIDE DEF B
    <2> QED BY <2>1, LeastNat
  <1>2. u \in S
    <2> SUFFICES ASSUME u \notin S PROVE FALSE
      OBVIOUS
    <2>1. \A x \in S : x <= u - 1 /\ x \in Nat
      BY <1>1
    <2>2. PICK x \in S : TRUE
      OBVIOUS
    <2>3. u - 1 \in Nat
      BY <1>1, <2>1, <2>2
    <2> QED BY <1>1, <2>1, <2>3
  <1>3. \E x \in S : \A y \in S : x >= y
    BY <1>1, <1>2
  <1> QED BY <1>3 DEF Max

LEMMA MinIs ==
  ASSUME NEW S \in SUBSET Nat, S # {}
  PROVE  Min(S) \in Nat /\ \A x \in S : Min(S) <= x
  <1>1. \E x \in S : \A y \in S : x <= y
    BY LeastNat
  <1> QED BY <1>1 DEF Min

\* The coordinates of all cells are inside of the whole.
LEMMA WholeIs ==
  ASSUME bel \in [Cells -> Bels], NEW w, w = Whole
  PROVE  Region(w, bel)
  <1>1. /\ w = [lo |-> w.lo, hi |-> w.hi, cells |-> w.cells] /\ w.cells = Cells
        /\ w.lo = [i \in Axes |-> Min({bel[c][i] : c \in Cells})]
        /\ w.hi = [i \in Axes |-> Max({bel[c][i] : c \in Cells})]
    BY DEF Whole
  <1>2. ASSUME NEW i \in Axes, Cells # {}
        PROVE  /\ w.lo[i] \in Nat /\ w.hi[i] \in Nat
               /\ \A c \in Cells : w.lo[i] <= bel[c][i] /\ bel[c][i] <= w.hi[i]
    <2> DEFINE S == {bel[c][i] : c \in Cells}
               f == [c \in Cells |-> bel[c][i]]
    <2>1. \A c \in Cells : bel[c][i] \in Nat
      <3>1. \A b \in Bels : b[1] \in Nat /\ b[2] \in Nat
        BY Coordinates
      <3>2. i = 1 \/ i = 2
        BY DEF Axes
      <3> QED BY <3>1, <3>2
    <2>2. S \in SUBSET Nat /\ S # {}
      BY <1>2, <2>1
    <2>3. f \in Surjection(Cells, S)
      BY DEF Surjection
    <2> HIDE DEF f
    <2>4. IsFiniteSet(S)
      <3> HIDE DEF S
      <3> QED BY <2>3, FS_Surjection, DetailPlaceAssumption
    <2>5. w.lo[i] = Min(S) /\ w.hi[i] = Max(S)
      BY <1>1
    <2>6. \A c \in Cells : bel[c][i] \in S
      OBVIOUS
    <2> HIDE DEF S
    <2> QED BY <2>2, <2>4, <2>5, <2>6, MinIs, MaxIs
  <1>3. Cells # {} => w.lo \in [Axes -> Int] /\ w.hi \in [Axes -> Int]
    <2> SUFFICES ASSUME Cells # {} PROVE w.lo \in [Axes -> Int] /\ w.hi \in [Axes -> Int]
      OBVIOUS
    <2>1. \A i \in Axes : w.lo[i] \in Int /\ w.hi[i] \in Int
      BY <1>2
    <2> QED BY <1>1, <2>1
  <1>4. Cells # {} => \A c \in Cells : Inside(w, bel[c])
    BY <1>2 DEF Inside
  <1> QED BY <1>1, <1>3, <1>4 DEF Region

\* The length of a sequence.
LEMMA LenIs ==
  ASSUME NEW n \in Nat, NEW s, s = [j \in 1 .. n |-> s[j]]
  PROVE  Len(s) = n /\ DOMAIN s = 1 .. n
  <1> DEFINE S == {s[j] : j \in 1 .. n}
  <1>1. s \in [1 .. n -> S]
    OBVIOUS
  <1> HIDE DEF S
  <1>2. s \in Seq(S)
    BY <1>1, SeqDef
  <1>3. Len(s) \in Nat /\ DOMAIN s = 1 .. Len(s) /\ DOMAIN s = 1 .. n
    BY <1>1, <1>2, LenProperties
  <1> QED BY <1>3

-----------------------------------------------------------------------------
\* PlacePartition::split: both halves are rectangles of their cells.
UpTo(p, i, x) == Cardinality({c \in p.cells : bel[c][i] <= x})

LEMMA PivotPointIs ==
  ASSUME NEW n \in Nat, NEW k \in PivotPoints(n), k # 0
  PROVE  k \in Nat /\ 1 <= k /\ k <= n
  <1>1. n # 0 /\ k \in (45 * n) \div 100 .. (n - 1) \div 2
    BY DEF PivotPoints
  <1>2. (45 * n) \div 100 \in Int /\ 0 <= (45 * n) \div 100
    OBVIOUS
  <1>3. (n - 1) \div 2 \in Int /\ (n - 1) \div 2 <= n
    BY <1>1
  <1> QED BY <1>1, <1>2, <1>3

\* The pivot is between the edges.
LEMMA PivotIs ==
  ASSUME bel \in [Cells -> Bels], NEW p, Region(p, bel), p.cells # {},
         NEW i \in Axes, NEW v \in Int, PivotCoord(p, i, v)
  PROVE  v <= p.hi[i] /\ (v = p.hi[i] \/ p.lo[i] <= v)
  <1>1. /\ p.lo[i] \in Int /\ p.hi[i] \in Int /\ p.cells \subseteq Cells
        /\ \A c \in p.cells : p.lo[i] <= bel[c][i] /\ bel[c][i] <= p.hi[i]
    BY DEF Region, Inside
  <1>2. \A c \in p.cells : bel[c][i] \in Int
    <2>1. \A b \in Bels : b[1] \in Nat /\ b[2] \in Nat
      BY Coordinates
    <2>2. i = 1 \/ i = 2
      BY DEF Axes
    <2> QED BY <1>1, <2>1, <2>2
  <1>3. IsFiniteSet(p.cells)
    BY <1>1, FS_Subset, DetailPlaceAssumption
  <1> DEFINE n == Cardinality(p.cells)
  <1>4. n \in Nat
    BY <1>3, FS_CardinalityType
  <1>5. PICK k \in PivotPoints(n) : IF k = 0 THEN v = p.hi[i]
                                    ELSE UpTo(p, i, v - 1) < k /\ k <= UpTo(p, i, v)
    BY DEF PivotCoord, UpTo
  <1>6. ASSUME k # 0 PROVE v <= p.hi[i] /\ p.lo[i] <= v
    <2>1. k \in Nat /\ 1 <= k /\ k <= n
      BY <1>4, <1>6, PivotPointIs
    <2>2. ASSUME ~(v <= p.hi[i]) PROVE FALSE
      <3>1. \A c \in p.cells : bel[c][i] <= v - 1
        BY <1>1, <1>2, <2>2
      <3>2. {c \in p.cells : bel[c][i] <= v - 1} = p.cells
        BY <3>1
      <3>3. UpTo(p, i, v - 1) = n
        BY <3>2 DEF UpTo
      <3> QED BY <1>4, <1>5, <1>6, <2>1, <3>3
    <2>3. ASSUME ~(p.lo[i] <= v) PROVE FALSE
      <3>1. \A c \in p.cells : ~(bel[c][i] <= v)
        BY <1>1, <1>2, <2>3
      <3>2. {c \in p.cells : bel[c][i] <= v} = {}
        BY <3>1
      <3>3. UpTo(p, i, v) = 0
        BY <3>2, FS_EmptySet DEF UpTo
      <3> QED BY <1>5, <1>6, <2>1, <3>3
    <2> QED BY <2>2, <2>3
  <1>7. k = 0 => v = p.hi[i]
    BY <1>5
  <1> QED BY <1>1, <1>6, <1>7

\* One half lies in the part.
Half(q, p, bl) ==
  /\ Region(q, bl)
  /\ q.cells # {} => p.cells # {} /\ \A b \in Bels : Inside(q, b) => Inside(p, b)

LEMMA LeftIs ==
  ASSUME bel \in [Cells -> Bels], NEW p, Region(p, bel), NEW i \in Axes, NEW v \in Int,
         PivotCoord(p, i, v), NEW q, q = Left(p, i, v)
  PROVE  /\ Half(q, p, bel)
         /\ q.cells # {} => \A b \in Bels : Inside(q, b) => b[i] <= v
  <1>1. /\ q = [lo |-> q.lo, hi |-> q.hi, cells |-> q.cells]
        /\ q.lo = p.lo /\ q.hi = [p.hi EXCEPT ![i] = v]
        /\ q.cells = {c \in p.cells : bel[c][i] <= v}
    BY DEF Region, Left
  <1>2. p.cells \subseteq Cells
    BY DEF Region
  <1>3. CASE q.cells = {}
    BY <1>1, <1>2, <1>3 DEF Half, Region
  <1>4. CASE q.cells # {}
    <2>1. p.cells # {} /\ p.lo \in [Axes -> Int] /\ p.hi \in [Axes -> Int]
      BY <1>1, <1>4 DEF Region
    <2>2. v <= p.hi[i]
      BY <2>1, PivotIs
    <2>3. q.lo \in [Axes -> Int] /\ q.hi \in [Axes -> Int] /\ q.hi[i] = v
          /\ \A a \in Axes : a # i => q.hi[a] = p.hi[a]
      BY <1>1, <2>1
    <2>4. \A b \in Bels, a \in Axes : b[a] \in Int
      BY Coordinates DEF Axes
    <2>5. \A b \in Bels : Inside(q, b) <=> Inside(p, b) /\ b[i] <= v
      BY <1>1, <2>1, <2>2, <2>3, <2>4 DEF Inside
    <2>6. \A c \in Cells : c \in p.cells <=> Inside(p, bel[c])
      BY <2>1 DEF Region
    <2>7. \A c \in Cells : c \in q.cells <=> Inside(q, bel[c])
      BY <1>1, <2>5, <2>6
    <2> QED BY <1>1, <1>2, <2>1, <2>3, <2>5, <2>7 DEF Half, Region
  <1> QED BY <1>3, <1>4

LEMMA RightIs ==
  ASSUME bel \in [Cells -> Bels], NEW p, Region(p, bel), NEW i \in Axes, NEW v \in Int,
         PivotCoord(p, i, v), NEW q, q = Right(p, i, v)
  PROVE  /\ Half(q, p, bel)
         /\ q.cells # {} => \A b \in Bels : Inside(q, b) => ~(b[i] <= v)
  <1>1. /\ q = [lo |-> q.lo, hi |-> q.hi, cells |-> q.cells]
        /\ q.hi = p.hi /\ q.lo = [p.lo EXCEPT ![i] = IF v = p.hi[i] THEN v ELSE v + 1]
        /\ q.cells = {c \in p.cells : bel[c][i] > v}
    BY DEF Region, Right
  <1>2. p.cells \subseteq Cells
    BY DEF Region
  <1>3. CASE q.cells = {}
    BY <1>1, <1>2, <1>3 DEF Half, Region
  <1>4. CASE q.cells # {}
    <2>1. p.cells # {} /\ p.lo \in [Axes -> Int] /\ p.hi \in [Axes -> Int]
      BY <1>1, <1>4 DEF Region
    <2>2. \A b \in Bels, a \in Axes : b[a] \in Int
      BY Coordinates DEF Axes
    <2>3. \A c \in Cells : c \in p.cells <=> Inside(p, bel[c])
      BY <2>1 DEF Region
    <2>4. v # p.hi[i]
      <3>1. PICK c \in p.cells : bel[c][i] > v
        BY <1>1, <1>4
      <3>2. bel[c][i] <= p.hi[i] /\ bel[c][i] \in Int /\ p.hi[i] \in Int
        BY <1>2, <2>1, <2>2, <2>3 DEF Inside
      <3> QED BY <3>1, <3>2
    <2>5. p.lo[i] <= v
      BY <2>1, <2>4, PivotIs
    <2>6. q.lo \in [Axes -> Int] /\ q.hi \in [Axes -> Int] /\ q.lo[i] = v + 1
          /\ \A a \in Axes : a # i => q.lo[a] = p.lo[a]
      BY <1>1, <2>1, <2>4
    <2>7. \A b \in Bels : Inside(q, b) <=> Inside(p, b) /\ v + 1 <= b[i]
      <3> SUFFICES ASSUME NEW b \in Bels
                   PROVE Inside(q, b) <=> Inside(p, b) /\ v + 1 <= b[i]
        OBVIOUS
      <3>1. v + 1 <= b[i] => p.lo[i] <= b[i]
        BY <2>1, <2>2, <2>5
      <3> QED BY <1>1, <2>6, <3>1 DEF Inside
    <2>8. \A b \in Bels : v + 1 <= b[i] <=> b[i] > v
      BY <2>2
    <2>9. \A c \in Cells : c \in q.cells <=> Inside(q, bel[c])
      BY <1>1, <2>3, <2>7, <2>8
    <2>10. \A b \in Bels : b[i] > v <=> ~(b[i] <= v)
      BY <2>2
    <2> QED BY <1>1, <1>2, <2>1, <2>6, <2>7, <2>8, <2>9, <2>10 DEF Half, Region
  <1> QED BY <1>3, <1>4

LEMMA Halved ==
  ASSUME NEW x \in Nat
  PROVE  x \div 2 \in Nat /\ x % 2 \in {0, 1} /\ x = 2 * (x \div 2) + (x % 2)
  <1>1. x % 2 \in {0, 1}
    OBVIOUS
  <1>2. x \div 2 \in Nat
    OBVIOUS
  <1>3. x = 2 * (x \div 2) + (x % 2)
    OBVIOUS
  <1> QED BY <1>1, <1>2, <1>3

LEMMA SameHalf ==
  ASSUME NEW j \in Nat, NEW k \in Nat, (j + 1) \div 2 = (k + 1) \div 2, j % 2 = 1 <=> k % 2 = 1
  PROVE  j = k
  <1> DEFINE a == (j + 1) \div 2
             b == (j + 1) % 2
             c == (k + 1) % 2
             d == j \div 2
             e == k \div 2
             f == j % 2
             g == k % 2
  <1>1. /\ a \in Nat /\ b \in {0, 1} /\ c \in {0, 1} /\ d \in Nat /\ e \in Nat
        /\ f \in {0, 1} /\ g \in {0, 1} /\ f = g
        /\ j + 1 = 2 * a + b /\ k + 1 = 2 * a + c /\ j = 2 * d + f /\ k = 2 * e + g
    <2>1. j + 1 \in Nat /\ k + 1 \in Nat
      OBVIOUS
    <2> QED BY <2>1, Halved
  <1> HIDE DEF a, b, c, d, e, f, g
  <1> QED BY <1>1

\* do_partition: the halves of all parts.
LEMMA CutParts ==
  ASSUME bel \in [Cells -> Bels], Parts, Cut
  PROVE  Parts'
  <1> DEFINE n == Len(parts)
  <1>1. /\ n \in Nat \ {0} /\ parts = [j \in 1 .. n |-> parts[j]] /\ axis \in Axes
        /\ \A j \in 1 .. n : Region(parts[j], bel)
        /\ \A j, k \in 1 .. n : j # k => Apart(parts[j], parts[k])
    BY DEF Parts, Cut
  <1>2. DOMAIN parts = 1 .. n
    BY <1>1
  <1>3. PICK v \in [DOMAIN parts -> 0 .. Whole.hi[axis]] :
          /\ \A j \in DOMAIN parts : PivotCoord(parts[j], axis, v[j])
          /\ parts' = [j \in 1 .. 2 * n |->
               LET k == (j + 1) \div 2
               IN  IF j % 2 = 1 THEN Left(parts[k], axis, v[k])
                   ELSE Right(parts[k], axis, v[k])]
    BY DEF Cut
  <1>4. \A j \in 1 .. n : v[j] \in Int /\ PivotCoord(parts[j], axis, v[j])
    BY <1>2, <1>3
  <1> DEFINE K(j) == (j + 1) \div 2
             m == 2 * n
  <1>5. m \in Nat \ {0} /\ \A j \in 1 .. m : K(j) \in 1 .. n
    BY <1>1
  <1>6. \A j, k \in 1 .. m : K(j) = K(k) /\ j # k => ~(j % 2 = 1 <=> k % 2 = 1)
    <2>1. \A j \in 1 .. m : j \in Nat
      BY <1>1
    <2> QED BY <2>1, SameHalf
  <1>7. /\ parts' = [j \in 1 .. m |-> parts'[j]]
        /\ \A j \in 1 .. m :
             parts'[j] = IF j % 2 = 1 THEN Left(parts[K(j)], axis, v[K(j)])
                         ELSE Right(parts[K(j)], axis, v[K(j)])
    BY <1>3
  <1> HIDE DEF K, m
  <1>8. Len(parts') = m
    BY <1>5, <1>7, LenIs
  <1>9. ASSUME NEW j \in 1 .. m
        PROVE  /\ Half(parts'[j], parts[K(j)], bel)
               /\ parts'[j].cells # {} => \A b \in Bels : Inside(parts'[j], b) =>
                    IF j % 2 = 1 THEN b[axis] <= v[K(j)] ELSE ~(b[axis] <= v[K(j)])
    <2>1. /\ K(j) \in 1 .. n /\ Region(parts[K(j)], bel) /\ v[K(j)] \in Int
          /\ PivotCoord(parts[K(j)], axis, v[K(j)])
      BY <1>1, <1>4, <1>5
    <2>2. CASE j % 2 = 1
      <3>1. parts'[j] = Left(parts[K(j)], axis, v[K(j)])
        BY <1>7, <2>2
      <3> QED BY <1>1, <2>1, <2>2, <3>1, LeftIs
    <2>3. CASE ~(j % 2 = 1)
      <3>1. parts'[j] = Right(parts[K(j)], axis, v[K(j)])
        BY <1>7, <2>3
      <3> QED BY <1>1, <2>1, <2>3, <3>1, RightIs
    <2> QED BY <2>2, <2>3
  <1>10. \A j \in 1 .. m : Region(parts'[j], bel)
    BY <1>9 DEF Half
  <1>11. ASSUME NEW j \in 1 .. m, NEW k \in 1 .. m, j # k PROVE Apart(parts'[j], parts'[k])
    <2> SUFFICES ASSUME parts'[j].cells # {}, parts'[k].cells # {}, NEW b \in Bels,
                        Inside(parts'[j], b), Inside(parts'[k], b)
                 PROVE  FALSE
      BY DEF Apart
    <2>1. CASE K(j) = K(k)
      <3>1. ~(j % 2 = 1 <=> k % 2 = 1)
        BY <1>6, <1>11, <2>1
      <3>2. IF j % 2 = 1 THEN b[axis] <= v[K(j)] ELSE ~(b[axis] <= v[K(j)])
        BY <1>9
      <3>3. IF k % 2 = 1 THEN b[axis] <= v[K(k)] ELSE ~(b[axis] <= v[K(k)])
        BY <1>9
      <3> QED BY <2>1, <3>1, <3>2, <3>3
    <2>2. CASE K(j) # K(k)
      <3>1. Apart(parts[K(j)], parts[K(k)])
        BY <1>1, <1>5, <2>2
      <3>2. parts[K(j)].cells # {} /\ Inside(parts[K(j)], b)
        BY <1>9 DEF Half
      <3>3. parts[K(k)].cells # {} /\ Inside(parts[K(k)], b)
        BY <1>9 DEF Half
      <3> QED BY <3>1, <3>2, <3>3 DEF Apart
    <2> QED BY <2>1, <2>2
  <1>12. axis' \in Axes /\ bel' = bel
    BY <1>1 DEF Cut, Axes
  <1> HIDE DEF n
  <1> QED BY <1>5, <1>7, <1>8, <1>10, <1>11, <1>12 DEF Parts

\* The only part at the beginning.
LEMMA OnePart ==
  ASSUME bel \in [Cells -> Bels], NEW s, s = <<Whole>>
  PROVE  /\ Len(s) = 1 /\ s = [j \in 1 .. Len(s) |-> s[j]]
         /\ \A j \in 1 .. Len(s) : Region(s[j], bel)
         /\ \A j, k \in 1 .. Len(s) : j = k
  <1> DEFINE w == Whole
  <1>1. Region(w, bel)
    BY WholeIs
  <1> HIDE DEF w
  <1>2. s = <<w>>
    BY DEF w
  <1>3. Len(s) = 1 /\ s[1] = w
    BY <1>2
  <1>4. s = [j \in 1 .. 1 |-> s[j]]
    BY <1>2
  <1> QED BY <1>1, <1>3, <1>4

\* A thread that has not begun.
LEMMA GoodReady ==
  ASSUME bel \in [Cells -> Bels], NEW p, Region(p, bel), NEW n, NEW s, s = Ready(p, n)
  PROVE  Good(s, bel, bound) /\ s.p = p /\ s.moved = <<>>
  <1>1. /\ Shape(s) /\ s.pc = "idle" /\ s.p = p /\ s.moved = <<>> /\ s.local = bel
        /\ s.queue = <<>> /\ s.dest = <<>> /\ s.used = {} /\ s.tiles = <<>> /\ s.swap = <<>>
    BY ReadyIs
  <1> QED BY <1>1, GoodSettled DEF Settled

-----------------------------------------------------------------------------
LEMMA LawfulNext == ASSUME Lawful(Placed') PROVE P!Legal'
  <1> HIDE DEF Placed
  <1> QED BY DEF P!Legal, P!Rigid, P!Sharing, Lawful

LEMMA InitInv == ASSUME Init PROVE IInv
  <1> DEFINE none == [Whole EXCEPT !.cells = {}]
             idle == Ready(none, 0)
  <1>1. bel \in [Cells -> Bels] /\ P!Legal /\ aborted = FALSE /\ parts = <<Whole>> /\ axis = 1
    BY DEF Init
  <1>2. Tables(bel, bound)
    <2>1. \A c, d \in Cells : c # d => bel[c] # bel[d]
      BY DEF Init
    <2>2. bound = [b \in Bels |-> IF \E c \in Cells : bel[c] = b
                                  THEN CHOOSE c \in Cells : bel[c] = b ELSE NoCell]
      BY DEF Init
    <2>3. NoCell \notin Cells
      BY DetailPlaceAssumption
    <2>4. ASSUME NEW c \in Cells, NEW b \in Bels PROVE bound[b] = c <=> bel[c] = b
      <3>1. CASE \E d \in Cells : bel[d] = b
        <4>1. bound[b] \in Cells /\ bel[bound[b]] = b
          BY <2>2, <3>1
        <4> QED BY <2>1, <4>1
      <3>2. CASE ~ \E d \in Cells : bel[d] = b
        BY <2>2, <2>3, <3>2
      <3> QED BY <3>1, <3>2
    <2>5. bound \in [Bels -> Cells \cup {NoCell}]
      BY <2>2
    <2> QED BY <1>1, <2>4, <2>5 DEF Tables
  <1>3. /\ none = [lo |-> none.lo, hi |-> none.hi, cells |-> none.cells] /\ none.cells = {}
        /\ th = [t \in Threads |-> [idle EXCEPT !.pc = "done"]]
    <2>1. th = [t \in Threads |-> [idle EXCEPT !.pc = "done"]]
      <3> HIDE DEF idle
      <3>1. th = [t \in Threads |-> [Ready(none, 0) EXCEPT !.pc = "done"]]
        BY DEF Init
      <3> QED BY <3>1 DEF idle
    <2>2. none = [lo |-> none.lo, hi |-> none.hi, cells |-> none.cells] /\ none.cells = {}
      <3> DEFINE w == Whole
      <3>1. w = [lo |-> w.lo, hi |-> w.hi, cells |-> w.cells]
        BY <1>1, WholeIs DEF Region
      <3> HIDE DEF w
      <3>2. none = [w EXCEPT !.cells = {}]
        BY DEF w
      <3> QED BY <3>1, <3>2
    <2> QED BY <2>1, <2>2
  <1> HIDE DEF none
  <1>4. Region(none, bel)
    BY <1>3 DEF Region
  <1>5. /\ Shape(idle) /\ idle.p = none /\ idle.moved = <<>> /\ idle.local = bel
        /\ idle.queue = <<>> /\ idle.dest = <<>> /\ idle.used = {}
        /\ idle.tiles = <<>> /\ idle.swap = <<>>
    BY ReadyIs
  <1> HIDE DEF idle
  <1> DEFINE s == [idle EXCEPT !.pc = "done"]
  <1>6. /\ Shape(s) /\ s.p = none /\ s.pc = "done" /\ s.moved = <<>> /\ s.local = bel
        /\ s.queue = <<>> /\ s.dest = <<>> /\ s.used = {} /\ s.tiles = <<>> /\ s.swap = <<>>
    BY <1>5 DEF Shape, Fields
  <1>7. th = [t \in Threads |-> s]
    BY <1>3
  <1> HIDE DEF s
  <1>8. Good(s, bel, bound)
    BY <1>1, <1>4, <1>6, GoodSettled DEF Settled
  <1>9. Team(th, bel, bound)
    BY <1>3, <1>6, <1>7, <1>8 DEF Team, Apart
  <1>10. \A t \in Threads : th[t].pc = "done"
    BY <1>6, <1>7
  <1>11. Parts
    <2>1. /\ Len(parts) = 1 /\ parts = [j \in 1 .. Len(parts) |-> parts[j]]
          /\ \A j \in 1 .. Len(parts) : Region(parts[j], bel)
          /\ \A j, k \in 1 .. Len(parts) : j = k
      BY <1>1, OnePart
    <2> QED BY <1>1, <2>1 DEF Parts, Axes
  <1> QED BY <1>1, <1>2, <1>9, <1>10, <1>11 DEF IInv

\* Nothing but the phase and the parts changes.
LEMMA SamePlacement ==
  ASSUME IInv, bel' = bel, bound' = bound, th' = th, aborted' = aborted
  PROVE  /\ Tables(bel', bound') /\ Team(th', bel', bound') /\ P!Legal' /\ ~aborted'
         /\ Placed' = Placed
  <1>1. Placed' = Placed
    BY DEF Placed, Moving
  <1>2. Lawful(Placed)
    BY LegalIsLawful DEF IInv
  <1>3. P!Legal'
    BY <1>1, <1>2, LawfulNext
  <1> QED BY <1>1, <1>3 DEF IInv

\* The steps of a thread, of do_partition and of the loop in run keep the invariant.
Keeps == IInv' /\ \A c \in Locked : Placed'[c] = Placed[c]

LEMMA CutKeeps == ASSUME IInv, Cut PROVE Keeps
  <1>1. /\ bel' = bel /\ bound' = bound /\ th' = th /\ aborted' = aborted /\ phase' = phase
        /\ phase = "partition"
    BY DEF Cut
  <1>2. /\ Tables(bel', bound') /\ Team(th', bel', bound') /\ P!Legal' /\ ~aborted'
        /\ Placed' = Placed
    BY <1>1, SamePlacement
  <1>3. Parts'
    BY CutParts DEF IInv, Tables
  <1>4. \A t \in Threads : th'[t].pc = "done"
    BY <1>1 DEF IInv
  <1> QED BY <1>2, <1>3, <1>4 DEF Keeps, IInv

LEMMA JoinKeeps == ASSUME IInv, Join PROVE Keeps
  <1>1. /\ bel' = bel /\ bound' = bound /\ th' = th /\ aborted' = aborted
        /\ \A t \in Threads : th[t].pc = "done"
    BY DEF Join
  <1>2. /\ Tables(bel', bound') /\ Team(th', bel', bound') /\ P!Legal' /\ ~aborted'
        /\ Placed' = Placed
    BY <1>1, SamePlacement
  <1>3. Parts'
    <2>1. CASE phase' = "done" /\ parts' = parts
      BY <2>1 DEF IInv, Parts
    <2>2. CASE parts' = <<Whole>> /\ axis' = 1
      <3>1. /\ Len(parts') = 1 /\ parts' = [j \in 1 .. Len(parts') |-> parts'[j]]
            /\ \A j \in 1 .. Len(parts') : Region(parts'[j], bel)
            /\ \A j, k \in 1 .. Len(parts') : j = k
        BY <2>2, OnePart DEF IInv, Tables
      <3> QED BY <1>1, <2>2, <3>1 DEF Parts, Axes
    <2> QED BY <2>1, <2>2 DEF Join
  <1>4. \A t \in Threads : th'[t].pc = "done"
    BY <1>1
  <1> QED BY <1>2, <1>3, <1>4 DEF Keeps, IInv

LEMMA StopKeeps == ASSUME IInv, UNCHANGED vars PROVE Keeps
  <1>1. /\ bel' = bel /\ bound' = bound /\ th' = th /\ aborted' = aborted
        /\ phase' = phase /\ parts' = parts /\ axis' = axis
    BY DEF vars
  <1>2. /\ Tables(bel', bound') /\ Team(th', bel', bound') /\ P!Legal' /\ ~aborted'
        /\ Placed' = Placed
    BY <1>1, SamePlacement
  <1>3. Parts'
    BY <1>1 DEF IInv, Parts
  <1>4. phase' # "iterate" => \A t \in Threads : th'[t].pc = "done"
    BY <1>1 DEF IInv
  <1> QED BY <1>2, <1>3, <1>4 DEF Keeps, IInv

LEMMA StartKeeps == ASSUME IInv, Start PROVE Keeps
  <1>1. /\ bel' = bel /\ bound' = bound /\ aborted' = aborted
        /\ phase = "partition" /\ phase' = "iterate" /\ Len(parts) = N
        /\ th' = [t \in Threads |-> Ready(parts[t], Moves)] /\ parts' = parts
    BY DEF Start
  <1>2. /\ \A t \in Threads : Region(parts[t], bel)
        /\ \A t, u \in Threads : t # u => Apart(parts[t], parts[u])
    BY <1>1 DEF IInv, Parts, Threads
  <1>3. \A t \in Threads :
          Good(th'[t], bel, bound) /\ th'[t].p = parts[t] /\ th'[t].moved = <<>>
    BY <1>1, <1>2, GoodReady DEF IInv, Tables
  <1>4. Team(th', bel', bound')
    BY <1>1, <1>2, <1>3 DEF Team
  <1>5. Placed' = Placed
    <2>1. \A t \in Threads : th[t].moved = <<>>
      BY <1>1 DEF IInv, Team, Good, Phase, Settled
    <2>2. \A c \in Cells : Where(th, bel, c) = bel[c]
      BY <2>1, EmptyDomain, StillPlace
    <2>3. \A c \in Cells : Where(th', bel', c) = bel[c]
      BY <1>1, <1>3, EmptyDomain, StillPlace
    <2>4. Placed' = [c \in Cells |-> Where(th', bel', c)]
      BY DEF Placed, Where, Moving
    <2> QED BY <2>2, <2>3, <2>4, PlacedIsWhere
  <1>6. P!Legal'
    BY <1>5, LegalIsLawful, LawfulNext DEF IInv
  <1>7. Parts'
    BY <1>1 DEF IInv, Parts
  <1>8. Tables(bel', bound') /\ ~aborted'
    BY <1>1 DEF IInv
  <1> QED BY <1>1, <1>4, <1>5, <1>6, <1>7, <1>8 DEF Keeps, IInv

LEMMA ThreadKeeps == ASSUME IInv, NEW t \in Threads, Thread(t) PROVE Keeps
  <1>1. Now
    BY DEF IInv, Now
  <1>2. Moved(t) /\ UNCHANGED <<phase, parts, axis>> /\ th[t].pc # "done"
    BY <1>1, ThreadMoves
  <1>3. phase' = phase /\ parts' = parts /\ axis' = axis /\ phase = "iterate"
    BY <1>2 DEF IInv
  <1>4. Tables(bel', bound') /\ OneMoves(th, bel, bound, t, th', bel', bound')
    BY <1>2 DEF Moved, Steps, OneMoves
  <1>5. Team(th', bel', bound')
    BY <1>1, <1>4, TeamStep DEF Now
  <1>6. Parts'
    BY <1>3 DEF IInv, Parts
  <1>7. P!Legal' /\ ~aborted'
    BY <1>2, LawfulNext DEF Moved, IInv
  <1> QED BY <1>2, <1>3, <1>4, <1>5, <1>6, <1>7 DEF Keeps, IInv, Moved

LEMMA NextKeeps == ASSUME IInv, [Next]_vars PROVE Keeps
  BY CutKeeps, StartKeeps, JoinKeeps, StopKeeps, ThreadKeeps DEF Next, Stop

\* The invariant: the two tables agree, every thread has its own rectangle and a
\* true map of its cells, its move is a legal one whatever the others do, and
\* the placement outside the moves is legal (parallel_refine.cc:54-330,
\* detail_place_core.cc:174-258).
THEOREM RefinementInvariant == Spec => []IInv
  <1>1. Init => IInv
    BY InitInv
  <1>2. IInv /\ [Next]_vars => IInv'
    BY NextKeeps DEF Keeps
  <1> QED BY <1>1, <1>2, PTL DEF Spec

-----------------------------------------------------------------------------
\* No NPNR_ASSERT of bindBel and unbindBel fails, for any number of threads
\* that try out moves at the same time (arch.h:450-477).
THEOREM NothingAborts == Spec => []NeverAborts
  <1>1. IInv => NeverAborts
    BY DEF IInv, NeverAborts
  <1> QED BY <1>1, RefinementInvariant, PTL

\* A cell's bel and bel_to_cell agree in every state, in the middle of every
\* move too (arch.h:450-477).
THEOREM TablesStayTrue == Spec => []TablesAgree
  <1>1. IInv => TablesAgree
    BY DEF IInv, Tables, TablesAgree
  <1> QED BY <1>1, RefinementInvariant, PTL

\* What a thread has read without holding the lock is still so when it binds:
\* bind_move cannot fail (detail_place_core.cc:220-239, parallel_refine.cc:70-84,
\* 120-134).
THEOREM ReadsAreTrue == Spec => []ReadsStayTrue
  <1>1. ASSUME IInv PROVE ReadsStayTrue
    <2> SUFFICES ASSUME NEW t \in Threads, th[t].pc = "decide" PROVE
                   \A c \in DOMAIN th[t].moved :
                     /\ bel[c] = th[t].moved[c].old
                     /\ bound[th[t].moved[c].new] \in DOMAIN th[t].moved \cup {NoCell}
      BY DEF ReadsStayTrue
    <2>1. DecidedOn(th[t])
      BY <1>1, DecideFacts DEF IInv, Now
    <2> QED BY <2>1 DEF DecidedOn, Closed
  <1> QED BY <1>1, RefinementInvariant, PTL

\* tile2cell lists for every tile the cells that are there
\* (parallel_refine.cc:301, 311-315).
THEOREM TilesStayTrue == Spec => []TilesAreTrue
  <1>1. ASSUME IInv PROVE TilesAreTrue
    <2> SUFFICES ASSUME NEW t \in Threads, th[t].pc = "tiles" PROVE
                   \A x \in Tiles : th[t].tiles[x] = {c \in th[t].p.cells : TileOf(bel[c]) = x}
      BY DEF TilesAreTrue
    <2>1. Listed(th[t], bel) /\ Recorded(th[t], bel)
      BY <1>1 DEF IInv, Team, Good, Phase
    <2>2. ListedNow(th[t], bel)
      BY <2>1, ListedAgain DEF Binding
    <2> QED BY <2>2 DEF ListedNow
  <1> QED BY <1>1, RefinementInvariant, PTL

\* No move of chain_swap gets as far as its cost with cells of two clusters.
NoClusterIsDisplaced ==
  \A t \in Threads : th[t].pc = "decide" =>
    \A c, d \in DOMAIN th[t].moved :
      Clustered(c) /\ Clustered(d) /\ th[t].swap = <<>> => Cluster[c] = Cluster[d]

\* Whatever the netlist, chain_swap gives up every move that would "displace
\* the entire cluster" in its way: for no instance does the code do what its
\* comment says (parallel_refine.cc:136-151).
THEOREM ClustersAreNotDisplaced == Spec => []NoClusterIsDisplaced
  <1>1. ASSUME IInv PROVE NoClusterIsDisplaced
    <2> SUFFICES ASSUME NEW t \in Threads, th[t].pc = "decide", th[t].swap = <<>>
                 PROVE OneCluster(th[t])
      BY DEF NoClusterIsDisplaced, OneCluster
    <2>1. Complete(th[t], bel)
      BY <1>1 DEF IInv, Team, Good, Phase
    <2>2. ~Swapped(th[t])
      <3>1. \A x, y : <<x, y>> # <<>>
        OBVIOUS
      <3> QED BY <3>1 DEF Swapped
    <2> QED BY <2>1, <2>2 DEF Complete
  <1> QED BY <1>1, RefinementInvariant, PTL

\* Whatever is bound on the way, the placement outside the moves goes from one
\* legal placement to another by whole moves that leave locked cells alone
\* (parallel_refine.cc:54-330, detail_place_core.cc:174-258).
THEOREM PlacementRefined == Spec => RefinesPlacement
  <1>1. Init => P!Legal
    BY DEF Init
  <1>2. IInv /\ [Next]_vars => [P!Refine]_Placed
    <2> SUFFICES ASSUME IInv, [Next]_vars PROVE P!Refine
      OBVIOUS
    <2>1. IInv' /\ \A c \in Locked : Placed'[c] = Placed[c]
      BY NextKeeps DEF Keeps
    <2>2. P!Legal'
      BY <2>1 DEF IInv
    <2> QED BY <2>1, <2>2 DEF P!Refine
  <1> QED BY <1>1, <1>2, RefinementInvariant, PTL DEF Spec, RefinesPlacement, P!PlacementSpec

-----------------------------------------------------------------------------
\* Finitely many numbers have a least one, also below 0.
LEMMA LeastInt ==
  ASSUME NEW S \in SUBSET Int, IsFiniteSet(S), S # {}
  PROVE  \E x \in S : \A y \in S : x <= y
  <1> DEFINE Least(T) == \E x \in T : \A y \in T : x <= y
             Bad(n) == \E T \in SUBSET Int :
                         IsFiniteSet(T) /\ T # {} /\ Cardinality(T) = n /\ ~Least(T)
             Bads == {n \in Nat : Bad(n)}
  <1>1. SUFFICES ASSUME Bads # {} PROVE FALSE
    <2>1. Cardinality(S) \in Nat
      BY FS_CardinalityType
    <2> QED BY <2>1
  <1>2. PICK n \in Bads : \A m \in Bads : n <= m
    <2>1. Bads \subseteq Nat
      OBVIOUS
    <2> HIDE DEF Bads
    <2> QED BY <1>1, <2>1, LeastNat
  <1>3. PICK T \in SUBSET Int : IsFiniteSet(T) /\ T # {} /\ Cardinality(T) = n /\ ~Least(T)
    BY <1>2
  <1>4. PICK y \in T : TRUE
    BY <1>3
  <1>5. IsFiniteSet(T \ {y}) /\ Cardinality(T \ {y}) = n - 1 /\ n - 1 \in Nat
    <2>1. IsFiniteSet(T \ {y}) /\ Cardinality(T \ {y}) = Cardinality(T) - 1
      BY <1>3, <1>4, FS_RemoveElement
    <2>2. Cardinality(T \ {y}) \in Nat
      BY <2>1, FS_CardinalityType
    <2> QED BY <1>3, <2>1, <2>2
  <1>6. n - 1 \notin Bads
    BY <1>2, <1>5
  <1>7. CASE T \ {y} = {}
    BY <1>3, <1>4, <1>7
  <1>8. CASE T \ {y} # {}
    <2>1. PICK x \in T \ {y} : \A z \in T \ {y} : x <= z
      BY <1>5, <1>6, <1>8, T \ {y} \in SUBSET Int
    <2>2. x \in Int /\ y \in Int /\ \A z \in T : z \in Int
      BY <2>1
    <2>3. (IF x <= y THEN x ELSE y) \in T
      BY <1>4, <2>1
    <2>4. \A z \in T : (IF x <= y THEN x ELSE y) <= z
      BY <2>1, <2>2
    <2> QED BY <1>3, <2>3, <2>4
  <1> QED BY <1>7, <1>8

\* NetBB::compute: where the outermost pins are, and how many.
IsEdge(e, q) ==
  /\ e = [at |-> e.at, n |-> e.n]
  /\ \E k \in DOMAIN q : q[k] = e.at
  /\ \A k \in DOMAIN q : e.at <= q[k]
  /\ e.n = Cardinality({k \in DOMAIN q : q[k] = e.at})

EdgeOf(q) ==
  [at |-> Min({q[k] : k \in DOMAIN q}),
   n |-> Cardinality({k \in DOMAIN q : q[k] = Min({q[j] : j \in DOMAIN q})})]

LEMMA EdgeIs ==
  ASSUME NEW D, IsFiniteSet(D), D # {}, NEW q \in [D -> Int], NEW e
  PROVE  IsEdge(e, q) <=> e = EdgeOf(q)
  <1> DEFINE S == {q[k] : k \in DOMAIN q}
             m == Min(S)
  <1>1. m \in S /\ \A x \in S : m <= x
    <2>1. S \in SUBSET Int /\ S # {}
      OBVIOUS
    <2>2. q \in Surjection(D, S)
      BY DEF Surjection
    <2>3. IsFiniteSet(S)
      <3> HIDE DEF S
      <3> QED BY <2>2, FS_Surjection
    <2>4. \E x \in S : \A y \in S : x <= y
      <3> HIDE DEF S
      <3> QED BY <2>1, <2>3, LeastInt
    <2> HIDE DEF S
    <2> QED BY <2>4 DEF Min
  <1>2. m \in Int /\ (\E k \in D : q[k] = m) /\ \A k \in D : q[k] \in Int /\ m <= q[k]
    BY <1>1
  <1>3. EdgeOf(q) = [at |-> m, n |-> Cardinality({k \in DOMAIN q : q[k] = m})]
    BY DEF EdgeOf
  <1> HIDE DEF m, S
  <1>4. ASSUME e = EdgeOf(q) PROVE IsEdge(e, q)
    <2>1. e.at = m /\ e = [at |-> e.at, n |-> e.n]
          /\ e.n = Cardinality({k \in DOMAIN q : q[k] = e.at})
      BY <1>3, <1>4
    <2> QED BY <1>2, <2>1 DEF IsEdge
  <1>5. ASSUME IsEdge(e, q) PROVE e = EdgeOf(q)
    <2>1. PICK k \in D : q[k] = e.at
      BY <1>5 DEF IsEdge
    <2>2. \A j \in D : e.at <= q[j]
      BY <1>5 DEF IsEdge
    <2>3. PICK j \in D : q[j] = m
      BY <1>2
    <2>4. e.at = m
      BY <1>2, <2>1, <2>2, <2>3
    <2> QED BY <1>3, <1>5, <2>4 DEF IsEdge
  <1> QED BY <1>4, <1>5

\* One pin moves, from old to new.
OnePin(q, q2, k, new) ==
  /\ DOMAIN q2 = DOMAIN q /\ k \in DOMAIN q /\ q2[k] = new
  /\ \A j \in DOMAIN q : j # k => q2[j] = q[j]

LEMMA EdgeMoved ==
  ASSUME NEW D, IsFiniteSet(D), NEW q \in [D -> Int], NEW q2 \in [D -> Int],
         NEW k \in D, NEW new \in Int, OnePin(q, q2, k, new), NEW e, IsEdge(e, q),
         NEW r, r = Edge(e, q[k], new), r[2] # "full"
  PROVE  IsEdge(r[1], q2) /\ (r[2] = "no" => r[1] = e)
  <1> DEFINE old == q[k]
             S == {j \in D : q[j] = e.at}
             S2 == {j \in D : q2[j] = r[1].at}
  <1>1. /\ e = [at |-> e.at, n |-> e.n] /\ (\E j \in D : q[j] = e.at)
        /\ (\A j \in D : e.at <= q[j]) /\ e.n = Cardinality(S)
    BY DEF IsEdge
  <1>2. /\ q2[k] = new /\ \A j \in D : j # k => q2[j] = q[j]
        /\ e.at \in Int /\ (\A j \in D : q[j] \in Int) /\ old \in Int /\ e.at <= old
    BY <1>1 DEF OnePin
  <1>3. IsFiniteSet(S) /\ Cardinality(S) \in Nat
    BY FS_Subset, FS_CardinalityType
  <1>4. SUFFICES /\ r[1] = [at |-> r[1].at, n |-> r[1].n]
                 /\ (\E j \in D : q2[j] = r[1].at) /\ (\A j \in D : r[1].at <= q2[j])
                 /\ r[1].n = Cardinality(S2)
                 /\ r[2] = "no" => r[1] = e
    BY DEF IsEdge
  <1>5. CASE new < e.at
    <2>1. r = <<[at |-> new, n |-> 1], "moved">>
      BY <1>5 DEF Edge
    <2>2. r[1] = [at |-> new, n |-> 1] /\ r[2] = "moved"
      BY <2>1
    <2>3. \A j \in D : j # k => q2[j] > new
      BY <1>1, <1>2, <1>5
    <2>4. S2 = {k}
      BY <1>2, <2>2, <2>3
    <2>5. Cardinality(S2) = 1
      BY <2>4, FS_Singleton
    <2>6. \A j \in D : new <= q2[j]
      BY <1>2, <2>3
    <2> QED BY <1>2, <2>2, <2>5, <2>6
  <1>6. CASE new = e.at /\ old > e.at
    <2>1. r = <<[e EXCEPT !.n = @ + 1], "moved">>
      BY <1>2, <1>6 DEF Edge
    <2>2. r[1] = [at |-> e.at, n |-> e.n + 1] /\ r[2] = "moved"
      BY <1>1, <2>1
    <2>3. S2 = S \cup {k} /\ k \notin S
      BY <1>2, <1>6, <2>2
    <2>4. Cardinality(S2) = e.n + 1
      <3> HIDE DEF S, S2
      <3>1. Cardinality(S \cup {k}) = Cardinality(S) + 1
        BY <1>3, <2>3, FS_AddElement
      <3> QED BY <1>1, <2>3, <3>1
    <2>5. \A j \in D : e.at <= q2[j]
      BY <1>1, <1>2, <1>6
    <2> QED BY <1>2, <1>6, <2>2, <2>4, <2>5
  <1>7. CASE old = e.at /\ new > e.at
    <2>1. e.n # 1 /\ r = <<[e EXCEPT !.n = @ - 1], "moved">>
      <3>1. ~(new < e.at) /\ ~(new = e.at /\ old > e.at)
        BY <1>2, <1>7
      <3>2. e.n = 1 => r = <<e, "full">>
        BY <1>7, <3>1 DEF Edge
      <3>3. e.n # 1
        BY <3>2
      <3> QED BY <1>7, <3>1, <3>3 DEF Edge
    <2>2. r[1] = [at |-> e.at, n |-> e.n - 1] /\ r[2] = "moved"
      BY <1>1, <2>1
    <2>3. S2 = S \ {k} /\ k \in S
      BY <1>2, <1>7, <2>2
    <2>4. Cardinality(S2) = e.n - 1
      BY <1>1, <1>3, <2>3, FS_RemoveElement
    <2>5. S2 # {}
      BY <1>1, <1>3, <2>1, <2>4, FS_EmptySet
    <2>6. \A j \in D : e.at <= q2[j]
      BY <1>1, <1>2, <1>7
    <2>7. \E j \in D : q2[j] = e.at
      BY <2>2, <2>5
    <2> QED BY <2>2, <2>4, <2>6, <2>7
  <1>8. CASE ~(new < e.at) /\ ~(new = e.at /\ old > e.at) /\ ~(old = e.at /\ new > e.at)
    <2>1. r = <<e, "no">>
      BY <1>8 DEF Edge
    <2>2. r[1] = e /\ r[2] = "no"
      BY <2>1
    <2>3. (old > e.at /\ new > e.at) \/ (old = e.at /\ new = e.at)
      BY <1>2, <1>8
    <2>4. \A j \in D : q2[j] = e.at <=> q[j] = e.at
      BY <1>2, <2>3
    <2>5. S2 = S
      BY <2>2, <2>4
    <2>6. \A j \in D : e.at <= q2[j]
      BY <1>1, <1>2, <2>3
    <2>7. \E j \in D : q2[j] = e.at
      BY <1>1, <2>4
    <2> QED BY <1>1, <2>2, <2>5, <2>6, <2>7
  <1> QED BY <1>5, <1>6, <1>7, <1>8

\* The pins' bels, and their positions on an axis as one of its edges sees them.
Spots(net, at) == [k \in 1 .. Len(Pins[net]) |-> at[Pins[net][k]]]
Coord(pt, i, d) == [k \in DOMAIN pt |-> d * pt[k][i]]

Changes == {"no", "moved", "full"}

\* A box that is being kept up to date, b, when the pins are at pt, and the box
\* it was at the beginning of the move.
Tracks(b, box, pt) ==
  /\ b = [box |-> b.box, change |-> b.change]
  /\ b.box = [i \in Axes |-> [d \in Sides |-> b.box[i][d]]]
  /\ \A i \in Axes :
       /\ b.change[i] \in Changes
       /\ b.change[i] # "full" => \A d \in Sides : IsEdge(b.box[i][d], Coord(pt, i, d))
       /\ b.change[i] = "no" => b.box[i] = box[i]

LEMMA EdgeKinds ==
  ASSUME NEW e, NEW old, NEW new
  PROVE  Edge(e, old, new)[2] \in Changes
  BY DEF Edge, Changes

LEMMA CoordIs ==
  ASSUME NEW D, NEW pt \in [D -> Bels], NEW i \in Axes, NEW d \in Sides
  PROVE  /\ Coord(pt, i, d) \in [D -> Int]
         /\ \A k \in D : Coord(pt, i, d)[k] = d * pt[k][i]
  <1>1. \A b \in Bels : b[1] \in Nat /\ b[2] \in Nat
    BY DetailPlaceAssumption
  <1>2. i = 1 \/ i = 2
    BY DEF Axes
  <1>3. d = 1 \/ d = -1
    BY DEF Sides
  <1>4. \A k \in D : d * pt[k][i] \in Int
    BY <1>1, <1>2, <1>3
  <1> QED BY <1>4 DEF Coord

\* The same pin, seen from one edge.
LEMMA CoordMoves ==
  ASSUME NEW D, NEW pt \in [D -> Bels], NEW pt2 \in [D -> Bels], NEW k \in D, NEW new,
         OnePin(pt, pt2, k, new), NEW i \in Axes, NEW d \in Sides
  PROVE  /\ OnePin(Coord(pt, i, d), Coord(pt2, i, d), k, d * new[i])
         /\ Coord(pt, i, d)[k] = d * pt[k][i] /\ d * new[i] \in Int
  <1>1. /\ Coord(pt, i, d) \in [D -> Int] /\ Coord(pt2, i, d) \in [D -> Int]
        /\ \A j \in D : Coord(pt, i, d)[j] = d * pt[j][i]
        /\ \A j \in D : Coord(pt2, i, d)[j] = d * pt2[j][i]
    BY CoordIs
  <1>2. pt2[k] = new /\ \A j \in D : j # k => pt2[j] = pt[j]
    BY DEF OnePin
  <1>3. Coord(pt2, i, d)[k] = d * new[i] /\ Coord(pt2, i, d)[k] \in Int
    BY <1>1, <1>2
  <1>4. \A j \in D : j # k => Coord(pt2, i, d)[j] = Coord(pt, i, d)[j]
    BY <1>1, <1>2
  <1> QED BY <1>1, <1>3, <1>4 DEF OnePin

\* compute_changes_for_cell, one pin.
LEMMA PinTracks ==
  ASSUME NEW D, IsFiniteSet(D), NEW pt \in [D -> Bels], NEW pt2 \in [D -> Bels],
         NEW k \in D, NEW new, OnePin(pt, pt2, k, new),
         NEW b, NEW box, Tracks(b, box, pt), NEW b2, b2 = PinMoves(b, pt[k], new)
  PROVE  Tracks(b2, box, pt2)
  <1> DEFINE E(i, d) == Edge(b.box[i][d], d * pt[k][i], d * new[i])
             e == [i \in Axes |-> [d \in Sides |-> E(i, d)]]
             seen(i) == {b.change[i], e[i][1][2], e[i][-1][2]}
  <1>1. b2 = [box |-> [i \in Axes |-> [d \in Sides |-> e[i][d][1]]],
              change |-> [i \in Axes |-> IF "full" \in seen(i) THEN "full"
                            ELSE IF "moved" \in seen(i) THEN "moved" ELSE "no"]]
    BY DEF PinMoves
  <1>2. \A i \in Axes, d \in Sides : e[i][d] = E(i, d)
    OBVIOUS
  <1>3. \A i \in Axes, d \in Sides : E(i, d)[2] \in Changes
    BY EdgeKinds
  <1>4. 1 \in Sides /\ -1 \in Sides /\ \A d \in Sides : d = 1 \/ d = -1
    BY DEF Sides
  <1>5. ASSUME NEW i \in Axes, NEW d \in Sides, b.change[i] # "full", E(i, d)[2] # "full"
        PROVE  /\ IsEdge(E(i, d)[1], Coord(pt2, i, d))
               /\ E(i, d)[2] = "no" => E(i, d)[1] = b.box[i][d]
    <2> DEFINE q == Coord(pt, i, d)
               q2 == Coord(pt2, i, d)
               n == d * new[i]
               r == E(i, d)
    <2>1. q \in [D -> Int] /\ q2 \in [D -> Int]
      BY CoordIs
    <2>2. OnePin(q, q2, k, n) /\ q[k] = d * pt[k][i] /\ n \in Int
      BY CoordMoves
    <2>3. IsEdge(b.box[i][d], q)
      BY <1>5 DEF Tracks
    <2>4. r = Edge(b.box[i][d], q[k], n)
      BY <2>2
    <2> HIDE DEF q, q2, n, r
    <2>5. r[2] # "full" => IsEdge(r[1], q2) /\ (r[2] = "no" => r[1] = b.box[i][d])
      BY <2>1, <2>2, <2>3, <2>4, EdgeMoved
    <2> QED BY <1>5, <2>5 DEF r, q2
  <1> HIDE DEF E
  <1>6. /\ b2 = [box |-> b2.box, change |-> b2.change]
        /\ b2.box = [i \in Axes |-> [d \in Sides |-> e[i][d][1]]]
        /\ \A i \in Axes : b2.change[i] = IF "full" \in seen(i) THEN "full"
                             ELSE IF "moved" \in seen(i) THEN "moved" ELSE "no"
    BY <1>1
  <1>7. \A i \in Axes, d \in Sides : b2.box[i][d] = E(i, d)[1]
    BY <1>2, <1>6
  <1>8. b2.box = [i \in Axes |-> [d \in Sides |-> b2.box[i][d]]]
    BY <1>6
  <1>9. \A i \in Axes : seen(i) = {b.change[i], E(i, 1)[2], E(i, -1)[2]}
    BY <1>2, <1>4
  <1> HIDE DEF e, seen
  <1>10. ASSUME NEW i \in Axes
         PROVE  /\ b2.change[i] \in Changes
                /\ b2.change[i] # "full" =>
                     \A d \in Sides : IsEdge(b2.box[i][d], Coord(pt2, i, d))
                /\ b2.change[i] = "no" => b2.box[i] = box[i]
    <2>1. b2.change[i] \in Changes
      BY <1>6 DEF Changes
    <2>2. b2.change[i] # "full" =>
            b.change[i] # "full" /\ \A d \in Sides : E(i, d)[2] # "full"
      BY <1>4, <1>6, <1>9
    <2>3. b2.change[i] = "no" =>
            b.change[i] = "no" /\ \A d \in Sides : E(i, d)[2] = "no"
      <3>1. b.change[i] \in Changes
        BY DEF Tracks
      <3>2. E(i, 1)[2] \in Changes /\ E(i, -1)[2] \in Changes
        BY <1>3, <1>4
      <3> QED BY <1>4, <1>6, <1>9, <3>1, <3>2 DEF Changes
    <2>4. b2.change[i] # "full" =>
            \A d \in Sides : IsEdge(b2.box[i][d], Coord(pt2, i, d))
      BY <1>5, <1>7, <2>2
    <2>5. b2.change[i] = "no" => b2.box[i] = box[i]
      <3> SUFFICES ASSUME b2.change[i] = "no" PROVE b2.box[i] = box[i]
        OBVIOUS
      <3>1. b.change[i] = "no" /\ \A d \in Sides : E(i, d)[2] = "no"
        BY <2>3
      <3>2. \A d \in Sides : b2.box[i][d] = b.box[i][d]
        BY <1>5, <1>7, <3>1
      <3>3. b2.box[i] = [d \in Sides |-> b2.box[i][d]]
        BY <1>8
      <3>4. b.box[i] = [d \in Sides |-> b.box[i][d]] /\ b.box[i] = box[i]
        BY <3>1 DEF Tracks
      <3> QED BY <3>2, <3>3, <3>4
    <2> QED BY <2>1, <2>4, <2>5
  <1> QED BY <1>6, <1>8, <1>10 DEF Tracks

-----------------------------------------------------------------------------
\* The recursion of compute_changes_for_cell, up to the m-th pin.
PinByPin(f, m, b, net, c, old, new) ==
  f = [k \in 0 .. m |->
        IF k = 0 THEN b
        ELSE IF Pins[net][k] = c THEN PinMoves(f[k - 1], old, new) ELSE f[k - 1]]

LEMMA PinByPinExists ==
  ASSUME NEW n \in Nat, NEW b, NEW net, NEW c, NEW old, NEW new
  PROVE  \E f : PinByPin(f, n, b, net, c, old, new)
  <1> DEFINE Has(m) == \E f : PinByPin(f, m, b, net, c, old, new)
             Bads == {m \in Nat : ~Has(m)}
  <1>1. SUFFICES ASSUME Bads # {} PROVE FALSE
    OBVIOUS
  <1>2. PICK m \in Bads : \A j \in Bads : m <= j
    <2>1. Bads \subseteq Nat
      OBVIOUS
    <2> HIDE DEF Bads
    <2> QED BY <1>1, <2>1, LeastNat
  <1>3. CASE m = 0
    <2>1. PinByPin([k \in 0 .. 0 |-> b], 0, b, net, c, old, new)
      BY DEF PinByPin
    <2> QED BY <1>2, <1>3, <2>1
  <1>4. CASE m # 0
    <2>1. m - 1 \in Nat /\ m - 1 \notin Bads
      BY <1>2, <1>4
    <2>2. PICK f : PinByPin(f, m - 1, b, net, c, old, new)
      BY <2>1
    <2> DEFINE step(k, x) == IF Pins[net][k] = c THEN PinMoves(x, old, new) ELSE x
               g == [k \in 0 .. m |-> IF k < m THEN f[k] ELSE step(m, f[m - 1])]
    <2>3. \A k \in 0 .. m - 1 : f[k] = IF k = 0 THEN b ELSE step(k, f[k - 1])
      BY <2>2 DEF PinByPin
    <2> HIDE DEF step
    <2>4. g = [k \in 0 .. m |-> IF k = 0 THEN b ELSE step(k, g[k - 1])]
      <3>1. ASSUME NEW k \in 0 .. m
            PROVE  g[k] = IF k = 0 THEN b ELSE step(k, g[k - 1])
        <4>1. CASE k = m
          <5>1. g[m - 1] = f[m - 1] /\ g[m] = step(m, f[m - 1])
            BY <2>1
          <5> QED BY <1>4, <4>1, <5>1
        <4>2. CASE k # m
          <5>1. k \in 0 .. m - 1 /\ g[k] = f[k]
            BY <2>1, <4>2
          <5>2. k # 0 => g[k - 1] = f[k - 1]
            BY <2>1, <4>2
          <5> QED BY <2>3, <5>1, <5>2
        <4> QED BY <4>1, <4>2
      <3>2. g = [k \in 0 .. m |-> g[k]]
        OBVIOUS
      <3> HIDE DEF g
      <3> QED BY <3>1, <3>2
    <2>5. PinByPin(g, m, b, net, c, old, new)
      BY <2>4 DEF PinByPin, step
    <2> HIDE DEF g
    <2> QED BY <1>2, <2>5
  <1> QED BY <1>3, <1>4

\* A cell of a map goes from one bel to another.
CellAt(at, c, new) == [at EXCEPT ![c] = new]

\* compute_changes_for_cell keeps the box up to date.
LEMMA CellTracks ==
  ASSUME NEW net \in Nets, NEW at \in [Cells -> Bels], NEW c \in Cells, NEW new \in Bels,
         NEW b, NEW box, Tracks(b, box, Spots(net, at)),
         NEW at2, at2 = CellAt(at, c, new)
  PROVE  Tracks(CellMoves(b, net, c, at[c], new), box, Spots(net, at2))
  <1> DEFINE n == Len(Pins[net])
             D == 1 .. n
             old == at[c]
             pt(m) == [k \in D |-> IF k <= m THEN at2[Pins[net][k]] ELSE at[Pins[net][k]]]
             f == CHOOSE x : PinByPin(x, n, b, net, c, old, new)
             Bads == {m \in 0 .. n : ~Tracks(f[m], box, pt(m))}
  <1>1. n \in Nat /\ \A k \in D : Pins[net][k] \in Cells
    BY DetailPlaceAssumption
  <1>2. PinByPin(f, n, b, net, c, old, new)
    <2> HIDE DEF n, old
    <2>1. \E x : PinByPin(x, n, b, net, c, old, new)
      BY <1>1, PinByPinExists
    <2> QED BY <2>1
  <1>3. CellMoves(b, net, c, at[c], new) = f[n]
    BY DEF CellMoves, PinByPin
  <1>4. IsFiniteSet(D)
    BY <1>1, FS_Interval
  <1>5. /\ at2 \in [Cells -> Bels] /\ at2[c] = new
        /\ \A d \in Cells : d # c => at2[d] = at[d]
    BY DEF CellAt
  <1>6. \A m \in 0 .. n : pt(m) \in [D -> Bels]
    BY <1>1, <1>5
  <1> HIDE DEF f
  <1>7. f[0] = b /\ \A k \in D : f[k] = IF Pins[net][k] = c THEN PinMoves(f[k - 1], old, new)
                                        ELSE f[k - 1]
    <2>1. \A k \in 0 .. n : f[k] = IF k = 0 THEN b
            ELSE IF Pins[net][k] = c THEN PinMoves(f[k - 1], old, new) ELSE f[k - 1]
      BY <1>2 DEF PinByPin
    <2> HIDE DEF old
    <2>2. 0 \in 0 .. n /\ \A k \in D : k \in 0 .. n /\ k # 0
      BY <1>1
    <2> QED BY <2>1, <2>2
  <1>8. ASSUME Bads # {} PROVE FALSE
    <2>1. PICK m \in Bads : \A j \in Bads : m <= j
      <3>1. Bads \subseteq Nat
        OBVIOUS
      <3> HIDE DEF Bads
      <3> QED BY <1>8, <3>1, LeastNat
    <2>2. CASE m = 0
      <3>1. pt(0) = Spots(net, at)
        BY <1>1 DEF Spots
      <3> QED BY <1>7, <2>1, <2>2, <3>1
    <2>3. CASE m # 0
      <3>1. m \in D /\ m - 1 \in 0 .. n /\ m - 1 \notin Bads
        <4>1. m \in 0 .. n
          BY <2>1
        <4> HIDE DEF Bads, n
        <4>2. m \in D /\ m - 1 \in 0 .. n /\ m - 1 < m
          BY <1>1, <2>3, <4>1
        <4>3. m - 1 \notin Bads
          <5>1. m \in Int
            BY <4>1
          <5> QED BY <2>1, <4>2, <5>1
        <4> QED BY <4>2, <4>3
      <3>2. Tracks(f[m - 1], box, pt(m - 1))
        BY <3>1
      <3>3. ASSUME NEW j \in D, j # m PROVE pt(m)[j] = pt(m - 1)[j]
        BY <1>1, <3>1, <3>3
      <3>4. pt(m)[m] = at2[Pins[net][m]] /\ pt(m - 1)[m] = at[Pins[net][m]]
        BY <1>1, <3>1
      <3>5. pt(m) \in [D -> Bels] /\ pt(m - 1) \in [D -> Bels]
        BY <1>6, <3>1, m \in 0 .. n
      <3> DEFINE q == pt(m - 1)
                 q2 == pt(m)
      <3>6. CASE Pins[net][m] = c
        <4>1. q[m] = old /\ q2[m] = new
          BY <1>5, <3>4, <3>6
        <4>2. OnePin(q, q2, m, new)
          <5>1. \A j \in D : j # m => q2[j] = q[j]
            BY <3>3
          <5>2. DOMAIN q = D /\ DOMAIN q2 = D
            BY <3>5
          <5> HIDE DEF q, q2, D
          <5> QED BY <3>1, <4>1, <5>1, <5>2 DEF OnePin
        <4>3. f[m] = PinMoves(f[m - 1], q[m], new)
          BY <1>7, <3>1, <3>6, <4>1
        <4>4. Tracks(f[m - 1], box, q) /\ q \in [D -> Bels] /\ q2 \in [D -> Bels]
          BY <3>2, <3>5
        <4> HIDE DEF q, q2, D
        <4>5. Tracks(f[m], box, q2)
          BY <1>4, <3>1, <4>2, <4>3, <4>4, PinTracks
        <4> QED BY <2>1, <4>5 DEF q2
      <3>7. CASE Pins[net][m] # c
        <4>1. f[m] = f[m - 1]
          BY <1>7, <3>1, <3>7
        <4>2. Pins[net][m] \in Cells
          BY <1>1, <3>1
        <4>3. q2[m] = q[m]
          BY <1>5, <3>4, <3>7, <4>2
        <4>4. \A j \in D : q2[j] = q[j]
          BY <3>3, <4>3
        <4>5. q = q2
          <5>1. q \in [D -> Bels] /\ q2 \in [D -> Bels]
            BY <3>5
          <5> HIDE DEF q, q2, D
          <5> QED BY <4>4, <5>1
        <4> QED BY <2>1, <3>2, <4>1, <4>5
      <3> QED BY <3>6, <3>7
    <2> QED BY <2>2, <2>3
  <1>9. Tracks(f[n], box, pt(n))
    BY <1>1, <1>8
  <1>10. pt(n) = Spots(net, at2)
    BY <1>1 DEF Spots
  <1> QED BY <1>3, <1>9, <1>10

-----------------------------------------------------------------------------
\* The recursion over the cells of a move, for the sets of cells in dom.
Chosen(s) == CHOOSE x \in s : TRUE

CellByCell(f, dom, b, net, to) ==
  f = [s \in dom |->
        IF s = {} THEN b
        ELSE LET x == CHOOSE x \in s : TRUE
             IN  CellMoves(f[s \ {x}], net, x, bel[x], to[x])]

Subsets(S, n) == {s \in SUBSET S : Cardinality(s) <= n}

LEMMA Smaller ==
  ASSUME NEW S, IsFiniteSet(S), NEW s \in SUBSET S, s # {}
  PROVE  /\ Chosen(s) \in s /\ Cardinality(s) \in Nat \ {0}
         /\ s \ {Chosen(s)} \in SUBSET S /\ Cardinality(s \ {Chosen(s)}) = Cardinality(s) - 1
  <1>1. Chosen(s) \in s
    BY DEF Chosen
  <1>2. IsFiniteSet(s)
    BY FS_Subset
  <1>3. Cardinality(s) \in Nat /\ Cardinality(s) # 0
    BY <1>2, FS_CardinalityType, FS_EmptySet
  <1>4. Cardinality(s \ {Chosen(s)}) = Cardinality(s) - 1
    BY <1>1, <1>2, FS_RemoveElement
  <1> QED BY <1>1, <1>3, <1>4

LEMMA CellByCellExists ==
  ASSUME NEW S, IsFiniteSet(S), NEW b, NEW net, NEW to
  PROVE  \E f : CellByCell(f, SUBSET S, b, net, to)
  <1> DEFINE Has(m) == \E f : CellByCell(f, Subsets(S, m), b, net, to)
             Bads == {m \in Nat : ~Has(m)}
             step(s, x) == CellMoves(x, net, Chosen(s), bel[Chosen(s)], to[Chosen(s)])
  <1>1. ASSUME NEW f, NEW dom
        PROVE  CellByCell(f, dom, b, net, to) <=>
                 f = [s \in dom |-> IF s = {} THEN b ELSE step(s, f[s \ {Chosen(s)}])]
    BY DEF CellByCell, Chosen
  <1> HIDE DEF step
  <1>2. ASSUME Bads # {} PROVE FALSE
    <2>1. PICK m \in Bads : \A j \in Bads : m <= j
      <3>1. Bads \subseteq Nat
        OBVIOUS
      <3> HIDE DEF Bads
      <3> QED BY <1>2, <3>1, LeastNat
    <2>2. CASE m = 0
      <3>1. ASSUME NEW s \in Subsets(S, 0) PROVE s = {}
        <4>1. s \in SUBSET S /\ Cardinality(s) <= 0
          BY <3>1 DEF Subsets
        <4>2. s # {} => Cardinality(s) \in Nat \ {0}
          BY <4>1, Smaller
        <4> QED BY <4>1, <4>2
      <3> DEFINE f == [s \in Subsets(S, 0) |-> b]
      <3>2. f = [s \in Subsets(S, 0) |-> IF s = {} THEN b ELSE step(s, f[s \ {Chosen(s)}])]
        BY <3>1
      <3>3. CellByCell(f, Subsets(S, 0), b, net, to)
        BY <1>1, <3>2
      <3> HIDE DEF f
      <3> QED BY <2>1, <2>2, <3>3
    <2>3. CASE m # 0
      <3>1. m \in Nat /\ m - 1 \in Nat /\ m - 1 \notin Bads
        <4>1. m \in Nat
          BY <2>1
        <4> HIDE DEF Bads
        <4>2. m - 1 \in Nat /\ ~(m <= m - 1)
          BY <2>3, <4>1
        <4> QED BY <2>1, <4>1, <4>2
      <3>2. PICK f : CellByCell(f, Subsets(S, m - 1), b, net, to)
        BY <3>1
      <3> DEFINE A == Subsets(S, m - 1)
                 B == Subsets(S, m)
                 g == [s \in B |-> IF s \in A THEN f[s] ELSE step(s, f[s \ {Chosen(s)}])]
      <3>3. \A s \in A : f[s] = IF s = {} THEN b ELSE step(s, f[s \ {Chosen(s)}])
        <4> HIDE DEF A
        <4>1. CellByCell(f, A, b, net, to)
          BY <3>2 DEF A
        <4>2. f = [s \in A |-> IF s = {} THEN b ELSE step(s, f[s \ {Chosen(s)}])]
          BY <1>1, <4>1
        <4> QED BY <4>2
      <3>4. {} \in A
        BY <3>1, FS_EmptySet DEF Subsets
      <3>5. ASSUME NEW s \in B, s # {} PROVE s \ {Chosen(s)} \in A /\ s \ {Chosen(s)} \in B
        BY <3>1, <3>5, Smaller DEF Subsets
      <3>6. ASSUME NEW s \in B
            PROVE  g[s] = IF s = {} THEN b ELSE step(s, g[s \ {Chosen(s)}])
        <4>1. s # {} => g[s \ {Chosen(s)}] = f[s \ {Chosen(s)}]
          BY <3>5
        <4>2. CASE s \in A
          BY <3>3, <4>1, <4>2
        <4>3. CASE s \notin A
          <5>1. s # {}
            BY <3>4, <4>3
          <5> QED BY <4>1, <4>3, <5>1
        <4> QED BY <4>2, <4>3
      <3>7. g = [s \in B |-> g[s]]
        OBVIOUS
      <3> HIDE DEF g, A
      <3>8. g = [s \in B |-> IF s = {} THEN b ELSE step(s, g[s \ {Chosen(s)}])]
        BY <3>6, <3>7
      <3>9. CellByCell(g, B, b, net, to)
        BY <1>1, <3>8
      <3> QED BY <2>1, <3>9
    <2> QED BY <2>2, <2>3
  <1>3. Cardinality(S) \in Nat
    BY FS_CardinalityType
  <1>4. Subsets(S, Cardinality(S)) = SUBSET S
    <2>1. \A s \in SUBSET S : Cardinality(s) <= Cardinality(S)
      BY FS_Subset
    <2> QED BY <2>1 DEF Subsets
  <1>5. Cardinality(S) \notin Bads
    BY <1>2
  <1>6. Has(Cardinality(S))
    BY <1>3, <1>5
  <1> QED BY <1>4, <1>6

\* The map once all the cells of a function, cell -> bel, have gone.
AllAt(at, cells, to) == [c \in Cells |-> IF c \in cells THEN to[c] ELSE at[c]]

\* The cells of a move, one by one, keep the box up to date.
LEMMA AllTrack ==
  ASSUME NEW net \in Nets, NEW at \in [Cells -> Bels], NEW to, DOMAIN to \subseteq Cells,
         \A c \in DOMAIN to : to[c] \in Bels /\ at[c] = bel[c],
         NEW b, NEW box, Tracks(b, box, Spots(net, at)),
         NEW at2, at2 = AllAt(at, DOMAIN to, to)
  PROVE  Tracks(AllMove(b, net, to), box, Spots(net, at2))
  <1> DEFINE S == DOMAIN to
             f == CHOOSE x : CellByCell(x, SUBSET S, b, net, to)
             good(s) == Tracks(f[s], box, Spots(net, AllAt(at, s, to)))
             Bads == {n \in Nat : \E s \in SUBSET S : Cardinality(s) = n /\ ~good(s)}
  <1>1. IsFiniteSet(S)
    BY DetailPlaceAssumption, FS_Subset
  <1>2. CellByCell(f, SUBSET S, b, net, to)
    <2> HIDE DEF S
    <2>1. \E x : CellByCell(x, SUBSET S, b, net, to)
      BY <1>1, CellByCellExists
    <2> QED BY <2>1
  <1>3. AllMove(b, net, to) = f[S]
    BY DEF AllMove, FoldSet, MapThenFoldSet, CellByCell
  <1> HIDE DEF f
  <1>4. f[{}] = b
    BY <1>2 DEF CellByCell
  <1>5. ASSUME NEW s \in SUBSET S, s # {}
        PROVE  f[s] = CellMoves(f[s \ {Chosen(s)}], net, Chosen(s), bel[Chosen(s)], to[Chosen(s)])
    BY <1>2, <1>5 DEF CellByCell, Chosen
  <1> HIDE DEF S
  <1>6. ASSUME Bads # {} PROVE FALSE
    <2>1. PICK n \in Bads : \A j \in Bads : n <= j
      <3>1. Bads \subseteq Nat
        OBVIOUS
      <3> HIDE DEF Bads
      <3> QED BY <1>6, <3>1, LeastNat
    <2>2. PICK s \in SUBSET S : Cardinality(s) = n /\ ~good(s)
      BY <2>1
    <2>3. CASE s = {}
      <3>1. AllAt(at, s, to) = at
        BY <2>3 DEF AllAt
      <3> QED BY <1>4, <2>2, <2>3, <3>1
    <2>4. CASE s # {}
      <3> DEFINE c == Chosen(s)
                 r == s \ {c}
                 ar == AllAt(at, r, to)
      <3>1. c \in s /\ r \in SUBSET S /\ Cardinality(r) = n - 1 /\ n \in Nat \ {0}
        BY <1>1, <2>2, <2>4, Smaller
      <3>2. n - 1 \in Nat /\ n - 1 \notin Bads
        <4>1. n - 1 \in Nat /\ ~(n <= n - 1)
          BY <3>1
        <4> HIDE DEF Bads
        <4> QED BY <2>1, <4>1
      <3>3. good(r)
        BY <3>1, <3>2
      <3>4. c \in Cells /\ to[c] \in Bels /\ at[c] = bel[c]
        BY <3>1 DEF S
      <3>5. ar \in [Cells -> Bels] /\ ar[c] = bel[c]
        <4>1. \A d \in r : d \in DOMAIN to
          BY <3>1 DEF S
        <4>2. \A d \in Cells : (IF d \in r THEN to[d] ELSE at[d]) \in Bels
          BY <4>1
        <4>3. ar = [d \in Cells |-> IF d \in r THEN to[d] ELSE at[d]]
          BY DEF AllAt
        <4> QED BY <3>1, <3>4, <4>2, <4>3
      <3>6. AllAt(at, s, to) = CellAt(ar, c, to[c])
        <4>1. \A d \in Cells : d \in s <=> d = c \/ d \in r
          BY <3>1
        <4> HIDE DEF c, r
        <4> QED BY <3>4, <4>1 DEF AllAt, CellAt
      <3>7. f[s] = CellMoves(f[r], net, c, ar[c], to[c])
        BY <1>5, <2>4, <3>5
      <3> HIDE DEF c, r, ar
      <3>8. Tracks(f[r], box, Spots(net, ar))
        BY <3>3 DEF ar
      <3>9. Tracks(f[s], box, Spots(net, AllAt(at, s, to)))
        BY <3>4, <3>5, <3>6, <3>7, <3>8, CellTracks
      <3> QED BY <2>2, <3>9
    <2> QED BY <2>3, <2>4
  <1>7. Cardinality(S) \in Nat
    BY <1>1, FS_CardinalityType
  <1>8. good(S)
    BY <1>6, <1>7
  <1> QED BY <1>3, <1>8 DEF S

-----------------------------------------------------------------------------
\* A box from scratch, edge by edge.
BoxOf(pt) == [i \in Axes |-> [d \in Sides |-> EdgeOf(Coord(pt, i, d))]]

LEMMA BoxIs ==
  ASSUME NEW net \in Nets, NEW at \in [Cells -> Bels]
  PROVE  Box(net, at) = BoxOf(Spots(net, at))
  <1> DEFINE D == DOMAIN Pins[net]
             pt == Spots(net, at)
             pos(i, d, k) == d * at[Pins[net][k]][i]
             edge(i, d) == Min({pos(i, d, k) : k \in D})
             direct(i, d) == [at |-> edge(i, d),
                              n |-> Cardinality({k \in D : pos(i, d, k) = edge(i, d)})]
  <1>1. D = 1 .. Len(Pins[net])
    BY DetailPlaceAssumption
  <1>2. DOMAIN pt = D /\ \A k \in D : pt[k] = at[Pins[net][k]]
    BY <1>1 DEF Spots
  <1>3. Box(net, at) = [i \in Axes |-> [d \in Sides |-> direct(i, d)]]
    BY DEF Box
  <1>4. ASSUME NEW i \in Axes, NEW d \in Sides
        PROVE  EdgeOf(Coord(pt, i, d)) = direct(i, d)
    <2> DEFINE q == Coord(pt, i, d)
    <2>1. DOMAIN q = D /\ \A k \in D : q[k] = pos(i, d, k)
      BY <1>2 DEF Coord
    <2> HIDE DEF q, D, pos
    <2>2. {q[k] : k \in DOMAIN q} = {pos(i, d, k) : k \in D}
      BY <2>1
    <2>3. Min({q[k] : k \in DOMAIN q}) = edge(i, d)
      BY <2>2
    <2>4. \A x : {k \in DOMAIN q : q[k] = x} = {k \in D : pos(i, d, k) = x}
      BY <2>1
    <2>5. EdgeOf(q) = direct(i, d)
      <3> HIDE DEF edge
      <3>1. EdgeOf(q) = [at |-> edge(i, d),
                         n |-> Cardinality({k \in DOMAIN q : q[k] = edge(i, d)})]
        BY <2>3 DEF EdgeOf
      <3>2. {k \in DOMAIN q : q[k] = edge(i, d)} = {k \in D : pos(i, d, k) = edge(i, d)}
        BY <2>4
      <3> QED BY <3>1, <3>2
    <2> QED BY <2>5 DEF q, D, pos
  <1> HIDE DEF direct
  <1> QED BY <1>3, <1>4 DEF BoxOf

LEMMA PinsOfNet ==
  ASSUME NEW net \in Nets, NEW at \in [Cells -> Bels]
  PROVE  /\ Len(Pins[net]) \in Nat /\ DOMAIN Pins[net] = 1 .. Len(Pins[net])
         /\ IsFiniteSet(1 .. Len(Pins[net]))
         /\ Spots(net, at) \in [1 .. Len(Pins[net]) -> Bels]
  <1>1. /\ Len(Pins[net]) \in Nat /\ DOMAIN Pins[net] = 1 .. Len(Pins[net])
        /\ \A k \in 1 .. Len(Pins[net]) : Pins[net][k] \in Cells
    BY DetailPlaceAssumption
  <1>2. IsFiniteSet(1 .. Len(Pins[net]))
    <2> DEFINE n == Len(Pins[net])
    <2>1. n \in Nat
      BY <1>1
    <2> HIDE DEF n
    <2>2. IsFiniteSet(1 .. n)
      BY <2>1, FS_Interval
    <2> QED BY <2>2 DEF n
  <1>3. Spots(net, at) \in [1 .. Len(Pins[net]) -> Bels]
    BY <1>1 DEF Spots
  <1> QED BY <1>1, <1>2, <1>3

\* The edges of a box from scratch are edges.
LEMMA BoxEdges ==
  ASSUME NEW net \in Nets, NEW at \in [Cells -> Bels], DOMAIN Pins[net] # {},
         NEW i \in Axes, NEW d \in Sides, NEW e
  PROVE  IsEdge(e, Coord(Spots(net, at), i, d)) <=> e = Box(net, at)[i][d]
  <1> DEFINE D == 1 .. Len(Pins[net])
             pt == Spots(net, at)
             q == Coord(pt, i, d)
  <1>1. IsFiniteSet(D) /\ D # {} /\ pt \in [D -> Bels]
    BY PinsOfNet
  <1>2. Box(net, at)[i][d] = EdgeOf(q)
    BY BoxIs DEF BoxOf
  <1> HIDE DEF D, pt
  <1>3. q \in [D -> Int]
    BY <1>1, CoordIs
  <1> HIDE DEF q
  <1>4. IsEdge(e, q) <=> e = EdgeOf(q)
    BY <1>1, <1>3, EdgeIs
  <1> QED BY <1>2, <1>4 DEF q, pt

LEMMA BoxShape ==
  ASSUME NEW net, NEW at
  PROVE  Box(net, at) = [i \in Axes |-> [d \in Sides |-> Box(net, at)[i][d]]]
  BY DEF Box

\* A box that nothing has happened to is up to date.
LEMMA StillTracks ==
  ASSUME NEW net \in Nets, NEW at \in [Cells -> Bels], DOMAIN Pins[net] # {},
         NEW box, box = Box(net, at)
  PROVE  Tracks(Still(box), box, Spots(net, at))
  <1> DEFINE b == Still(box)
  <1>1. b = [box |-> box, change |-> [i \in Axes |-> "no"]]
    BY DEF Still
  <1>2. /\ b = [box |-> b.box, change |-> b.change] /\ b.box = box
        /\ \A i \in Axes : b.change[i] = "no"
    BY <1>1
  <1>3. b.box = [i \in Axes |-> [d \in Sides |-> b.box[i][d]]]
    BY <1>2, BoxShape
  <1>4. \A i \in Axes, d \in Sides : IsEdge(b.box[i][d], Coord(Spots(net, at), i, d))
    BY <1>2, BoxEdges
  <1> HIDE DEF b
  <1>5. Tracks(b, box, Spots(net, at))
    BY <1>2, <1>3, <1>4 DEF Tracks, Changes
  <1> QED BY <1>5 DEF b

\* What compute_total_change leaves of a box: it is the one from scratch, and
\* so is the old one if nothing is said to have changed.
Fresh(b, box, new) ==
  b.box = new /\ ((\A i \in Axes : b.change[i] = "no") => box = new)

LEMMA TotalFresh ==
  ASSUME NEW net \in Nets, NEW at \in [Cells -> Bels], DOMAIN Pins[net] # {},
         NEW b, NEW box, box = [i \in Axes |-> box[i]],
         Tracks(b, box, Spots(net, at))
  PROVE  Fresh(Total(b, net, at), box, Box(net, at))
  <1> DEFINE new == Box(net, at)
             r == Total(b, net, at)
  <1>1. /\ b = [box |-> b.box, change |-> b.change]
        /\ b.box = [i \in Axes |-> [d \in Sides |-> b.box[i][d]]]
    BY DEF Tracks
  <1>2. new = [i \in Axes |-> [d \in Sides |-> new[i][d]]]
    BY BoxShape
  <1>3. ASSUME NEW i \in Axes, b.change[i] # "full", NEW d \in Sides
        PROVE  b.box[i][d] = new[i][d]
    <2>1. IsEdge(b.box[i][d], Coord(Spots(net, at), i, d))
      BY <1>3 DEF Tracks
    <2> QED BY <2>1, BoxEdges
  <1>4. \A i \in Axes : b.change[i] = "no" => b.box[i] = box[i]
    BY DEF Tracks
  <1>5. CASE \E i \in Axes : b.change[i] = "full"
    <2>1. r = [b EXCEPT !.box = new]
      BY <1>5 DEF Total
    <2>2. r.box = new /\ r.change = b.change
      BY <1>1, <2>1
    <2>3. ~(\A i \in Axes : r.change[i] = "no")
      BY <1>5, <2>2
    <2> QED BY <2>2, <2>3 DEF Fresh
  <1>6. CASE \A i \in Axes : b.change[i] # "full"
    <2>1. r = b
      BY <1>6 DEF Total
    <2> HIDE DEF new, r
    <2>2. \A i \in Axes, d \in Sides : b.box[i][d] = new[i][d]
      BY <1>3, <1>6
    <2>3. b.box = new
      BY <1>1, <1>2, <2>2
    <2>4. (\A i \in Axes : b.change[i] = "no") => box = new
      <3> SUFFICES ASSUME \A i \in Axes : b.change[i] = "no" PROVE box = new
        OBVIOUS
      <3>1. \A i \in Axes : box[i] = new[i]
        BY <1>4, <2>3
      <3>2. new = [i \in Axes |-> new[i]]
        BY <1>2
      <3> QED BY <3>1, <3>2
    <2>5. Fresh(r, box, new)
      BY <2>1, <2>3, <2>4 DEF Fresh
    <2> QED BY <2>5 DEF r, new
  <1> QED BY <1>5, <1>6

-----------------------------------------------------------------------------
\* The boxes of a thread.  Where the cells were before its move.
Origin(s) == [c \in Cells |-> IF c \in DOMAIN s.moved THEN s.moved[c].old ELSE s.local[c]]

\* The boxes that count are those of the places before the move.
Mapped(s) ==
  /\ s.local \in [Cells -> Bels] /\ Origin(s) \in [Cells -> Bels]
  /\ s.box = [n \in NetsOf(s.p.cells) |-> s.box[n]]
  /\ s.next = [n \in NetsOf(s.p.cells) |-> s.next[n]]
  /\ \A n \in NetsOf(s.p.cells) : s.box[n] = Box(n, Origin(s))

\* While the move is put together, the others are kept up to date with it.
Charted(s) ==
  /\ Mapped(s)
  /\ \A n \in NetsOf(s.p.cells) : Tracks(s.next[n], s.box[n], Spots(n, s.local))

\* Once it is complete, they are those of the places after the move.
Computed(s) ==
  /\ Mapped(s)
  /\ \A n \in NetsOf(s.p.cells) : Fresh(s.next[n], s.box[n], Box(n, s.local))

Boxed(s) == IF s.pc \in Binding \cup {"decide"} THEN Computed(s) ELSE Charted(s)

LEMMA NetsIs ==
  ASSUME NEW cells, NEW n \in NetsOf(cells)
  PROVE  n \in Nets /\ DOMAIN Pins[n] # {}
  BY DEF NetsOf

LEMMA MappedSame ==
  ASSUME NEW s, NEW e, e.p = s.p, e.moved = s.moved, e.local = s.local,
         e.box = s.box, e.next = s.next
  PROVE  (Mapped(s) => Mapped(e)) /\ (Charted(s) => Charted(e)) /\ (Computed(s) => Computed(e))
  <1>1. Origin(e) = Origin(s)
    BY DEF Origin
  <1>2. Mapped(s) => Mapped(e)
    BY <1>1 DEF Mapped
  <1> QED BY <1>2 DEF Charted, Computed

\* What has happened to the boxes since the last move is forgotten.
ResetBoxes(s) == [n \in DOMAIN s.next |-> Still(s.box[n])]

LEMMA ResetBoxesAre ==
  ASSUME NEW s, Shape(s)
  PROVE  Reset(s).box = s.box /\ Reset(s).next = ResetBoxes(s)
  BY DEF Shape, Reset, Fields, ResetBoxes

LEMMA BoxedReset ==
  ASSUME NEW s, Shape(s), Mapped(s)
  PROVE  Boxed(Reset(s))
  <1> DEFINE e == Reset(s)
             nets == NetsOf(s.p.cells)
  <1>1. /\ e.p = s.p /\ e.pc \in {"idle", "tiles"} /\ e.moved = <<>>
        /\ e.local = Origin(s) /\ e.box = s.box /\ e.next = ResetBoxes(s)
    BY ResetIs, ResetBoxesAre DEF Origin
  <1>2. /\ Origin(s) \in [Cells -> Bels]
        /\ s.box = [n \in nets |-> s.box[n]] /\ DOMAIN s.next = nets
        /\ \A n \in nets : s.box[n] = Box(n, Origin(s))
    BY DEF Mapped
  <1> HIDE DEF e
  <1>3. Origin(e) = Origin(s)
    <2>1. DOMAIN e.moved = {}
      BY <1>1, EmptyDomain
    <2>2. Origin(e) = [c \in Cells |-> e.local[c]]
      BY <2>1 DEF Origin
    <2> QED BY <1>1, <1>2, <2>2
  <1>4. e.next = [n \in nets |-> Still(s.box[n])]
    BY <1>1, <1>2 DEF ResetBoxes
  <1>5. Mapped(e)
    BY <1>1, <1>2, <1>3, <1>4 DEF Mapped
  <1>6. ASSUME NEW n \in nets
        PROVE  Tracks(e.next[n], e.box[n], Spots(n, e.local))
    <2>1. n \in Nets /\ DOMAIN Pins[n] # {}
      BY NetsIs
    <2>2. e.next[n] = Still(s.box[n]) /\ e.box[n] = s.box[n]
      BY <1>1, <1>4
    <2>3. Tracks(Still(s.box[n]), s.box[n], Spots(n, Origin(s)))
      BY <1>2, <2>1, StillTracks
    <2> QED BY <1>1, <2>2, <2>3
  <1>7. Boxed(e)
    BY <1>1, <1>5, <1>6 DEF Boxed, Charted, Binding
  <1> QED BY <1>7 DEF e

\* compute_total_change.
TotalBoxes(s) == [n \in DOMAIN s.next |-> Total(s.next[n], n, s.local)]

LEMMA TotalBoxesAre ==
  ASSUME NEW s, Shape(s)
  PROVE  Decide(s).box = s.box /\ Decide(s).next = TotalBoxes(s)
  BY DEF Shape, Decide, Fields, TotalBoxes

LEMMA BoxedDecide ==
  ASSUME NEW s, Shape(s), Charted(s)
  PROVE  Boxed(Decide(s))
  <1> DEFINE e == Decide(s)
             nets == NetsOf(s.p.cells)
  <1>1. /\ e.p = s.p /\ e.pc = "decide" /\ e.moved = s.moved
        /\ e.local = s.local /\ e.box = s.box /\ e.next = TotalBoxes(s)
    BY DecideIs, TotalBoxesAre
  <1>2. /\ s.local \in [Cells -> Bels] /\ Origin(s) \in [Cells -> Bels]
        /\ s.box = [n \in nets |-> s.box[n]] /\ DOMAIN s.next = nets
        /\ \A n \in nets : s.box[n] = Box(n, Origin(s))
    BY DEF Charted, Mapped
  <1> HIDE DEF e
  <1>3. Origin(e) = Origin(s)
    BY <1>1 DEF Origin
  <1>4. e.next = [n \in nets |-> Total(s.next[n], n, s.local)]
    BY <1>1, <1>2 DEF TotalBoxes
  <1>5. Mapped(e)
    BY <1>1, <1>2, <1>3, <1>4 DEF Mapped
  <1>6. ASSUME NEW n \in nets
        PROVE  Fresh(e.next[n], e.box[n], Box(n, e.local))
    <2>1. n \in Nets /\ DOMAIN Pins[n] # {}
      BY NetsIs
    <2>2. e.next[n] = Total(s.next[n], n, s.local) /\ e.box[n] = s.box[n]
      BY <1>1, <1>4
    <2>3. Tracks(s.next[n], s.box[n], Spots(n, s.local))
      BY DEF Charted
    <2>4. s.box[n] = [i \in Axes |-> s.box[n][i]]
      BY <1>2, BoxShape
    <2>5. Fresh(Total(s.next[n], n, s.local), s.box[n], Box(n, s.local))
      BY <1>2, <2>1, <2>3, <2>4, TotalFresh
    <2> QED BY <1>1, <2>2, <2>5
  <1>7. Boxed(e)
    BY <1>1, <1>5, <1>6 DEF Boxed, Computed
  <1> QED BY <1>7 DEF e

\* add_to_move.
AddBoxes(s, c, old, new) == [n \in DOMAIN s.next |-> CellMoves(s.next[n], n, c, old, new)]

LEMMA AddBoxesAre ==
  ASSUME NEW s, Shape(s), NEW c, NEW old, NEW new, NEW e, e = Add(s, c, old, new)
  PROVE  /\ e.box = s.box /\ e.next = AddBoxes(s, c, old, new)
         /\ e.local = CellAt(s.local, c, new)
  BY DEF Shape, Add, Fields, AddBoxes, CellAt

LEMMA ChartedAdd ==
  ASSUME NEW s, Shape(s), Charted(s), NEW c \in Cells, c \notin DOMAIN s.moved,
         NEW new \in Bels, NEW old, old = s.local[c], NEW e, e = Add(s, c, old, new)
  PROVE  Charted(e)
  <1> DEFINE nets == NetsOf(s.p.cells)
  <1>1. /\ e.p = s.p /\ e.box = s.box /\ e.next = AddBoxes(s, c, old, new)
        /\ e.local = CellAt(s.local, c, new)
        /\ DOMAIN e.moved = DOMAIN s.moved \cup {c} /\ e.moved[c].old = old
        /\ \A d \in DOMAIN s.moved : d # c => e.moved[d] = s.moved[d]
    BY AddIs, AddBoxesAre
  <1>2. /\ s.local \in [Cells -> Bels] /\ Origin(s) \in [Cells -> Bels]
        /\ s.box = [n \in nets |-> s.box[n]] /\ DOMAIN s.next = nets
        /\ \A n \in nets : s.box[n] = Box(n, Origin(s))
    BY DEF Charted, Mapped
  <1>3. /\ e.local \in [Cells -> Bels]
        /\ \A d \in Cells : d # c => e.local[d] = s.local[d]
    BY <1>1, <1>2 DEF CellAt
  <1>4. Origin(e) = Origin(s)
    <2>1. ASSUME NEW d \in Cells
          PROVE  (IF d \in DOMAIN e.moved THEN e.moved[d].old ELSE e.local[d]) =
                 (IF d \in DOMAIN s.moved THEN s.moved[d].old ELSE s.local[d])
      BY <1>1, <1>3
    <2> QED BY <2>1 DEF Origin
  <1>5. e.next = [n \in nets |-> CellMoves(s.next[n], n, c, old, new)]
    BY <1>1, <1>2 DEF AddBoxes
  <1>6. Mapped(e)
    BY <1>1, <1>2, <1>3, <1>4, <1>5 DEF Mapped
  <1>7. ASSUME NEW n \in nets
        PROVE  Tracks(e.next[n], e.box[n], Spots(n, e.local))
    <2>1. n \in Nets
      BY NetsIs
    <2>2. e.next[n] = CellMoves(s.next[n], n, c, s.local[c], new) /\ e.box[n] = s.box[n]
      BY <1>1, <1>5
    <2>3. Tracks(s.next[n], s.box[n], Spots(n, s.local))
      BY DEF Charted
    <2> QED BY <1>1, <1>2, <2>1, <2>2, <2>3, CellTracks
  <1> QED BY <1>1, <1>6, <1>7 DEF Charted

\* The beginning of a move of several cells.
AllBoxes(s, to) == [n \in DOMAIN s.next |-> AllMove(s.next[n], n, to)]

LEMMA AllBoxesAre ==
  ASSUME NEW s, Shape(s), NEW to, NEW e, e = AddAll(s, to)
  PROVE  /\ e.box = s.box /\ e.next = AllBoxes(s, to)
         /\ e.local = AllAt(s.local, DOMAIN to, to)
  BY DEF Shape, AddAll, Fields, AllBoxes, AllAt

LEMMA ChartedAddAll ==
  ASSUME NEW s, Shape(s), Charted(s), DOMAIN s.moved = {},
         NEW to, DOMAIN to \subseteq Cells,
         \A c \in DOMAIN to : to[c] \in Bels /\ s.local[c] = bel[c],
         NEW e, e = AddAll(s, to)
  PROVE  Charted(e)
  <1> DEFINE nets == NetsOf(s.p.cells)
  <1>1. /\ e.p = s.p /\ e.box = s.box /\ e.next = AllBoxes(s, to)
        /\ e.local = AllAt(s.local, DOMAIN to, to) /\ DOMAIN e.moved = DOMAIN to
        /\ \A c \in DOMAIN to : e.moved[c].old = bel[c]
    BY AddAllIs, AllBoxesAre
  <1>2. /\ s.local \in [Cells -> Bels] /\ Origin(s) \in [Cells -> Bels]
        /\ s.box = [n \in nets |-> s.box[n]] /\ DOMAIN s.next = nets
        /\ \A n \in nets : s.box[n] = Box(n, Origin(s))
    BY DEF Charted, Mapped
  <1>3. /\ e.local \in [Cells -> Bels]
        /\ \A c \in Cells : c \notin DOMAIN to => e.local[c] = s.local[c]
    BY <1>1, <1>2 DEF AllAt
  <1>4. Origin(e) = Origin(s)
    <2>1. ASSUME NEW d \in Cells
          PROVE  (IF d \in DOMAIN e.moved THEN e.moved[d].old ELSE e.local[d]) =
                 (IF d \in DOMAIN s.moved THEN s.moved[d].old ELSE s.local[d])
      BY <1>1, <1>3
    <2> QED BY <2>1 DEF Origin
  <1>5. e.next = [n \in nets |-> AllMove(s.next[n], n, to)]
    BY <1>1, <1>2 DEF AllBoxes
  <1>6. Mapped(e)
    BY <1>1, <1>2, <1>3, <1>4, <1>5 DEF Mapped
  <1>7. ASSUME NEW n \in nets
        PROVE  Tracks(e.next[n], e.box[n], Spots(n, e.local))
    <2>1. n \in Nets
      BY NetsIs
    <2>2. e.next[n] = AllMove(s.next[n], n, to) /\ e.box[n] = s.box[n]
      BY <1>1, <1>5
    <2>3. Tracks(s.next[n], s.box[n], Spots(n, s.local))
      BY DEF Charted
    <2> QED BY <1>1, <1>2, <2>1, <2>2, <2>3, AllTrack
  <1> QED BY <1>1, <1>6, <1>7 DEF Charted

\* commit_move.
CommitBoxes(s) ==
  [n \in DOMAIN s.box |->
     IF \E i \in Axes : s.next[n].change[i] # "no" THEN s.next[n].box ELSE s.box[n]]

LEMMA CommittedIs ==
  ASSUME NEW s, Shape(s), NEW e, e = Committed(s)
  PROVE  /\ Shape(e) /\ e.p = s.p /\ e.pc = s.pc /\ e.moved = <<>> /\ e.local = s.local
         /\ e.box = CommitBoxes(s) /\ e.next = s.next
  BY DEF Shape, Fields, Committed, CommitBoxes

LEMMA MappedCommitted ==
  ASSUME NEW s, Shape(s), Computed(s), NEW e, e = Committed(s)
  PROVE  Shape(e) /\ Mapped(e)
  <1> DEFINE nets == NetsOf(s.p.cells)
  <1>1. /\ Shape(e) /\ e.p = s.p /\ e.moved = <<>> /\ e.local = s.local
        /\ e.box = CommitBoxes(s) /\ e.next = s.next
    BY CommittedIs
  <1>2. /\ s.local \in [Cells -> Bels] /\ DOMAIN s.box = nets
        /\ s.next = [n \in nets |-> s.next[n]]
    BY DEF Computed, Mapped
  <1>3. Origin(e) = e.local
    <2>1. DOMAIN e.moved = {}
      BY <1>1, EmptyDomain
    <2>2. Origin(e) = [c \in Cells |-> e.local[c]]
      BY <2>1 DEF Origin
    <2> QED BY <1>1, <1>2, <2>2
  <1>4. e.box = [n \in nets |-> IF \E i \in Axes : s.next[n].change[i] # "no"
                                THEN s.next[n].box ELSE s.box[n]]
    BY <1>1, <1>2 DEF CommitBoxes
  <1>5. ASSUME NEW n \in nets PROVE e.box[n] = Box(n, s.local)
    <2>1. Fresh(s.next[n], s.box[n], Box(n, s.local))
      BY DEF Computed
    <2> QED BY <1>4, <2>1 DEF Fresh
  <1> QED BY <1>1, <1>2, <1>3, <1>4, <1>5 DEF Mapped

\* setup_initial_state.
LEMMA ReadyBoxesAre ==
  ASSUME NEW p, NEW n, NEW s, s = Ready(p, n), bel \in [Cells -> Bels]
  PROVE  Charted(s)
  <1> DEFINE nets == NetsOf(p.cells)
  <1>1. /\ s.p = p /\ s.moved = <<>> /\ s.local = bel
        /\ s.box = [m \in nets |-> Boxes[m]] /\ s.next = [m \in nets |-> Still(Boxes[m])]
    BY DEF Ready
  <1>2. \A m \in nets : m \in Nets /\ DOMAIN Pins[m] # {}
    BY NetsIs
  <1>3. \A m \in nets : Boxes[m] = Box(m, bel)
    BY <1>2 DEF Boxes
  <1>4. Origin(s) = bel
    <2>1. DOMAIN s.moved = {}
      BY <1>1, EmptyDomain
    <2>2. Origin(s) = [c \in Cells |-> s.local[c]]
      BY <2>1 DEF Origin
    <2> QED BY <1>1, <2>2
  <1> HIDE DEF nets
  <1>5. \A m \in nets : s.box[m] = Box(m, bel) /\ s.next[m] = Still(s.box[m])
    BY <1>1, <1>3
  <1>6. Mapped(s)
    BY <1>1, <1>4, <1>5 DEF Mapped, nets
  <1>7. \A m \in nets : Tracks(s.next[m], s.box[m], Spots(m, s.local))
    BY <1>1, <1>2, <1>5, StillTracks
  <1> QED BY <1>1, <1>6, <1>7 DEF Charted, nets

-----------------------------------------------------------------------------
\* Every step of a thread keeps its boxes, and the others'.
AllBoxed(h) == \A t \in Threads : Boxed(h[t])

LEMMA PutBoxed ==
  ASSUME Now, AllBoxed(th), NEW t \in Threads, NEW e, th' = [th EXCEPT ![t] = e], Boxed(e)
  PROVE  AllBoxed(th')
  <1>1. DOMAIN th = Threads
    BY NowIs
  <1>2. \A u \in Threads : th'[u] = IF u = t THEN e ELSE th[u]
    BY <1>1
  <1> QED BY <1>2 DEF AllBoxed

LEMMA GotoBoxed ==
  ASSUME Now, AllBoxed(th), NEW t \in Threads, NEW e, Goto(t, e), Boxed(e)
  PROVE  AllBoxed(th')
  BY PutBoxed DEF Goto

LEMMA BoxedNow ==
  ASSUME Now, AllBoxed(th), NEW t \in Threads
  PROVE  /\ Shape(th[t]) /\ Boxed(th[t]) /\ Mapped(th[t])
         /\ th[t].pc \notin Binding \cup {"decide"} => Charted(th[t])
         /\ th[t].pc \in Binding \cup {"decide"} => Computed(th[t])
  BY NowIs DEF AllBoxed, Boxed, Charted, Computed, Sound

LEMMA TriedBoxes ==
  ASSUME Now, AllBoxed(th), NEW t \in Threads, Idle(t), NEW s, s = Tried(t)
  PROVE  /\ Shape(s) /\ Charted(s) /\ s.pc = "idle" /\ s.p = th[t].p /\ DOMAIN s.moved = {}
         /\ th[t].p.cells \subseteq Cells /\ \A c \in th[t].p.cells : s.local[c] = bel[c]
  <1>1. Shape(th[t]) /\ Charted(th[t])
    BY BoxedNow DEF Idle, Binding
  <1>2. /\ s.p = th[t].p /\ s.moved = th[t].moved /\ s.local = th[t].local
        /\ s.box = th[t].box /\ s.next = th[t].next
    BY <1>1 DEF Shape, Fields, Tried
  <1>3. Charted(s)
    BY <1>1, <1>2, MappedSame
  <1> QED BY <1>2, <1>3, TriedIs, NowIs DEF Sound

LEMMA ChartedBoxed ==
  ASSUME NEW s, Charted(s), s.pc \in Settled \cup {"chain"}
  PROVE  Boxed(s)
  BY DEF Boxed, Settled, Binding

LEMMA EndIterBoxed ==
  ASSUME Now, AllBoxed(th), NEW t \in Threads, EndIter(t)
  PROVE  AllBoxed(th')
  <1> DEFINE s == th[t]
             e == [s EXCEPT !.pc = "done"]
  <1>1. Shape(s) /\ Charted(s) /\ Goto(t, e)
    BY BoxedNow DEF EndIter, Binding
  <1>2. /\ e.p = s.p /\ e.moved = s.moved /\ e.local = s.local
        /\ e.box = s.box /\ e.next = s.next /\ e.pc = "done"
    BY <1>1 DEF Shape, Fields
  <1> HIDE DEF e
  <1>3. Boxed(e)
    BY <1>1, <1>2, MappedSame, ChartedBoxed DEF Settled
  <1> QED BY <1>1, <1>3, GotoBoxed

LEMMA EndTileSwapsBoxed ==
  ASSUME Now, AllBoxed(th), NEW t \in Threads, EndTileSwaps(t)
  PROVE  AllBoxed(th')
  <1> DEFINE s == th[t]
             e == [s EXCEPT !.pc = "idle", !.tiles = <<>>]
  <1>1. Shape(s) /\ Charted(s) /\ Goto(t, e)
    BY BoxedNow DEF EndTileSwaps, Binding
  <1>2. /\ e.p = s.p /\ e.moved = s.moved /\ e.local = s.local
        /\ e.box = s.box /\ e.next = s.next /\ e.pc = "idle"
    BY <1>1 DEF Shape, Fields
  <1> HIDE DEF e
  <1>3. Boxed(e)
    BY <1>1, <1>2, MappedSame, ChartedBoxed DEF Settled
  <1> QED BY <1>1, <1>3, GotoBoxed

LEMMA TileSwapsBoxed ==
  ASSUME Now, AllBoxed(th), NEW t \in Threads, TileSwaps(t)
  PROVE  AllBoxed(th')
  <1> DEFINE cells(x) == {c \in th[t].p.cells : TileOf(bel[c]) = x}
             s == Tried(t)
             f == [x \in Tiles |-> cells(x)]
             g == {x \in Tiles : cells(x) # {}}
             e == [s EXCEPT !.pc = "tiles", !.tiles = f, !.todo = g]
  <1>1. Idle(t) /\ Goto(t, e)
    BY DEF TileSwaps
  <1> HIDE DEF s, f, g
  <1>2. Shape(s) /\ Charted(s)
    BY <1>1, TriedBoxes DEF s
  <1>3. /\ e.p = s.p /\ e.moved = s.moved /\ e.local = s.local
        /\ e.box = s.box /\ e.next = s.next /\ e.pc = "tiles"
    BY <1>2 DEF Shape, Fields
  <1> HIDE DEF e
  <1>4. Boxed(e)
    BY <1>2, <1>3, MappedSame, ChartedBoxed DEF Settled
  <1> QED BY <1>1, <1>4, GotoBoxed

LEMMA ChainSwapBoxed ==
  ASSUME Now, AllBoxed(th), NEW t \in Threads, ChainSwap(t)
  PROVE  AllBoxed(th')
  <1> DEFINE s == Tried(t)
  <1>1. PICK k \in Clusters, new \in {b \in Bels : Inside(th[t].p, b)} :
          Goto(t, [s EXCEPT !.pc = "chain", !.queue = <<<<k, new>>>>])
    BY DEF ChainSwap
  <1> DEFINE e == [s EXCEPT !.pc = "chain", !.queue = <<<<k, new>>>>]
  <1>2. Idle(t)
    BY DEF ChainSwap
  <1> HIDE DEF s
  <1>3. Shape(s) /\ Charted(s)
    BY <1>2, TriedBoxes DEF s
  <1>4. /\ e.p = s.p /\ e.moved = s.moved /\ e.local = s.local
        /\ e.box = s.box /\ e.next = s.next /\ e.pc = "chain"
    BY <1>3 DEF Shape, Fields
  <1>5. Goto(t, e)
    BY <1>1 DEF s
  <1> HIDE DEF e
  <1>6. Boxed(e)
    BY <1>3, <1>4, MappedSame, ChartedBoxed
  <1> QED BY <1>5, <1>6, GotoBoxed

LEMMA ChainClusterBoxed ==
  ASSUME Now, AllBoxed(th), NEW t \in Threads, ChainCluster(t)
  PROVE  AllBoxed(th')
  <1> DEFINE s == th[t]
             to == [c \in Members(Head(s.queue)[1]) |-> Plus(Head(s.queue)[2], Offset[c])]
             e == [s EXCEPT !.queue = Tail(@), !.dest = to]
  <1>1. Shape(s) /\ Charted(s) /\ Mapped(s) /\ s.pc = "chain"
    BY BoxedNow DEF ChainCluster, Binding
  <1>2. Goto(t, Decide(s)) \/ Goto(t, Reset(s)) \/ Goto(t, e)
    BY DEF ChainCluster
  <1> HIDE DEF to
  <1>3. Boxed(Decide(s)) /\ Boxed(Reset(s))
    BY <1>1, BoxedDecide, BoxedReset
  <1>4. /\ e.p = s.p /\ e.moved = s.moved /\ e.local = s.local
        /\ e.box = s.box /\ e.next = s.next /\ e.pc = "chain"
    BY <1>1 DEF Shape, Fields
  <1> HIDE DEF e
  <1>5. Boxed(e)
    BY <1>1, <1>4, MappedSame, ChartedBoxed
  <1> QED BY <1>2, <1>3, <1>5, GotoBoxed

LEMMA RejectBoxed ==
  ASSUME Now, AllBoxed(th), NEW t \in Threads, Reject(t)
  PROVE  AllBoxed(th')
  <1>1. Boxed(Reset(th[t]))
    BY BoxedNow, BoxedReset
  <1>2. th' = [th EXCEPT ![t] = Reset(th[t])]
    BY DEF Reject
  <1> QED BY <1>1, <1>2, PutBoxed

LEMMA RevertMoveBoxed ==
  ASSUME Now, AllBoxed(th), NEW t \in Threads, RevertMove(t)
  PROVE  AllBoxed(th')
  <1>1. Boxed(Reset(th[t]))
    BY BoxedNow, BoxedReset
  <1>2. th' = [th EXCEPT ![t] = Reset(th[t])]
    BY DEF RevertMove
  <1> QED BY <1>1, <1>2, PutBoxed

LEMMA CommitMoveBoxed ==
  ASSUME Now, AllBoxed(th), NEW t \in Threads, CommitMove(t)
  PROVE  AllBoxed(th')
  <1> DEFINE e == Committed(th[t])
  <1>1. Shape(th[t]) /\ Computed(th[t])
    BY BoxedNow DEF CommitMove, Binding
  <1>2. th' = [th EXCEPT ![t] = Reset(e)]
    BY DEF CommitMove, Committed
  <1>3. Shape(e) /\ Mapped(e)
    BY <1>1, MappedCommitted
  <1> HIDE DEF e
  <1>4. Boxed(Reset(e))
    BY <1>3, BoxedReset
  <1> QED BY <1>2, <1>4, PutBoxed

\* Only the phase of the thread changes, when the move is complete.
LEMMA PhaseBoxed ==
  ASSUME Now, AllBoxed(th), NEW t \in Threads, th[t].pc \in Binding \cup {"decide"},
         NEW pc \in Binding, th' = [th EXCEPT ![t] = [th[t] EXCEPT !.pc = pc]]
  PROVE  AllBoxed(th')
  <1> DEFINE s == th[t]
             e == [s EXCEPT !.pc = pc]
  <1>1. Shape(s) /\ Computed(s)
    BY BoxedNow
  <1>2. /\ e.p = s.p /\ e.moved = s.moved /\ e.local = s.local
        /\ e.box = s.box /\ e.next = s.next /\ e.pc = pc
    BY <1>1 DEF Shape, Fields
  <1>3. th' = [th EXCEPT ![t] = e]
    OBVIOUS
  <1> HIDE DEF e, s
  <1>4. Boxed(e)
    BY <1>1, <1>2, MappedSame DEF Boxed
  <1> QED BY <1>3, <1>4, PutBoxed

LEMMA BindMoveBoxed ==
  ASSUME Now, AllBoxed(th), NEW t \in Threads, BindMove(t)
  PROVE  AllBoxed(th')
  <1>1. PICK done \in SUBSET DOMAIN th[t].moved :
          th' = [th EXCEPT ![t].pc = IF done = DOMAIN th[t].moved THEN "validate" ELSE "revert"]
    BY DEF BindMove
  <1>2. th[t].pc = "decide"
    BY DEF BindMove
  <1> DEFINE pc == IF done = DOMAIN th[t].moved THEN "validate" ELSE "revert"
  <1>3. pc \in Binding
    BY DEF Binding
  <1>4. th' = [th EXCEPT ![t] = [th[t] EXCEPT !.pc = pc]]
    BY <1>1
  <1> HIDE DEF pc
  <1> QED BY <1>2, <1>3, <1>4, PhaseBoxed

LEMMA CheckValidityBoxed ==
  ASSUME Now, AllBoxed(th), NEW t \in Threads, CheckValidity(t)
  PROVE  AllBoxed(th')
  <1> DEFINE ok == \A c \in DOMAIN th[t].moved :
                     Valid(th[t].moved[c].old) /\ Valid(th[t].moved[c].new)
             pc == IF ok THEN "commit" ELSE "revert"
  <1>1. th' = [th EXCEPT ![t].pc = pc] /\ th[t].pc = "validate"
    BY DEF CheckValidity
  <1> HIDE DEF ok
  <1>2. pc \in Binding
    BY DEF Binding
  <1> HIDE DEF pc
  <1>3. th' = [th EXCEPT ![t] = [th[t] EXCEPT !.pc = pc]]
    BY <1>1
  <1> QED BY <1>1, <1>2, <1>3, PhaseBoxed DEF Binding

\* single_cell_swap.
LEMMA SingleCellSwapBoxed ==
  ASSUME Now, AllBoxed(th), NEW t \in Threads, SingleCellSwap(t)
  PROVE  AllBoxed(th')
  <1> DEFINE s == Tried(t)
  <1>1. PICK c \in th[t].p.cells \ Locked, new \in {b \in Bels : Inside(th[t].p, b)} :
          LET old == bel[c]
              other == bound[new]
              a == Add(s, c, old, new)
          IN  /\ ~Clustered(c) /\ new # old
              /\ Goto(t, IF \/ other \in Locked
                            \/ other # NoCell /\ Clustered(other)
                            \/ ~CanAdd(a, old, new)
                         THEN s
                         ELSE Decide(IF other = NoCell THEN a ELSE Add(a, other, new, old)))
    BY DEF SingleCellSwap
  <1> DEFINE old == bel[c]
             other == bound[new]
             a == Add(s, c, old, new)
             e == Add(a, other, new, old)
  <1>2. Idle(t)
    BY DEF SingleCellSwap
  <1>3. new # old /\ (Goto(t, s) \/ (other = NoCell /\ Goto(t, Decide(a)))
                      \/ (other # NoCell /\ Goto(t, Decide(e))))
    BY <1>1
  <1> HIDE DEF s
  <1>4. /\ Shape(s) /\ Charted(s) /\ s.pc = "idle" /\ s.p = th[t].p /\ DOMAIN s.moved = {}
        /\ th[t].p.cells \subseteq Cells /\ \A d \in th[t].p.cells : s.local[d] = bel[d]
    BY <1>2, TriedBoxes DEF s
  <1>5. /\ bel \in [Cells -> Bels] /\ bound \in [Bels -> Cells \cup {NoCell}]
        /\ \A x \in Cells, b \in Bels : bound[b] = x <=> bel[x] = b
    BY DEF Now, Tables
  <1>6. Boxed(s)
    BY <1>4, ChartedBoxed DEF Settled
  <1>7. /\ c \in Cells /\ c \notin DOMAIN s.moved /\ old = s.local[c] /\ old \in Bels
        /\ new \in Bels
    BY <1>4, <1>5
  <1>8. /\ Shape(a) /\ Charted(a) /\ DOMAIN a.moved = {c}
        /\ a.local = CellAt(s.local, c, new)
    <2>1. Charted(a)
      BY <1>4, <1>7, ChartedAdd
    <2>2. /\ Shape(a) /\ DOMAIN a.moved = DOMAIN s.moved \cup {c}
          /\ a.local = CellAt(s.local, c, new)
      BY <1>4, AddIs, AddBoxesAre
    <2> QED BY <1>4, <2>1, <2>2
  <1> HIDE DEF a
  <1>9. Boxed(Decide(a))
    BY <1>8, BoxedDecide
  <1>10. ASSUME other # NoCell PROVE Boxed(Decide(e))
    <2>1. other \in Cells /\ bel[other] = new
      BY <1>5, <1>10
    <2>2. other \in th[t].p.cells
      <3>1. Region(th[t].p, bel)
        BY NowIs DEF Sound
      <3>2. Inside(th[t].p, new) /\ c \in th[t].p.cells
        OBVIOUS
      <3> QED BY <2>1, <3>1, <3>2 DEF Region
    <2>3. other # c
      BY <1>3, <2>1
    <2>4. s.local[other] = new
      BY <1>4, <2>1, <2>2
    <2>5. a.local[other] = new
      <3>1. s.local \in [Cells -> Bels]
        BY <1>4 DEF Charted, Mapped
      <3> QED BY <1>8, <2>1, <2>3, <2>4, <3>1 DEF CellAt
    <2>6. other \notin DOMAIN a.moved
      BY <1>8, <2>3
    <2>7. Charted(e) /\ Shape(e)
      <3>1. Charted(e)
        BY <1>7, <1>8, <2>1, <2>5, <2>6, ChartedAdd
      <3>2. Shape(e)
        BY <1>8, AddIs
      <3> QED BY <3>1, <3>2
    <2> HIDE DEF e
    <2> QED BY <2>7, BoxedDecide
  <1> HIDE DEF e
  <1> QED BY <1>3, <1>6, <1>9, <1>10, GotoBoxed

\* chain_swap, one cell of a cluster.
LEMMA ChartedTaken ==
  ASSUME NEW s, Shape(s), Charted(s), NEW bl, NEW c \in Cells, c \notin DOMAIN s.moved,
         s.dest[c] \in Bels, s.local[c] = bl[c], NEW a, a = Taken(s, c, bl)
  PROVE  Shape(a) /\ Charted(a)
  <1> DEFINE e == Add(s, c, bl[c], s.dest[c])
  <1>1. Shape(e) /\ Charted(e)
    BY AddIs, ChartedAdd
  <1>2. a = [e EXCEPT !.used = @ \cup {s.dest[c]},
                      !.dest = [d \in DOMAIN @ \ {c} |-> @[d]]]
    BY DEF Taken
  <1> HIDE DEF e
  <1>3. /\ Shape(a) /\ a.p = e.p /\ a.moved = e.moved /\ a.local = e.local
        /\ a.box = e.box /\ a.next = e.next
    BY <1>1, <1>2 DEF Shape, Fields
  <1> QED BY <1>1, <1>3, MappedSame

LEMMA QueuedBoxes ==
  ASSUME NEW a, Shape(a), NEW q, NEW e, e = Queued(a, q)
  PROVE  /\ e.p = a.p /\ e.pc = a.pc /\ e.moved = a.moved /\ e.local = a.local
         /\ e.box = a.box /\ e.next = a.next
  BY DEF Shape, Fields, Queued

LEMMA FreedBoxes ==
  ASSUME NEW a, Shape(a), NEW b, NEW e, e = Freed(a, b)
  PROVE  /\ Shape(e) /\ e.p = a.p /\ e.pc = a.pc /\ e.moved = a.moved /\ e.local = a.local
         /\ e.box = a.box /\ e.next = a.next
  BY DEF Shape, Fields, Freed

LEMMA ChainCellBoxed ==
  ASSUME Now, AllBoxed(th), NEW t \in Threads, ChainCell(t)
  PROVE  AllBoxed(th')
  <1> DEFINE s == th[t]
  <1>1. /\ Sound(s, bel) /\ Chain(s, bel, bound) /\ s.pc = "chain"
        /\ Shape(s) /\ Charted(s) /\ Mapped(s) /\ Tables(bel, bound)
    BY ChainIs, BoxedNow DEF ChainCell, Now, Binding
  <1>2. PICK c \in DOMAIN s.dest :
          LET old == bel[c]
              new == s.dest[c]
              a == [Add(s, c, old, new) EXCEPT
                      !.used = @ \cup {new},
                      !.dest = [d \in DOMAIN @ \ {c} |-> @[d]]]
              other == bound[new]
              root == Plus(old, Minus(bel[Root[Cluster[other]]], bel[other]))
          IN  IF c \in DOMAIN s.moved \/ ~CanAdd(s, old, new) THEN Goto(t, Reset(s))
              ELSE IF \/ new \in s.used
                      \/ other # NoCell /\ (other \in DOMAIN a.moved \/ other \in Locked)
              THEN Goto(t, Reset(a))
              ELSE IF other = NoCell THEN Goto(t, a)
              ELSE IF Clustered(other)
              THEN Goto(t, IF root \notin Bels THEN Reset(a)
                           ELSE [a EXCEPT !.queue = Append(@, <<Cluster[other], root>>)])
              ELSE Goto(t, IF old \in a.used \/ ~CanAdd(a, new, old) THEN Reset(a)
                           ELSE Add([a EXCEPT !.used = @ \cup {old}], other, bel[other], old))
    BY DEF ChainCell, Occupant
  <1> DEFINE old == bel[c]
             new == s.dest[c]
             a == Taken(s, c, bel)
             other == bound[new]
             root == Plus(old, Minus(bel[Root[Cluster[other]]], bel[other]))
             entry == <<Cluster[other], root>>
             queued == Queued(a, entry)
             freed == Freed(a, old)
             both == Add(freed, other, bel[other], old)
  <1>3. \/ Goto(t, Reset(s))
        \/ /\ c \notin DOMAIN s.moved /\ CanAdd(s, old, new)
           /\ \/ Goto(t, Reset(a)) \/ Goto(t, a) \/ Goto(t, queued)
              \/ other # NoCell /\ other \notin DOMAIN a.moved /\ CanAdd(s, old, new)
                 /\ Goto(t, both)
    BY <1>2 DEF Taken, Freed, Queued
  <1>4. CASE Goto(t, Reset(s))
    BY <1>1, <1>4, BoxedReset, GotoBoxed
  <1>5. CASE c \notin DOMAIN s.moved /\ CanAdd(s, old, new)
    <2>1. c \in Cells /\ new \in Bels /\ s.p.cells # {} /\ old \in Bels
      BY <1>1 DEF Chain, Tables
    <2>2. c \in s.p.cells
      BY <1>1, <1>5, <2>1 DEF CanAdd, Sound, Region
    <2>3. s.local[c] = bel[c] /\ s.local \in [Cells -> Bels]
      BY <1>1, <1>5, <2>2 DEF Sound, LocalTrue, Mapped
    <2>4. Shape(a) /\ Charted(a)
      BY <1>1, <1>5, <2>1, <2>3, ChartedTaken
    <2>5. /\ a.p = s.p /\ a.pc = "chain" /\ DOMAIN a.moved = DOMAIN s.moved \cup {c}
          /\ \A d \in Cells : d # c => a.local[d] = s.local[d]
      BY <1>1, <2>3, TakenIs
    <2> HIDE DEF a
    <2>6. Boxed(Reset(a)) /\ Boxed(a)
      BY <2>4, <2>5, BoxedReset, ChartedBoxed DEF Charted
    <2>7. Boxed(queued)
      <3> HIDE DEF entry
      <3>1. /\ queued.p = a.p /\ queued.pc = "chain" /\ queued.moved = a.moved
            /\ queued.local = a.local /\ queued.box = a.box /\ queued.next = a.next
        BY <2>4, <2>5, QueuedBoxes
      <3> HIDE DEF queued
      <3>2. Charted(queued)
        BY <2>4, <3>1, MappedSame
      <3> QED BY <3>1, <3>2, ChartedBoxed
    <2>8. ASSUME other # NoCell, other \notin DOMAIN a.moved PROVE Boxed(both)
      <3>1. other \in Cells /\ bel[other] = new
        BY <1>1, <2>1, <2>8 DEF Tables
      <3>2. other \in s.p.cells
        BY <1>1, <1>5, <2>1, <3>1 DEF CanAdd, Sound, Region
      <3>3. other # c /\ other \notin DOMAIN s.moved
        BY <2>5, <2>8
      <3>4. s.local[other] = bel[other]
        BY <1>1, <3>2, <3>3 DEF Sound, LocalTrue
      <3>5. a.local[other] = bel[other]
        BY <2>5, <3>1, <3>3, <3>4
      <3>6. /\ Shape(freed) /\ freed.p = a.p /\ freed.pc = a.pc /\ freed.moved = a.moved
            /\ freed.local = a.local /\ freed.box = a.box /\ freed.next = a.next
        BY <2>4, FreedBoxes
      <3> HIDE DEF freed
      <3>7. Charted(freed)
        BY <2>4, <3>6, MappedSame
      <3>8. other \notin DOMAIN freed.moved /\ freed.local[other] = bel[other]
        BY <2>8, <3>5, <3>6
      <3>9. Charted(both)
        BY <2>1, <3>1, <3>6, <3>7, <3>8, ChartedAdd
      <3>10. both.pc = "chain"
        BY <2>5, <3>6, AddIs
      <3> HIDE DEF both
      <3> QED BY <3>9, <3>10, ChartedBoxed
    <2> HIDE DEF queued, both, other
    <2> QED BY <1>3, <1>4, <2>6, <2>7, <2>8, GotoBoxed
  <1> QED BY <1>3, <1>4, <1>5

\* do_tile_swap.
LEMMA ChartedTwoTiles ==
  ASSUME NEW s, Shape(s), Charted(s), DOMAIN s.moved = {}, NEW to, DOMAIN to \subseteq Cells,
         \A c \in DOMAIN to : to[c] \in Bels /\ s.local[c] = bel[c],
         NEW x, NEW y, NEW e, e = TwoTiles(s, to, x, y)
  PROVE  Shape(e) /\ Charted(e)
  <1> DEFINE n == TileDone(s, x)
             a == AddAll(n, to)
  <1>1. /\ Shape(n) /\ n.p = s.p /\ n.moved = s.moved /\ n.local = s.local
        /\ n.box = s.box /\ n.next = s.next
    BY DEF Shape, Fields, TileDone
  <1>2. e = [a EXCEPT !.swap = <<x, y>>]
    BY DEF TwoTiles
  <1> HIDE DEF n
  <1>3. Charted(n)
    BY <1>1, MappedSame
  <1>4. Charted(a) /\ Shape(a)
    <2>1. Shape(a)
      BY <1>1, AddAllIs
    <2>2. \A c \in DOMAIN to : to[c] \in Bels /\ n.local[c] = bel[c]
      BY <1>1
    <2> QED BY <1>1, <1>3, <2>1, <2>2, ChartedAddAll
  <1> HIDE DEF a
  <1>5. /\ Shape(e) /\ e.p = a.p /\ e.moved = a.moved /\ e.local = a.local
        /\ e.box = a.box /\ e.next = a.next
    BY <1>2, <1>4 DEF Shape, Fields
  <1> QED BY <1>4, <1>5, MappedSame

LEMMA TileSwapBoxed ==
  ASSUME Now, AllBoxed(th), NEW t \in Threads, TileSwap(t)
  PROVE  AllBoxed(th')
  <1> DEFINE s == th[t]
             cells(x, y) == s.tiles[x] \cup s.tiles[y]
             at(c, x) == <<x[1], x[2], bel[c][3]>>
             to(x, y) == [c \in cells(x, y) |-> at(c, IF c \in s.tiles[x] THEN y ELSE x)]
  <1>1. /\ s.pc = "tiles" /\ ListedNow(s, bel) /\ Sound(s, bel) /\ DOMAIN s.moved = {}
        /\ Shape(s) /\ Charted(s) /\ \A c \in s.p.cells : s.local[c] = bel[c]
    BY TilesIs, BoxedNow DEF TileSwap, Binding
  <1>2. PICK x \in s.todo, y \in {z \in Tiles : Inside(s.p, z)} :
          \/ Goto(t, TileDone(s, x))
          \/ /\ \A c \in cells(x, y) : to(x, y)[c] \in Bels
             /\ Goto(t, Decide(TwoTiles(s, to(x, y), x, y)))
    BY DEF TileSwap, TileDone, TwoTiles
  <1>3. x \in Tiles /\ y \in Tiles
    BY <1>1 DEF ListedNow
  <1>4. CASE Goto(t, TileDone(s, x))
    <2> DEFINE e == TileDone(s, x)
    <2>1. /\ e.p = s.p /\ e.pc = s.pc /\ e.moved = s.moved /\ e.local = s.local
          /\ e.box = s.box /\ e.next = s.next
      BY <1>1 DEF Shape, Fields, TileDone
    <2> HIDE DEF e
    <2>2. Boxed(e)
      BY <1>1, <2>1, MappedSame, ChartedBoxed DEF Settled
    <2> QED BY <1>4, <2>2, GotoBoxed DEF e
  <1>5. CASE /\ \A c \in cells(x, y) : to(x, y)[c] \in Bels
             /\ Goto(t, Decide(TwoTiles(s, to(x, y), x, y)))
    <2> DEFINE f == to(x, y)
               e == TwoTiles(s, f, x, y)
    <2>1. DOMAIN f = s.tiles[x] \cup s.tiles[y] /\ \A c \in DOMAIN f : f[c] \in Bels
      BY <1>5
    <2>2. Goto(t, Decide(e))
      BY <1>5
    <2> HIDE DEF f
    <2>3. \A c \in DOMAIN f : c \in s.p.cells /\ c \in Cells
      BY <1>1, <1>3, <2>1 DEF ListedNow, Sound, Region
    <2>4. Shape(e) /\ Charted(e)
      BY <1>1, <2>1, <2>3, ChartedTwoTiles
    <2> HIDE DEF e
    <2> QED BY <2>2, <2>4, BoxedDecide, GotoBoxed
  <1> QED BY <1>2, <1>4, <1>5

LEMMA ThreadBoxed ==
  ASSUME Now, AllBoxed(th), NEW t \in Threads, Thread(t)
  PROVE  AllBoxed(th')
  <1>1. Tries(t) \/ Settles(t)
    BY DEF Thread
  <1>2. CASE Tries(t)
    BY <1>2, SingleCellSwapBoxed, ChainSwapBoxed, ChainClusterBoxed, ChainCellBoxed,
       TileSwapsBoxed, TileSwapBoxed, EndTileSwapsBoxed, EndIterBoxed DEF Tries
  <1>3. CASE Settles(t)
    BY <1>3, RejectBoxed, BindMoveBoxed, CheckValidityBoxed, RevertMoveBoxed, CommitMoveBoxed
       DEF Settles
  <1> QED BY <1>1, <1>2, <1>3

LEMMA InitBoxed == ASSUME Init PROVE AllBoxed(th)
  <1> DEFINE none == [Whole EXCEPT !.cells = {}]
             idle == Ready(none, 0)
             s == [idle EXCEPT !.pc = "done"]
  <1>1. bel \in [Cells -> Bels] /\ th = [t \in Threads |-> s]
    BY DEF Init
  <1> HIDE DEF none
  <1>2. Charted(idle) /\ Shape(idle)
    BY <1>1, ReadyBoxesAre, ReadyIs
  <1> HIDE DEF idle
  <1>3. /\ s.p = idle.p /\ s.pc = "done" /\ s.moved = idle.moved /\ s.local = idle.local
        /\ s.box = idle.box /\ s.next = idle.next
    BY <1>2 DEF Shape, Fields
  <1> HIDE DEF s
  <1>4. Boxed(s)
    BY <1>2, <1>3, MappedSame, ChartedBoxed DEF Settled
  <1> QED BY <1>1, <1>4 DEF AllBoxed

LEMMA StartBoxed == ASSUME IInv, Start PROVE AllBoxed(th')
  <1>1. th' = [t \in Threads |-> Ready(parts[t], Moves)] /\ bel \in [Cells -> Bels]
    BY DEF Start, IInv, Tables
  <1>2. ASSUME NEW t \in Threads PROVE Boxed(th'[t])
    <2>1. th'[t] = Ready(parts[t], Moves)
      BY <1>1
    <2>2. Charted(th'[t])
      BY <1>1, <2>1, ReadyBoxesAre
    <2>3. th'[t].pc = "idle"
      BY <2>1, ReadyIs
    <2> QED BY <2>2, <2>3, ChartedBoxed DEF Settled
  <1> QED BY <1>2 DEF AllBoxed

LEMMA NextBoxed == ASSUME IInv, AllBoxed(th), [Next]_vars PROVE AllBoxed(th')
  <1>1. Now
    BY DEF IInv, Now
  <1>2. ASSUME th' = th PROVE AllBoxed(th')
    BY <1>2
  <1>3. CASE Cut
    BY <1>2, <1>3 DEF Cut
  <1>4. CASE Join
    BY <1>2, <1>4 DEF Join
  <1>5. CASE UNCHANGED vars
    BY <1>2, <1>5 DEF vars
  <1>6. CASE Start
    BY <1>6, StartBoxed
  <1>7. ASSUME NEW t \in Threads, Thread(t) PROVE AllBoxed(th')
    BY <1>1, <1>7, ThreadBoxed
  <1> QED BY <1>3, <1>4, <1>5, <1>6, <1>7 DEF Next, Stop

\* The bounding boxes that compute_changes_for_cell keeps up to date, pin by pin
\* and edge by edge, are in every thread and after any number of moves those
\* that would be computed from scratch (detail_place_core.cc:301-428), and they
\* are about where the thread's own cells really are.
THEOREM BoxesStayExact == Spec => []BoxesAreExact
  <1>1. Init => AllBoxed(th)
    BY InitBoxed
  <1>2. IInv /\ AllBoxed(th) /\ [Next]_vars => AllBoxed(th)'
    BY NextBoxed
  <1>3. ASSUME IInv, AllBoxed(th) PROVE BoxesAreExact
    <2> SUFFICES ASSUME NEW t \in Threads, th[t].moved = <<>>
                 PROVE  /\ \A n \in DOMAIN th[t].box : th[t].box[n] = Box(n, th[t].local)
                        /\ \A c \in th[t].p.cells : th[t].local[c] = bel[c]
      BY DEF BoxesAreExact
    <2>1. DOMAIN th[t].moved = {} /\ Now
      BY <1>3, EmptyDomain DEF IInv, Now
    <2>2. Mapped(th[t]) /\ LocalTrue(th[t], bel)
      BY <1>3, <2>1, BoxedNow DEF IInv, Team, Good
    <2>3. Origin(th[t]) = th[t].local
      <3>1. th[t].local = [c \in Cells |-> th[t].local[c]]
        BY <2>2 DEF Mapped
      <3> QED BY <2>1, <3>1 DEF Origin
    <2>4. \A n \in DOMAIN th[t].box : th[t].box[n] = Box(n, th[t].local)
      BY <2>2, <2>3 DEF Mapped
    <2>5. \A c \in th[t].p.cells : th[t].local[c] = bel[c]
      BY <2>1, <2>2 DEF LocalTrue
    <2> QED BY <2>4, <2>5
  <1> QED BY <1>1, <1>2, <1>3, RefinementInvariant, PTL DEF Spec
=============================================================================
