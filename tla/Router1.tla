------------------------------- MODULE Router1 ------------------------------
(***************************************************************************)
(* nextpnr's router1 on the ice40 architecture: arcs, from the source wire *)
(* of a net to the sink wire of a user, are taken from a queue and bound   *)
(* along a path; whatever is in the way is ripped up and queued again.     *)
(* What the A* search optimises is left out: a route is any path.  Pips    *)
(* that are hard to have (LUT route-throughs of placed cells) are not in   *)
(* Pips.                                                                   *)
(***************************************************************************)
EXTENDS Integers, SequencesExt, Functions

CONSTANTS
  Wires, Pips, Switches,
  PipSrc, PipDst, PipSwitch,  \* of each pip
  Nets, Source,               \* the source wire of each net
  Arcs, ArcNet, Sink,         \* the net and the sink wire of each arc
  NoWire, NoNet, NoPip,
  MaxTiming                   \* bound: timing_fail_count, 50 in the code

ASSUME Router1Assumption ==
  /\ PipSrc \in [Pips -> Wires] /\ PipDst \in [Pips -> Wires]
  /\ PipSwitch \in [Pips -> Switches]
  /\ Source \in [Nets -> Wires]
  /\ ArcNet \in [Arcs -> Nets] /\ Sink \in [Arcs -> Wires]
  /\ NoWire \notin Wires /\ NoNet \notin Nets /\ NoPip \notin Pips
  /\ MaxTiming \in Nat
  \* The errors of setup: two nets on one source, two arcs on one sink, and a
  \* source that is a sink of another net.
  /\ \A m, n \in Nets : Source[m] = Source[n] => m = n
  /\ \A a, b \in Arcs : Sink[a] = Sink[b] => a = b
  /\ \A a \in Arcs, n \in Nets : Sink[a] = Source[n] => ArcNet[a] = n
  \* A source wire is an output of a cell, which no pip drives.
  /\ \A p \in Pips, n \in Nets : PipDst[p] # Source[n]

VARIABLES
  \* what the architecture holds
  wire_to_net, pip_to_net, switches_locked,
  wires,         \* net->wires: the pip that drives each wire of the net
  \* what the router holds
  queued,        \* arc_queue and queued_arcs
  wire_to_arcs, arc_to_wires,
  pc,            \* "setup", "pop", "bind", "ripup", "done"; "abort" after a failed
                 \* NPNR_ASSERT
  todo,          \* the nets setup has still to look at
  arc,           \* the arc being routed
  route,         \* the pips still to bind, from the source on
  timing         \* timing_fail_count

bindings == <<wire_to_net, pip_to_net, switches_locked, wires>>
records == <<queued, wire_to_arcs, arc_to_wires>>
vars == <<bindings, records, pc, todo, arc, route, timing>>

-----------------------------------------------------------------------------
\* The architecture and the router as one value, for the steps that call
\* several operations in a row.
State == [net |-> wire_to_net, pip |-> pip_to_net, lock |-> switches_locked,
          wires |-> wires, queue |-> queued, arcs |-> wire_to_arcs,
          used |-> arc_to_wires, ok |-> TRUE]

Assign(s) ==
  /\ wire_to_net' = s.net /\ pip_to_net' = s.pip
  /\ switches_locked' = s.lock /\ wires' = s.wires
  /\ queued' = s.queue /\ wire_to_arcs' = s.arcs /\ arc_to_wires' = s.used

\* NPNR_ASSERT: the program ends unless c holds.
Check(s, c) == [s EXCEPT !.ok = @ /\ c]

Avail(s, w) == s.net[w] = NoNet

\* Bound to a net that has it: what unbindWire asserts.
Taken(s, w) == ~Avail(s, w) /\ w \in DOMAIN s.wires[s.net[w]]

\* The pips that drive some wires.
Drivers(s, ws) == {s.wires[s.net[w]][w] : w \in ws} \ {NoPip}

\* Fault: the switches of the pips stay locked.
UnbindLocked(s, ws) ==
  IF \E w \in ws : ~Taken(s, w) THEN Check(s, FALSE)
  ELSE [s EXCEPT
    !.net = [w \in Wires |-> IF w \in ws THEN NoNet ELSE s.net[w]],
    !.wires = [n \in Nets |->
      Restrict(s.wires[n], {w \in DOMAIN s.wires[n] : w \notin ws \/ s.net[w] # n})],
    !.pip = [p \in Pips |-> IF p \in Drivers(s, ws) THEN NoNet ELSE s.pip[p]]]

\* unbindWire of each of ws.
Unbind(s, ws) ==
  IF \E w \in ws : ~Taken(s, w) THEN Check(s, FALSE)
  ELSE [s EXCEPT
    !.net = [w \in Wires |-> IF w \in ws THEN NoNet ELSE s.net[w]],
    !.wires = [n \in Nets |->
      Restrict(s.wires[n], {w \in DOMAIN s.wires[n] : w \notin ws \/ s.net[w] # n})],
    !.pip = [p \in Pips |-> IF p \in Drivers(s, ws) THEN NoNet ELSE s.pip[p]],
    !.lock = [x \in Switches |->
      IF \E p \in Drivers(s, ws) : PipSwitch[p] = x THEN NoWire ELSE s.lock[x]]]

\* w is driven by p from now on, or by no pip at the source.
Drive(s, w, n, p) ==
  [s EXCEPT !.net[w] = n,
            !.wires[n] = [x \in DOMAIN @ \cup {w} |-> IF x = w THEN p ELSE @[x]]]

\* bindWire and bindPip
BindWire(s, w, n) == Drive(Check(s, Avail(s, w)), w, n, NoPip)

BindPip(s, p, n) ==
  LET w == PipDst[p]
      free == Avail(s, w) /\ s.pip[p] = NoNet /\ s.lock[PipSwitch[p]] = NoWire
  IN  [Drive(Check(s, free), w, n, p) EXCEPT !.pip[p] = n, !.lock[PipSwitch[p]] = w]

\* The arcs that are recorded on some wires.
ArcsOn(s, ws) == UNION {s.arcs[w] : w \in ws}

\* Fault: the arcs that lose a wire keep it in their records.
RipupForgetful(s, ws) ==
  Unbind([s EXCEPT
    !.queue = @ \cup ArcsOn(s, ws),
    !.arcs = [w \in Wires |-> IF w \in ws THEN {} ELSE s.arcs[w]]], ws)

\* Fault: only one of the arcs that lose a wire is queued again.
RipupLosing(s, ws) ==
  Unbind([s EXCEPT
    !.queue = @ \cup IF ArcsOn(s, ws) = {} THEN {} ELSE {CHOOSE a \in ArcsOn(s, ws) : TRUE},
    !.arcs = [w \in Wires |-> IF w \in ws THEN {} ELSE s.arcs[w]],
    !.used = [a \in Arcs |-> s.used[a] \ ws]], ws)

\* ripup_wire of each of ws, and ripup_pip with the wire its switch is locked
\* for: the wires leave the records, their arcs go back to the queue.
\* ripup_net is for architectures that cannot name the wire in the way.
Ripup(s, ws) ==
  Unbind([s EXCEPT
    !.queue = @ \cup ArcsOn(s, ws),
    !.arcs = [w \in Wires |-> IF w \in ws THEN {} ELSE s.arcs[w]],
    !.used = [a \in Arcs |-> s.used[a] \ ws]], ws)

\* Each arc a has the wires on[a] from now on, too.
Record(s, on) ==
  [s EXCEPT !.used = [a \in Arcs |-> s.used[a] \cup on[a]],
            !.arcs = [w \in Wires |-> s.arcs[w] \cup {a \in Arcs : w \in on[a]}]]

\* One arc has a wire more.
RecordWire(s, a, w) == Record(s, [b \in Arcs |-> IF b = a THEN {w} ELSE {}])

Continue(s, next) ==
  /\ Assign(s)
  /\ pc' = IF s.ok THEN next ELSE "abort"

-----------------------------------------------------------------------------
\* The paths of pips through the wires, none of which is met twice.
Paths ==
  LET Longer(q) == {p \in Pips : /\ PipSrc[p] = PipDst[Last(q)]
                                 /\ \A i \in DOMAIN q : PipSrc[q[i]] # PipDst[p]}
      P[k \in 1 .. Cardinality(Wires)] ==
        IF k = 1 THEN {<<p>> : p \in Pips}
        ELSE P[k - 1] \cup
             UNION {{Append(q, p) : p \in Longer(q)} : q \in P[k - 1]}
  IN  P[Cardinality(Wires)]

\* The pips lead from the source of the arc's net to its sink.
IsRoute(q, a) ==
  /\ q \in Seq(Pips) /\ q # <<>>
  /\ PipSrc[q[1]] = Source[ArcNet[a]]
  /\ \A i \in 2 .. Len(q) : PipSrc[q[i]] = PipDst[q[i - 1]]
  /\ PipDst[Last(q)] = Sink[a]

Routes == [a \in Arcs |-> {q \in Paths : IsRoute(q, a)}]

\* The sources of the pips that drive some wires of a net, but for its source.
Before(s, n, ws) ==
  {PipSrc[s.wires[n][w]] : w \in {v \in ws \cap DOMAIN s.wires[n] :
                                    v # Source[n] /\ s.wires[n][v] # NoPip}}

\* The wires met on the way back from the sink of an arc, through the pips its
\* net has bound, until the source or a wire the net does not have: the least
\* set that holds the sink and what is before its wires.
Trace(s, a) ==
  LET n == ArcNet[a]
      near == {Sink[a]} \cup DOMAIN s.wires[n] \cup Before(s, n, DOMAIN s.wires[n])
      closed == {ws \in SUBSET near : Sink[a] \in ws /\ Before(s, n, ws) \subseteq ws}
  IN  {w \in near : \A ws \in closed : w \in ws}

\* The net of the arc has all the way back to its source.
Whole(s, a) ==
  Source[ArcNet[a]] \in Trace(s, a) /\ Trace(s, a) \subseteq DOMAIN s.wires[ArcNet[a]]

\* setup, one net: the arcs whose sink is bound are recorded along the way
\* back; those not routed to the end are queued; wires no arc was recorded for
\* are unbound.
Setup(n) ==
  /\ pc = "setup" /\ n \in todo
  /\ LET mine == {a \in Arcs : ArcNet[a] = n}
         bound == {a \in mine : Sink[a] \in DOMAIN wires[n]}
         met(a) == Trace(State, a) \ {Source[n]}
         driven == \A a \in bound : \A w \in met(a) \cap DOMAIN wires[n] :
                     wires[n][w] # NoPip
         s == Record(Check(State, driven),
                     [a \in Arcs |-> IF a \in bound THEN Trace(State, a) ELSE {}])
         q == [s EXCEPT !.queue = @ \cup
                {a \in mine : a \in bound => ~(met(a) \subseteq DOMAIN wires[n])}]
     IN  Continue(Unbind(q, {w \in DOMAIN wires[n] : q.arcs[w] = {}}),
                  IF todo = {n} THEN "pop" ELSE "setup")
  /\ todo' = todo \ {n}
  /\ UNCHANGED <<arc, route, timing>>

\* The queue is empty after a route: the timing-driven rip-up may follow.
After(s) == IF s.queue = {} /\ timing < MaxTiming THEN "ripup" ELSE "pop"

\* Fault: the old wires of the arc stay bound.
UnrouteKeep(s, a) ==
  [s EXCEPT !.used[a] = {},
            !.arcs = [w \in Wires |-> s.arcs[w] \ {a}]]

\* The wires only this arc used are unbound before it is routed again.
Unroute(s, a) ==
  Unbind([Check(s, \A w \in s.used[a] : a \in s.arcs[w]) EXCEPT
            !.used[a] = {},
            !.arcs = [w \in Wires |-> s.arcs[w] \ {a}]],
         {w \in s.used[a] : s.arcs[w] = {a}})

\* arc_queue_pop and the beginning of route_arc, up to the route found.
Pop(a) ==
  /\ pc = "pop" /\ a \in queued
  /\ LET n == ArcNet[a]
         s == Unroute([State EXCEPT !.queue = @ \ {a}], a)
         b == IF Avail(s, Sink[a]) THEN BindWire(s, Sink[a], n)
              ELSE Check(s, s.net[Sink[a]] = n)
         t == RecordWire(b, a, Sink[a])
     IN  \/ /\ Sink[a] = Source[n]
            /\ Continue(t, After(t))
            /\ UNCHANGED <<arc, route>>
         \/ /\ Sink[a] # Source[n]
            /\ \E q \in Routes[a] : route' = q
            /\ arc' = a
            /\ Continue(s, "bind")
  /\ UNCHANGED <<todo, timing>>

\* The net has this wire through this pip already.
Has(s, n, w, p) == w \in DOMAIN s.wires[n] /\ s.wires[n][w] = p

\* Fault: only the wire is made free, not the switch of the pip.
FreeWire(s, w, p) == IF Avail(s, w) THEN s ELSE Ripup(s, {w})

\* What is in the way of the wire and of its pip is ripped up.
Free(s, w, p) ==
  LET s1 == IF Avail(s, w) THEN s ELSE Ripup(s, {w})
      inWay == s1.lock[PipSwitch[p]]
  IN  IF p # NoPip /\ inWay # NoWire THEN Ripup(s1, {inWay}) ELSE s1

\* One turn of the loop that binds the route from the sink back.
Bind ==
  /\ pc = "bind"
  /\ LET n == ArcNet[arc]
         p == IF route = <<>> THEN NoPip ELSE Last(route)
         w == IF route = <<>> THEN Source[n] ELSE PipDst[p]
         s == Free(State, w, p)
         t == IF Has(State, n, w, p) THEN State
              ELSE IF p = NoPip THEN BindWire(s, w, n) ELSE BindPip(s, p, n)
         u == RecordWire(t, arc, w)
     IN  \/ /\ route # <<>>
            /\ route' = Front(route)
            /\ Continue(u, "bind")
         \/ /\ route = <<>>
            /\ UNCHANGED route
            /\ Continue(u, After(u))
  /\ UNCHANGED <<todo, arc, timing>>

\* The sinks of arcs with bad slack, whichever they are, are ripped up.
TimingRipup ==
  /\ pc = "ripup"
  /\ \E slow \in SUBSET Arcs :
       Continue(Ripup(State, {w \in {Sink[a] : a \in slow} : ~Avail(State, w)}), "pop")
  /\ timing' = timing + 1
  /\ UNCHANGED <<todo, arc, route>>

\* The end of router1(); the caller goes on with the routed design.
Finish ==
  /\ pc \in {"pop", "done"} /\ queued = {}
  /\ pc' = "done"
  /\ UNCHANGED <<bindings, records, todo, arc, route, timing>>

-----------------------------------------------------------------------------
\* What the nets have bound when setup begins: for every arc nothing, or its
\* source and a part of one of its routes from there on; no wire and no switch
\* is in two of them.
Begun(a) == {<<>>} \cup UNION {{SubSeq(q, 1, i) : i \in DOMAIN q} : q \in Routes[a]}

Bound(has) ==
  LET pips(n) == UNION {Range(has[a]) : a \in {b \in Arcs : ArcNet[b] = n}}
      all == UNION {pips(n) : n \in Nets}
      owner(p) == CHOOSE n \in Nets : p \in pips(n)
  IN  /\ \A m, n \in Nets : m # n => pips(m) \cap pips(n) = {}
      /\ \A p, q \in all : p = q \/ (PipDst[p] # PipDst[q] /\ PipSwitch[p] # PipSwitch[q])
      /\ pip_to_net = [p \in Pips |-> IF p \in all THEN owner(p) ELSE NoNet]
      /\ switches_locked = [x \in Switches |->
           LET on == {p \in all : PipSwitch[p] = x}
           IN  IF on = {} THEN NoWire ELSE PipDst[CHOOSE p \in on : TRUE]]
      /\ wires = [n \in Nets |->
           LET own == {PipDst[p] : p \in pips(n)}
           IN  [w \in own \cup (IF own = {} THEN {} ELSE {Source[n]}) |->
                  IF w = Source[n] THEN NoPip
                  ELSE CHOOSE p \in pips(n) : PipDst[p] = w]]
      /\ wire_to_net = [w \in Wires |->
           IF \E n \in Nets : w \in DOMAIN wires[n]
           THEN CHOOSE n \in Nets : w \in DOMAIN wires[n] ELSE NoNet]

RouterInit ==
  /\ queued = {}
  /\ wire_to_arcs = [w \in Wires |-> {}]
  /\ arc_to_wires = [a \in Arcs |-> {}]
  /\ pc = "setup" /\ todo = Nets
  /\ arc \in Arcs /\ arc = CHOOSE a \in Arcs : TRUE
  /\ route = <<>> /\ timing = 0

Init ==
  /\ \E has \in [Arcs -> UNION {Begun(a) : a \in Arcs}] :
       (\A a \in Arcs : has[a] \in Begun(a)) /\ Bound(has)
  /\ RouterInit

Next ==
  \/ \E n \in Nets : Setup(n)
  \/ \E a \in Arcs : Pop(a)
  \/ Bind
  \/ TimingRipup
  \/ Finish

Spec == Init /\ [][Next]_vars

-----------------------------------------------------------------------------
\* Nothing the router calls meets a failed NPNR_ASSERT: no wire, pip or switch
\* is bound twice or unbound when it is free (arch.h:543-651, router1.cc:443,
\* 495, 509, 762-772).
NeverAborts == pc # "abort"

\* The four tables of the architecture agree: a wire is in the wires of its net
\* and of no other, driven by a pip that ends there, and a switch is locked for
\* a wire exactly while that wire is driven through it (arch.h:543-651).
BindingsAgree ==
  /\ \A w \in Wires, n \in Nets : w \in DOMAIN wires[n] <=> wire_to_net[w] = n
  /\ \A n \in Nets : \A w \in DOMAIN wires[n] :
       wires[n][w] # NoPip => PipDst[wires[n][w]] = w
  /\ \A p \in Pips, n \in Nets :
       pip_to_net[p] = n <=> PipDst[p] \in DOMAIN wires[n] /\ wires[n][PipDst[p]] = p
  /\ \A x \in Switches, w \in Wires :
       switches_locked[x] = w <=>
         \E p \in Pips : PipSwitch[p] = x /\ PipDst[p] = w /\ pip_to_net[p] # NoNet

\* The assertions of check() (router1.cc:304-364), between two routes.
RecordsAgree ==
  pc \in {"pop", "ripup", "done"} =>
    /\ \A a \in Arcs : \A w \in arc_to_wires[a] :
         a \in wire_to_arcs[w] /\ w \in DOMAIN wires[ArcNet[a]]
    /\ \A n \in Nets : \A w \in DOMAIN wires[n] :
         \E a \in Arcs : ArcNet[a] = n /\ w \in arc_to_wires[a]

\* What check() does not look at: an arc that is neither queued nor being
\* routed is routed, from its sink back to its source, and recorded on exactly
\* those wires, whatever was ripped up since.
RoutedOrQueued ==
  pc \in {"pop", "bind", "ripup", "done"} =>
    \A a \in Arcs \ queued :
      (pc = "bind" => a # arc) => Whole(State, a) /\ arc_to_wires[a] = Trace(State, a)

\* checkRoutedDesign (router1.cc:1303-1484): when the router is done no sink is
\* left out, and there is no loop, stub or dangling wire.
Legal ==
  pc = "done" => \A n \in Nets :
    LET users == {a \in Arcs : ArcNet[a] = n}
    IN  /\ users = {} => DOMAIN wires[n] = {}
        /\ \A a \in users : Whole(State, a)
        /\ \A w \in DOMAIN wires[n] : \E a \in users : w \in Trace(State, a)
=============================================================================
