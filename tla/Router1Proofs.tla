---------------------------- MODULE Router1Proofs ---------------------------
(***************************************************************************)
(* For every chip and every netlist that Router1Assumption allows: the     *)
(* router meets no failed assertion, the tables agree, every arc is routed *)
(* or queued, and the design it ends with is legally routed.               *)
(***************************************************************************)
EXTENDS Router1, SequenceTheorems, WellFoundedInduction, TLAPS

WireMaps == UNION {[ws -> Pips \cup {NoPip}] : ws \in SUBSET Wires}

Tables ==
  [net : [Wires -> Nets \cup {NoNet}], pip : [Pips -> Nets \cup {NoNet}],
   lock : [Switches -> Wires \cup {NoWire}], wires : [Nets -> WireMaps],
   queue : SUBSET Arcs, arcs : [Wires -> SUBSET Arcs],
   used : [Arcs -> SUBSET Wires], ok : BOOLEAN]

\* The conjuncts of BindingsAgree, of one value of the tables.
WiresAgree(s) ==
  \A w \in Wires, n \in Nets : w \in DOMAIN s.wires[n] <=> s.net[w] = n
DriversAgree(s) ==
  \A n \in Nets : \A w \in DOMAIN s.wires[n] :
    s.wires[n][w] # NoPip => PipDst[s.wires[n][w]] = w
PipsAgree(s) ==
  \A p \in Pips, n \in Nets :
    s.pip[p] = n <=> PipDst[p] \in DOMAIN s.wires[n] /\ s.wires[n][PipDst[p]] = p
LocksAgree(s) ==
  \A x \in Switches, w \in Wires :
    s.lock[x] = w <=>
      \E p \in Pips : PipSwitch[p] = x /\ PipDst[p] = w /\ s.pip[p] # NoNet

Agree(s) ==
  s \in Tables /\ WiresAgree(s) /\ DriversAgree(s) /\ PipsAgree(s) /\ LocksAgree(s)

\* t is s with w driven by p, for n.
Binds(s, t, w, n, p) ==
  /\ \A m \in Nets : DOMAIN t.wires[m] = DOMAIN s.wires[m] \cup IF m = n THEN {w} ELSE {}
  /\ \A m \in Nets : \A v \in DOMAIN t.wires[m] :
       t.wires[m][v] = IF v = w THEN p ELSE s.wires[m][v]
  /\ t.net = [s.net EXCEPT ![w] = n]

\* t is s without the bindings of some wires.
Frees(s, t, ws) ==
  /\ \A n \in Nets : DOMAIN t.wires[n] = DOMAIN s.wires[n] \ ws
  /\ \A n \in Nets : \A w \in DOMAIN t.wires[n] : t.wires[n][w] = s.wires[n][w]
  /\ \A w \in Wires : t.net[w] = IF w \in ws THEN NoNet ELSE s.net[w]
  /\ \A x \in Switches : t.lock[x] = IF s.lock[x] \in ws THEN NoWire ELSE s.lock[x]

\* No net but its own has the source wire of a net.
Rooted(s) == \A n \in Nets : s.net[Source[n]] \in {NoNet, n}

\* The two records of the router are each other's inverse, and an arc has only
\* wires of its net.
Linked(s) == \A a \in Arcs, w \in Wires : a \in s.arcs[w] <=> w \in s.used[a]
Held(s) == \A a \in Arcs : s.used[a] \subseteq DOMAIN s.wires[ArcNet[a]]

Good(s) == Agree(s) /\ Rooted(s) /\ Linked(s) /\ Held(s)

\* t is s without some wires: the arcs that had one are queued.
Loses(s, t, ws) ==
  /\ Frees(s, t, ws)
  /\ t.used = [a \in Arcs |-> s.used[a] \ ws]
  /\ t.arcs = [w \in Wires |-> IF w \in ws THEN {} ELSE s.arcs[w]]
  /\ t.queue = s.queue \cup ArcsOn(s, ws)
  /\ t.ok = s.ok

-----------------------------------------------------------------------------
\* What the type says of one net's wires.
LEMMA WiresOfNet ==
  ASSUME NEW s \in Tables, NEW n \in Nets
  PROVE  /\ DOMAIN s.wires[n] \subseteq Wires
         /\ \A w \in DOMAIN s.wires[n] : s.wires[n][w] \in Pips \cup {NoPip}
         /\ s.wires[n] = [w \in DOMAIN s.wires[n] |-> s.wires[n][w]]
  <1>1. s.wires[n] \in WireMaps
    BY DEF Tables
  <1>2. PICK ws \in SUBSET Wires : s.wires[n] \in [ws -> Pips \cup {NoPip}]
    BY <1>1 DEF WireMaps
  <1>3. QED
    BY <1>2

\* Unbinding bound wires takes nothing else away (arch.h:553-571).
LEMMA UnbindFrees ==
  ASSUME NEW s, Agree(s), NEW ws \in SUBSET Wires,
         \A w \in ws : s.net[w] # NoNet
  PROVE  LET t == Unbind(s, ws)
         IN  /\ Agree(t) /\ Frees(s, t, ws)
             /\ t.ok = s.ok /\ t.queue = s.queue /\ t.arcs = s.arcs /\ t.used = s.used
  <1> DEFINE t == Unbind(s, ws)
             Kept(n) == {w \in DOMAIN s.wires[n] : w \notin ws \/ s.net[w] # n}
             D == Drivers(s, ws)
  <1>1. s \in Tables
    BY DEF Agree
  <1>2. \A w \in ws : s.net[w] \in Nets /\ w \in DOMAIN s.wires[s.net[w]]
    BY <1>1 DEF Agree, WiresAgree, Tables
  <1>3. /\ t = [s EXCEPT
             !.net = [w \in Wires |-> IF w \in ws THEN NoNet ELSE s.net[w]],
             !.wires = [n \in Nets |-> [w \in Kept(n) |-> s.wires[n][w]]],
             !.pip = [p \in Pips |-> IF p \in D THEN NoNet ELSE s.pip[p]],
             !.lock = [x \in Switches |->
               IF \E p \in D : PipSwitch[p] = x THEN NoWire ELSE s.lock[x]]]
    BY <1>2 DEF Unbind, Taken, Avail, Restrict
  <1> HIDE DEF t
  <1>4. /\ t.net = [w \in Wires |-> IF w \in ws THEN NoNet ELSE s.net[w]]
        /\ t.wires = [n \in Nets |-> [w \in Kept(n) |-> s.wires[n][w]]]
        /\ t.pip = [p \in Pips |-> IF p \in D THEN NoNet ELSE s.pip[p]]
        /\ t.lock = [x \in Switches |->
             IF \E p \in D : PipSwitch[p] = x THEN NoWire ELSE s.lock[x]]
        /\ t.ok = s.ok /\ t.queue = s.queue /\ t.arcs = s.arcs /\ t.used = s.used
    BY <1>1, <1>3 DEF Tables
  <1>5. \A n \in Nets : Kept(n) = DOMAIN s.wires[n] \ ws
    BY <1>1, WiresOfNet DEF Agree, WiresAgree
  <1>6. /\ \A n \in Nets : DOMAIN t.wires[n] = DOMAIN s.wires[n] \ ws
        /\ \A n \in Nets : \A w \in DOMAIN t.wires[n] : t.wires[n][w] = s.wires[n][w]
    BY <1>4, <1>5
  <1>7. \A p \in Pips : p \in D <=> PipDst[p] \in ws /\ s.pip[p] # NoNet
    <2>1. TAKE p \in Pips
    <2>2. ASSUME p \in D PROVE PipDst[p] \in ws /\ s.pip[p] # NoNet
      <3>1. PICK w \in ws : p = s.wires[s.net[w]][w]
        BY <2>2 DEF Drivers
      <3>2. PipDst[p] = w
        BY <3>1, <1>2, Router1Assumption DEF Agree, DriversAgree
      <3>3. s.pip[p] = s.net[w]
        BY <3>1, <3>2, <1>2 DEF Agree, PipsAgree
      <3>4. QED
        BY <3>2, <3>3, <1>2, Router1Assumption
    <2>3. ASSUME PipDst[p] \in ws, s.pip[p] # NoNet PROVE p \in D
      <3>1. s.pip[p] \in Nets
        BY <2>3, <1>1 DEF Tables
      <3>2. /\ PipDst[p] \in DOMAIN s.wires[s.pip[p]]
            /\ s.wires[s.pip[p]][PipDst[p]] = p
        BY <3>1 DEF Agree, PipsAgree
      <3>3. s.net[PipDst[p]] = s.pip[p]
        BY <3>1, <3>2, <1>1, WiresOfNet DEF Agree, WiresAgree
      <3>4. QED
        BY <2>3, <3>2, <3>3, Router1Assumption DEF Drivers
    <2>4. QED
      BY <2>2, <2>3
  <1>8. t \in Tables
    <2>1. \A n \in Nets : [w \in Kept(n) |-> s.wires[n][w]] \in [Kept(n) -> Pips \cup {NoPip}]
      BY <1>1, WiresOfNet
    <2>2. \A n \in Nets : Kept(n) \in SUBSET Wires
      BY <1>1, WiresOfNet
    <2>3. \A n \in Nets : [w \in Kept(n) |-> s.wires[n][w]] \in WireMaps
      BY <2>1, <2>2 DEF WireMaps
    <2>4. t.wires \in [Nets -> WireMaps]
      BY <2>3, <1>4
    <2>5. /\ t.net \in [Wires -> Nets \cup {NoNet}]
          /\ t.pip \in [Pips -> Nets \cup {NoNet}]
          /\ t.lock \in [Switches -> Wires \cup {NoWire}]
      BY <1>1, <1>4 DEF Tables
    <2>6. QED
      BY <1>1, <1>3, <2>4, <2>5 DEF Tables
  <1>9. WiresAgree(t)
    BY <1>4, <1>6, Router1Assumption DEF Agree, WiresAgree
  <1>10. DriversAgree(t)
    BY <1>6 DEF Agree, DriversAgree
  <1>11. PipsAgree(t)
    <2>1. \A p \in Pips, n \in Nets :
            (PipDst[p] \in DOMAIN t.wires[n] /\ t.wires[n][PipDst[p]] = p)
            <=> (PipDst[p] \in DOMAIN s.wires[n] /\ s.wires[n][PipDst[p]] = p) /\ PipDst[p] \notin ws
      BY <1>6
    <2>2. \A p \in Pips, n \in Nets :
            t.pip[p] = n <=> s.pip[p] = n /\ PipDst[p] \notin ws
      BY <1>4, <1>7, Router1Assumption
    <2>3. QED
      BY <2>1, <2>2 DEF Agree, PipsAgree
  <1>12. \A x \in Switches :
           (\E p \in D : PipSwitch[p] = x) <=> s.lock[x] \in ws
    <2>1. ASSUME NEW p \in D PROVE p \in Pips
      <3>1. PICK w \in ws : p = s.wires[s.net[w]][w] /\ p # NoPip
        BY DEF Drivers
      <3>2. s.net[w] \in Nets /\ w \in DOMAIN s.wires[s.net[w]]
        BY <1>2
      <3>3. \A n \in Nets : \A v \in DOMAIN s.wires[n] : s.wires[n][v] \in Pips \cup {NoPip}
        BY <1>1, WiresOfNet
      <3>4. QED
        BY <3>1, <3>2, <3>3
    <2>2. TAKE x \in Switches
    <2>3. QED
      BY <2>1, <1>7, Router1Assumption DEF Agree, LocksAgree
  <1>13. \A x \in Switches : t.lock[x] = IF s.lock[x] \in ws THEN NoWire ELSE s.lock[x]
    BY <1>4, <1>12
  <1>14. LocksAgree(t)
    <2>1. SUFFICES ASSUME NEW x \in Switches, NEW w \in Wires
                   PROVE  t.lock[x] = w <=>
                            \E p \in Pips : /\ PipSwitch[p] = x /\ PipDst[p] = w
                                           /\ t.pip[p] # NoNet
      BY DEF LocksAgree
    <2>2. t.lock[x] = w <=> s.lock[x] = w /\ w \notin ws
      BY <1>13, Router1Assumption
    <2>3. \A p \in Pips : t.pip[p] # NoNet <=> s.pip[p] # NoNet /\ PipDst[p] \notin ws
      BY <1>4, <1>7
    <2>4. QED
      BY <2>2, <2>3 DEF Agree, LocksAgree
  <1>15. QED
    BY <1>4, <1>6, <1>8, <1>9, <1>10, <1>11, <1>13, <1>14 DEF Agree, Frees, t

\* A wire that is driven for a net is added to its wires.
LEMMA DriveBinds ==
  ASSUME NEW s \in Tables, WiresAgree(s), DriversAgree(s), NEW w \in Wires, NEW n \in Nets,
         NEW p \in Pips \cup {NoPip}, s.net[w] = NoNet, p # NoPip => PipDst[p] = w
  PROVE  LET t == Drive(s, w, n, p)
         IN  /\ t \in Tables /\ WiresAgree(t) /\ DriversAgree(t) /\ Binds(s, t, w, n, p)
             /\ t.pip = s.pip /\ t.lock = s.lock /\ t.ok = s.ok
             /\ t.queue = s.queue /\ t.arcs = s.arcs /\ t.used = s.used
  <1> DEFINE t == Drive(s, w, n, p)
             New == [x \in DOMAIN s.wires[n] \cup {w} |-> IF x = w THEN p ELSE s.wires[n][x]]
  <1>1. t = [s EXCEPT !.net = [s.net EXCEPT ![w] = n], !.wires = [s.wires EXCEPT ![n] = New]]
    BY DEF Drive, Tables
  <1> HIDE DEF t
  <1>2. /\ t.net = [s.net EXCEPT ![w] = n] /\ t.wires = [s.wires EXCEPT ![n] = New]
        /\ t.pip = s.pip /\ t.lock = s.lock /\ t.ok = s.ok
        /\ t.queue = s.queue /\ t.arcs = s.arcs /\ t.used = s.used
    BY <1>1 DEF Tables
  <1>3. New \in WireMaps
    <2>1. DOMAIN s.wires[n] \cup {w} \in SUBSET Wires
      BY WiresOfNet
    <2>2. New \in [DOMAIN s.wires[n] \cup {w} -> Pips \cup {NoPip}]
      BY WiresOfNet
    <2>3. QED
      BY <2>1, <2>2 DEF WireMaps
  <1>4. t \in Tables
    BY <1>1, <1>3 DEF Tables
  <1>5. \A m \in Nets : w \notin DOMAIN s.wires[m]
    BY Router1Assumption DEF WiresAgree
  <1>6. /\ t.wires[n] = New
        /\ \A m \in Nets \ {n} : t.wires[m] = s.wires[m]
    BY <1>2 DEF Tables
  <1>7. Binds(s, t, w, n, p)
    BY <1>2, <1>5, <1>6 DEF Binds
  <1>8. \A v \in Wires : t.net[v] = IF v = w THEN n ELSE s.net[v]
    BY <1>2 DEF Tables
  <1>9. WiresAgree(t)
    BY <1>5, <1>7, <1>8 DEF WiresAgree, Binds
  <1>10. DriversAgree(t)
    BY <1>5, <1>7 DEF DriversAgree, Binds
  <1>11. QED
    BY <1>2, <1>4, <1>7, <1>9, <1>10 DEF t

\* bindWire keeps the tables in agreement (arch.h:543-551).
LEMMA BindWireBinds ==
  ASSUME NEW s, Agree(s), NEW w \in Wires, NEW n \in Nets, s.net[w] = NoNet
  PROVE  LET t == BindWire(s, w, n)
         IN  /\ Agree(t) /\ Binds(s, t, w, n, NoPip) /\ t.ok = s.ok
             /\ t.queue = s.queue /\ t.arcs = s.arcs /\ t.used = s.used
  <1> DEFINE t == BindWire(s, w, n)
  <1>1. s \in Tables /\ WiresAgree(s) /\ DriversAgree(s)
    BY DEF Agree
  <1>2. Check(s, Avail(s, w)) = s
    BY <1>1 DEF Check, Avail, Tables
  <1>3. t = Drive(s, w, n, NoPip)
    BY <1>2 DEF BindWire
  <1> HIDE DEF t
  <1>4. /\ t \in Tables /\ WiresAgree(t) /\ DriversAgree(t) /\ Binds(s, t, w, n, NoPip)
        /\ t.pip = s.pip /\ t.lock = s.lock /\ t.ok = s.ok
        /\ t.queue = s.queue /\ t.arcs = s.arcs /\ t.used = s.used
    BY <1>1, <1>3, DriveBinds
  <1>5. PipsAgree(t)
    <2>1. \A m \in Nets : w \notin DOMAIN s.wires[m]
      BY <1>1, Router1Assumption DEF WiresAgree
    <2>2. \A q \in Pips, m \in Nets :
            PipDst[q] \in DOMAIN t.wires[m] /\ t.wires[m][PipDst[q]] = q
            <=> PipDst[q] \in DOMAIN s.wires[m] /\ s.wires[m][PipDst[q]] = q
      BY <1>4, <2>1, Router1Assumption DEF Binds
    <2>3. QED
      BY <1>4, <2>2 DEF Agree, PipsAgree
  <1>6. LocksAgree(t)
    BY <1>4 DEF Agree, LocksAgree
  <1>7. QED
    BY <1>4, <1>5, <1>6 DEF Agree, t

\* bindPip keeps them in agreement, too (arch.h:615-633).
LEMMA BindPipBinds ==
  ASSUME NEW s, Agree(s), NEW p \in Pips, NEW n \in Nets,
         s.net[PipDst[p]] = NoNet, s.lock[PipSwitch[p]] = NoWire
  PROVE  LET t == BindPip(s, p, n)
         IN  /\ Agree(t) /\ Binds(s, t, PipDst[p], n, p) /\ t.ok = s.ok
             /\ t.queue = s.queue /\ t.arcs = s.arcs /\ t.used = s.used
  <1> DEFINE t == BindPip(s, p, n)
             w == PipDst[p]
             x == PipSwitch[p]
             d == Drive(s, w, n, p)
  <1>1. s \in Tables /\ WiresAgree(s) /\ DriversAgree(s)
    BY DEF Agree
  <1>2. w \in Wires /\ x \in Switches
    BY Router1Assumption
  <1>3. \A m \in Nets : w \notin DOMAIN s.wires[m]
    BY <1>1, <1>2, Router1Assumption DEF WiresAgree
  <1>4. \A q \in Pips : PipDst[q] = w => s.pip[q] = NoNet
    BY <1>1, <1>3 DEF Agree, PipsAgree, Tables
  <1>5. Check(s, /\ Avail(s, w)
                 /\ s.pip[p] = NoNet
                 /\ s.lock[PipSwitch[p]] = NoWire) = s
    BY <1>1, <1>4 DEF Check, Avail, Tables
  <1>6. t = [d EXCEPT !.pip = [d.pip EXCEPT ![p] = n], !.lock = [d.lock EXCEPT ![x] = w]]
    BY <1>5 DEF BindPip
  <1> HIDE DEF t
  <1>7. /\ d \in Tables /\ WiresAgree(d) /\ DriversAgree(d) /\ Binds(s, d, w, n, p)
        /\ d.pip = s.pip /\ d.lock = s.lock /\ d.ok = s.ok
        /\ d.queue = s.queue /\ d.arcs = s.arcs /\ d.used = s.used
    BY <1>1, <1>2, DriveBinds
  <1> HIDE DEF d
  <1>8. /\ t \in Tables
        /\ t.net = d.net /\ t.wires = d.wires /\ t.ok = s.ok
        /\ t.queue = s.queue /\ t.arcs = s.arcs /\ t.used = s.used
        /\ t.pip = [s.pip EXCEPT ![p] = n] /\ t.lock = [s.lock EXCEPT ![x] = w]
    BY <1>2, <1>6, <1>7 DEF Tables
  <1>9. WiresAgree(t) /\ DriversAgree(t) /\ Binds(s, t, w, n, p)
    BY <1>7, <1>8 DEF WiresAgree, DriversAgree, Binds
  <1>10. \A q \in Pips : t.pip[q] = IF q = p THEN n ELSE s.pip[q]
    BY <1>1, <1>8 DEF Tables
  <1>11. \A y \in Switches : t.lock[y] = IF y = x THEN w ELSE s.lock[y]
    BY <1>1, <1>8 DEF Tables
  <1>12. PipsAgree(t)
    <2>1. \A q \in Pips, m \in Nets :
            PipDst[q] \in DOMAIN t.wires[m] /\ t.wires[m][PipDst[q]] = q
            <=> IF PipDst[q] = w THEN m = n /\ q = p
                ELSE PipDst[q] \in DOMAIN s.wires[m] /\ s.wires[m][PipDst[q]] = q
      BY <1>3, <1>9 DEF Binds
    <2>2. \A q \in Pips, m \in Nets :
            t.pip[q] = m <=> IF PipDst[q] = w THEN m = n /\ q = p ELSE s.pip[q] = m
      BY <1>4, <1>10, Router1Assumption
    <2>3. QED
      BY <2>1, <2>2 DEF Agree, PipsAgree
  <1>13. LocksAgree(t)
    <2>1. \A q \in Pips : PipSwitch[q] = x => s.pip[q] = NoNet
      <3>1. ASSUME NEW q \in Pips, PipSwitch[q] = x PROVE s.pip[q] = NoNet
        <4>1. PipDst[q] \in Wires
          BY Router1Assumption
        <4>2. s.lock[x] # PipDst[q]
          BY <4>1, Router1Assumption
        <4>3. QED
          BY <1>2, <3>1, <4>1, <4>2 DEF Agree, LocksAgree
      <3>2. QED
        BY <3>1
    <2>2. SUFFICES ASSUME NEW y \in Switches, NEW v \in Wires
                   PROVE  t.lock[y] = v <=>
                            \E q \in Pips : /\ PipSwitch[q] = y /\ PipDst[q] = v
                                           /\ t.pip[q] # NoNet
      BY DEF LocksAgree
    <2>3. CASE y = x
      BY <2>1, <2>3, <1>10, <1>11, Router1Assumption
    <2>4. CASE y # x
      <3>1. \A q \in Pips : PipSwitch[q] = y => t.pip[q] = s.pip[q]
        BY <2>4, <1>10
      <3>2. QED
        BY <2>4, <3>1, <1>11 DEF Agree, LocksAgree
    <2>5. QED
      BY <2>3, <2>4
  <1>14. QED
    BY <1>8, <1>9, <1>12, <1>13 DEF Agree, t

-----------------------------------------------------------------------------
\* What the router records does not matter for the architecture.
LEMMA SameTables ==
  ASSUME NEW s, Agree(s), NEW t \in Tables,
         t.net = s.net, t.pip = s.pip, t.lock = s.lock, t.wires = s.wires
  PROVE  Agree(t)
  BY DEF Agree, WiresAgree, DriversAgree, PipsAgree, LocksAgree

\* What is ripped up leaves the tables and the records (router1.cc:222-288).
LEMMA RipupLoses ==
  ASSUME NEW s, Good(s), NEW ws \in SUBSET Wires, \A w \in ws : s.net[w] # NoNet
  PROVE  Good(Ripup(s, ws)) /\ Loses(s, Ripup(s, ws), ws)
  <1> DEFINE t == Ripup(s, ws)
             Queue == s.queue \cup ArcsOn(s, ws)
             Recorded == [w \in Wires |-> IF w \in ws THEN {} ELSE s.arcs[w]]
             Used == [a \in Arcs |-> s.used[a] \ ws]
             r == [s EXCEPT !.queue = Queue, !.arcs = Recorded, !.used = Used]
  <1>1. s \in Tables
    BY DEF Good, Agree
  <1>2. /\ Queue \in SUBSET Arcs /\ Recorded \in [Wires -> SUBSET Arcs]
        /\ Used \in [Arcs -> SUBSET Wires]
    BY <1>1 DEF Tables, ArcsOn
  <1>3. t = Unbind(r, ws)
    BY DEF Ripup
  <1> HIDE DEF Queue, Recorded, Used, t
  <1>4. /\ r \in Tables
        /\ r.net = s.net /\ r.pip = s.pip /\ r.lock = s.lock /\ r.wires = s.wires
        /\ r.ok = s.ok /\ r.queue = Queue /\ r.arcs = Recorded /\ r.used = Used
    BY <1>1, <1>2 DEF Tables
  <1> HIDE DEF r
  <1>5. Agree(r)
    BY <1>4, SameTables DEF Good
  <1>6. /\ Agree(t) /\ Frees(r, t, ws)
        /\ t.ok = s.ok /\ t.queue = Queue /\ t.arcs = Recorded /\ t.used = Used
    BY <1>3, <1>4, <1>5, UnbindFrees
  <1>7. Frees(s, t, ws)
    BY <1>4, <1>6 DEF Frees
  <1>8. Loses(s, t, ws)
    BY <1>6, <1>7 DEF Loses, Queue, Recorded, Used
  <1>9. Linked(t)
    BY <1>6 DEF Good, Linked, Recorded, Used
  <1>10. Held(t)
    BY <1>6, <1>7, Router1Assumption DEF Good, Held, Frees, Used
  <1>11. Rooted(t)
    BY <1>7, Router1Assumption DEF Good, Rooted, Frees
  <1>12. QED
    BY <1>6, <1>8, <1>9, <1>10, <1>11 DEF Good, t

\* An arc that is routed again leaves the wires of the others alone
\* (router1.cc:488-502).
LEMMA UnrouteFrees ==
  ASSUME NEW s, Good(s), NEW a \in Arcs
  PROVE  LET t == Unroute(s, a)
         IN  /\ Good(t) /\ Frees(s, t, {w \in s.used[a] : s.arcs[w] = {a}})
             /\ t.used = [s.used EXCEPT ![a] = {}]
             /\ t.arcs = [w \in Wires |-> s.arcs[w] \ {a}]
             /\ t.queue = s.queue /\ t.ok = s.ok
  <1> DEFINE t == Unroute(s, a)
             ws == {w \in s.used[a] : s.arcs[w] = {a}}
             Recorded == [w \in Wires |-> s.arcs[w] \ {a}]
             Used == [s.used EXCEPT ![a] = {}]
             r == [s EXCEPT !.arcs = Recorded, !.used = Used]
  <1>1. s \in Tables
    BY DEF Good, Agree
  <1>2. Recorded \in [Wires -> SUBSET Arcs] /\ Used \in [Arcs -> SUBSET Wires]
    BY <1>1 DEF Tables
  <1>3. s.used[a] \subseteq Wires
    BY <1>1 DEF Tables
  <1>4. Check(s, \A w \in s.used[a] : a \in s.arcs[w]) = s
    BY <1>1, <1>3 DEF Check, Good, Linked, Tables
  <1>5. t = Unbind(r, ws)
    BY <1>4 DEF Unroute
  <1> HIDE DEF Recorded, Used, t
  <1>6. /\ r \in Tables
        /\ r.net = s.net /\ r.pip = s.pip /\ r.lock = s.lock /\ r.wires = s.wires
        /\ r.ok = s.ok /\ r.queue = s.queue /\ r.arcs = Recorded /\ r.used = Used
    BY <1>1, <1>2 DEF Tables
  <1> HIDE DEF r
  <1>7. Agree(r)
    BY <1>6, SameTables DEF Good
  <1>8. \A w \in ws : r.net[w] # NoNet
    BY <1>3, <1>6, Router1Assumption DEF Good, Held, Agree, WiresAgree
  <1>9. ws \in SUBSET Wires
    BY <1>3
  <1>10. /\ Agree(t) /\ Frees(r, t, ws)
         /\ t.ok = s.ok /\ t.queue = s.queue /\ t.arcs = Recorded /\ t.used = Used
    BY <1>5, <1>6, <1>7, <1>8, <1>9, UnbindFrees
  <1>11. Frees(s, t, ws)
    BY <1>6, <1>10 DEF Frees
  <1>12. Linked(t)
    BY <1>1, <1>10 DEF Good, Linked, Recorded, Used, Tables
  <1>13. Held(t)
    <2>1. SUFFICES ASSUME NEW b \in Arcs, NEW w \in t.used[b]
                   PROVE  w \in DOMAIN t.wires[ArcNet[b]]
      BY DEF Held
    <2>2. b # a /\ w \in s.used[b] /\ w \in Wires
      BY <1>1, <1>10 DEF Used, Tables
    <2>3. b \in s.arcs[w]
      BY <2>2 DEF Good, Linked
    <2>4. w \notin ws
      BY <2>2, <2>3
    <2>5. QED
      BY <2>2, <2>4, <1>11, Router1Assumption DEF Good, Held, Frees
  <1>14. Rooted(t)
    BY <1>11, Router1Assumption DEF Good, Rooted, Frees
  <1>15. QED
    BY <1>10, <1>11, <1>12, <1>13, <1>14 DEF Good, t, Recorded, Used

\* After two losses the wires of both are lost.
LEMMA LosesTwice ==
  ASSUME NEW s \in Tables, NEW r, NEW t, NEW vs \in SUBSET Wires, NEW ws \in SUBSET Wires,
         Loses(s, r, vs), Loses(r, t, ws)
  PROVE  Loses(s, t, vs \cup ws)
  <1>1. Frees(s, t, vs \cup ws)
    <2>1. Frees(s, r, vs) /\ Frees(r, t, ws)
      BY DEF Loses
    <2>2. \A n \in Nets : DOMAIN t.wires[n] = DOMAIN s.wires[n] \ (vs \cup ws)
      BY <2>1 DEF Frees
    <2>3. \A n \in Nets : \A w \in DOMAIN t.wires[n] : t.wires[n][w] = s.wires[n][w]
      BY <2>1 DEF Frees
    <2>4. \A w \in Wires : t.net[w] = IF w \in vs \cup ws THEN NoNet ELSE s.net[w]
      BY <2>1 DEF Frees
    <2>5. \A x \in Switches : t.lock[x] = IF s.lock[x] \in vs \cup ws THEN NoWire ELSE s.lock[x]
      BY <2>1, Router1Assumption DEF Frees, Tables
    <2>6. QED
      BY <2>2, <2>3, <2>4, <2>5 DEF Frees
  <1>2. t.used = [a \in Arcs |-> s.used[a] \ (vs \cup ws)]
    BY DEF Loses, Tables
  <1>3. t.arcs = [w \in Wires |-> IF w \in vs \cup ws THEN {} ELSE s.arcs[w]]
    BY DEF Loses, Tables
  <1>4. t.queue = s.queue \cup ArcsOn(s, vs \cup ws)
    <2>1. \A w \in ws : r.arcs[w] = IF w \in vs THEN {} ELSE s.arcs[w]
      BY DEF Loses
    <2>2. ArcsOn(s, vs) \cup ArcsOn(r, ws) = ArcsOn(s, vs \cup ws)
      <3>1. \A a : a \in ArcsOn(r, ws) => a \in ArcsOn(s, ws)
        BY <2>1 DEF ArcsOn
      <3>2. \A a : a \in ArcsOn(s, ws) => a \in ArcsOn(s, vs) \/ a \in ArcsOn(r, ws)
        BY <2>1 DEF ArcsOn
      <3>3. \A a : a \in ArcsOn(s, vs \cup ws) <=> a \in ArcsOn(s, vs) \/ a \in ArcsOn(s, ws)
        BY DEF ArcsOn
      <3>4. QED
        BY <3>1, <3>2, <3>3
    <2>3. t.queue = (s.queue \cup ArcsOn(s, vs)) \cup ArcsOn(r, ws)
      BY DEF Loses
    <2>4. QED
      BY <2>2, <2>3
  <1>5. QED
    BY <1>1, <1>2, <1>3, <1>4 DEF Loses

\* Losing nothing.
LEMMA LosesNothing ==
  ASSUME NEW s \in Tables
  PROVE  Loses(s, s, {})
  BY Router1Assumption DEF Loses, Frees, ArcsOn, Tables

\* Nothing is in the way any more of what is bound next (router1.cc:757-773).
LEMMA FreeLoses ==
  ASSUME NEW s, Good(s), NEW w \in Wires, NEW p \in Pips \cup {NoPip}
  PROVE  LET t == Free(s, w, p)
         IN  /\ Good(t) /\ \E ws \in SUBSET Wires : Loses(s, t, ws)
             /\ t.net[w] = NoNet
             /\ p # NoPip => t.lock[PipSwitch[p]] = NoWire
  <1> DEFINE r == IF Avail(s, w) THEN s ELSE Ripup(s, {w})
             x == PipSwitch[p]
             t == Free(s, w, p)
  <1>1. s \in Tables
    BY DEF Good, Agree
  <1>2. Good(r) /\ r.net[w] = NoNet /\ \E vs \in SUBSET Wires : Loses(s, r, vs)
    <2>1. CASE Avail(s, w)
      BY <1>1, <2>1, LosesNothing DEF Avail
    <2>2. CASE ~Avail(s, w)
      <3>1. r = Ripup(s, {w})
        BY <2>2
      <3>2. Good(r) /\ Loses(s, r, {w})
        BY <2>2, <3>1, RipupLoses DEF Avail
      <3>3. QED
        BY <3>2 DEF Loses, Frees
    <2>3. QED
      BY <2>1, <2>2
  <1>3. t = IF p # NoPip /\ r.lock[x] # NoWire THEN Ripup(r, {r.lock[x]}) ELSE r
    BY DEF Free
  <1> HIDE DEF r, t
  <1>4. CASE p # NoPip /\ r.lock[x] # NoWire
    <2> DEFINE y == r.lock[x]
    <2>1. r \in Tables /\ x \in Switches /\ y \in Wires
      BY <1>2, <1>4, Router1Assumption DEF Good, Agree, Tables
    <2>2. PICK q \in Pips : PipSwitch[q] = x /\ PipDst[q] = y /\ r.pip[q] # NoNet
      BY <1>2, <2>1 DEF Good, Agree, LocksAgree
    <2>3. r.pip[q] \in Nets
      BY <2>1, <2>2 DEF Tables
    <2>4. y \in DOMAIN r.wires[r.pip[q]]
      BY <1>2, <2>2, <2>3 DEF Good, Agree, PipsAgree
    <2>5. r.net[y] = r.pip[q]
      BY <1>2, <2>1, <2>3, <2>4 DEF Good, Agree, WiresAgree
    <2>6. t = Ripup(r, {y})
      BY <1>3, <1>4
    <2>7. Good(t) /\ Loses(r, t, {y})
      BY <1>2, <2>1, <2>2, <2>5, <2>6, RipupLoses
    <2>8. t.net[w] = NoNet /\ t.lock[x] = NoWire
      BY <1>2, <2>1, <2>7 DEF Loses, Frees
    <2>9. \E ws \in SUBSET Wires : Loses(s, t, ws)
      <3>1. PICK vs \in SUBSET Wires : Loses(s, r, vs)
        BY <1>2
      <3>2. vs \cup {y} \in SUBSET Wires
        BY <2>1
      <3>3. Loses(s, t, vs \cup {y})
        BY <1>1, <2>1, <2>7, <3>1, LosesTwice
      <3>4. QED
        BY <3>2, <3>3
    <2>10. QED
      BY <2>7, <2>8, <2>9 DEF t
  <1>5. CASE ~(p # NoPip /\ r.lock[x] # NoWire)
    BY <1>2, <1>3, <1>5 DEF t
  <1>6. QED
    BY <1>4, <1>5

-----------------------------------------------------------------------------
\* The arc is routed, and recorded on exactly the wires of its route.
RoutedIn(s, a) == Whole(s, a) /\ s.used[a] = Trace(s, a)

\* The arc a has been bound from its sink back to just before c.
BoundTo(s, a, c) ==
  LET n == ArcNet[a]
      on == s.used[a]
  IN  /\ Sink[a] \in on \cup {c}
      /\ \A w \in on : /\ w # Source[n] /\ s.wires[n][w] \in Pips
                       /\ PipSrc[s.wires[n][w]] \in on \cup {c}
      /\ \A ws \in SUBSET Wires :
           Sink[a] \in ws /\ (\A w \in ws \cap on : PipSrc[s.wires[n][w]] \in ws) =>
             on \cup {c} \subseteq ws

\* The wire that is bound next.
Cursor == IF route = <<>> THEN Source[ArcNet[arc]] ELSE PipDst[Last(route)]

\* The net as setup finds it: from every wire it has there is a way back to its
\* source.
Begins(s, n) ==
  /\ \A w \in DOMAIN s.wires[n] \ {Source[n]} :
       s.wires[n][w] \in Pips /\ PipSrc[s.wires[n][w]] \in DOMAIN s.wires[n]
  /\ \A ws \in SUBSET Wires :
       Before(s, n, ws) \subseteq ws /\ ws \cap DOMAIN s.wires[n] # {} => Source[n] \in ws
  /\ \A a \in Arcs : ArcNet[a] = n => s.used[a] = {}

Control ==
  /\ pc \in {"setup", "pop", "bind", "ripup", "done"}
  /\ todo \subseteq Nets /\ (pc # "setup" => todo = {})
  /\ arc \in Arcs

\* The rest of the route leads on from the source to what is bound.
OnTheWay ==
  pc = "bind" =>
    /\ route \in Seq(Pips)
    /\ route # <<>> => PipSrc[route[1]] = Source[ArcNet[arc]]
    /\ \A i \in 2 .. Len(route) : PipSrc[route[i]] = PipDst[route[i - 1]]
    /\ arc \in queued \/ BoundTo(State, arc, Cursor)

\* A net that setup has done with has no wire that no arc has.
NoneLeft(s, ns) == \A n \in ns : \A w \in DOMAIN s.wires[n] : s.arcs[w] # {}

Reached ==
  \A a \in Arcs \ queued :
    ArcNet[a] \notin todo /\ (pc = "bind" => a # arc) => RoutedIn(State, a)

IInv ==
  /\ Control /\ Good(State) /\ OnTheWay /\ Reached
  /\ \A n \in todo : Begins(State, n)
  /\ NoneLeft(State, Nets \ todo)

-----------------------------------------------------------------------------
\* The walk back meets the least set of wires that goes on to what is before.
LEMMA TraceLeast ==
  ASSUME NEW s \in Tables, NEW a \in Arcs
  PROVE  LET n == ArcNet[a]
             T == Trace(s, a)
         IN  /\ Sink[a] \in T /\ Before(s, n, T) \subseteq T /\ T \in SUBSET Wires
             /\ \A ws \in SUBSET Wires :
                  Sink[a] \in ws /\ Before(s, n, ws) \subseteq ws => T \subseteq ws
  <1> DEFINE n == ArcNet[a]
             D == DOMAIN s.wires[n]
             T == Trace(s, a)
             near == {Sink[a]} \cup D \cup Before(s, n, D)
             closed == {ws \in SUBSET near : Sink[a] \in ws /\ Before(s, n, ws) \subseteq ws}
  <1>1. T = {w \in near : \A ws \in closed : w \in ws}
    BY DEF Trace
  <1>2. n \in Nets /\ Sink[a] \in Wires /\ D \subseteq Wires
    BY Router1Assumption, WiresOfNet
  <1>3. \A ws : Before(s, n, ws) \subseteq Before(s, n, D)
    BY DEF Before
  <1>4. Before(s, n, D) \subseteq Wires
    <2>1. \A w \in D : s.wires[n][w] \in Pips \cup {NoPip}
      BY <1>2, WiresOfNet
    <2>2. QED
      BY <2>1, Router1Assumption DEF Before
  <1>5. \A us, ws : us \subseteq ws => Before(s, n, us) \subseteq Before(s, n, ws)
    BY DEF Before
  <1> HIDE DEF T, near, closed
  <1>6. near \subseteq Wires
    BY <1>2, <1>4 DEF near
  <1>7. Sink[a] \in T
    BY <1>1 DEF near, closed
  <1>8. Before(s, n, T) \subseteq T
    <2>1. SUFFICES ASSUME NEW v \in Before(s, n, T) PROVE v \in T
      OBVIOUS
    <2>2. v \in near
      BY <1>3 DEF near
    <2>3. ASSUME NEW ws \in closed PROVE v \in ws
      <3>1. T \subseteq ws
        BY <1>1
      <3>2. Before(s, n, T) \subseteq Before(s, n, ws)
        BY <3>1, <1>5
      <3>3. QED
        BY <2>1, <3>2 DEF closed
    <2>4. QED
      BY <1>1, <2>2, <2>3
  <1>9. ASSUME NEW ws \in SUBSET Wires, Sink[a] \in ws, Before(s, n, ws) \subseteq ws
        PROVE  T \subseteq ws
    <2>1. Before(s, n, ws \cap near) \subseteq ws \cap near
      <3>1. Before(s, n, ws \cap near) \subseteq Before(s, n, ws)
        BY <1>5
      <3>2. QED
        BY <3>1, <1>3, <1>9 DEF near
    <2>2. ws \cap near \in closed
      BY <2>1, <1>9 DEF closed, near
    <2>3. QED
      BY <1>1, <2>2
  <1>10. QED
    BY <1>1, <1>6, <1>7, <1>8, <1>9 DEF T

\* No other set is.
LEMMA TraceOnly ==
  ASSUME NEW s \in Tables, NEW a \in Arcs, NEW us \in SUBSET Wires,
         Sink[a] \in us, Before(s, ArcNet[a], us) \subseteq us,
         \A ws \in SUBSET Wires :
           Sink[a] \in ws /\ Before(s, ArcNet[a], ws) \subseteq ws => us \subseteq ws
  PROVE  Trace(s, a) = us
  BY TraceLeast

\* A routed arc stays routed while its net keeps its wires.
LEMMA RoutedKeeps ==
  ASSUME NEW s \in Tables, NEW t \in Tables, NEW a \in Arcs, RoutedIn(s, a),
         t.used[a] = s.used[a],
         \A w \in s.used[a] : /\ w \in DOMAIN t.wires[ArcNet[a]]
                             /\ t.wires[ArcNet[a]][w] = s.wires[ArcNet[a]][w]
  PROVE  RoutedIn(t, a)
  <1> DEFINE n == ArcNet[a]
             us == s.used[a]
  <1>1. us = Trace(s, a) /\ us \subseteq DOMAIN s.wires[n] /\ Source[n] \in us
    BY DEF RoutedIn, Whole
  <1>2. /\ Sink[a] \in us /\ Before(s, n, us) \subseteq us /\ us \in SUBSET Wires
        /\ \A ws \in SUBSET Wires :
             Sink[a] \in ws /\ Before(s, n, ws) \subseteq ws => us \subseteq ws
    BY <1>1, TraceLeast
  <1>3. \A ws : Before(s, n, ws \cap us) = Before(t, n, ws \cap us)
    BY <1>1 DEF Before
  <1>4. Before(t, n, us) \subseteq us
    <2>1. us \cap us = us
      OBVIOUS
    <2>2. QED
      BY <2>1, <1>2, <1>3
  <1>5. ASSUME NEW ws \in SUBSET Wires, Sink[a] \in ws, Before(t, n, ws) \subseteq ws
        PROVE  us \subseteq ws
    <2>1. Before(t, n, ws \cap us) \subseteq ws \cap us
      <3>1. /\ Before(t, n, ws \cap us) \subseteq Before(t, n, ws)
            /\ Before(t, n, ws \cap us) \subseteq Before(t, n, us)
        BY DEF Before
      <3>2. QED
        BY <3>1, <1>4, <1>5
    <2>2. us \subseteq ws \cap us
      BY <2>1, <1>2, <1>3, <1>5
    <2>3. QED
      BY <2>2
  <1>6. Trace(t, a) = us
    BY <1>2, <1>4, <1>5, TraceOnly
  <1>7. QED
    BY <1>1, <1>6 DEF RoutedIn, Whole

\* A routed arc none of whose wires are lost stays routed.
LEMMA RoutedUnlessQueued ==
  ASSUME NEW s, Good(s), NEW t, Good(t), NEW ws \in SUBSET Wires, Loses(s, t, ws),
         NEW a \in Arcs \ t.queue
  PROVE  /\ t.used[a] = s.used[a] /\ s.used[a] \cap ws = {}
         /\ \A w \in s.used[a] : /\ w \in DOMAIN t.wires[ArcNet[a]]
                                 /\ t.wires[ArcNet[a]][w] = s.wires[ArcNet[a]][w]
         /\ RoutedIn(s, a) => RoutedIn(t, a)
  <1>1. s \in Tables /\ t \in Tables /\ ArcNet[a] \in Nets /\ s.used[a] \subseteq Wires
    BY Router1Assumption DEF Good, Agree, Tables
  <1>2. s.used[a] \cap ws = {}
    BY <1>1 DEF Loses, ArcsOn, Good, Linked
  <1>3. t.used[a] = s.used[a]
    BY <1>1, <1>2 DEF Loses
  <1>4. \A w \in s.used[a] : /\ w \in DOMAIN t.wires[ArcNet[a]]
                            /\ t.wires[ArcNet[a]][w] = s.wires[ArcNet[a]][w]
    BY <1>1, <1>2 DEF Loses, Frees, Good, Held
  <1>5. QED
    BY <1>1, <1>2, <1>3, <1>4, RoutedKeeps

\* Every wire left by a loss still has an arc.
LEMMA NoneLeftStays ==
  ASSUME NEW s, Good(s), NEW t, NEW ws \in SUBSET Wires, Loses(s, t, ws),
         NEW ns \in SUBSET Nets, NoneLeft(s, ns)
  PROVE  NoneLeft(t, ns)
  <1>1. \A n \in Nets : DOMAIN s.wires[n] \subseteq Wires
    BY WiresOfNet DEF Good, Agree
  <1>2. QED
    BY <1>1 DEF NoneLeft, Loses, Frees

-----------------------------------------------------------------------------
\* The step of the router that leads to the tables of s.
LEMMA Continued ==
  ASSUME NEW s \in Tables, s.ok = TRUE, NEW next, Continue(s, next)
  PROVE  State' = s /\ pc' = next /\ queued' = s.queue
  BY DEF Continue, Assign, State, Tables

\* The variables are the fields of State.
LEMMA StateFields ==
  /\ State.net = wire_to_net /\ State.pip = pip_to_net /\ State.lock = switches_locked
  /\ State.wires = wires /\ State.queue = queued /\ State.arcs = wire_to_arcs
  /\ State.used = arc_to_wires /\ State.ok = TRUE
  BY DEF State

\* What is written into the records (router1.cc:431-447, 786-787).
LEMMA Records ==
  ASSUME NEW s, Good(s), NEW on \in [Arcs -> SUBSET Wires],
         \A a \in Arcs : on[a] \subseteq DOMAIN s.wires[ArcNet[a]]
  PROVE  LET t == Record(s, on)
         IN  /\ Good(t)
             /\ t.net = s.net /\ t.lock = s.lock /\ t.wires = s.wires /\ t.queue = s.queue
             /\ t.ok = s.ok
             /\ t.used = [a \in Arcs |-> s.used[a] \cup on[a]]
             /\ t.arcs = [w \in Wires |-> s.arcs[w] \cup {a \in Arcs : w \in on[a]}]
  <1> DEFINE t == Record(s, on)
             Used == [a \in Arcs |-> s.used[a] \cup on[a]]
             Recorded == [w \in Wires |-> s.arcs[w] \cup {a \in Arcs : w \in on[a]}]
  <1>1. s \in Tables
    BY DEF Good, Agree
  <1>2. Used \in [Arcs -> SUBSET Wires] /\ Recorded \in [Wires -> SUBSET Arcs]
    BY <1>1 DEF Tables
  <1>3. t = [s EXCEPT !.used = Used, !.arcs = Recorded]
    BY DEF Record
  <1> HIDE DEF t, Used, Recorded
  <1>4. /\ t \in Tables
        /\ t.net = s.net /\ t.pip = s.pip /\ t.lock = s.lock /\ t.wires = s.wires
        /\ t.queue = s.queue /\ t.ok = s.ok /\ t.used = Used /\ t.arcs = Recorded
    BY <1>1, <1>2, <1>3 DEF Tables
  <1>5. Agree(t)
    BY <1>4, SameTables DEF Good
  <1>6. Rooted(t)
    BY <1>4 DEF Good, Rooted
  <1>7. Linked(t)
    BY <1>4 DEF Good, Linked, Used, Recorded
  <1>8. Held(t)
    BY <1>4 DEF Good, Held, Used
  <1>9. QED
    BY <1>4, <1>5, <1>6, <1>7, <1>8 DEF Good, t, Used, Recorded

\* Wires of a net that no arc has are unbound (router1.cc:457-465).
LEMMA UnbindUnused ==
  ASSUME NEW s, Good(s), NEW ws \in SUBSET Wires,
         \A w \in ws : s.net[w] # NoNet /\ s.arcs[w] = {}
  PROVE  LET t == Unbind(s, ws)
         IN  /\ Good(t) /\ Frees(s, t, ws)
             /\ t.ok = s.ok /\ t.queue = s.queue /\ t.arcs = s.arcs /\ t.used = s.used
  <1> DEFINE t == Unbind(s, ws)
  <1>1. s \in Tables
    BY DEF Good, Agree
  <1>2. /\ Agree(t) /\ Frees(s, t, ws)
        /\ t.ok = s.ok /\ t.queue = s.queue /\ t.arcs = s.arcs /\ t.used = s.used
    BY UnbindFrees DEF Good
  <1> HIDE DEF t
  <1>3. Linked(t)
    BY <1>2 DEF Good, Linked
  <1>4. Held(t)
    BY <1>1, <1>2, Router1Assumption DEF Good, Held, Linked, Frees, Tables
  <1>5. Rooted(t)
    BY <1>2, Router1Assumption DEF Good, Rooted, Frees
  <1>6. QED
    BY <1>2, <1>3, <1>4, <1>5 DEF Good, t

\* Traces and wires depend on the wires of the nets only.
LEMMA SameWires ==
  ASSUME NEW s, NEW t, t.wires = s.wires
  PROVE  /\ \A n, ws : Before(t, n, ws) = Before(s, n, ws)
         /\ \A a \in Arcs : Trace(t, a) = Trace(s, a) /\ (Whole(t, a) <=> Whole(s, a))
  <1>1. \A n, ws : Before(t, n, ws) = Before(s, n, ws)
    BY DEF Before
  <1>2. \A a \in Arcs : Trace(t, a) = Trace(s, a)
    BY <1>1 DEF Trace
  <1>3. QED
    BY <1>1, <1>2 DEF Whole

\* As setup finds a net, the way back from a sink it has ends at its source.
LEMMA BegunArcs ==
  ASSUME NEW s, Good(s), NEW a \in Arcs, Begins(s, ArcNet[a]),
         Sink[a] \in DOMAIN s.wires[ArcNet[a]]
  PROVE  /\ Whole(s, a)
         /\ \A w \in Trace(s, a) \ {Source[ArcNet[a]]} : s.wires[ArcNet[a]][w] # NoPip
  <1> DEFINE n == ArcNet[a]
             D == DOMAIN s.wires[n]
  <1>1. s \in Tables /\ n \in Nets
    BY Router1Assumption DEF Good, Agree
  <1>2. D \in SUBSET Wires
    BY <1>1, WiresOfNet
  <1>3. Before(s, n, D) \subseteq D
    BY DEF Before, Begins
  <1>4. Trace(s, a) \subseteq D
    BY <1>1, <1>2, <1>3, TraceLeast
  <1>5. Source[n] \in Trace(s, a)
    BY <1>1, TraceLeast DEF Begins
  <1>6. QED
    BY <1>4, <1>5, Router1Assumption DEF Whole, Begins

\* setup of one net (router1.cc:366-467).
LEMMA SetupStep ==
  ASSUME IInv, NEW n \in Nets, Setup(n)
  PROVE  IInv'
  <1> DEFINE D == DOMAIN State.wires[n]
             mine == {a \in Arcs : ArcNet[a] = n}
             bound == {a \in mine : Sink[a] \in D}
             met(a) == Trace(State, a) \ {Source[n]}
             on == [a \in Arcs |-> IF a \in bound THEN Trace(State, a) ELSE {}]
             open == {a \in mine : a \in bound => ~(met(a) \subseteq D)}
             r == Record(State, on)
             q == [r EXCEPT !.queue = @ \cup open]
             ws == {w \in D : q.arcs[w] = {}}
             t == Unbind(q, ws)
             next == IF todo = {n} THEN "pop" ELSE "setup"
  <1>1. /\ Good(State) /\ State \in Tables /\ Control
        /\ Begins(State, n) /\ pc = "setup" /\ n \in todo
    BY DEF IInv, Good, Agree, Setup
  <1>2. \A a \in bound : Whole(State, a) /\ \A w \in met(a) : State.wires[n][w] # NoPip
    BY <1>1, BegunArcs
  <1>3. Check(State, \A a \in bound : \A w \in met(a) \cap D : wires[n][w] # NoPip) = State
    BY <1>1, <1>2, StateFields DEF Check, Tables
  <1>4. /\ Continue(t, next) /\ todo' = todo \ {n}
        /\ arc' = arc /\ route' = route
    BY <1>3, StateFields DEF Setup
  <1>5. \A a \in Arcs : on[a] \subseteq DOMAIN State.wires[ArcNet[a]]
    BY <1>2 DEF Whole
  <1>6. on \in [Arcs -> SUBSET Wires]
    BY <1>1, <1>5, WiresOfNet, Router1Assumption
  <1> HIDE DEF on, open
  <1>7. /\ Good(r) /\ r.net = State.net /\ r.wires = State.wires /\ r.queue = queued
        /\ r.ok = TRUE
        /\ r.used = [a \in Arcs |-> State.used[a] \cup on[a]]
        /\ r.arcs = [w \in Wires |-> State.arcs[w] \cup {a \in Arcs : w \in on[a]}]
    BY <1>1, <1>5, <1>6, Records, StateFields
  <1>8. r \in Tables /\ open \in SUBSET Arcs
    BY <1>7 DEF Good, Agree, open
  <1> HIDE DEF r
  <1>9. /\ q \in Tables
        /\ q.net = r.net /\ q.pip = r.pip /\ q.lock = r.lock /\ q.wires = r.wires
        /\ q.queue = queued \cup open /\ q.arcs = r.arcs /\ q.used = r.used /\ q.ok = TRUE
    BY <1>7, <1>8 DEF Tables
  <1> HIDE DEF q
  <1>10. Good(q)
    BY <1>7, <1>9, SameTables DEF Good, Rooted, Linked, Held
  <1>11. ws \in SUBSET Wires /\ \A w \in ws : q.net[w] = n /\ q.arcs[w] = {}
    <2>1. D \subseteq Wires
      BY <1>1, WiresOfNet
    <2>2. \A w \in D : q.net[w] = n
      BY <2>1, <1>1, <1>7, <1>9 DEF Good, Agree, WiresAgree
    <2>3. QED
      BY <2>1, <2>2
  <1> HIDE DEF ws
  <1>12. /\ Good(t) /\ Frees(q, t, ws)
         /\ t.ok = TRUE /\ t.queue = queued \cup open /\ t.arcs = r.arcs /\ t.used = r.used
    BY <1>9, <1>10, <1>11, UnbindUnused, Router1Assumption
  <1> HIDE DEF t
  <1>13. t \in Tables
    BY <1>12 DEF Good, Agree
  <1>14. State' = t /\ pc' = next /\ queued' = t.queue
    BY <1>4, <1>12, <1>13, Continued
  <1>15. Control'
    BY <1>1, <1>4, <1>14 DEF Control
  <1>16. Good(State)'
    BY <1>12, <1>14
  <1>17. OnTheWay'
    BY <1>14 DEF OnTheWay
  <1>18. \A m \in Nets : /\ DOMAIN t.wires[m] = DOMAIN State.wires[m] \ ws
                        /\ \A w \in DOMAIN t.wires[m] : t.wires[m][w] = State.wires[m][w]
    <2>1. q.wires = State.wires
      BY <1>7, <1>9
    <2>2. Frees(q, t, ws)
      BY <1>12
    <2>3. QED
      BY <2>1, <2>2 DEF Frees
  <1>19. Reached'
    <2>1. SUFFICES ASSUME NEW a \in Arcs, a \notin t.queue, ArcNet[a] \notin todo \ {n}
                   PROVE  RoutedIn(t, a)
      BY <1>4, <1>14 DEF Reached
    <2>2. RoutedIn(q, a)
      <3>1. CASE a \in mine
        <4>1. a \in bound
          BY <2>1, <3>1, <1>12 DEF open
        <4>2. q.used[a] = Trace(q, a)
          BY <4>1, <3>1, <1>1, <1>7, <1>9, SameWires DEF Begins, on
        <4>3. Whole(q, a)
          BY <4>1, <1>2, <1>7, <1>9, SameWires
        <4>4. QED
          BY <4>2, <4>3 DEF RoutedIn
      <3>2. CASE a \notin mine
        <4>1. RoutedIn(State, a)
          BY <2>1, <3>2, <1>1, <1>12 DEF IInv, Reached
        <4>2. q.used[a] = State.used[a]
          BY <3>2, <1>7, <1>9 DEF on
        <4>3. QED
          BY <4>1, <4>2, <1>7, <1>9, SameWires DEF RoutedIn
      <3>3. QED
        BY <3>1, <3>2
    <2>3. q.used[a] \subseteq DOMAIN q.wires[ArcNet[a]] /\ q.used[a] \subseteq Wires
      BY <1>9, <1>10 DEF Good, Held, Tables
    <2>4. q.used[a] \cap ws = {}
      BY <2>3, <1>10, <1>11 DEF Good, Linked
    <2>5. \A w \in q.used[a] : /\ w \in DOMAIN t.wires[ArcNet[a]]
                             /\ t.wires[ArcNet[a]][w] = q.wires[ArcNet[a]][w]
      BY <2>3, <2>4, <1>12, Router1Assumption DEF Frees
    <2>6. QED
      BY <2>2, <2>5, <1>9, <1>12, <1>13, RoutedKeeps
  <1>20. ASSUME NEW m \in todo' PROVE Begins(State, m)'
    <2>1. m \in Nets \ {n} /\ Begins(State, m)
      BY <1>1, <1>4 DEF Control, IInv
    <2>2. /\ DOMAIN t.wires[m] = DOMAIN State.wires[m]
          /\ \A w \in DOMAIN State.wires[m] : t.wires[m][w] = State.wires[m][w]
      <3>1. DOMAIN State.wires[m] \subseteq Wires
        BY <1>1, <2>1, WiresOfNet
      <3>2. DOMAIN State.wires[m] \cap ws = {}
        BY <3>1, <1>1, <1>7, <1>9, <1>11, <2>1 DEF Good, Agree, WiresAgree
      <3>3. QED
        BY <3>2, <1>18, <2>1
    <2>3. \A vs : Before(t, m, vs) = Before(State, m, vs)
      BY <2>2 DEF Before
    <2>4. \A a \in Arcs : ArcNet[a] = m => t.used[a] = {}
      BY <2>1, <1>7, <1>12 DEF Begins, on
    <2>5. Begins(t, m)
      BY <2>1, <2>2, <2>3, <2>4 DEF Begins
    <2>6. QED
      BY <2>5, <1>14
  <1>21. NoneLeft(t, Nets \ todo')
    <2>1. SUFFICES ASSUME NEW m \in Nets, m \notin todo \ {n}, NEW w \in DOMAIN t.wires[m]
                   PROVE  t.arcs[w] # {}
      BY <1>4 DEF NoneLeft
    <2>2. w \in DOMAIN State.wires[m] /\ w \notin ws /\ w \in Wires
      BY <1>1, <1>18, <2>1, WiresOfNet
    <2>3. CASE m = n
      BY <2>2, <2>3, <1>9, <1>12 DEF ws
    <2>4. CASE m # n
      <3>1. State.arcs[w] # {}
        BY <2>1, <2>2, <2>4 DEF IInv, NoneLeft
      <3>2. QED
        BY <3>1, <2>2, <1>7, <1>12
    <2>5. QED
      BY <2>3, <2>4
  <1>22. QED
    BY <1>14, <1>15, <1>16, <1>17, <1>19, <1>20, <1>21 DEF IInv

-----------------------------------------------------------------------------
\* t is s with a wire more for an arc and its net, driven by p.
Adds(s, t, a, w, p) ==
  /\ \A m \in Nets : DOMAIN t.wires[m] =
       DOMAIN s.wires[m] \cup IF m = ArcNet[a] THEN {w} ELSE {}
  /\ \A m \in Nets : \A v \in DOMAIN s.wires[m] : t.wires[m][v] = s.wires[m][v]
  /\ t.wires[ArcNet[a]][w] = p
  /\ \A b \in Arcs : t.used[b] = s.used[b] \cup IF b = a THEN {w} ELSE {}
  /\ \A v \in Wires : t.arcs[v] = s.arcs[v] \cup IF v = w THEN {a} ELSE {}
  /\ t.queue = s.queue /\ t.ok = s.ok

\* A wire the net has already is recorded.
LEMMA OldWireAdds ==
  ASSUME NEW s, Good(s), NEW a \in Arcs, NEW w \in DOMAIN s.wires[ArcNet[a]]
  PROVE  LET t == RecordWire(s, a, w)
         IN  Good(t) /\ Adds(s, t, a, w, s.wires[ArcNet[a]][w])
  <1> DEFINE on == [b \in Arcs |-> IF b = a THEN {w} ELSE {}]
             t == Record(s, on)
  <1>1. w \in Wires
    BY WiresOfNet, Router1Assumption DEF Good, Agree
  <1>2. /\ on \in [Arcs -> SUBSET Wires]
        /\ \A b \in Arcs : on[b] \subseteq DOMAIN s.wires[ArcNet[b]]
    BY <1>1
  <1> HIDE DEF on
  <1>3. /\ Good(t)
        /\ t.wires = s.wires /\ t.queue = s.queue /\ t.ok = s.ok
        /\ t.used = [b \in Arcs |-> s.used[b] \cup on[b]]
        /\ t.arcs = [v \in Wires |-> s.arcs[v] \cup {b \in Arcs : v \in on[b]}]
    BY <1>2, Records
  <1>4. RecordWire(s, a, w) = t
    BY DEF RecordWire, on
  <1> HIDE DEF t
  <1>5. \A v \in Wires : {b \in Arcs : v \in on[b]} = IF v = w THEN {a} ELSE {}
    BY DEF on
  <1>6. Adds(s, t, a, w, s.wires[ArcNet[a]][w])
    BY <1>3, <1>5, Router1Assumption DEF Adds, on
  <1>7. QED
    BY <1>3, <1>4, <1>6

\* A wire that is bound for the arc's net is recorded.
LEMMA NewWireAdds ==
  ASSUME NEW s, Good(s), NEW a \in Arcs, NEW w \in Wires, NEW p \in Pips \cup {NoPip},
         s.net[w] = NoNet, \A m \in Nets : Source[m] = w => m = ArcNet[a],
         NEW b, Agree(b), Binds(s, b, w, ArcNet[a], p), b.ok = s.ok,
         b.queue = s.queue, b.arcs = s.arcs, b.used = s.used
  PROVE  LET t == RecordWire(b, a, w)
         IN  Good(t) /\ Adds(s, t, a, w, p)
  <1> DEFINE n == ArcNet[a]
             t == RecordWire(b, a, w)
  <1>1. s \in Tables /\ n \in Nets
    BY Router1Assumption DEF Good, Agree
  <1>2. \A m \in Nets : w \notin DOMAIN s.wires[m]
    BY Router1Assumption DEF Good, Agree, WiresAgree
  <1>3. \A v \in Wires : b.net[v] = IF v = w THEN n ELSE s.net[v]
    BY <1>1 DEF Binds, Tables
  <1>4. Rooted(b)
    BY <1>1, <1>3, Router1Assumption DEF Good, Rooted
  <1>5. Linked(b) /\ Held(b)
    BY Router1Assumption DEF Good, Linked, Held, Binds
  <1>6. Good(b)
    BY <1>4, <1>5 DEF Good
  <1>7. w \in DOMAIN b.wires[n] /\ b.wires[n][w] = p
    BY <1>1 DEF Binds
  <1>8. Good(t) /\ Adds(b, t, a, w, p)
    BY <1>6, <1>7, OldWireAdds
  <1> HIDE DEF t
  <1>9. Adds(s, t, a, w, p)
    <2>1. \A m \in Nets : /\ DOMAIN b.wires[m] = DOMAIN s.wires[m] \cup IF m = n THEN {w} ELSE {}
                         /\ \A v \in DOMAIN s.wires[m] : b.wires[m][v] = s.wires[m][v]
      BY <1>2 DEF Binds
    <2>2. QED
      BY <1>8, <2>1 DEF Adds
  <1>10. QED
    BY <1>8, <1>9 DEF t

\* The other arcs stay as they are, and no wire is without an arc.
LEMMA AddsKeeps ==
  ASSUME NEW s, Good(s), NEW t, Good(t), NEW a \in Arcs, NEW w \in Wires, NEW p,
         Adds(s, t, a, w, p)
  PROVE  /\ \A b \in Arcs \ {a} : RoutedIn(s, b) => RoutedIn(t, b)
         /\ NoneLeft(s, Nets) => NoneLeft(t, Nets)
  <1>1. s \in Tables /\ t \in Tables
    BY DEF Good, Agree
  <1>2. ASSUME NEW b \in Arcs \ {a}, RoutedIn(s, b) PROVE RoutedIn(t, b)
    <2>1. t.used[b] = s.used[b]
      <3>1. t.used[b] = s.used[b] \cup {}
        BY DEF Adds
      <3>2. QED
        BY <3>1
    <2>2. \A v \in s.used[b] : /\ v \in DOMAIN t.wires[ArcNet[b]]
                              /\ t.wires[ArcNet[b]][v] = s.wires[ArcNet[b]][v]
      BY Router1Assumption DEF Adds, Good, Held
    <2>3. QED
      BY <1>1, <1>2, <2>1, <2>2, RoutedKeeps
  <1>3. ASSUME NoneLeft(s, Nets) PROVE NoneLeft(t, Nets)
    <2>1. \A n \in Nets : DOMAIN t.wires[n] \subseteq Wires
      BY <1>1, WiresOfNet
    <2>2. QED
      BY <1>3, <2>1 DEF NoneLeft, Adds
  <1>4. QED
    BY <1>2, <1>3

\* A pip more: the arc is bound up to where the pip comes from.
LEMMA PipBound ==
  ASSUME NEW s, Good(s), NEW t, NEW a \in Arcs, NEW p \in Pips,
         BoundTo(s, a, PipDst[p]), Adds(s, t, a, PipDst[p], p)
  PROVE  BoundTo(t, a, PipSrc[p])
  <1> DEFINE n == ArcNet[a]
             w == PipDst[p]
             on == s.used[a]
  <1>1. /\ n \in Nets /\ w \in Wires /\ w # Source[n] /\ on \subseteq DOMAIN s.wires[n]
        /\ t.used[a] = on \cup {w} /\ t.wires[n][w] = p
    BY Router1Assumption DEF Good, Held, Adds
  <1>2. \A v \in on : t.wires[n][v] = s.wires[n][v]
    BY <1>1 DEF Adds
  <1>3. \A v \in on \cup {w} : /\ v # Source[n] /\ t.wires[n][v] \in Pips
                              /\ PipSrc[t.wires[n][v]] \in (on \cup {w}) \cup {PipSrc[p]}
    BY <1>1, <1>2 DEF BoundTo
  <1>4. ASSUME NEW ws \in SUBSET Wires, Sink[a] \in ws,
               \A v \in ws \cap (on \cup {w}) : PipSrc[t.wires[n][v]] \in ws
        PROVE  (on \cup {w}) \cup {PipSrc[p]} \subseteq ws
    <2>1. \A v \in ws \cap on : PipSrc[s.wires[n][v]] \in ws
      BY <1>2, <1>4
    <2>2. on \cup {w} \subseteq ws
      BY <1>4, <2>1 DEF BoundTo
    <2>3. QED
      BY <1>1, <1>4, <2>2
  <1>5. QED
    BY <1>1, <1>3, <1>4 DEF BoundTo

\* The source at last: the arc is routed.
LEMMA SourceBound ==
  ASSUME NEW s, Good(s), NEW t, Good(t), NEW a \in Arcs,
         BoundTo(s, a, Source[ArcNet[a]]), Adds(s, t, a, Source[ArcNet[a]], NoPip)
  PROVE  RoutedIn(t, a)
  <1> DEFINE n == ArcNet[a]
             on == s.used[a]
             us == on \cup {Source[n]}
  <1>1. /\ n \in Nets /\ Source[n] \in Wires /\ on \subseteq DOMAIN s.wires[n]
        /\ t.used[a] = us /\ us \subseteq DOMAIN t.wires[n]
        /\ t \in Tables
    BY Router1Assumption DEF Good, Held, Adds, Agree
  <1>2. us \in SUBSET Wires
    BY <1>1, WiresOfNet
  <1>3. \A v \in on : t.wires[n][v] = s.wires[n][v]
    BY <1>1 DEF Adds
  <1>4. Before(t, n, us) \subseteq us
    BY <1>3 DEF Before, BoundTo
  <1>5. ASSUME NEW ws \in SUBSET Wires, Sink[a] \in ws, Before(t, n, ws) \subseteq ws
        PROVE  us \subseteq ws
    <2>1. ASSUME NEW v \in ws \cap on PROVE PipSrc[s.wires[n][v]] \in ws
      <3>1. v \in DOMAIN t.wires[n] /\ v # Source[n] /\ t.wires[n][v] # NoPip
        BY <1>1, <1>3, Router1Assumption DEF BoundTo
      <3>2. PipSrc[t.wires[n][v]] \in Before(t, n, ws)
        BY <3>1 DEF Before
      <3>3. QED
        BY <1>3, <1>5, <3>2
    <2>2. QED
      BY <1>5, <2>1 DEF BoundTo
  <1>6. Trace(t, a) = us
    BY <1>1, <1>2, <1>4, <1>5, TraceOnly DEF BoundTo
  <1>7. QED
    BY <1>1, <1>6 DEF RoutedIn, Whole

-----------------------------------------------------------------------------
\* An arc is taken from the queue (router1.cc:469-516).
LEMMA PopStep ==
  ASSUME IInv, NEW a \in Arcs, Pop(a)
  PROVE  IInv'
  <1> DEFINE n == ArcNet[a]
             s0 == [State EXCEPT !.queue = @ \ {a}]
             s == Unroute(s0, a)
             ws == {w \in s0.used[a] : s0.arcs[w] = {a}}
             b == IF Avail(s, Sink[a]) THEN BindWire(s, Sink[a], n)
                  ELSE Check(s, s.net[Sink[a]] = n)
             t == RecordWire(b, a, Sink[a])
  <1>1. /\ Good(State) /\ State \in Tables /\ Control /\ todo = {} /\ pc = "pop"
        /\ a \in queued /\ n \in Nets /\ Sink[a] \in Wires /\ NoneLeft(State, Nets)
    <2>1. Good(State) /\ Control /\ pc = "pop" /\ a \in queued
      BY DEF IInv, Pop
    <2>2. todo = {}
      BY <2>1 DEF Control
    <2>3. State \in Tables
      BY <2>1 DEF Good, Agree
    <2>4. n \in Nets /\ Sink[a] \in Wires
      BY Router1Assumption
    <2>5. NoneLeft(State, Nets)
      <3>1. Nets \ todo = Nets
        BY <2>2
      <3>2. NoneLeft(State, Nets \ todo)
        BY DEF IInv
      <3>3. QED
        BY <3>1, <3>2
    <2>6. QED
      BY <2>1, <2>2, <2>3, <2>4, <2>5
  <1>2. /\ s0 \in Tables
        /\ s0.net = State.net /\ s0.pip = State.pip /\ s0.lock = State.lock
        /\ s0.wires = State.wires /\ s0.queue = queued \ {a}
        /\ s0.arcs = State.arcs /\ s0.used = State.used /\ s0.ok = TRUE
    BY <1>1, StateFields DEF Tables
  <1>3. \/ Sink[a] = Source[n] /\ Continue(t, After(t)) /\ arc' = arc /\ route' = route
        \/ Sink[a] # Source[n] /\ route' \in Routes[a] /\ arc' = a /\ Continue(s, "bind")
    BY DEF Pop
  <1> HIDE DEF s0
  <1>4. Good(s0)
    BY <1>1, <1>2, SameTables DEF Good, Rooted, Linked, Held
  <1>5. /\ Good(s) /\ Frees(s0, s, ws)
        /\ s.used = [s0.used EXCEPT ![a] = {}]
        /\ s.arcs = [w \in Wires |-> s0.arcs[w] \ {a}]
        /\ s.queue = queued \ {a} /\ s.ok = TRUE
    <2>1. /\ Good(s) /\ Frees(s0, s, ws)
          /\ s.used = [s0.used EXCEPT ![a] = {}]
          /\ s.arcs = [w \in Wires |-> s0.arcs[w] \ {a}]
          /\ s.queue = s0.queue /\ s.ok = s0.ok
      BY <1>4, UnrouteFrees
    <2>2. QED
      BY <2>1, <1>2
  <1> HIDE DEF s
  <1>6. s \in Tables /\ s.used[a] = {} /\ todo' = {}
    BY <1>1, <1>2, <1>5 DEF Good, Agree, Tables, Pop
  <1>7. ASSUME NEW c \in Arcs \ {a}, c \notin s.queue PROVE RoutedIn(s, c)
    <2>1. RoutedIn(State, c)
      BY <1>1, <1>5, <1>7 DEF IInv, Reached
    <2>2. RoutedIn(s0, c)
      BY <2>1, <1>2, SameWires DEF RoutedIn
    <2>3. s.used[c] = s0.used[c] /\ s0.used[c] \subseteq Wires
      BY <1>2, <1>5 DEF Tables
    <2>4. s0.used[c] \cap ws = {}
      BY <2>3, <1>4 DEF Good, Linked
    <2>5. \A w \in s0.used[c] : /\ w \in DOMAIN s.wires[ArcNet[c]]
                              /\ s.wires[ArcNet[c]][w] = s0.wires[ArcNet[c]][w]
      BY <2>4, <1>4, <1>5, Router1Assumption DEF Good, Held, Frees
    <2>6. QED
      BY <2>2, <2>3, <2>5, <1>2, <1>6, RoutedKeeps
  <1>8. NoneLeft(s, Nets)
    <2>1. SUFFICES ASSUME NEW m \in Nets, NEW w \in DOMAIN s.wires[m]
                   PROVE  s.arcs[w] # {}
      BY DEF NoneLeft
    <2>2. w \in DOMAIN State.wires[m] /\ w \notin ws /\ w \in Wires
      <3>1. DOMAIN s.wires[m] = DOMAIN s0.wires[m] \ ws
        BY <1>5 DEF Frees
      <3>2. DOMAIN s0.wires[m] \subseteq Wires /\ s0.wires = State.wires
        BY <1>2, WiresOfNet
      <3>3. QED
        BY <2>1, <3>1, <3>2
    <2>3. s0.arcs[w] # {}
      BY <2>2, <1>1, <1>2 DEF NoneLeft
    <2>4. s0.arcs[w] # {a}
      BY <2>2, <1>4 DEF Good, Linked
    <2>5. QED
      BY <2>2, <2>3, <2>4, <1>5
  <1>9. CASE Sink[a] = Source[n] /\ Continue(t, After(t)) /\ arc' = arc /\ route' = route
    <2>1. Good(t) /\ Adds(s, t, a, Sink[a], NoPip)
      <3>1. CASE s.net[Sink[a]] = NoNet
        <4>1. b = BindWire(s, Sink[a], n)
          BY <3>1 DEF Avail
        <4>2. \A m \in Nets : Source[m] = Sink[a] => m = n
          BY <1>9, Router1Assumption
        <4>3. /\ Agree(b) /\ Binds(s, b, Sink[a], n, NoPip) /\ b.ok = s.ok
              /\ b.queue = s.queue /\ b.arcs = s.arcs /\ b.used = s.used
          BY <3>1, <4>1, <1>1, <1>5, BindWireBinds DEF Good
        <4> HIDE DEF b
        <4>4. QED
          BY <3>1, <4>2, <4>3, <1>1, <1>5, NewWireAdds
      <3>2. CASE s.net[Sink[a]] # NoNet
        <4>1. s.net[Sink[a]] = n
          BY <3>2, <1>1, <1>5, <1>9 DEF Good, Rooted
        <4>2. b = s
          BY <3>2, <4>1, <1>6 DEF Avail, Check, Tables
        <4>3. Sink[a] \in DOMAIN s.wires[n]
          BY <4>1, <1>1, <1>5 DEF Good, Agree, WiresAgree
        <4>4. s.wires[n][Sink[a]] = NoPip
          <5>1. s.wires[n][Sink[a]] \in Pips \cup {NoPip}
            BY <4>3, <1>1, <1>6, WiresOfNet
          <5>2. QED
            BY <4>3, <5>1, <1>1, <1>5, <1>9, Router1Assumption DEF Good, Agree, DriversAgree
        <4> HIDE DEF b
        <4>5. QED
          BY <4>2, <4>3, <4>4, <1>5, OldWireAdds
      <3>3. QED
        BY <3>1, <3>2
    <2> HIDE DEF t
    <2>2. t \in Tables /\ t.ok = TRUE /\ t.queue = s.queue
      BY <2>1, <1>5 DEF Good, Agree, Adds
    <2>3. State' = t /\ pc' = After(t) /\ queued' = s.queue
      BY <2>2, <1>9, Continued
    <2>4. pc' \in {"ripup", "pop"}
      BY <2>3 DEF After
    <2>5. BoundTo(s, a, Source[n])
      BY <1>6, <1>9 DEF BoundTo
    <2>6. RoutedIn(t, a)
      BY <2>1, <2>5, <1>5, <1>9, SourceBound
    <2>7. \A c \in Arcs \ t.queue : RoutedIn(t, c)
      BY <2>1, <2>2, <2>6, <1>1, <1>5, <1>7, AddsKeeps
    <2>8. NoneLeft(t, Nets)
      BY <2>1, <1>1, <1>5, <1>8, AddsKeeps
    <2>9. Control' /\ OnTheWay' /\ Reached'
      BY <2>2, <2>3, <2>4, <2>7, <1>1, <1>6, <1>9 DEF Control, OnTheWay, Reached
    <2>10. QED
      BY <2>1, <2>3, <2>8, <2>9, <1>6 DEF IInv
  <1>10. CASE /\ Sink[a] # Source[n] /\ route' \in Routes[a] /\ arc' = a
              /\ Continue(s, "bind")
    <2>1. State' = s /\ pc' = "bind" /\ queued' = s.queue
      BY <1>5, <1>6, <1>10, Continued
    <2>2. IsRoute(route', a)
      BY <1>10 DEF Routes
    <2>3. Cursor' = Sink[a]
      BY <2>2, <1>10 DEF Cursor, IsRoute
    <2>4. BoundTo(s, a, Sink[a])
      BY <1>6 DEF BoundTo
    <2>5. OnTheWay'
      BY <2>1, <2>2, <2>3, <2>4, <1>10 DEF OnTheWay, IsRoute
    <2>6. Control' /\ Reached'
      BY <2>1, <1>1, <1>6, <1>7, <1>10 DEF Control, Reached
    <2>7. QED
      BY <2>1, <2>5, <2>6, <1>5, <1>6, <1>8 DEF IInv
  <1>11. QED
    BY <1>3, <1>9, <1>10

-----------------------------------------------------------------------------
\* Where the router goes after an arc: the queue and the clock of the timing
\* rip-up decide.
LEMMA AfterWhere == \A s : After(s) \in {"ripup", "pop"}
  BY DEF After

\* A loss leaves the arc bound as far as it is, unless it is queued.
LEMMA BoundUnlessQueued ==
  ASSUME NEW s, Good(s), NEW t, Good(t), NEW ws \in SUBSET Wires, Loses(s, t, ws),
         NEW a \in Arcs \ t.queue, NEW c, BoundTo(s, a, c)
  PROVE  BoundTo(t, a, c)
  <1>1. /\ t.used[a] = s.used[a]
        /\ \A w \in s.used[a] : t.wires[ArcNet[a]][w] = s.wires[ArcNet[a]][w]
    BY RoutedUnlessQueued
  <1>2. QED
    BY <1>1 DEF BoundTo

\* The tables after a turn of the binding loop: first a loss, then a wire more
\* (router1.cc:738-793).
LEMMA BindAdds ==
  ASSUME NEW s, Good(s), NEW a \in Arcs, NEW w \in Wires, NEW p \in Pips \cup {NoPip},
         IF p = NoPip THEN w = Source[ArcNet[a]] ELSE w = PipDst[p]
  PROVE  LET n == ArcNet[a]
             f == Free(s, w, p)
             t == IF Has(s, n, w, p) THEN s
                  ELSE IF p = NoPip THEN BindWire(f, w, n) ELSE BindPip(f, p, n)
             u == RecordWire(t, a, w)
         IN  /\ Good(u)
             /\ \E r, ws : /\ Good(r) /\ ws \in SUBSET Wires /\ Loses(s, r, ws)
                          /\ Adds(r, u, a, w, p)
  <1> DEFINE n == ArcNet[a]
             f == Free(s, w, p)
             t == IF Has(s, n, w, p) THEN s
                  ELSE IF p = NoPip THEN BindWire(f, w, n) ELSE BindPip(f, p, n)
             u == RecordWire(t, a, w)
  <1>1. s \in Tables /\ n \in Nets
    BY Router1Assumption DEF Good, Agree
  <1>2. CASE Has(s, n, w, p)
    <2>1. Good(u) /\ Adds(s, u, a, w, p)
      BY <1>2, OldWireAdds DEF Has
    <2>2. Loses(s, s, {})
      BY <1>1, LosesNothing
    <2>3. QED
      BY <2>1, <2>2
  <1>3. CASE ~Has(s, n, w, p)
    <2>1. t = IF p = NoPip THEN BindWire(f, w, n) ELSE BindPip(f, p, n)
      BY <1>3
    <2> HIDE DEF f, t
    <2>2. /\ Good(f) /\ \E ws \in SUBSET Wires : Loses(s, f, ws)
          /\ f.net[w] = NoNet
          /\ p # NoPip => f.lock[PipSwitch[p]] = NoWire
      BY FreeLoses DEF f
    <2>3. \A m \in Nets : Source[m] = w => m = n
      BY <1>1, Router1Assumption
    <2>4. /\ Agree(t) /\ Binds(f, t, w, n, p) /\ t.ok = f.ok
          /\ t.queue = f.queue /\ t.arcs = f.arcs /\ t.used = f.used
      <3>1. CASE p = NoPip
        BY <1>1, <2>1, <2>2, <3>1, BindWireBinds DEF Good
      <3>2. CASE p # NoPip
        BY <1>1, <2>1, <2>2, <3>2, BindPipBinds DEF Good
      <3>3. QED
        BY <3>1, <3>2
    <2>5. Good(u) /\ Adds(f, u, a, w, p)
      BY <2>2, <2>3, <2>4, NewWireAdds
    <2>6. QED
      BY <2>2, <2>5 DEF f, t
  <1>4. QED
    BY <1>2, <1>3

\* One turn of the binding loop.
LEMMA BindStep ==
  ASSUME IInv, Bind
  PROVE  IInv'
  <1> DEFINE n == ArcNet[arc]
             p == IF route = <<>> THEN NoPip ELSE Last(route)
             w == IF route = <<>> THEN Source[n] ELSE PipDst[p]
             s == Free(State, w, p)
             t == IF Has(State, n, w, p) THEN State
                  ELSE IF p = NoPip THEN BindWire(s, w, n) ELSE BindPip(s, p, n)
             u == RecordWire(t, arc, w)
  <1>1. /\ Good(State) /\ State \in Tables /\ Control /\ todo = {} /\ todo' = {}
        /\ pc = "bind" /\ arc \in Arcs /\ arc' = arc /\ n \in Nets
        /\ NoneLeft(State, Nets) /\ route \in Seq(Pips)
    <2>1. pc = "bind" /\ todo' = todo /\ arc' = arc
      BY DEF Bind
    <2>2. Control /\ Good(State) /\ OnTheWay /\ NoneLeft(State, Nets \ todo)
      BY DEF IInv
    <2>3. todo = {} /\ arc \in Arcs
      BY <2>1, <2>2 DEF Control
    <2>4. Nets \ todo = Nets
      BY <2>3
    <2>5. QED
      BY <2>1, <2>2, <2>3, <2>4, Router1Assumption DEF Good, Agree, OnTheWay
  <1>2. \/ route # <<>> /\ route' = Front(route) /\ Continue(u, "bind")
        \/ route = <<>> /\ route' = route /\ Continue(u, After(u))
    BY DEF Bind
  <1>3. /\ w = Cursor /\ w \in Wires /\ p \in Pips \cup {NoPip}
        /\ route # <<>> => p \in Pips /\ p = route[Len(route)] /\ p # NoPip /\ w = PipDst[p]
        /\ route = <<>> => p = NoPip /\ w = Source[n]
    <2>1. CASE route = <<>>
      BY <1>1, <2>1, Router1Assumption DEF Cursor
    <2>2. CASE route # <<>>
      <3>1. route[Len(route)] \in Pips
        BY <1>1, <2>2
      <3>2. QED
        BY <3>1, <2>2, Router1Assumption DEF Cursor, Last
    <2>3. QED
      BY <2>1, <2>2
  <1> HIDE DEF p, w
  <1>4. IF p = NoPip THEN w = Source[n] ELSE w = PipDst[p]
    BY <1>3
  <1>5. Good(u) /\ \E r, ws : /\ Good(r) /\ ws \in SUBSET Wires /\ Loses(State, r, ws)
                            /\ Adds(r, u, arc, w, p)
    BY <1>1, <1>3, <1>4, BindAdds
  <1> HIDE DEF u
  <1>6. PICK r, ws : /\ Good(r) /\ ws \in SUBSET Wires /\ Loses(State, r, ws)
                     /\ Adds(r, u, arc, w, p)
    BY <1>5
  <1>7. u \in Tables /\ u.ok = TRUE /\ u.queue = r.queue /\ queued \subseteq u.queue
    BY <1>5, <1>6, StateFields DEF Good, Agree, Adds, Loses
  <1>8. NoneLeft(u, Nets)
    BY <1>1, <1>3, <1>5, <1>6, NoneLeftStays, AddsKeeps
  <1>9. ASSUME NEW a \in Arcs \ {arc}, a \notin u.queue PROVE RoutedIn(u, a)
    <2>1. RoutedIn(State, a)
      BY <1>1, <1>7, <1>9 DEF IInv, Reached
    <2>2. RoutedIn(r, a)
      BY <2>1, <1>1, <1>6, <1>7, <1>9, RoutedUnlessQueued
    <2>3. QED
      BY <2>2, <1>1, <1>3, <1>5, <1>6, AddsKeeps
  <1>10. ASSUME arc \notin u.queue PROVE BoundTo(r, arc, w)
    <2>1. BoundTo(State, arc, w)
      BY <1>1, <1>3, <1>7, <1>10 DEF IInv, OnTheWay
    <2>2. QED
      BY <2>1, <1>1, <1>6, <1>7, <1>10, BoundUnlessQueued
  <1>11. CASE route # <<>> /\ route' = Front(route) /\ Continue(u, "bind")
    <2>1. State' = u /\ pc' = "bind" /\ queued' = u.queue
      BY <1>7, <1>11, Continued
    <2>2. /\ route' \in Seq(Pips) /\ Len(route') = Len(route) - 1 /\ Len(route) \in Nat \ {0}
          /\ \A i \in 1 .. Len(route) - 1 : route'[i] = route[i]
      <3>1. Len(route) \in Nat \ {0} /\ \A i \in 1 .. Len(route) - 1 : route[i] \in Pips
        BY <1>1, <1>11
      <3>2. route' = SubSeq(route, 1, Len(route) - 1)
        BY <1>11 DEF Front
      <3> DEFINE k == Len(route) - 1
      <3>3. k \in Nat
        BY <3>1
      <3> HIDE DEF k
      <3>4. /\ SubSeq(route, 1, k) \in Seq(Pips)
            /\ Len(SubSeq(route, 1, k)) = IF 1 <= k THEN k - 1 + 1 ELSE 0
            /\ \A i \in 1 .. k - 1 + 1 : SubSeq(route, 1, k)[i] = route[1 + i - 1]
        <4>1. 1 \in Int /\ k \in Int /\ \A i \in 1 .. k : route[i] \in Pips
          BY <3>1, <3>3 DEF k
        <4>2. QED
          BY <4>1, SubSeqProperties
      <3>5. Len(SubSeq(route, 1, k)) = k /\ \A i \in 1 .. k : SubSeq(route, 1, k)[i] = route[i]
        BY <3>3, <3>4
      <3>6. QED
        BY <3>1, <3>2, <3>4, <3>5 DEF k
    <2>3. /\ PipSrc[route[1]] = Source[n]
          /\ \A i \in 2 .. Len(route) : PipSrc[route[i]] = PipDst[route[i - 1]]
      BY <1>1, <1>11 DEF IInv, OnTheWay
    <2>4. Cursor' = PipSrc[p]
      <3>1. CASE Len(route) = 1
        <4>1. route' = <<>>
          BY <3>1, <2>2
        <4>2. QED
          BY <3>1, <4>1, <2>3, <1>1, <1>3, <1>11 DEF Cursor
      <3>2. CASE Len(route) # 1
        <4>1. route' # <<>> /\ Last(route') = route[Len(route) - 1]
          BY <3>2, <2>2 DEF Last
        <4>2. PipSrc[route[Len(route)]] = PipDst[route[Len(route) - 1]]
          BY <3>2, <2>2, <2>3
        <4>3. QED
          BY <4>1, <4>2, <1>3, <1>11 DEF Cursor
      <3>3. QED
        BY <3>1, <3>2
    <2>5. arc \notin u.queue => BoundTo(u, arc, PipSrc[p])
      BY <1>1, <1>3, <1>6, <1>10, <1>11, PipBound
    <2>6. OnTheWay'
      <3>1. route' # <<>> => PipSrc[route'[1]] = Source[n]
        BY <2>2, <2>3
      <3>2. \A i \in 2 .. Len(route') : PipSrc[route'[i]] = PipDst[route'[i - 1]]
        BY <2>2, <2>3
      <3>3. QED
        BY <1>1, <2>1, <2>2, <2>4, <2>5, <3>1, <3>2 DEF OnTheWay
    <2>7. Control' /\ Reached'
      BY <2>1, <1>1, <1>9 DEF Control, Reached
    <2>8. QED
      BY <2>1, <2>6, <2>7, <1>1, <1>5, <1>8 DEF IInv
  <1>12. CASE route = <<>> /\ route' = route /\ Continue(u, After(u))
    <2>1. State' = u /\ pc' = After(u) /\ queued' = u.queue
      BY <1>7, <1>12, Continued
    <2>2. pc' \in {"ripup", "pop"}
      BY <2>1, AfterWhere
    <2>3. arc \notin u.queue => RoutedIn(u, arc)
      BY <1>1, <1>3, <1>5, <1>6, <1>10, <1>12, SourceBound
    <2>4. Control' /\ OnTheWay' /\ Reached'
      BY <2>1, <2>2, <2>3, <1>1, <1>9 DEF Control, OnTheWay, Reached
    <2>5. QED
      BY <2>1, <2>4, <1>1, <1>5, <1>8 DEF IInv
  <1>13. QED
    BY <1>2, <1>11, <1>12

\* Arcs with bad slack are queued again (router1.cc:1230-1270).
LEMMA TimingRipupStep ==
  ASSUME IInv, TimingRipup
  PROVE  IInv'
  <1>1. /\ Good(State) /\ State \in Tables /\ Control /\ todo = {} /\ todo' = {}
        /\ pc = "ripup" /\ arc' = arc /\ NoneLeft(State, Nets)
    BY DEF IInv, Good, Agree, TimingRipup, Control
  <1>2. PICK slow \in SUBSET Arcs :
          Continue(Ripup(State, {w \in {Sink[a] : a \in slow} : ~Avail(State, w)}), "pop")
    BY DEF TimingRipup
  <1> DEFINE ws == {w \in {Sink[a] : a \in slow} : ~Avail(State, w)}
             t == Ripup(State, ws)
  <1>3. ws \in SUBSET Wires /\ \A w \in ws : State.net[w] # NoNet
    BY Router1Assumption DEF Avail
  <1> HIDE DEF ws
  <1>4. Good(t) /\ Loses(State, t, ws)
    BY <1>1, <1>3, RipupLoses
  <1>5. Continue(t, "pop")
    BY <1>2 DEF ws
  <1> HIDE DEF t
  <1>6. t \in Tables /\ t.ok = TRUE /\ queued \subseteq t.queue
    BY <1>4, StateFields DEF Good, Agree, Loses
  <1>7. State' = t /\ pc' = "pop" /\ queued' = t.queue
    BY <1>5, <1>6, Continued
  <1>8. \A a \in Arcs \ t.queue : RoutedIn(t, a)
    <2>1. \A a \in Arcs \ t.queue : RoutedIn(State, a)
      BY <1>1, <1>6 DEF IInv, Reached
    <2>2. QED
      BY <2>1, <1>1, <1>3, <1>4, RoutedUnlessQueued
  <1>9. NoneLeft(t, Nets)
    BY <1>1, <1>3, <1>4, NoneLeftStays
  <1>10. Control' /\ OnTheWay' /\ Reached'
    BY <1>1, <1>7, <1>8 DEF Control, OnTheWay, Reached
  <1>11. QED
    BY <1>1, <1>4, <1>7, <1>9, <1>10 DEF IInv

\* The tables do not change where the variables do not.
LEMMA Unchanged ==
  ASSUME UNCHANGED <<bindings, records>>
  PROVE  State' = State
  BY DEF bindings, records, State

\* The router ends with the tables as they are.
LEMMA FinishStep ==
  ASSUME IInv, Finish
  PROVE  IInv'
  <1>1. State' = State /\ queued' = queued /\ todo' = todo /\ arc' = arc /\ pc' = "done"
    BY Unchanged DEF Finish, records
  <1>2. Control' /\ OnTheWay' /\ Reached'
    BY <1>1 DEF IInv, Control, OnTheWay, Reached, Finish
  <1>3. QED
    BY <1>1, <1>2 DEF IInv

\* A step that changes nothing.
LEMMA StutterStep ==
  ASSUME IInv, UNCHANGED vars
  PROVE  IInv'
  <1>1. /\ State' = State /\ queued' = queued /\ todo' = todo /\ arc' = arc /\ pc' = pc
        /\ route' = route
    BY Unchanged DEF vars, records
  <1>2. Control' /\ OnTheWay' /\ Reached'
    BY <1>1 DEF IInv, Control, OnTheWay, Reached, Cursor
  <1>3. QED
    BY <1>1, <1>2 DEF IInv

-----------------------------------------------------------------------------
\* The pips that the arcs of a net have when setup begins.
PipsOf(has, n) == UNION {Range(has[a]) : a \in {b \in Arcs : ArcNet[b] = n}}

\* A part of a route is a chain of pips that starts at the source.
LEMMA BegunChain ==
  ASSUME NEW a \in Arcs, NEW h \in Begun(a)
  PROVE  /\ h \in Seq(Pips)
         /\ \A j \in 1 .. Len(h) :
              PipSrc[h[j]] = IF j = 1 THEN Source[ArcNet[a]] ELSE PipDst[h[j - 1]]
  <1>1. CASE h = <<>>
    BY <1>1
  <1>2. CASE h # <<>>
    <2>0. PICK q \in Routes[a] : \E i \in DOMAIN q : h = SubSeq(q, 1, i)
      BY <1>2 DEF Begun
    <2>1. PICK i \in DOMAIN q : h = SubSeq(q, 1, i)
      BY <2>0
    <2>2. IsRoute(q, a)
      BY <2>1 DEF Routes
    <2>3. /\ q \in Seq(Pips) /\ i \in 1 .. Len(q)
          /\ PipSrc[q[1]] = Source[ArcNet[a]]
          /\ \A j \in 2 .. Len(q) : PipSrc[q[j]] = PipDst[q[j - 1]]
      BY <2>1, <2>2 DEF IsRoute
    <2>4. i \in Int /\ 1 \in Int /\ \A j \in 1 .. i : q[j] \in Pips
      BY <2>3
    <2>5. /\ h \in Seq(Pips)
          /\ Len(h) = IF 1 <= i THEN i - 1 + 1 ELSE 0
          /\ \A j \in 1 .. i - 1 + 1 : h[j] = q[1 + j - 1]
      BY <2>1, <2>4, SubSeqProperties
    <2>6. Len(h) = i /\ \A j \in 1 .. i : h[j] = q[j]
      BY <2>3, <2>5
    <2>7. \A j \in 1 .. i : PipSrc[h[j]] = IF j = 1 THEN Source[ArcNet[a]] ELSE PipDst[h[j - 1]]
      BY <2>3, <2>6
    <2>8. QED
      BY <2>5, <2>6, <2>7
  <1>3. QED
    BY <1>1, <1>2

\* A set of numbers has a least one.
LEMMA LeastNumber ==
  ASSUME NEW S \in SUBSET Nat, S # {}
  PROVE  \E m \in S : \A k \in S : m <= k
  <1> DEFINE R == {ss \in Nat \X Nat : ss[1] < ss[2]}
  <1>1. IsWellFoundedOn(R, Nat)
    BY NatLessThanWellFounded, Zenon DEF OpToRel
  <1> HIDE DEF R
  <1>2. PICK m \in S : \A k \in S : ~ (<<k, m>> \in R)
    BY <1>1, WFMin
  <1>3. \A k \in S : ~ (k < m)
    BY <1>2 DEF R
  <1>4. QED
    BY <1>3

\* From every pip of a net there is a way back to the source of the net.
LEMMA PipsLeadBack ==
  ASSUME NEW has, \A a \in Arcs : has[a] \in Begun(a), NEW n \in Nets
  PROVE  /\ PipsOf(has, n) \subseteq Pips
         /\ \A p \in PipsOf(has, n) :
              \/ PipSrc[p] = Source[n]
              \/ \E q \in PipsOf(has, n) : PipSrc[p] = PipDst[q]
         /\ \A ws : /\ \A p \in PipsOf(has, n) : PipDst[p] \in ws => PipSrc[p] \in ws
                    /\ \E p \in PipsOf(has, n) : PipDst[p] \in ws
                    => Source[n] \in ws
  <1>1. \A p : p \in PipsOf(has, n) <=>
          \E a \in Arcs : ArcNet[a] = n /\ \E j \in 1 .. Len(has[a]) : p = has[a][j]
    <2>1. \A a \in Arcs : DOMAIN has[a] = 1 .. Len(has[a])
      BY BegunChain
    <2>2. QED
      BY <2>1 DEF PipsOf, Range
  <1>2. \A a \in Arcs : ArcNet[a] = n =>
          /\ has[a] \in Seq(Pips)
          /\ \A j \in 1 .. Len(has[a]) :
               PipSrc[has[a][j]] = IF j = 1 THEN Source[n] ELSE PipDst[has[a][j - 1]]
    BY BegunChain
  <1>3. PipsOf(has, n) \subseteq Pips
    BY <1>1, <1>2
  <1>4. ASSUME NEW p \in PipsOf(has, n), PipSrc[p] # Source[n]
        PROVE  \E q \in PipsOf(has, n) : PipSrc[p] = PipDst[q]
    <2>0. PICK a \in Arcs : ArcNet[a] = n /\ \E j \in 1 .. Len(has[a]) : p = has[a][j]
      BY <1>1
    <2>1. PICK j \in 1 .. Len(has[a]) : ArcNet[a] = n /\ p = has[a][j]
      BY <2>0
    <2>2. Len(has[a]) \in Nat
      BY <2>1, <1>2
    <2>3. j # 1
      BY <2>1, <1>2, <1>4
    <2>4. j - 1 \in 1 .. Len(has[a]) /\ PipSrc[p] = PipDst[has[a][j - 1]]
      BY <2>1, <2>2, <2>3, <1>2
    <2>5. has[a][j - 1] \in PipsOf(has, n)
      BY <2>1, <2>4, <1>1
    <2>6. QED
      BY <2>4, <2>5
  <1>5. ASSUME NEW ws, \A p \in PipsOf(has, n) : PipDst[p] \in ws => PipSrc[p] \in ws,
               NEW p \in PipsOf(has, n), PipDst[p] \in ws
        PROVE  Source[n] \in ws
    <2>0. PICK a \in Arcs : ArcNet[a] = n /\ \E i \in 1 .. Len(has[a]) : p = has[a][i]
      BY <1>1
    <2>1. PICK i \in 1 .. Len(has[a]) : ArcNet[a] = n /\ p = has[a][i]
      BY <2>0
    <2> DEFINE S == {j \in 1 .. Len(has[a]) : PipDst[has[a][j]] \in ws}
    <2>2. Len(has[a]) \in Nat
      BY <2>1, <1>2
    <2>3. S \in SUBSET Nat /\ i \in S
      BY <2>1, <2>2, <1>5
    <2>4. PICK j \in S : \A k \in S : j <= k
      BY <2>3, LeastNumber
    <2>5. PipSrc[has[a][j]] \in ws
      BY <2>1, <2>4, <1>1, <1>5
    <2>6. CASE j = 1
      BY <2>1, <2>4, <2>5, <2>6, <1>2
    <2>7. CASE j # 1
      <3>1. j - 1 \in 1 .. Len(has[a]) /\ ~(j <= j - 1)
        BY <2>2, <2>4, <2>7
      <3>2. PipSrc[has[a][j]] = PipDst[has[a][j - 1]]
        BY <2>1, <2>4, <2>7, <1>2
      <3>3. j - 1 \in S
        BY <2>5, <3>1, <3>2
      <3>4. QED
        BY <2>4, <3>1, <3>3
    <2>8. QED
      BY <2>6, <2>7
  <1>6. QED
    BY <1>3, <1>4, <1>5

\* What the nets have bound when setup begins.
LEMMA BoundBegins ==
  ASSUME NEW has, \A a \in Arcs : has[a] \in Begun(a), Bound(has)
  PROVE  /\ \A p \in Pips, n \in Nets : pip_to_net[p] = n <=> p \in PipsOf(has, n)
         /\ pip_to_net \in [Pips -> Nets \cup {NoNet}]
         /\ switches_locked \in [Switches -> Wires \cup {NoWire}]
         /\ \A x \in Switches, w \in Wires :
              switches_locked[x] = w <=>
                \E n \in Nets : \E p \in PipsOf(has, n) : PipSwitch[p] = x /\ PipDst[p] = w
         /\ DOMAIN wires = Nets /\ wires \in [Nets -> WireMaps]
         /\ \A n \in Nets : \A w : w \in DOMAIN wires[n] <=>
              \/ \E p \in PipsOf(has, n) : w = PipDst[p]
              \/ PipsOf(has, n) # {} /\ w = Source[n]
         /\ \A n \in Nets : \A p \in PipsOf(has, n) : wires[n][PipDst[p]] = p
         /\ \A n \in Nets : Source[n] \in DOMAIN wires[n] => wires[n][Source[n]] = NoPip
         /\ wire_to_net \in [Wires -> Nets \cup {NoNet}]
         /\ \A w \in Wires, n \in Nets : wire_to_net[w] = n <=> w \in DOMAIN wires[n]
  <1> DEFINE pips(n) == PipsOf(has, n)
             all == UNION {pips(n) : n \in Nets}
             owner(p) == CHOOSE n \in Nets : p \in pips(n)
             own(n) == {PipDst[p] : p \in pips(n)}
             ends(n) == own(n) \cup (IF own(n) = {} THEN {} ELSE {Source[n]})
  <1>1. /\ \A m, n \in Nets : m # n => pips(m) \cap pips(n) = {}
        /\ \A p, q \in all : p = q \/ (PipDst[p] # PipDst[q] /\ PipSwitch[p] # PipSwitch[q])
        /\ pip_to_net = [p \in Pips |-> IF p \in all THEN owner(p) ELSE NoNet]
        /\ switches_locked = [x \in Switches |->
             IF {p \in all : PipSwitch[p] = x} = {} THEN NoWire
             ELSE PipDst[CHOOSE p \in {p \in all : PipSwitch[p] = x} : TRUE]]
        /\ wires = [n \in Nets |->
             [w \in ends(n) |-> IF w = Source[n] THEN NoPip
                               ELSE CHOOSE p \in pips(n) : PipDst[p] = w]]
        /\ wire_to_net = [w \in Wires |->
             IF \E n \in Nets : w \in DOMAIN wires[n]
             THEN CHOOSE n \in Nets : w \in DOMAIN wires[n] ELSE NoNet]
    BY DEF Bound, PipsOf
  <1>2. \A n \in Nets : pips(n) \subseteq Pips
    BY PipsLeadBack
  <1> HIDE DEF pips
  <1>3. \A p, q \in all : PipDst[p] = PipDst[q] \/ PipSwitch[p] = PipSwitch[q] => p = q
    BY <1>1
  <1>4. \A n \in Nets : \A p \in pips(n) : p \in all /\ owner(p) = n
    BY <1>1
  <1>5. \A p \in all : owner(p) \in Nets /\ p \in pips(owner(p)) /\ p \in Pips
    BY <1>2
  <1> HIDE DEF all, owner
  <1>6. \A p \in Pips, n \in Nets : pip_to_net[p] = n <=> p \in pips(n)
    BY <1>1, <1>4, <1>5, Router1Assumption
  <1>7. pip_to_net \in [Pips -> Nets \cup {NoNet}]
    BY <1>1, <1>5
  <1>8. \A x \in Switches, w \in Wires :
          switches_locked[x] = w <=> \E p \in all : PipSwitch[p] = x /\ PipDst[p] = w
    <2>1. TAKE x \in Switches, w \in Wires
    <2>2. CASE {p \in all : PipSwitch[p] = x} = {}
      BY <2>2, <1>1, Router1Assumption
    <2>3. CASE {p \in all : PipSwitch[p] = x} # {}
      <3>1. PICK q : /\ q \in all /\ PipSwitch[q] = x
                     /\ q = CHOOSE p \in {p \in all : PipSwitch[p] = x} : TRUE
        BY <2>3
      <3>2. switches_locked[x] = PipDst[q]
        BY <2>3, <3>1, <1>1
      <3>3. QED
        BY <3>1, <3>2, <1>3
    <2>4. QED
      BY <2>2, <2>3
  <1>9. switches_locked \in [Switches -> Wires \cup {NoWire}]
    BY <1>1, <1>5, Router1Assumption
  <1>10. \A n \in Nets : /\ wires[n] = [w \in ends(n) |-> IF w = Source[n] THEN NoPip
                                         ELSE CHOOSE p \in pips(n) : PipDst[p] = w]
                        /\ DOMAIN wires[n] = ends(n)
    BY <1>1
  <1>11. \A n \in Nets : \A w : w \in DOMAIN wires[n] <=>
           \/ \E p \in pips(n) : w = PipDst[p]
           \/ pips(n) # {} /\ w = Source[n]
    <2>1. TAKE n \in Nets
    <2>2. own(n) = {} <=> pips(n) = {}
      OBVIOUS
    <2>3. \A w : w \in ends(n) <=> (\E p \in pips(n) : w = PipDst[p])
                                  \/ (own(n) # {} /\ w = Source[n])
      OBVIOUS
    <2>4. DOMAIN wires[n] = ends(n)
      BY <1>10
    <2> HIDE DEF own, ends
    <2>5. QED
      BY <2>2, <2>3, <2>4
  <1>12. \A n \in Nets : \A p \in pips(n) : wires[n][PipDst[p]] = p
    <2>1. TAKE n \in Nets
    <2>2. TAKE p \in pips(n)
    <2>3. PipDst[p] \in DOMAIN wires[n] /\ PipDst[p] # Source[n]
      BY <1>2, <1>11, Router1Assumption
    <2>4. (CHOOSE q \in pips(n) : PipDst[q] = PipDst[p]) = p
      BY <1>3, <1>4
    <2>5. PipDst[p] \in ends(n)
      BY <2>3, <1>10
    <2>6. wires[n] = [w \in ends(n) |-> IF w = Source[n] THEN NoPip
                                       ELSE CHOOSE q \in pips(n) : PipDst[q] = w]
      BY <1>10
    <2> HIDE DEF ends
    <2>7. wires[n][PipDst[p]] = CHOOSE q \in pips(n) : PipDst[q] = PipDst[p]
      BY <2>3, <2>5, <2>6
    <2>8. QED
      BY <2>4, <2>7
  <1>13. \A n \in Nets : Source[n] \in DOMAIN wires[n] => wires[n][Source[n]] = NoPip
    BY <1>10
  <1>14. wires \in [Nets -> WireMaps]
    <2>1. ASSUME NEW n \in Nets PROVE wires[n] \in WireMaps
      <3>1. ends(n) \in SUBSET Wires
        BY <1>2, Router1Assumption
      <3>2. \A w \in ends(n) : wires[n][w] \in Pips \cup {NoPip}
        BY <1>2, <1>10, <1>11, <1>12, <1>13
      <3>3. wires[n] \in [ends(n) -> Pips \cup {NoPip}]
        BY <3>2, <1>10
      <3>4. QED
        BY <3>1, <3>3 DEF WireMaps
    <2>2. QED
      BY <2>1, <1>1
  <1>15. \A m, n \in Nets : \A w \in DOMAIN wires[m] : w \in DOMAIN wires[n] => m = n
    BY <1>2, <1>3, <1>4, <1>11, Router1Assumption
  <1> DEFINE holder(w) == CHOOSE n \in Nets : w \in DOMAIN wires[n]
  <1>16. \A w \in Wires, n \in Nets : w \in DOMAIN wires[n] => holder(w) = n
    BY <1>15
  <1>17. \A w \in Wires : (\E n \in Nets : w \in DOMAIN wires[n]) =>
           holder(w) \in Nets /\ w \in DOMAIN wires[holder(w)]
    OBVIOUS
  <1>18. wire_to_net = [w \in Wires |->
           IF \E n \in Nets : w \in DOMAIN wires[n] THEN holder(w) ELSE NoNet]
    BY <1>1
  <1> HIDE DEF holder
  <1>19. /\ wire_to_net \in [Wires -> Nets \cup {NoNet}]
         /\ \A w \in Wires, n \in Nets : wire_to_net[w] = n <=> w \in DOMAIN wires[n]
    BY <1>16, <1>17, <1>18, Router1Assumption
  <1>20. \A x \in Switches, w \in Wires :
           switches_locked[x] = w <=>
             \E n \in Nets : \E p \in pips(n) : PipSwitch[p] = x /\ PipDst[p] = w
    BY <1>4, <1>5, <1>8
  <1>21. DOMAIN wires = Nets
    BY <1>1
  <1>22. QED
    BY <1>6, <1>7, <1>9, <1>11, <1>12, <1>13, <1>14, <1>19, <1>20, <1>21 DEF pips

\* The router begins in a state of the invariant.
LEMMA InitHolds == ASSUME Init PROVE IInv
  <1>1. PICK has : (\A a \in Arcs : has[a] \in Begun(a)) /\ Bound(has)
    BY DEF Init
  <1> DEFINE pips(n) == PipsOf(has, n)
  <1>2. /\ \A p \in Pips, n \in Nets : pip_to_net[p] = n <=> p \in pips(n)
        /\ pip_to_net \in [Pips -> Nets \cup {NoNet}]
        /\ switches_locked \in [Switches -> Wires \cup {NoWire}]
        /\ \A x \in Switches, w \in Wires :
             switches_locked[x] = w <=>
               \E n \in Nets : \E p \in pips(n) : PipSwitch[p] = x /\ PipDst[p] = w
        /\ wires \in [Nets -> WireMaps]
        /\ wire_to_net \in [Wires -> Nets \cup {NoNet}]
    BY <1>1, BoundBegins
  <1>3. /\ \A n \in Nets : \A w : w \in DOMAIN wires[n] <=>
             \/ \E p \in pips(n) : w = PipDst[p]
             \/ pips(n) # {} /\ w = Source[n]
        /\ \A n \in Nets : \A p \in pips(n) : wires[n][PipDst[p]] = p
        /\ \A n \in Nets : Source[n] \in DOMAIN wires[n] => wires[n][Source[n]] = NoPip
        /\ \A w \in Wires, n \in Nets : wire_to_net[w] = n <=> w \in DOMAIN wires[n]
    BY <1>1, BoundBegins
  <1>4. \A n \in Nets :
          /\ pips(n) \subseteq Pips
          /\ \A p \in pips(n) : PipSrc[p] = Source[n] \/ \E q \in pips(n) : PipSrc[p] = PipDst[q]
          /\ \A ws : /\ \A p \in pips(n) : PipDst[p] \in ws => PipSrc[p] \in ws
                     /\ \E p \in pips(n) : PipDst[p] \in ws
                     => Source[n] \in ws
    BY <1>1, PipsLeadBack
  <1> HIDE DEF pips
  <1>5. /\ queued = {} /\ pc = "setup" /\ todo = Nets /\ arc \in Arcs
        /\ wire_to_arcs = [w \in Wires |-> {}] /\ arc_to_wires = [a \in Arcs |-> {}]
    BY DEF Init, RouterInit
  <1>6. State \in Tables
    BY <1>2, <1>5 DEF State, Tables
  <1>7. WiresAgree(State)
    BY <1>3, StateFields DEF WiresAgree
  <1>8. DriversAgree(State)
    BY <1>3, StateFields DEF DriversAgree
  <1>9. PipsAgree(State)
    <2>1. SUFFICES ASSUME NEW p \in Pips, NEW n \in Nets
                   PROVE  p \in pips(n) <=> PipDst[p] \in DOMAIN wires[n] /\ wires[n][PipDst[p]] = p
      BY <1>2, StateFields DEF PipsAgree
    <2>2. PipDst[p] # Source[n]
      BY Router1Assumption
    <2>3. QED
      BY <2>2, <1>3
  <1>10. LocksAgree(State)
    <2>1. SUFFICES ASSUME NEW x \in Switches, NEW w \in Wires
                   PROVE  (\E n \in Nets : \E p \in pips(n) : PipSwitch[p] = x /\ PipDst[p] = w)
                          <=> \E p \in Pips : /\ PipSwitch[p] = x /\ PipDst[p] = w
                                              /\ pip_to_net[p] # NoNet
      BY <1>2, StateFields DEF LocksAgree
    <2>2. \A p \in Pips : pip_to_net[p] # NoNet <=> \E n \in Nets : p \in pips(n)
      BY <1>2, Router1Assumption
    <2>3. QED
      BY <2>2, <1>4
  <1>11. Rooted(State)
    <2>1. SUFFICES ASSUME NEW n \in Nets, wire_to_net[Source[n]] # NoNet
                   PROVE  wire_to_net[Source[n]] = n
      BY StateFields DEF Rooted
    <2>2. Source[n] \in Wires
      BY Router1Assumption
    <2>3. PICK m \in Nets : wire_to_net[Source[n]] = m
      BY <1>2, <2>1, <2>2
    <2>4. Source[n] \in DOMAIN wires[m]
      BY <1>3, <2>2, <2>3
    <2>5. Source[n] = Source[m]
      BY <1>3, <1>4, <2>4, Router1Assumption
    <2>6. QED
      BY <2>3, <2>5, Router1Assumption
  <1>12. Linked(State) /\ Held(State)
    BY <1>5, StateFields DEF Linked, Held
  <1>13. ASSUME NEW n \in Nets PROVE Begins(State, n)
    <2>1. ASSUME NEW w \in DOMAIN wires[n] \ {Source[n]}
          PROVE  wires[n][w] \in Pips /\ PipSrc[wires[n][w]] \in DOMAIN wires[n]
      <3>1. PICK p \in pips(n) : w = PipDst[p]
        BY <1>3, <2>1
      <3>2. wires[n][w] = p /\ p \in Pips
        BY <1>3, <1>4, <3>1
      <3>3. PipSrc[p] \in DOMAIN wires[n]
        BY <1>3, <1>4, <3>1
      <3>4. QED
        BY <3>2, <3>3
    <2>2. ASSUME NEW ws \in SUBSET Wires, Before(State, n, ws) \subseteq ws,
                 NEW w \in ws \cap DOMAIN wires[n]
          PROVE  Source[n] \in ws
      <3>1. ASSUME NEW p \in pips(n), PipDst[p] \in ws PROVE PipSrc[p] \in ws
        <4>1. /\ PipDst[p] \in DOMAIN wires[n] /\ wires[n][PipDst[p]] = p
              /\ PipDst[p] # Source[n] /\ p # NoPip
          BY <1>3, <1>4, <3>1, Router1Assumption
        <4>2. PipSrc[p] \in Before(State, n, ws)
          BY <3>1, <4>1, StateFields DEF Before
        <4>3. QED
          BY <2>2, <4>2
      <3>2. CASE w = Source[n]
        BY <3>2
      <3>3. CASE w # Source[n]
        BY <3>1, <3>3, <1>3, <1>4
      <3>4. QED
        BY <3>2, <3>3
    <2>3. \A a \in Arcs : State.used[a] = {}
      BY <1>5, StateFields
    <2>4. QED
      BY <2>1, <2>2, <2>3, StateFields DEF Begins
  <1>14. Control /\ OnTheWay /\ Reached /\ NoneLeft(State, Nets \ todo)
    BY <1>5, Router1Assumption DEF Control, OnTheWay, Reached, NoneLeft
  <1>15. QED
    BY <1>5, <1>6, <1>7, <1>8, <1>9, <1>10, <1>11, <1>12, <1>13, <1>14 DEF IInv, Good, Agree

-----------------------------------------------------------------------------
\* The invariant, of every chip, netlist and partial routing.
THEOREM RouterInvariant == Spec => []IInv
  <1>1. Init => IInv
    BY InitHolds
  <1>2. IInv /\ [Next]_vars => IInv'
    BY SetupStep, PopStep, BindStep, TimingRipupStep, FinishStep, StutterStep DEF Next
  <1>3. QED
    BY <1>1, <1>2, PTL DEF Spec

\* The router meets no failed assertion of its own or of the architecture
\* (arch.h:543-651, router1.cc:443, 495, 509, 762-772).
THEOREM RouterNeverAborts == Spec => []NeverAborts
  <1>1. IInv => NeverAborts
    BY DEF IInv, Control, NeverAborts
  <1>2. QED
    BY <1>1, RouterInvariant, PTL

\* The four tables of the architecture agree (arch.h:543-651).
THEOREM TablesAgree == Spec => []BindingsAgree
  <1>1. IInv => BindingsAgree
    BY StateFields
    DEF IInv, Good, Agree, WiresAgree, DriversAgree, PipsAgree, LocksAgree, BindingsAgree
  <1>2. QED
    BY <1>1, RouterInvariant, PTL

\* Between two arcs the assertions of check() hold (router1.cc:304-364).
THEOREM CheckPasses == Spec => []RecordsAgree
  <1>1. ASSUME IInv PROVE RecordsAgree
    <2>1. SUFFICES ASSUME pc \in {"pop", "ripup", "done"}
                   PROVE  /\ \A a \in Arcs : \A w \in arc_to_wires[a] :
                               a \in wire_to_arcs[w] /\ w \in DOMAIN wires[ArcNet[a]]
                          /\ \A n \in Nets : \A w \in DOMAIN wires[n] :
                               \E a \in Arcs : ArcNet[a] = n /\ w \in arc_to_wires[a]
      BY DEF RecordsAgree
    <2>2. /\ Linked(State) /\ Held(State) /\ WiresAgree(State) /\ State \in Tables
          /\ NoneLeft(State, Nets)
      BY <1>1, <2>1 DEF IInv, Control, Good, Agree
    <2>3. /\ arc_to_wires \in [Arcs -> SUBSET Wires] /\ wire_to_arcs \in [Wires -> SUBSET Arcs]
      BY <2>2, StateFields DEF Tables
    <2>4. \A a \in Arcs : \A w \in arc_to_wires[a] :
            a \in wire_to_arcs[w] /\ w \in DOMAIN wires[ArcNet[a]]
      BY <2>2, <2>3, StateFields DEF Linked, Held
    <2>5. ASSUME NEW n \in Nets, NEW w \in DOMAIN wires[n]
          PROVE  \E a \in Arcs : ArcNet[a] = n /\ w \in arc_to_wires[a]
      <3>1. w \in Wires
        BY <2>2, WiresOfNet, StateFields
      <3>2. PICK a \in wire_to_arcs[w] : TRUE
        BY <2>2, StateFields DEF NoneLeft
      <3>3. a \in Arcs /\ w \in arc_to_wires[a]
        BY <2>2, <2>3, <3>1, <3>2, StateFields DEF Linked
      <3>4. w \in DOMAIN wires[ArcNet[a]] /\ ArcNet[a] \in Nets
        BY <2>4, <3>3, Router1Assumption
      <3>5. ArcNet[a] = n
        BY <2>2, <3>1, <3>4, StateFields DEF WiresAgree
      <3>6. QED
        BY <3>3, <3>5
    <2>6. QED
      BY <2>4, <2>5
  <1>2. QED
    BY <1>1, RouterInvariant, PTL

\* What is not queued is routed, whatever was ripped up (router1.cc:222-288,
\* 488-502, 738-793).
THEOREM NothingForgotten == Spec => []RoutedOrQueued
  <1>1. IInv => RoutedOrQueued
    BY StateFields DEF IInv, Control, Reached, RoutedIn, RoutedOrQueued
  <1>2. QED
    BY <1>1, RouterInvariant, PTL

\* The router is done when the queue is empty.
DoneEmpty == pc = "done" => queued = {}

\* The design the router ends with is legally routed (router1.cc:1303-1484).
THEOREM RoutedLegally == Spec => []Legal
  <1>1. ASSUME RecordsAgree, RoutedOrQueued, DoneEmpty
        PROVE  Legal
    <2>1. SUFFICES ASSUME pc = "done", NEW n \in Nets
                   PROVE  LET users == {a \in Arcs : ArcNet[a] = n}
                          IN  /\ users = {} => DOMAIN wires[n] = {}
                              /\ \A a \in users : Whole(State, a)
                              /\ \A w \in DOMAIN wires[n] :
                                   \E a \in users : w \in Trace(State, a)
      BY DEF Legal
    <2>2. \A a \in Arcs : Whole(State, a) /\ arc_to_wires[a] = Trace(State, a)
      BY <1>1, <2>1 DEF RoutedOrQueued, DoneEmpty
    <2>3. \A w \in DOMAIN wires[n] : \E a \in Arcs : ArcNet[a] = n /\ w \in arc_to_wires[a]
      BY <1>1, <2>1 DEF RecordsAgree
    <2>4. QED
      BY <2>2, <2>3
  <1>2. Init => DoneEmpty
    BY DEF Init, RouterInit, DoneEmpty
  <1>3. DoneEmpty /\ [Next]_vars => DoneEmpty'
    <2> SUFFICES ASSUME DoneEmpty, [Next]_vars, pc' = "done"
                 PROVE  queued' = {}
      BY DEF DoneEmpty
    <2>1. CASE Finish
      BY <2>1 DEF Finish, records
    <2>2. CASE UNCHANGED vars
      BY <2>2 DEF vars, records, DoneEmpty
    <2>3. ASSUME NEW n \in Nets, Setup(n) PROVE FALSE
      BY <2>3 DEF Setup, Continue
    <2>4. ASSUME NEW a \in Arcs, Pop(a) PROVE FALSE
      BY <2>4, AfterWhere DEF Pop, Continue
    <2>5. CASE Bind
      BY <2>5, AfterWhere DEF Bind, Continue
    <2>6. CASE TimingRipup
      BY <2>6 DEF TimingRipup, Continue
    <2>7. QED
      BY <2>1, <2>2, <2>3, <2>4, <2>5, <2>6 DEF Next
  <1>4. Spec => []DoneEmpty
    BY <1>2, <1>3, PTL DEF Spec
  <1>5. QED
    BY <1>1, <1>4, CheckPasses, NothingForgotten, PTL
=============================================================================
