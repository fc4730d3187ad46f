-------------------------- MODULE DvNetworkProofs --------------------------
(***************************************************************************)
(* The tables of a router agree with one another, for every network, every *)
(* number of faults and all costs.                                         *)
(*                                                                         *)
(* The four maps of a router are changed by its own handlers only, so the  *)
(* invariant is one condition, Good, on the maps of a single router.  It   *)
(* is inductive because of how its parts hang together: refreshDV erases   *)
(* a neighbour with one of its ports, which is right only if no other port *)
(* to the neighbour counts as connected, and it replaces the routes over   *)
(* the ports it closes, which is right only if next hops are neighbours.   *)
(***************************************************************************)
EXTENDS DvNetwork, TLAPS

Agree(dv, ft) ==
  /\ DOMAIN ft = DOMAIN dv
  /\ \A d \in DOMAIN dv : ft[d] = dv[d].next_hop

HopsIn(dv, nbrs) == \A d \in DOMAIN dv : dv[d].next_hop \in DOMAIN nbrs

PortsRight(r, nbrs) ==
  \A n \in DOMAIN nbrs : nbrs[n].port \in PortsOf(r) /\ Far(r, nbrs[n].port) = n

OnePort(r, ports, nbrs) ==
  \A l \in ports :
    /\ l \in PortsOf(r)
    /\ Far(r, l) \in DOMAIN nbrs
    /\ \A p \in ports : Far(r, p) = Far(r, l) => p = l

Good(r, dv, ft, nbrs, ports) ==
  /\ Agree(dv, ft)
  /\ HopsIn(dv, nbrs)
  /\ PortsRight(r, nbrs)
  /\ OnePort(r, ports, nbrs)

\* Every router has its maps.
Shape ==
  /\ DOMAIN dv_map = Routers
  /\ DOMAIN forwarding_table = Routers
  /\ DOMAIN direct_neighbors = Routers
  /\ DOMAIN connected = Routers

IInv ==
  /\ Shape
  /\ \A r \in Routers :
       Good(r, dv_map[r], forwarding_table[r], direct_neighbors[r], connected[r])

-----------------------------------------------------------------------------
(* Maps. *)

\* What Merged returns: the keys, and where each value comes from.
LEMMA MergedMap ==
  ASSUME NEW f, NEW g, NEW gone
  PROVE  /\ DOMAIN Merged(f, g, gone) = (DOMAIN f \cup DOMAIN g) \ gone
         /\ \A x \in DOMAIN Merged(f, g, gone) :
              Merged(f, g, gone)[x] = IF x \in DOMAIN g THEN g[x] ELSE f[x]
BY DEF Merged

\* Writing cells and hops that name the same next hops keeps the tables in
\* agreement; a cell without a hop must keep the next hop it had.
LEMMA MergedAgree ==
  ASSUME NEW dv, NEW ft, NEW cells, NEW hops, NEW gone,
         Agree(dv, ft),
         DOMAIN hops \subseteq DOMAIN cells,
         \A d \in DOMAIN hops : hops[d] = cells[d].next_hop,
         \A d \in DOMAIN cells \ DOMAIN hops :
           d \in DOMAIN dv /\ cells[d].next_hop = dv[d].next_hop
  PROVE  Agree(Merged(dv, cells, gone), Merged(ft, hops, gone))
BY DEF Agree, Merged

\* New next hops that are neighbours keep all next hops among the neighbours.
LEMMA MergedHopsIn ==
  ASSUME NEW dv, NEW cells, NEW gone, NEW nbrs,
         \A d \in DOMAIN cells : cells[d].next_hop \in DOMAIN nbrs,
         \A d \in (DOMAIN dv \ DOMAIN cells) \ gone : dv[d].next_hop \in DOMAIN nbrs
  PROVE  HopsIn(Merged(dv, cells, gone), nbrs)
BY DEF HopsIn, Merged

-----------------------------------------------------------------------------
(* A step of one router. *)

\* A handler of r keeps the invariant if it leaves the maps of the other
\* routers alone and those of r in order.
LEMMA OneRouter ==
  ASSUME IInv, NEW r \in Routers, Shape',
         \A x \in Routers \ {r} :
           /\ dv_map'[x] = dv_map[x]
           /\ forwarding_table'[x] = forwarding_table[x]
           /\ direct_neighbors'[x] = direct_neighbors[x]
           /\ connected'[x] = connected[x],
         Good(r, dv_map'[r], forwarding_table'[r], direct_neighbors'[r], connected'[r])
  PROVE  IInv'
<1>1. ASSUME NEW x \in Routers
      PROVE  Good(x, dv_map'[x], forwarding_table'[x], direct_neighbors'[x], connected'[x])
  <2>1. CASE x = r
    BY <2>1
  <2>2. CASE x # r
    BY <2>2 DEF IInv
  <2> QED BY <2>1, <2>2
<1> QED BY <1>1 DEF IInv

\* A step that leaves all tables alone.
LEMMA TablesUnchanged ==
  ASSUME IInv, UNCHANGED tableVars
  PROVE  IInv'
BY DEF IInv, Shape, tableVars

-----------------------------------------------------------------------------
(* recv *)

\* A PONG from the router behind l.
LEMMA RecvPongInv ==
  ASSUME IInv, NEW r \in Routers, NEW l \in PortsOf(r), RecvPong(r, l)
  PROVE  IInv'
<1>0. PICK rrt \in RoundTrips(l) : PongMeasures(r, l, rrt)
  BY DEF RecvPong
<1> DEFINE src      == Far(r, l)
           dv       == dv_map[r]
           nbrs     == Merged(direct_neighbors[r], [n \in {src} |-> Neighbor(l, rrt)], {})
           diff     == rrt - port_cost[r][l]
           may(d)   == (dv[d].cost + diff) % COST_MOD
           mine     == {d \in DOMAIN dv : diff # 0 /\ dv[d].next_hop = src}
           toDirect == {d \in mine : d \in DOMAIN nbrs /\ nbrs[d].cost <= may(d)}
           moved    == mine \ DOMAIN nbrs
           better   == {d \in DOMAIN dv : diff # 0 /\ d = src /\ dv[d].next_hop # src /\ rrt <= dv[d].cost}
           new      == {src} \ DOMAIN dv
           cells    == [d \in toDirect \cup moved \cup better \cup new |->
                          CASE d \in toDirect -> Cell(d, nbrs[d].cost)
                            [] d \in moved    -> Cell(src, may(d))
                            [] OTHER          -> Cell(src, rrt)]
           hops     == [d \in toDirect \cup better \cup new |-> IF d \in toDirect THEN d ELSE src]
<1>1. /\ dv_map' = [dv_map EXCEPT ![r] = Merged(dv, cells, {})]
      /\ forwarding_table' = [forwarding_table EXCEPT ![r] = Merged(forwarding_table[r], hops, {})]
      /\ direct_neighbors' = [direct_neighbors EXCEPT ![r] = nbrs]
      /\ connected' = [connected EXCEPT ![r] = ConnectedBy(r, l)]
  BY <1>0 DEF PongMeasures, WriteTables
<1> SUFFICES Good(r, Merged(dv, cells, {}), Merged(forwarding_table[r], hops, {}), nbrs, ConnectedBy(r, l))
  <2> HIDE DEF dv, nbrs, cells, hops
  <2>1. Shape'
    BY <1>1 DEF IInv, Shape
  <2>2. /\ dv_map'[r] = Merged(dv, cells, {})
        /\ forwarding_table'[r] = Merged(forwarding_table[r], hops, {})
        /\ direct_neighbors'[r] = nbrs
        /\ connected'[r] = ConnectedBy(r, l)
        /\ \A x \in Routers \ {r} :
             /\ dv_map'[x] = dv_map[x]
             /\ forwarding_table'[x] = forwarding_table[x]
             /\ direct_neighbors'[x] = direct_neighbors[x]
             /\ connected'[x] = connected[x]
    BY <1>1 DEF IInv, Shape
  <2> QED BY <2>1, <2>2, OneRouter
<1>2. /\ Agree(dv, forwarding_table[r])
      /\ HopsIn(dv, direct_neighbors[r])
      /\ PortsRight(r, direct_neighbors[r])
      /\ OnePort(r, connected[r], direct_neighbors[r])
  BY DEF IInv, Good
<1>3. /\ DOMAIN nbrs = DOMAIN direct_neighbors[r] \cup {src}
      /\ \A n \in DOMAIN nbrs :
           nbrs[n].port = IF n = src THEN l ELSE direct_neighbors[r][n].port
  BY DEF Merged, Neighbor
<1>4. /\ toDirect \subseteq DOMAIN nbrs
      /\ moved \cap DOMAIN nbrs = {}
      /\ \A d \in moved : d \in DOMAIN dv /\ dv[d].next_hop = src
  OBVIOUS
<1>5. /\ DOMAIN cells = toDirect \cup moved \cup better \cup new
      /\ DOMAIN hops = toDirect \cup better \cup new
      /\ \A d \in DOMAIN cells :
           /\ d \in toDirect => cells[d].next_hop = d
           /\ d \notin toDirect => cells[d].next_hop = src
      /\ \A d \in DOMAIN hops : hops[d] = IF d \in toDirect THEN d ELSE src
  <2> HIDE DEF toDirect, moved, better, new, nbrs, src, may
  <2>1. ASSUME NEW d \in toDirect
        PROVE  cells[d] = Cell(d, nbrs[d].cost)
    BY <2>1, <1>4
  <2>2. ASSUME NEW d \in moved
        PROVE  cells[d] = Cell(src, may(d))
    BY <2>2, <1>4
  <2>3. ASSUME NEW d \in better \cup new, d \notin toDirect, d \notin moved
        PROVE  cells[d] = Cell(src, rrt)
    BY <2>3
  <2> QED BY <2>1, <2>2, <2>3, <1>4 DEF Cell
<1> HIDE DEF cells, hops, toDirect, moved, better, new, nbrs, may
<1>6. Agree(Merged(dv, cells, {}), Merged(forwarding_table[r], hops, {}))
  <2>1. \A d \in DOMAIN cells \ DOMAIN hops : d \in DOMAIN dv /\ cells[d].next_hop = dv[d].next_hop
    BY <1>4, <1>5
  <2>2. DOMAIN hops \subseteq DOMAIN cells /\ \A d \in DOMAIN hops : hops[d] = cells[d].next_hop
    BY <1>5
  <2> QED BY <1>2, <2>1, <2>2, MergedAgree
<1>7. HopsIn(Merged(dv, cells, {}), nbrs)
  <2>1. \A d \in DOMAIN cells : cells[d].next_hop \in DOMAIN nbrs
    BY <1>3, <1>4, <1>5
  <2>2. \A d \in (DOMAIN dv \ DOMAIN cells) \ {} : dv[d].next_hop \in DOMAIN nbrs
    BY <1>2, <1>3 DEF HopsIn
  <2> QED BY <2>1, <2>2, MergedHopsIn
<1>8. PortsRight(r, nbrs)
  BY <1>2, <1>3 DEF PortsRight
<1>9. OnePort(r, ConnectedBy(r, l), nbrs)
  BY <1>2, <1>3 DEF OnePort, ConnectedBy
<1> QED BY <1>6, <1>7, <1>8, <1>9 DEF Good

\* One pass over a vector keeps the tables in agreement and the next hops among
\* the neighbours.
LEMMA HeardGood ==
  ASSUME NEW t, NEW r, NEW src, NEW nbrs, NEW costs,
         Agree(t.dv, t.ft), HopsIn(t.dv, nbrs), src \in DOMAIN nbrs
  PROVE  /\ Agree(Heard(t, r, src, nbrs, costs).dv, Heard(t, r, src, nbrs, costs).ft)
         /\ HopsIn(Heard(t, r, src, nbrs, costs).dv, nbrs)
<1> DEFINE toDirect == ToDirect(t, src, nbrs, costs)
           gone     == Withdrawn(t, src, costs) \ DOMAIN nbrs
           cells    == [d \in toDirect \cup ToSource(t, r, src, nbrs, costs) |->
                          IF d \in toDirect THEN Cell(d, nbrs[d].cost)
                          ELSE Cell(src, Through(costs[d], nbrs[src].cost))]
           hops     == [d \in DOMAIN cells |-> IF d \in toDirect THEN d ELSE src]
<1>1. /\ Heard(t, r, src, nbrs, costs).dv = Merged(t.dv, cells, gone)
      /\ Heard(t, r, src, nbrs, costs).ft = Merged(t.ft, hops, gone)
  BY DEF Heard
<1>2. toDirect \subseteq DOMAIN nbrs
  BY DEF ToDirect
<1> HIDE DEF toDirect, gone
<1>3. /\ DOMAIN hops = DOMAIN cells
      /\ \A d \in DOMAIN cells :
           /\ cells[d].next_hop = IF d \in toDirect THEN d ELSE src
           /\ hops[d] = cells[d].next_hop
  BY DEF Cell
<1>4. \A d \in DOMAIN cells : cells[d].next_hop \in DOMAIN nbrs
  BY <1>2, <1>3
<1> HIDE DEF cells, hops
<1>5. Agree(Merged(t.dv, cells, gone), Merged(t.ft, hops, gone))
  BY <1>3, MergedAgree
<1>6. HopsIn(Merged(t.dv, cells, gone), nbrs)
  <2>1. \A d \in (DOMAIN t.dv \ DOMAIN cells) \ gone : t.dv[d].next_hop \in DOMAIN nbrs
    BY DEF HopsIn
  <2> QED BY <1>4, <2>1, MergedHopsIn
<1> QED BY <1>1, <1>5, <1>6

\* A vector from the router behind l, read once and then for what it repeats.
LEMMA RecvDVInv ==
  ASSUME IInv, NEW r \in Routers, NEW l \in PortsOf(r), RecvDV(r, l)
  PROVE  IInv'
<1> DEFINE src    == Far(r, l)
           packet == Head(wire[l][r])
<1>1. PICK link_cost \in LinkCosts(r, src, packet.costs) :
        LET nbrs  == Merged([n \in {src} |-> Neighbor(l, link_cost)], direct_neighbors[r], {})
            t     == [dv |-> dv_map[r], ft |-> forwarding_table[r]]
            once  == Heard(t, r, src, nbrs, packet.costs)
            twice == Heard(once, r, src, nbrs, packet.again)
        IN /\ direct_neighbors' = [direct_neighbors EXCEPT ![r] = nbrs]
           /\ dv_map' = [dv_map EXCEPT ![r] = twice.dv]
           /\ forwarding_table' = [forwarding_table EXCEPT ![r] = twice.ft]
           /\ UNCHANGED connected
  BY DEF RecvDV
<1> DEFINE nbrs  == Merged([n \in {src} |-> Neighbor(l, link_cost)], direct_neighbors[r], {})
           t     == [dv |-> dv_map[r], ft |-> forwarding_table[r]]
           once  == Heard(t, r, src, nbrs, packet.costs)
           twice == Heard(once, r, src, nbrs, packet.again)
<1>2. /\ direct_neighbors' = [direct_neighbors EXCEPT ![r] = nbrs]
      /\ dv_map' = [dv_map EXCEPT ![r] = twice.dv]
      /\ forwarding_table' = [forwarding_table EXCEPT ![r] = twice.ft]
      /\ UNCHANGED connected
  BY <1>1
<1>3. /\ Agree(dv_map[r], forwarding_table[r])
      /\ HopsIn(dv_map[r], direct_neighbors[r])
      /\ PortsRight(r, direct_neighbors[r])
      /\ OnePort(r, connected[r], direct_neighbors[r])
  BY DEF IInv, Good
<1>4. /\ DOMAIN nbrs = DOMAIN direct_neighbors[r] \cup {src}
      /\ \A n \in DOMAIN nbrs :
           nbrs[n].port = IF n \in DOMAIN direct_neighbors[r] THEN direct_neighbors[r][n].port ELSE l
  BY DEF Merged, Neighbor
<1>5. Agree(t.dv, t.ft) /\ HopsIn(t.dv, nbrs)
  BY <1>3, <1>4 DEF HopsIn
<1> HIDE DEF nbrs, t, packet
<1>6. Agree(once.dv, once.ft) /\ HopsIn(once.dv, nbrs)
  BY <1>4, <1>5, HeardGood
<1> HIDE DEF once
<1>7. Agree(twice.dv, twice.ft) /\ HopsIn(twice.dv, nbrs)
  BY <1>4, <1>6, HeardGood
<1> HIDE DEF twice
<1>8. PortsRight(r, nbrs)
  BY <1>3, <1>4 DEF PortsRight
<1>9. OnePort(r, connected[r], nbrs)
  BY <1>3, <1>4 DEF OnePort
<1>10. /\ Shape'
       /\ dv_map'[r] = twice.dv
       /\ forwarding_table'[r] = twice.ft
       /\ direct_neighbors'[r] = nbrs
       /\ connected'[r] = connected[r]
       /\ \A x \in Routers \ {r} :
            /\ dv_map'[x] = dv_map[x]
            /\ forwarding_table'[x] = forwarding_table[x]
            /\ direct_neighbors'[x] = direct_neighbors[x]
            /\ connected'[x] = connected[x]
  BY <1>2 DEF IInv, Shape
<1>11. Good(r, dv_map'[r], forwarding_table'[r], direct_neighbors'[r], connected'[r])
  BY <1>7, <1>8, <1>9, <1>10 DEF Good
<1> QED BY <1>10, <1>11, OneRouter

-----------------------------------------------------------------------------
(* handle_alarm *)

\* A refresh closes ports, forgets the neighbours behind them and replaces or
\* erases the routes that led over them, and some that are old.
LEMMA RefreshDVInv ==
  ASSUME IInv, NEW r \in Routers, RefreshDV(r)
  PROVE  IInv'
<1>1. PICK dead \in SUBSET (connected[r] \cap silent[r]) :
        LET lost == {Far(r, l) : l \in dead}
            nbrs == Merged(direct_neighbors[r], NoEntry, lost)
            over == Over(r, lost)
        IN \E old \in SUBSET (Stale(r, connected[r]) \ over) :
             LET hit      == over \cup old
                 toDirect == hit \cap DOMAIN nbrs
                 gone     == hit \ DOMAIN nbrs
             IN /\ connected' = [connected EXCEPT ![r] = @ \ dead]
                /\ direct_neighbors' = [direct_neighbors EXCEPT ![r] = nbrs]
                /\ WriteTables(r, [d \in toDirect |-> Cell(d, nbrs[d].cost)], [d \in toDirect |-> d], gone)
  BY DEF RefreshDV
<1> DEFINE lost == {Far(r, l) : l \in dead}
           nbrs == Merged(direct_neighbors[r], NoEntry, lost)
<1>2. PICK old :
        LET hit      == Over(r, lost) \cup old
            toDirect == hit \cap DOMAIN nbrs
            gone     == hit \ DOMAIN nbrs
        IN /\ connected' = [connected EXCEPT ![r] = @ \ dead]
           /\ direct_neighbors' = [direct_neighbors EXCEPT ![r] = nbrs]
           /\ WriteTables(r, [d \in toDirect |-> Cell(d, nbrs[d].cost)], [d \in toDirect |-> d], gone)
  BY <1>1
<1> DEFINE hit      == Over(r, lost) \cup old
           toDirect == hit \cap DOMAIN nbrs
           gone     == hit \ DOMAIN nbrs
           cells    == [d \in toDirect |-> Cell(d, nbrs[d].cost)]
           hops     == [d \in toDirect |-> d]
<1>3. /\ connected' = [connected EXCEPT ![r] = connected[r] \ dead]
      /\ direct_neighbors' = [direct_neighbors EXCEPT ![r] = nbrs]
      /\ dv_map' = [dv_map EXCEPT ![r] = Merged(dv_map[r], cells, gone)]
      /\ forwarding_table' = [forwarding_table EXCEPT ![r] = Merged(forwarding_table[r], hops, gone)]
  BY <1>2 DEF WriteTables
<1>4. /\ Agree(dv_map[r], forwarding_table[r])
      /\ HopsIn(dv_map[r], direct_neighbors[r])
      /\ PortsRight(r, direct_neighbors[r])
      /\ OnePort(r, connected[r], direct_neighbors[r])
  BY DEF IInv, Good
<1>5. /\ DOMAIN nbrs = DOMAIN direct_neighbors[r] \ lost
      /\ \A n \in DOMAIN nbrs : nbrs[n] = direct_neighbors[r][n]
  BY DEF Merged, NoEntry
<1>6. /\ dead \subseteq connected[r]
      /\ \A l \in dead : Far(r, l) \in lost
      /\ \A n \in lost : \E l \in dead : n = Far(r, l)
  OBVIOUS
<1>7. \A d \in DOMAIN dv_map[r] \ hit : dv_map[r][d].next_hop \in DOMAIN nbrs
  BY <1>4, <1>5 DEF Over, HopsIn
<1> HIDE DEF lost, nbrs
<1>8. /\ toDirect = DOMAIN cells
      /\ DOMAIN hops = DOMAIN cells
      /\ \A d \in DOMAIN cells : cells[d].next_hop = d /\ hops[d] = d /\ d \in DOMAIN nbrs
  BY DEF Cell
<1>9. \A d \in (DOMAIN dv_map[r] \ DOMAIN cells) \ gone : dv_map[r][d].next_hop \in DOMAIN nbrs
  BY <1>7
<1> HIDE DEF cells, hops, gone, hit, toDirect
<1>10. Agree(Merged(dv_map[r], cells, gone), Merged(forwarding_table[r], hops, gone))
  BY <1>4, <1>8, MergedAgree
<1>11. HopsIn(Merged(dv_map[r], cells, gone), nbrs)
  BY <1>8, <1>9, MergedHopsIn
<1>12. PortsRight(r, nbrs)
  BY <1>4, <1>5 DEF PortsRight
<1>13. OnePort(r, connected[r] \ dead, nbrs)
  <2> SUFFICES ASSUME NEW l \in connected[r] \ dead
               PROVE  Far(r, l) \notin lost
    BY <1>4, <1>5 DEF OnePort
  <2> QED BY <1>4, <1>6 DEF OnePort
<1>14. /\ Shape'
       /\ dv_map'[r] = Merged(dv_map[r], cells, gone)
       /\ forwarding_table'[r] = Merged(forwarding_table[r], hops, gone)
       /\ direct_neighbors'[r] = nbrs
       /\ connected'[r] = connected[r] \ dead
       /\ \A x \in Routers \ {r} :
            /\ dv_map'[x] = dv_map[x]
            /\ forwarding_table'[x] = forwarding_table[x]
            /\ direct_neighbors'[x] = direct_neighbors[x]
            /\ connected'[x] = connected[x]
  BY <1>3 DEF IInv, Shape
<1>15. Good(r, dv_map'[r], forwarding_table'[r], direct_neighbors'[r], connected'[r])
  BY <1>10, <1>11, <1>12, <1>13, <1>14 DEF Good
<1> QED BY <1>14, <1>15, OneRouter

-----------------------------------------------------------------------------
(* The theorems. *)

\* Every map starts empty.
LEMMA InitInv == Init => IInv
BY DEF Init, RouterInit, NoEntry, IInv, Shape, Good, Agree, HopsIn, PortsRight, OnePort

\* Every step of the network keeps the tables of all routers in order.
LEMMA StepInv == IInv /\ [Next]_vars => IInv'
<1> SUFFICES ASSUME IInv, [Next]_vars
             PROVE  IInv'
  OBVIOUS
<1>1. CASE UNCHANGED tableVars
  BY <1>1, TablesUnchanged
<1>2. ASSUME NEW r \in Routers, HandleAlarm(r)
      PROVE  IInv'
  <2>1. CASE PingAlarm(r) \/ UpdateAlarm(r)
    BY <2>1, <1>1 DEF PingAlarm, UpdateAlarm
  <2>2. CASE RefreshDV(r)
    BY <2>2, RefreshDVInv
  <2> QED BY <1>2, <2>1, <2>2 DEF HandleAlarm
<1>3. ASSUME NEW r \in Routers, NEW l \in PortsOf(r), Recv(r, l)
      PROVE  IInv'
  <2>1. CASE RecvPing(r, l) \/ RecvData(r, l)
    BY <2>1, <1>1 DEF RecvPing, RecvData
  <2>2. CASE RecvPong(r, l)
    BY <2>2, RecvPongInv
  <2>3. CASE RecvDV(r, l)
    BY <2>3, RecvDVInv
  <2> QED BY <1>3, <2>1, <2>2, <2>3 DEF Recv
<1>4. ASSUME NEW r \in Routers, NEW dest \in Routers, SendData(r, dest)
      PROVE  IInv'
  BY <1>4, <1>1 DEF SendData
<1>5. CASE UNCHANGED vars
  BY <1>5, <1>1 DEF vars
<1> QED BY <1>1, <1>2, <1>3, <1>4, <1>5 DEF Next

\* The maps of every router are in order in every reachable state.
THEOREM Invariance == Spec => []IInv
BY InitInv, StepInv, PTL DEF Spec

\* The forwarding table that recvDATA uses is the table that the distance
\* vectors are computed from, however PONGs, vectors, refreshes and faults
\* follow one another.
THEOREM TablesAlwaysAgree == Spec => []TablesAgree
<1>1. IInv => TablesAgree
  BY DEF IInv, Good, Agree, TablesAgree
<1> QED BY <1>1, Invariance, PTL

\* recvDATA and sendDVUpdate never meet a next hop that is not a direct
\* neighbour, and the port noted for a neighbour leads there.
THEOREM NextHopsAreNeighbours == Spec => []NextHopKnown
<1>1. IInv => NextHopKnown
  BY DEF IInv, Good, HopsIn, PortsRight, NextHopKnown
<1> QED BY <1>1, Invariance, PTL

\* At most one port to each neighbour is connected, so a refresh never erases
\* an entry twice.
THEOREM OnePortPerNeighbour == Spec => []OnePortEach
<1>1. IInv => OnePortEach
  BY DEF IInv, Good, OnePort, OnePortEach
<1> QED BY <1>1, Invariance, PTL
=============================================================================
