-------------------------- MODULE DvPacketsProofs --------------------------
(***************************************************************************)
(* What the routers hold and send has the types of the code, and nobody is *)
(* told of a route to the router that tells it, for every network, every   *)
(* number of faults and all costs.                                         *)
(*                                                                         *)
(* A router never lists itself because recvDV skips its own id where it    *)
(* learns of a destination, and because a PONG never comes from itself.    *)
(* What it sends is made of what it lists, so the invariant speaks of the  *)
(* tables and of every queue: what is under way towards one end of a link  *)
(* was sent by the other, and does not name it.                            *)
(*                                                                         *)
(* No route changes in silence either: the packet that a handler sends on  *)
(* the connected ports has the new cost of every route that the handler    *)
(* changed as its last word.                                               *)
(***************************************************************************)
EXTENDS DvNetworkProofs

\* The packets that r may send.
Sendable(r) == {p \in AnyPacket : p.type = "DV" => r \notin DOMAIN p.costs}

\* Every queue holds what the other end of the link may send.
WireRight(w) ==
  /\ w \in [Links -> [Routers -> Seq(AnyPacket)]]
  /\ \A l \in Links : \A x \in Ends[l] : w[l][x] \in Seq(Sendable(Far(x, l)))

\* A table of r, and the neighbours of a router.
TableRight(r, dv) ==
  /\ DOMAIN dv \subseteq Routers \ {r}
  /\ \A d \in DOMAIN dv : dv[d].next_hop \in Routers /\ dv[d].cost \in Nat

NeighboursRight(nbrs) ==
  /\ DOMAIN nbrs \subseteq Routers
  /\ \A n \in DOMAIN nbrs : nbrs[n].port \in Links /\ nbrs[n].cost \in Nat

PortsInv ==
  /\ alive \in [Links -> BOOLEAN]
  /\ rtt \in [Links -> Nat]
  /\ rtts \in [Links -> SUBSET Nat]
  /\ silent \in [Routers -> SUBSET Links]
  /\ faults \in 0 .. FAULTS
  /\ connected \in [Routers -> SUBSET Links]
  /\ port_cost \in [Routers -> [Links -> Nat]]

MapsRight(r, dv, ft, nbrs) ==
  TableRight(r, dv) /\ NeighboursRight(nbrs) /\ ft \in Maps(Routers)

PacketInv ==
  /\ PortsInv
  /\ WireRight(wire)
  /\ \A r \in Routers : MapsRight(r, dv_map[r], forwarding_table[r], direct_neighbors[r])

-----------------------------------------------------------------------------
(* Links and queues. *)

\* The two ends of a link.
LEMMA FarEnd ==
  ASSUME NEW r \in Routers, NEW l \in PortsOf(r)
  PROVE  /\ l \in Links /\ r \in Ends[l]
         /\ Far(r, l) \in Routers /\ Far(r, l) # r /\ Far(r, l) \in Ends[l]
         /\ Ends[l] = {r, Far(r, l)}
<1>1. l \in Links /\ r \in Ends[l] /\ Ends[l] \subseteq Routers
  BY LinkAssumption DEF PortsOf
<1>2. \E a, b \in Routers : a # b /\ Ends[l] = {a, b}
  BY <1>1, LinkAssumption
<1>3. Far(r, l) \in Ends[l] /\ Far(r, l) # r
  BY <1>1, <1>2 DEF Far
<1> QED BY <1>1, <1>2, <1>3

\* Seen from the other end, the far end is the near one.
LEMMA FarFar ==
  ASSUME NEW r \in Routers, NEW l \in PortsOf(r)
  PROVE  /\ l \in PortsOf(Far(r, l)) /\ Far(Far(r, l), l) = r
<1>1. l \in PortsOf(Far(r, l))
  BY FarEnd DEF PortsOf
<1>2. Far(r, l) \in Routers
  BY FarEnd
<1>3. Far(Far(r, l), l) \in Ends[l] /\ Far(Far(r, l), l) # Far(r, l)
  BY <1>1, <1>2, FarEnd
<1> QED BY <1>1, <1>3, FarEnd

\* Posting what r may send on ports of r keeps the queues right.
LEMMA PostedRight ==
  ASSUME NEW w, WireRight(w), NEW r \in Routers, NEW ports \in SUBSET PortsOf(r),
         NEW p \in Sendable(r)
  PROVE  WireRight(Posted(w, r, ports, p))
<1> DEFINE q == Posted(w, r, ports, p)
<1>0. q = [l \in Links |-> [x \in Routers |->
             IF l \in ports /\ alive[l] /\ x = Far(r, l) THEN Append(w[l][x], p) ELSE w[l][x]]]
  BY DEF Posted
<1> HIDE DEF q
<1>1. \A l \in Links : \A x \in Routers :
        \/ q[l][x] = w[l][x]
        \/ l \in ports /\ x = Far(r, l) /\ q[l][x] = Append(w[l][x], p)
  BY <1>0
<1>2. p \in AnyPacket
  BY DEF Sendable
<1>3. ASSUME NEW l \in Links, NEW x \in Routers
      PROVE  q[l][x] \in Seq(AnyPacket)
  <2>1. w[l][x] \in Seq(AnyPacket)
    BY DEF WireRight
  <2>2. Append(w[l][x], p) \in Seq(AnyPacket)
    BY <1>2, <2>1
  <2> QED BY <1>1, <2>1, <2>2
<1>4. ASSUME NEW l \in Links, NEW x \in Ends[l]
      PROVE  q[l][x] \in Seq(Sendable(Far(x, l)))
  <2>1. x \in Routers
    BY LinkAssumption
  <2>2. w[l][x] \in Seq(Sendable(Far(x, l)))
    BY DEF WireRight
  <2>3. CASE q[l][x] = w[l][x]
    BY <2>2, <2>3
  <2>4. CASE l \in ports /\ x = Far(r, l) /\ q[l][x] = Append(w[l][x], p)
    <3>1. Far(x, l) = r
      BY <2>4, FarFar
    <3> QED BY <2>2, <2>4, <3>1
  <2> QED BY <1>1, <2>1, <2>3, <2>4
<1>5. q \in [Links -> [Routers -> Seq(AnyPacket)]]
  BY <1>0, <1>3
<1> QED BY <1>4, <1>5 DEF WireRight, q

\* A queue changed in one place, to a sequence of the packets it may hold.
LEMMA ChangedRight ==
  ASSUME NEW w, WireRight(w), NEW r \in Routers, NEW l \in PortsOf(r),
         NEW s, s \in Seq(AnyPacket), s \in Seq(Sendable(Far(r, l)))
  PROVE  WireRight([w EXCEPT ![l][r] = s])
<1> DEFINE q == [w EXCEPT ![l][r] = s]
<1>1. l \in Links
  BY DEF PortsOf
<1>2. /\ q \in [Links -> [Routers -> Seq(AnyPacket)]]
      /\ \A k \in Links : \A x \in Routers : q[k][x] = IF k = l /\ x = r THEN s ELSE w[k][x]
  BY <1>1 DEF WireRight
<1> HIDE DEF q
<1>3. ASSUME NEW k \in Links, NEW x \in Ends[k]
      PROVE  q[k][x] \in Seq(Sendable(Far(x, k)))
  <2>1. x \in Routers
    BY LinkAssumption
  <2> QED BY <1>2, <2>1 DEF WireRight
<1> QED BY <1>2, <1>3 DEF WireRight, q

\* What arrives is a packet that the other end may send; the rest stays.
LEMMA TakenRight ==
  ASSUME NEW w, WireRight(w), NEW r \in Routers, NEW l \in PortsOf(r), w[l][r] # <<>>
  PROVE  WireRight(Taken(w, r, l)) /\ Head(w[l][r]) \in Sendable(Far(r, l))
<1>1. l \in Links /\ r \in Ends[l]
  BY DEF PortsOf
<1>2. w[l][r] \in Seq(AnyPacket) /\ w[l][r] \in Seq(Sendable(Far(r, l)))
  BY <1>1 DEF WireRight
<1>3. Tail(w[l][r]) \in Seq(AnyPacket) /\ Tail(w[l][r]) \in Seq(Sendable(Far(r, l)))
  BY <1>2
<1>4. Head(w[l][r]) \in Sendable(Far(r, l))
  BY <1>2
<1>5. Taken(w, r, l) = [w EXCEPT ![l][r] = Tail(w[l][r])]
  BY <1>1 DEF Taken, WireRight
<1>6. WireRight([w EXCEPT ![l][r] = Tail(w[l][r])])
  BY <1>3, ChangedRight
<1> QED BY <1>4, <1>5, <1>6

\* The packets without a vector may be sent by anyone.
LEMMA PlainSendable ==
  ASSUME NEW r
  PROVE  /\ Ping \in Sendable(r) /\ Pong \in Sendable(r)
         /\ \A d \in Routers : Data(d) \in Sendable(r)
BY DEF Sendable, AnyPacket, Ping, Pong, Data

\* So may be a vector that does not name its sender.
LEMMA VectorSendable ==
  ASSUME NEW r, NEW costs \in Vectors, NEW again \in Vectors, r \notin DOMAIN costs
  PROVE  DV(costs, again) \in Sendable(r)
BY DEF Sendable, AnyPacket, DV

\* What a packet that may be sent is, by its type.
LEMMA PacketShape ==
  ASSUME NEW r, NEW p \in Sendable(r)
  PROVE  /\ p.type = "DV" => p.costs \in Vectors /\ p.again \in Vectors
         /\ p.type = "DATA" => p.dest \in Routers
BY DEF Sendable, AnyPacket, Ping, Pong, Data

-----------------------------------------------------------------------------
(* Tables and vectors. *)

\* A function from routers to costs of 16 bits is a vector, and only such.
LEMMA VectorOf ==
  ASSUME NEW D \in SUBSET Routers, NEW f \in [D -> 0 .. COST_MOD - 1]
  PROVE  f \in Vectors /\ DOMAIN f = D
BY DEF Vectors

LEMMA VectorValues ==
  ASSUME NEW f \in Vectors
  PROVE  /\ DOMAIN f \subseteq Routers
         /\ \A d \in DOMAIN f : f[d] \in 0 .. COST_MOD - 1 /\ f[d] \in Nat
<1>1. PICK D \in SUBSET Routers : f \in [D -> 0 .. COST_MOD - 1]
  BY DEF Vectors
<1> QED BY <1>1, LinkAssumption

LEMMA NothingSaid == NoEntry \in Vectors /\ DOMAIN NoEntry = {}
<1>1. NoEntry \in [{} -> 0 .. COST_MOD - 1] /\ DOMAIN NoEntry = {}
  BY DEF NoEntry
<1> QED BY <1>1, VectorOf

LEMMA CostRange ==
  /\ \A cost \in Int : Bits16(cost) \in 0 .. COST_MOD - 1
  /\ INFINITY_COST \in 0 .. COST_MOD - 1
BY LinkAssumption DEF Bits16, INFINITY_COST

LEMMA MergedVectors ==
  ASSUME NEW f \in Vectors, NEW g \in Vectors
  PROVE  Merged(f, g, {}) \in Vectors
<1>1. Merged(f, g, {}) \in [DOMAIN f \cup DOMAIN g -> 0 .. COST_MOD - 1]
  BY VectorValues DEF Merged
<1>2. DOMAIN f \cup DOMAIN g \in SUBSET Routers
  BY VectorValues
<1> QED BY <1>1, <1>2, VectorOf

\* Forwarding tables.
LEMMA MapOf ==
  ASSUME NEW D \in SUBSET Routers, NEW f \in [D -> Routers]
  PROVE  f \in Maps(Routers)
BY DEF Maps

LEMMA MergedMaps ==
  ASSUME NEW f \in Maps(Routers), NEW g \in Maps(Routers), NEW gone
  PROVE  Merged(f, g, gone) \in Maps(Routers)
<1>1. PICK D \in SUBSET Routers : f \in [D -> Routers]
  BY DEF Maps
<1>2. PICK E \in SUBSET Routers : g \in [E -> Routers]
  BY DEF Maps
<1>3. Merged(f, g, gone) \in [(D \cup E) \ gone -> Routers]
  BY <1>1, <1>2 DEF Merged
<1>4. (D \cup E) \ gone \in SUBSET Routers
  OBVIOUS
<1> QED BY <1>3, <1>4, MapOf

\* A table stays right if what is written is right.
LEMMA MergedTable ==
  ASSUME NEW r, NEW dv, NEW cells, NEW gone, TableRight(r, dv), TableRight(r, cells)
  PROVE  TableRight(r, Merged(dv, cells, gone))
BY DEF TableRight, Merged

LEMMA MergedNeighbours ==
  ASSUME NEW nbrs, NEW more, NEW gone, NeighboursRight(nbrs), NeighboursRight(more)
  PROVE  NeighboursRight(Merged(nbrs, more, gone))
BY DEF NeighboursRight, Merged

\* What a handler says of destinations that it lists, or has erased.
LEMMA ToldRight ==
  ASSUME NEW r \in Routers, NEW said \in SUBSET (Routers \ {r}), NEW gone,
         TableRight(r, dv_map'[r]), said \ gone \subseteq DOMAIN dv_map'[r]
  PROVE  /\ Told(r, said, gone) \in Vectors
         /\ DOMAIN Told(r, said, gone) = said
<1>1. \A d \in said \ gone : Bits16(dv_map'[r][d].cost) \in 0 .. COST_MOD - 1
  BY CostRange DEF TableRight
<1>2. Told(r, said, gone) \in [said -> 0 .. COST_MOD - 1]
  BY <1>1, CostRange DEF Told
<1> QED BY <1>2, VectorOf

\* One pass over a vector: the tables of r stay right, r is not among what they
\* list, and what r will tell of is a vector of destinations that they listed.
LEMMA HeardRight ==
  ASSUME NEW r \in Routers, NEW src \in Routers, src # r,
         NEW t, NEW nbrs, NEW costs \in Vectors,
         TableRight(r, t.dv), t.ft \in Maps(Routers),
         NeighboursRight(nbrs), src \in DOMAIN nbrs
  PROVE  LET h == Heard(t, r, src, nbrs, costs)
         IN /\ TableRight(r, h.dv)
            /\ h.ft \in Maps(Routers)
            /\ h.told \in Vectors /\ r \notin DOMAIN h.told
            /\ h.kept \subseteq DOMAIN h.told
<1> DEFINE infinite == DOMAIN t.dv \cap (DOMAIN costs \ Finite(costs))
           toDirect == ToDirect(t, src, nbrs, costs)
           toSource == ToSource(t, r, src, nbrs, costs)
           gone     == Withdrawn(t, src, costs) \ DOMAIN nbrs
           cells    == [d \in toDirect \cup toSource |->
                          IF d \in toDirect THEN Cell(d, nbrs[d].cost)
                          ELSE Cell(src, Through(costs[d], nbrs[src].cost))]
           hops     == [d \in DOMAIN cells |-> IF d \in toDirect THEN d ELSE src]
           dv       == Merged(t.dv, cells, gone)
           told     == [d \in DOMAIN cells \cup infinite |->
                          IF d \in gone THEN INFINITY_COST ELSE Bits16(dv[d].cost)]
           h        == Heard(t, r, src, nbrs, costs)
<1>1. /\ h.dv = dv /\ h.ft = Merged(t.ft, hops, gone)
      /\ h.told = told /\ h.kept = infinite \ Withdrawn(t, src, costs)
  BY DEF Heard
<1>2. /\ toDirect \subseteq DOMAIN t.dv /\ toDirect \subseteq DOMAIN nbrs
      /\ toSource \subseteq (DOMAIN t.dv \cup DOMAIN costs) \ {r}
      /\ toSource \subseteq DOMAIN costs
      /\ gone \subseteq infinite /\ infinite \subseteq DOMAIN t.dv
  BY DEF ToDirect, ToSource, Same, Better, Withdrawn, Finite, Discovered, TableRight
<1> HIDE DEF infinite, toDirect, toSource, gone
<1>3. toDirect \subseteq Routers \ {r} /\ toSource \subseteq Routers \ {r}
  BY <1>2, VectorValues DEF TableRight
<1>4. TableRight(r, cells)
  <2>1. DOMAIN cells \subseteq Routers \ {r}
    BY <1>3
  <2>2. ASSUME NEW d \in toDirect
        PROVE  cells[d].next_hop \in Routers /\ cells[d].cost \in Nat
    BY <2>2, <1>2, <1>3 DEF Cell, NeighboursRight
  <2>3. ASSUME NEW d \in toSource, d \notin toDirect
        PROVE  cells[d].next_hop \in Routers /\ cells[d].cost \in Nat
    <3>1. costs[d] \in Nat /\ nbrs[src].cost \in Nat
      BY <1>2, VectorValues DEF NeighboursRight
    <3> QED BY <2>3, <3>1 DEF Cell, Through
  <2> QED BY <2>1, <2>2, <2>3 DEF TableRight
<1>5. hops \in Maps(Routers) /\ DOMAIN cells \subseteq Routers \ {r}
  <2>1. DOMAIN cells \subseteq Routers \ {r}
    BY <1>3
  <2>2. hops \in [DOMAIN cells -> Routers]
    BY <1>3
  <2> QED BY <2>1, <2>2, MapOf
<1>6. DOMAIN cells = toDirect \cup toSource
  OBVIOUS
<1> HIDE DEF cells, hops
<1>7. TableRight(r, dv)
  BY <1>4, MergedTable
<1>8. DOMAIN dv = (DOMAIN t.dv \cup DOMAIN cells) \ gone
  BY DEF Merged
<1> HIDE DEF dv
<1>9. told \in Vectors /\ DOMAIN told = DOMAIN cells \cup infinite
  <2>1. \A d \in (DOMAIN cells \cup infinite) \ gone : Bits16(dv[d].cost) \in 0 .. COST_MOD - 1
    BY <1>2, <1>7, <1>8, CostRange DEF TableRight
  <2>2. told \in [DOMAIN cells \cup infinite -> 0 .. COST_MOD - 1]
    BY <2>1, CostRange
  <2>3. DOMAIN cells \cup infinite \in SUBSET Routers
    BY <1>2, <1>5 DEF TableRight
  <2> QED BY <2>2, <2>3, VectorOf
<1> HIDE DEF told
<1>10. r \notin DOMAIN told /\ infinite \subseteq DOMAIN told
  BY <1>2, <1>5, <1>9 DEF TableRight
<1>11. Merged(t.ft, hops, gone) \in Maps(Routers)
  BY <1>5, MergedMaps
<1> HIDE DEF h
<1>12. h.kept \subseteq DOMAIN h.told
  BY <1>1, <1>10
<1> QED BY <1>1, <1>7, <1>9, <1>10, <1>11, <1>12 DEF h

-----------------------------------------------------------------------------
(* A step of one router. *)

\* What a handler of r may assume of its maps and ports.
LEMMA OwnMaps ==
  ASSUME PacketInv, IInv, NEW r \in Routers
  PROVE  /\ TableRight(r, dv_map[r])
         /\ NeighboursRight(direct_neighbors[r])
         /\ forwarding_table[r] \in Maps(Routers)
         /\ connected[r] \in SUBSET PortsOf(r)
BY DEF PacketInv, MapsRight, IInv, Good, OnePort

LEMMA OneRouterRight ==
  ASSUME PacketInv, NEW r \in Routers, PortsInv', WireRight(wire'),
         \A x \in Routers \ {r} :
           /\ dv_map'[x] = dv_map[x]
           /\ forwarding_table'[x] = forwarding_table[x]
           /\ direct_neighbors'[x] = direct_neighbors[x],
         MapsRight(r, dv_map'[r], forwarding_table'[r], direct_neighbors'[r])
  PROVE  PacketInv'
<1>1. ASSUME NEW x \in Routers
      PROVE  MapsRight(x, dv_map'[x], forwarding_table'[x], direct_neighbors'[x])
  <2>1. CASE x = r
    BY <2>1
  <2>2. CASE x # r
    BY <2>2 DEF PacketInv
  <2> QED BY <2>1, <2>2
<1> QED BY <1>1 DEF PacketInv

\* A step that leaves the tables alone.
LEMMA TablesAlone ==
  ASSUME PacketInv, UNCHANGED tableVars, WireRight(wire'),
         alive' \in [Links -> BOOLEAN], rtt' \in [Links -> Nat], rtts' \in [Links -> SUBSET Nat],
         silent' \in [Routers -> SUBSET Links], faults' \in 0 .. FAULTS
  PROVE  PacketInv'
BY DEF PacketInv, PortsInv, MapsRight, tableVars

\* A distance vector that does not name its sender may be sent.
LEMMA SendRight ==
  ASSUME NEW w, WireRight(w), NEW r \in Routers, connected'[r] \in SUBSET PortsOf(r),
         NEW costs \in Vectors, NEW again \in Vectors, r \notin DOMAIN costs,
         SendDVUpdate(w, r, costs, again)
  PROVE  WireRight(wire')
<1>1. CASE DOMAIN costs = {}
  BY <1>1 DEF SendDVUpdate
<1>2. CASE DOMAIN costs # {}
  <2>1. wire' = Posted(w, r, connected'[r], DV(costs, again))
    BY <1>2 DEF SendDVUpdate
  <2>2. WireRight(Posted(w, r, connected'[r], DV(costs, again)))
    BY VectorSendable, PostedRight
  <2> QED BY <2>1, <2>2
<1> QED BY <1>1, <1>2

\* Nor does a DATA packet, wherever recvDATA sends it.
LEMMA ForwardedRight ==
  ASSUME PacketInv, IInv, NEW w, WireRight(w), NEW r \in Routers, NEW dest \in Routers
  PROVE  WireRight(Forwarded(w, r, dest))
<1> DEFINE hop == forwarding_table[r][dest]
<1>1. CASE dest = r \/ dest \notin DOMAIN forwarding_table[r]
  BY <1>1 DEF Forwarded
<1>2. CASE dest # r /\ dest \in DOMAIN forwarding_table[r]
  <2>1. hop \in DOMAIN direct_neighbors[r]
    BY <1>2 DEF IInv, Good, Agree, HopsIn
  <2>2. direct_neighbors[r][hop].port \in PortsOf(r)
    BY <2>1 DEF IInv, Good, PortsRight
  <2>3. Data(dest) \in Sendable(r)
    BY PlainSendable
  <2>4. WireRight(Posted(w, r, {direct_neighbors[r][hop].port}, Data(dest)))
    BY <2>2, <2>3, PostedRight
  <2> QED BY <1>2, <2>4 DEF Forwarded
<1> QED BY <1>1, <1>2

-----------------------------------------------------------------------------
(* recv *)

\* A PING, which is answered.
LEMMA RecvPingRight ==
  ASSUME PacketInv, NEW r \in Routers, NEW l \in PortsOf(r), RecvPing(r, l)
  PROVE  PacketInv'
<1>1. WireRight(Taken(wire, r, l))
  BY TakenRight DEF RecvPing, Arrives, PacketInv
<1>2. WireRight(Posted(Taken(wire, r, l), r, {l}, Pong))
  BY <1>1, PlainSendable, PostedRight
<1>3. Far(r, l) \in Routers /\ l \in Links
  BY FarEnd
<1>4. silent' \in [Routers -> SUBSET Links]
  BY <1>3 DEF RecvPing, PacketInv, PortsInv
<1> QED BY <1>2, <1>4, TablesAlone DEF RecvPing, PacketInv, PortsInv

\* What a PONG measures is a number.
LEMMA RoundTripsAreNumbers ==
  ASSUME PacketInv, NEW l \in Links, NEW rrt \in RoundTrips(l)
  PROVE  rrt \in Nat
<1>1. rtts[l] \in SUBSET Nat
  BY DEF PacketInv, PortsInv
<1>2. PICK s \in rtts[l], t \in rtts[l] : rrt = (s + t) \div 2
  BY DEF RoundTrips
<1>3. s \in Nat /\ t \in Nat
  BY <1>1
<1> QED BY <1>2, <1>3

\* A PONG, which measures the link.
LEMMA RecvPongRight ==
  ASSUME PacketInv, IInv, IInv', NEW r \in Routers, NEW l \in PortsOf(r), RecvPong(r, l)
  PROVE  PacketInv'
<1>0. PICK rrt \in RoundTrips(l) : PongMeasures(r, l, rrt)
  BY DEF RecvPong
<1> DEFINE src      == Far(r, l)
           dv       == dv_map[r]
           entry    == [n \in {src} |-> Neighbor(l, rrt)]
           nbrs     == Merged(direct_neighbors[r], entry, {})
           diff     == rrt - port_cost[r][l]
           may(d)   == (dv[d].cost + diff) % COST_MOD
           mine     == {d \in DOMAIN dv : diff # 0 /\ dv[d].next_hop = src}
           toDirect == {d \in mine : d \in DOMAIN nbrs /\ nbrs[d].cost <= may(d)}
           moved    == mine \ DOMAIN nbrs
           better   == {d \in DOMAIN dv : diff # 0 /\ d = src /\ dv[d].next_hop # src /\ rrt <= dv[d].cost}
           new      == {src} \ DOMAIN dv
           again    == diff # 0 /\ l \notin connected[r]
           said     == IF new # {} \/ again THEN DOMAIN dv \cup new ELSE mine \cup better
           twice    == IF new # {} THEN mine \cup better ELSE {}
           cells    == [d \in toDirect \cup moved \cup better \cup new |->
                          CASE d \in toDirect -> Cell(d, nbrs[d].cost)
                            [] d \in moved    -> Cell(src, may(d))
                            [] OTHER          -> Cell(src, rrt)]
           hops     == [d \in toDirect \cup better \cup new |-> IF d \in toDirect THEN d ELSE src]
<1>1. /\ dv_map' = [dv_map EXCEPT ![r] = Merged(dv, cells, {})]
      /\ forwarding_table' = [forwarding_table EXCEPT ![r] = Merged(forwarding_table[r], hops, {})]
      /\ direct_neighbors' = [direct_neighbors EXCEPT ![r] = nbrs]
      /\ connected' = [connected EXCEPT ![r] = ConnectedBy(r, l)]
      /\ port_cost' = [port_cost EXCEPT ![r][l] = rrt]
      /\ silent' = [silent EXCEPT ![r] = silent[r] \ {l}]
      /\ UNCHANGED <<alive, rtt, rtts, faults>>
      /\ SendDVUpdate(Taken(wire, r, l), r, Told(r, said, {}), Told(r, twice, {}))
      /\ wire[l][r] # <<>>
  BY <1>0 DEF PongMeasures, WriteTables, Arrives
<1>2. src \in Routers /\ src # r /\ l \in Links
  BY FarEnd
<1>3. TableRight(r, dv) /\ NeighboursRight(direct_neighbors[r]) /\ forwarding_table[r] \in Maps(Routers)
  BY OwnMaps
<1>4. rrt \in Nat /\ port_cost[r][l] \in Nat /\ diff \in Int
  <2>1. rrt \in Nat
    BY <1>0, <1>2, RoundTripsAreNumbers
  <2>2. port_cost[r][l] \in Nat
    BY <1>2 DEF PacketInv, PortsInv
  <2> HIDE DEF src
  <2> QED BY <2>1, <2>2
<1>5. NeighboursRight(nbrs)
  <2>1. NeighboursRight(entry)
    BY <1>2, <1>4 DEF NeighboursRight, Neighbor
  <2> QED BY <1>3, <2>1, MergedNeighbours
<1>6. /\ mine \subseteq DOMAIN dv /\ better \subseteq DOMAIN dv
      /\ toDirect \subseteq mine /\ toDirect \subseteq DOMAIN nbrs /\ moved \subseteq mine
      /\ toDirect \cap moved = {} /\ new \subseteq {src}
      /\ DOMAIN dv \subseteq Routers \ {r}
  BY <1>3 DEF TableRight
<1>7. ASSUME NEW d \in mine
      PROVE  may(d) \in Nat
  <2>1. dv[d].cost + diff \in Int
    BY <1>3, <1>4, <1>6 DEF TableRight
  <2> QED BY <2>1, LinkAssumption
<1> HIDE DEF nbrs, entry, diff, may, mine, toDirect, moved, better, new, again, src
<1>8. TableRight(r, cells)
  <2>1. ASSUME NEW d \in toDirect
        PROVE  cells[d].next_hop \in Routers /\ cells[d].cost \in Nat
    BY <2>1, <1>5, <1>6 DEF Cell, NeighboursRight
  <2>2. ASSUME NEW d \in moved
        PROVE  cells[d].next_hop \in Routers /\ cells[d].cost \in Nat
    <3>1. cells[d] = Cell(src, may(d))
      BY <2>2, <1>6
    <3> QED BY <3>1, <1>2, <1>6, <1>7 DEF Cell
  <2>3. ASSUME NEW d \in better \cup new, d \notin toDirect, d \notin moved
        PROVE  cells[d].next_hop \in Routers /\ cells[d].cost \in Nat
    BY <2>3, <1>2, <1>4 DEF Cell
  <2>4. DOMAIN cells = toDirect \cup moved \cup better \cup new
    OBVIOUS
  <2>5. DOMAIN cells \subseteq Routers \ {r}
    BY <1>2, <1>6, <2>4
  <2> QED BY <2>1, <2>2, <2>3, <2>4, <2>5 DEF TableRight
<1>9. Merged(forwarding_table[r], hops, {}) \in Maps(Routers)
  <2>1. hops \in [toDirect \cup better \cup new -> Routers]
    BY <1>2, <1>6
  <2>2. toDirect \cup better \cup new \in SUBSET Routers
    BY <1>2, <1>6
  <2>3. hops \in Maps(Routers)
    BY <2>1, <2>2, MapOf
  <2> QED BY <1>3, <2>3, MergedMaps
<1>10. DOMAIN Merged(dv, cells, {}) = DOMAIN dv \cup toDirect \cup moved \cup better \cup new
  BY DEF Merged
<1>11. said \subseteq DOMAIN Merged(dv, cells, {}) /\ twice \subseteq DOMAIN Merged(dv, cells, {})
  BY <1>6, <1>10
<1> HIDE DEF cells, hops, said, twice, dv
<1>12. TableRight(r, Merged(dv, cells, {}))
  BY <1>3, <1>8, MergedTable
<1>13. /\ dv_map'[r] = Merged(dv, cells, {})
       /\ forwarding_table'[r] = Merged(forwarding_table[r], hops, {})
       /\ direct_neighbors'[r] = nbrs
       /\ \A x \in Routers \ {r} :
            /\ dv_map'[x] = dv_map[x]
            /\ forwarding_table'[x] = forwarding_table[x]
            /\ direct_neighbors'[x] = direct_neighbors[x]
  BY <1>1 DEF IInv, Shape
<1>14. MapsRight(r, dv_map'[r], forwarding_table'[r], direct_neighbors'[r])
  BY <1>5, <1>9, <1>12, <1>13 DEF MapsRight
<1>15. PortsInv'
  <2>1. ConnectedBy(r, l) \subseteq Links
    BY <1>2 DEF ConnectedBy, PacketInv, PortsInv
  <2>2. connected' \in [Routers -> SUBSET Links] /\ silent' \in [Routers -> SUBSET Links]
    BY <1>1, <2>1 DEF PacketInv, PortsInv
  <2>3. port_cost' \in [Routers -> [Links -> Nat]]
    BY <1>1, <1>2, <1>4 DEF PacketInv, PortsInv
  <2> QED BY <1>1, <2>2, <2>3 DEF PacketInv, PortsInv
<1>16. WireRight(wire')
  <2>1. WireRight(Taken(wire, r, l))
    BY <1>1, TakenRight DEF PacketInv
  <2>2. said \in SUBSET (Routers \ {r}) /\ twice \in SUBSET (Routers \ {r})
    BY <1>11, <1>12 DEF TableRight
  <2>3. /\ Told(r, said, {}) \in Vectors /\ r \notin DOMAIN Told(r, said, {})
        /\ Told(r, twice, {}) \in Vectors
    BY <1>11, <1>12, <1>13, <2>2, ToldRight
  <2>4. connected'[r] \in SUBSET PortsOf(r)
    BY DEF IInv, Good, OnePort
  <2> QED BY <1>1, <2>1, <2>3, <2>4, SendRight
<1> QED BY <1>13, <1>14, <1>15, <1>16, OneRouterRight

\* A vector, read once and then for what it repeats.
LEMMA RecvDVRight ==
  ASSUME PacketInv, IInv, IInv', NEW r \in Routers, NEW l \in PortsOf(r), RecvDV(r, l)
  PROVE  PacketInv'
<1> DEFINE src    == Far(r, l)
           packet == Head(wire[l][r])
<1>1. PICK link_cost \in LinkCosts(r, src, packet.costs) :
        LET nbrs  == Merged([n \in {src} |-> Neighbor(l, link_cost)], direct_neighbors[r], {})
            t     == [dv |-> dv_map[r], ft |-> forwarding_table[r]]
            once  == Heard(t, r, src, nbrs, packet.costs)
            twice == Heard(once, r, src, nbrs, packet.again)
            both  == DOMAIN once.told \cap DOMAIN twice.told
        IN /\ direct_neighbors' = [direct_neighbors EXCEPT ![r] = nbrs]
           /\ dv_map' = [dv_map EXCEPT ![r] = twice.dv]
           /\ forwarding_table' = [forwarding_table EXCEPT ![r] = twice.ft]
           /\ UNCHANGED connected
           /\ SendDVUpdate(Taken(wire, r, l), r,
                Merged(twice.told, once.told, {}),
                [d \in both \cup once.kept |-> Merged(once.told, twice.told, {})[d]])
  BY DEF RecvDV
<1> DEFINE entry == [n \in {src} |-> Neighbor(l, link_cost)]
           nbrs  == Merged(entry, direct_neighbors[r], {})
           t     == [dv |-> dv_map[r], ft |-> forwarding_table[r]]
           once  == Heard(t, r, src, nbrs, packet.costs)
           twice == Heard(once, r, src, nbrs, packet.again)
           both  == DOMAIN once.told \cap DOMAIN twice.told
           first == Merged(twice.told, once.told, {})
           last  == Merged(once.told, twice.told, {})
           again == [d \in both \cup once.kept |-> last[d]]
<1>2. /\ direct_neighbors' = [direct_neighbors EXCEPT ![r] = nbrs]
      /\ dv_map' = [dv_map EXCEPT ![r] = twice.dv]
      /\ forwarding_table' = [forwarding_table EXCEPT ![r] = twice.ft]
      /\ SendDVUpdate(Taken(wire, r, l), r, first, again)
  BY <1>1
<1>3. /\ UNCHANGED <<alive, rtt, rtts, silent, faults, port_cost, connected>>
      /\ wire[l][r] # <<>> /\ packet.type = "DV"
  BY <1>1 DEF RecvDV, Arrives
<1>4. src \in Routers /\ src # r /\ l \in Links
  BY FarEnd
<1>5. TableRight(r, t.dv) /\ NeighboursRight(direct_neighbors[r]) /\ t.ft \in Maps(Routers)
  BY OwnMaps
<1>6. WireRight(Taken(wire, r, l)) /\ packet \in Sendable(src)
  BY <1>3, TakenRight DEF PacketInv
<1>7. packet.costs \in Vectors /\ packet.again \in Vectors
  BY <1>3, <1>6, PacketShape
<1>8. link_cost \in Nat
  BY <1>5, <1>7, VectorValues, GarbageAssumption DEF LinkCosts, NeighboursRight
<1>9. NeighboursRight(nbrs) /\ src \in DOMAIN nbrs
  <2>1. NeighboursRight(entry) /\ DOMAIN entry = {src}
    BY <1>4, <1>8 DEF NeighboursRight, Neighbor
  <2>2. NeighboursRight(nbrs)
    BY <1>5, <2>1, MergedNeighbours
  <2>3. src \in DOMAIN nbrs
    BY DEF Merged
  <2> QED BY <2>2, <2>3
<1> HIDE DEF src, packet, entry, nbrs, t
<1>10. /\ TableRight(r, once.dv) /\ once.ft \in Maps(Routers)
       /\ once.told \in Vectors /\ r \notin DOMAIN once.told
       /\ once.kept \subseteq DOMAIN once.told
  BY <1>4, <1>5, <1>7, <1>9, HeardRight
<1> HIDE DEF once
<1>11. /\ TableRight(r, twice.dv) /\ twice.ft \in Maps(Routers)
       /\ twice.told \in Vectors /\ r \notin DOMAIN twice.told
  BY <1>4, <1>7, <1>9, <1>10, HeardRight
<1> HIDE DEF twice
<1>12. first \in Vectors /\ last \in Vectors
  BY <1>10, <1>11, MergedVectors
<1>13. /\ DOMAIN first = DOMAIN twice.told \cup DOMAIN once.told
       /\ DOMAIN last = DOMAIN once.told \cup DOMAIN twice.told
  BY DEF Merged
<1> HIDE DEF first, last
<1>14. again \in Vectors
  <2>1. again \in [both \cup once.kept -> 0 .. COST_MOD - 1]
    BY <1>10, <1>12, <1>13, VectorValues
  <2>2. both \cup once.kept \in SUBSET Routers
    BY <1>10, VectorValues
  <2> QED BY <2>1, <2>2, VectorOf
<1> HIDE DEF again
<1>15. WireRight(wire')
  <2>1. connected'[r] \in SUBSET PortsOf(r)
    BY DEF IInv, Good, OnePort
  <2>2. r \notin DOMAIN first
    BY <1>10, <1>11, <1>13
  <2> QED BY <1>2, <1>6, <1>12, <1>14, <2>1, <2>2, SendRight
<1>16. /\ dv_map'[r] = twice.dv
       /\ forwarding_table'[r] = twice.ft
       /\ direct_neighbors'[r] = nbrs
       /\ \A x \in Routers \ {r} :
            /\ dv_map'[x] = dv_map[x]
            /\ forwarding_table'[x] = forwarding_table[x]
            /\ direct_neighbors'[x] = direct_neighbors[x]
  BY <1>2 DEF IInv, Shape
<1>17. MapsRight(r, dv_map'[r], forwarding_table'[r], direct_neighbors'[r])
  BY <1>9, <1>11, <1>16 DEF MapsRight
<1>18. PortsInv'
  BY <1>3 DEF PacketInv, PortsInv
<1> QED BY <1>15, <1>16, <1>17, <1>18, OneRouterRight

\* A DATA packet, forwarded, kept or dropped; and one that is new.
LEMMA RecvDataRight ==
  ASSUME PacketInv, IInv, NEW r \in Routers, NEW l \in PortsOf(r), RecvData(r, l)
  PROVE  PacketInv'
<1> DEFINE packet == Head(wire[l][r])
<1>1. /\ wire[l][r] # <<>> /\ packet.type = "DATA"
      /\ wire' = Forwarded(Taken(wire, r, l), r, packet.dest)
      /\ UNCHANGED <<alive, rtt, rtts, silent, faults, tableVars>>
  BY DEF RecvData, Arrives
<1>2. WireRight(Taken(wire, r, l)) /\ packet \in Sendable(Far(r, l))
  BY <1>1, TakenRight DEF PacketInv
<1>3. packet.dest \in Routers
  BY <1>1, <1>2, PacketShape
<1> HIDE DEF packet
<1>4. WireRight(wire')
  BY <1>1, <1>2, <1>3, ForwardedRight
<1> QED BY <1>1, <1>4, TablesAlone DEF PacketInv, PortsInv

LEMMA SendDataRight ==
  ASSUME PacketInv, IInv, NEW r \in Routers, NEW dest \in Routers, SendData(r, dest)
  PROVE  PacketInv'
<1>1. WireRight(Forwarded(wire, r, dest))
  BY ForwardedRight DEF PacketInv
<1> QED BY <1>1, TablesAlone DEF SendData, PacketInv, PortsInv

-----------------------------------------------------------------------------
(* handle_alarm *)

\* A round of PINGs.
LEMMA PingAlarmRight ==
  ASSUME PacketInv, NEW r \in Routers, PingAlarm(r)
  PROVE  PacketInv'
<1>1. WireRight(Posted(wire, r, PortsOf(r), Ping))
  BY PlainSendable, PostedRight DEF PacketInv
<1>2. silent' \in [Routers -> SUBSET Links]
  BY DEF PingAlarm, PortsOf, PacketInv, PortsInv
<1> QED BY <1>1, <1>2, TablesAlone DEF PingAlarm, PacketInv, PortsInv

\* The periodic update: the whole table.
LEMMA UpdateAlarmRight ==
  ASSUME PacketInv, IInv, NEW r \in Routers, UpdateAlarm(r)
  PROVE  PacketInv'
<1> DEFINE costs == [d \in DOMAIN dv_map[r] |-> Bits16(dv_map[r][d].cost)]
<1>1. TableRight(r, dv_map[r]) /\ connected[r] \in SUBSET PortsOf(r)
  BY OwnMaps
<1>2. costs \in [DOMAIN dv_map[r] -> 0 .. COST_MOD - 1] /\ DOMAIN dv_map[r] \in SUBSET Routers
  BY <1>1, CostRange DEF TableRight
<1>3. costs \in Vectors /\ r \notin DOMAIN costs
  BY <1>1, <1>2, VectorOf DEF TableRight
<1>4. wire' = Posted(wire, r, connected[r], DV(costs, NoEntry))
  BY DEF UpdateAlarm
<1> HIDE DEF costs
<1>5. DV(costs, NoEntry) \in Sendable(r)
  BY <1>3, NothingSaid, VectorSendable
<1>6. WireRight(Posted(wire, r, connected[r], DV(costs, NoEntry)))
  BY <1>1, <1>5, PostedRight DEF PacketInv
<1> QED BY <1>4, <1>6, TablesAlone DEF UpdateAlarm, PacketInv, PortsInv

\* A refresh, which erases or replaces routes and tells of it.
LEMMA RefreshDVRight ==
  ASSUME PacketInv, IInv, IInv', NEW r \in Routers, RefreshDV(r)
  PROVE  PacketInv'
<1>1. PICK dead \in SUBSET (connected[r] \cap silent[r]) :
        LET lost == {Far(r, l) : l \in dead}
            nbrs == Merged(direct_neighbors[r], NoEntry, lost)
            over == Over(r, lost)
        IN \E old \in SUBSET (Stale(r, connected[r]) \ over) :
             LET hit      == over \cup old
                 toDirect == hit \cap DOMAIN nbrs
                 gone     == hit \ DOMAIN nbrs
             IN /\ connected' = [connected EXCEPT ![r] = @ \ dead]
                /\ port_cost' = [port_cost EXCEPT ![r] = [l \in Links |-> IF l \in dead THEN 0 ELSE @[l]]]
                /\ direct_neighbors' = [direct_neighbors EXCEPT ![r] = nbrs]
                /\ WriteTables(r, [d \in toDirect |-> Cell(d, nbrs[d].cost)], [d \in toDirect |-> d], gone)
                /\ SendDVUpdate(wire, r, Told(r, hit, gone), NoEntry)
                /\ UNCHANGED <<alive, rtt, rtts, silent, faults>>
  BY DEF RefreshDV
<1> DEFINE lost == {Far(r, l) : l \in dead}
           nbrs == Merged(direct_neighbors[r], NoEntry, lost)
           over == Over(r, lost)
<1>2. PICK old \in SUBSET (Stale(r, connected[r]) \ over) :
        LET hit      == over \cup old
            toDirect == hit \cap DOMAIN nbrs
            gone     == hit \ DOMAIN nbrs
        IN /\ connected' = [connected EXCEPT ![r] = @ \ dead]
           /\ port_cost' = [port_cost EXCEPT ![r] = [l \in Links |-> IF l \in dead THEN 0 ELSE @[l]]]
           /\ direct_neighbors' = [direct_neighbors EXCEPT ![r] = nbrs]
           /\ WriteTables(r, [d \in toDirect |-> Cell(d, nbrs[d].cost)], [d \in toDirect |-> d], gone)
           /\ SendDVUpdate(wire, r, Told(r, hit, gone), NoEntry)
           /\ UNCHANGED <<alive, rtt, rtts, silent, faults>>
  BY <1>1
<1> DEFINE hit      == over \cup old
           toDirect == hit \cap DOMAIN nbrs
           gone     == hit \ DOMAIN nbrs
           cells    == [d \in toDirect |-> Cell(d, nbrs[d].cost)]
           hops     == [d \in toDirect |-> d]
<1>3. /\ dv_map' = [dv_map EXCEPT ![r] = Merged(dv_map[r], cells, gone)]
      /\ forwarding_table' = [forwarding_table EXCEPT ![r] = Merged(forwarding_table[r], hops, gone)]
      /\ direct_neighbors' = [direct_neighbors EXCEPT ![r] = nbrs]
  BY <1>2 DEF WriteTables
<1>4. SendDVUpdate(wire, r, Told(r, hit, gone), NoEntry)
  BY <1>2
<1>5. TableRight(r, dv_map[r]) /\ NeighboursRight(direct_neighbors[r]) /\ forwarding_table[r] \in Maps(Routers)
  BY OwnMaps
<1>6. PortsInv'
  <2>1. connected' \in [Routers -> SUBSET Links]
    BY <1>2 DEF PacketInv, PortsInv
  <2>2. port_cost' \in [Routers -> [Links -> Nat]]
    BY <1>2 DEF PacketInv, PortsInv
  <2> QED BY <1>2, <2>1, <2>2 DEF PacketInv, PortsInv
<1>7. NeighboursRight(nbrs)
  <2>1. NeighboursRight(NoEntry)
    BY DEF NeighboursRight, NoEntry
  <2> QED BY <1>5, <2>1, MergedNeighbours
<1>8. hit \subseteq DOMAIN dv_map[r]
  BY DEF Over, Stale
<1> HIDE DEF hit, nbrs
<1>9. hit \subseteq Routers \ {r}
  BY <1>5, <1>8 DEF TableRight
<1>10. TableRight(r, cells)
  BY <1>7, <1>9 DEF TableRight, NeighboursRight, Cell
<1>11. hops \in Maps(Routers)
  <2>1. hops \in [toDirect -> Routers] /\ toDirect \in SUBSET Routers
    BY <1>9
  <2> QED BY <2>1, MapOf
<1>12. hit \ gone \subseteq DOMAIN Merged(dv_map[r], cells, gone)
  BY <1>8 DEF Merged
<1> HIDE DEF cells, hops, gone, toDirect
<1>13. TableRight(r, Merged(dv_map[r], cells, gone))
  BY <1>5, <1>10, MergedTable
<1>14. Merged(forwarding_table[r], hops, gone) \in Maps(Routers)
  BY <1>5, <1>11, MergedMaps
<1>15. /\ dv_map'[r] = Merged(dv_map[r], cells, gone)
       /\ forwarding_table'[r] = Merged(forwarding_table[r], hops, gone)
       /\ direct_neighbors'[r] = nbrs
       /\ \A x \in Routers \ {r} :
            /\ dv_map'[x] = dv_map[x]
            /\ forwarding_table'[x] = forwarding_table[x]
            /\ direct_neighbors'[x] = direct_neighbors[x]
  BY <1>3 DEF IInv, Shape
<1>16. WireRight(wire')
  <2>1. hit \in SUBSET (Routers \ {r})
    BY <1>9
  <2>2. Told(r, hit, gone) \in Vectors /\ r \notin DOMAIN Told(r, hit, gone)
    BY <1>12, <1>13, <1>15, <2>1, ToldRight
  <2>3. connected'[r] \in SUBSET PortsOf(r)
    BY DEF IInv, Good, OnePort
  <2> QED BY <1>4, <2>2, <2>3, NothingSaid, SendRight DEF PacketInv
<1>17. MapsRight(r, dv_map'[r], forwarding_table'[r], direct_neighbors'[r])
  BY <1>7, <1>13, <1>14, <1>15 DEF MapsRight
<1> QED BY <1>6, <1>15, <1>16, <1>17, OneRouterRight

-----------------------------------------------------------------------------
(* Faults. *)

\* A packet is lost.
LEMMA LoseRight ==
  ASSUME PacketInv, NEW r \in Routers, NEW l \in PortsOf(r), Lose(r, l), UNCHANGED tableVars
  PROVE  PacketInv'
<1>1. WireRight(Taken(wire, r, l))
  BY TakenRight DEF Lose, PacketInv
<1>2. Far(r, l) \in Routers /\ l \in Links
  BY FarEnd
<1>3. silent' \in [Routers -> SUBSET Links]
  BY <1>2 DEF Lose, PacketInv, PortsInv
<1>4. faults' \in 0 .. FAULTS
  BY LinkAssumption DEF Lose, Fault, PacketInv, PortsInv
<1> QED BY <1>1, <1>3, <1>4, TablesAlone DEF Lose, PacketInv, PortsInv

\* Two neighbours in a queue change places.
LEMMA SwappedSeq ==
  ASSUME NEW S, NEW w \in Seq(S), NEW k \in 1 .. Len(w) - 1
  PROVE  [w EXCEPT ![k] = w[k + 1], ![k + 1] = w[k]] \in Seq(S)
<1>1. /\ Len(w) \in Nat /\ k \in Nat
      /\ k \in 1 .. Len(w) /\ k + 1 \in 1 .. Len(w)
  OBVIOUS
<1>2. w[k] \in S /\ w[k + 1] \in S /\ w \in [1 .. Len(w) -> S]
  BY <1>1
<1>3. [w EXCEPT ![k] = w[k + 1], ![k + 1] = w[k]] \in [1 .. Len(w) -> S]
  BY <1>2
<1> QED BY <1>1, <1>3

LEMMA OvertakeRight ==
  ASSUME PacketInv, NEW r \in Routers, NEW l \in PortsOf(r), Overtake(r, l), UNCHANGED tableVars
  PROVE  PacketInv'
<1> DEFINE w == wire[l][r]
<1>1. PICK k \in 1 .. Len(w) - 1 :
        wire' = [wire EXCEPT ![l][r] = [w EXCEPT ![k] = w[k + 1], ![k + 1] = w[k]]]
  BY DEF Overtake
<1>2. w \in Seq(AnyPacket) /\ w \in Seq(Sendable(Far(r, l)))
  BY DEF PacketInv, WireRight, PortsOf
<1> HIDE DEF w
<1> DEFINE s == [w EXCEPT ![k] = w[k + 1], ![k + 1] = w[k]]
<1>3. s \in Seq(AnyPacket) /\ s \in Seq(Sendable(Far(r, l)))
  BY <1>2, SwappedSeq
<1> HIDE DEF s
<1>4. WireRight([wire EXCEPT ![l][r] = s])
  BY <1>3, ChangedRight DEF PacketInv
<1>5. WireRight(wire')
  BY <1>1, <1>4 DEF s
<1>6. faults' \in 0 .. FAULTS
  BY LinkAssumption DEF Overtake, Fault, PacketInv, PortsInv
<1> QED BY <1>5, <1>6, TablesAlone DEF Overtake, PacketInv, PortsInv

\* A link goes down, comes up, or gets another delay.
LEMMA ChangeLinkRight ==
  ASSUME PacketInv, NEW l \in Links, ChangeLink(l), UNCHANGED tableVars
  PROVE  PacketInv'
<1>1. alive' \in [Links -> BOOLEAN]
  <2>1. alive \in [Links -> BOOLEAN]
    BY DEF PacketInv, PortsInv
  <2>2. alive' = alive \/ alive' = [alive EXCEPT ![l] = ~ @]
    BY Zenon DEF ChangeLink
  <2> QED BY <2>1, <2>2
<1>2. rtt' \in [Links -> Nat]
  <2>1. rtt \in [Links -> Nat] /\ \A t \in Rtt[l] : t \in Nat
    BY LinkAssumption DEF PacketInv, PortsInv
  <2>2. rtt' = rtt \/ \E t \in Rtt[l] : rtt' = [rtt EXCEPT ![l] = t]
    BY Zenon DEF ChangeLink
  <2> QED BY <2>1, <2>2
<1>3. faults' \in 0 .. FAULTS
  BY LinkAssumption DEF ChangeLink, Fault, PacketInv, PortsInv
<1>4. rtts' \in [Links -> SUBSET Nat]
  <2>1. rtts \in [Links -> SUBSET Nat] /\ \A t \in Rtt[l] : t \in Nat
    BY LinkAssumption DEF PacketInv, PortsInv
  <2>2. rtts' = rtts \/ \E t \in Rtt[l] : rtts' = [rtts EXCEPT ![l] = rtts[l] \cup {t}]
    BY Zenon DEF ChangeLink
  <2> QED BY <2>1, <2>2
<1> QED BY <1>1, <1>2, <1>3, <1>4, TablesAlone DEF ChangeLink, PacketInv, PortsInv

-----------------------------------------------------------------------------
(* The theorems. *)

\* At the start the tables are empty and PINGs are under way.
LEMMA InitRight == Init => PacketInv
<1> SUFFICES ASSUME Init
             PROVE  PacketInv
  OBVIOUS
<1>1. PortsInv
  <2>1. rtt \in [Links -> Nat]
    BY LinkAssumption DEF Init, LinkInit
  <2>2. rtts \in [Links -> SUBSET Nat]
    BY <2>1 DEF Init, LinkInit
  <2> QED BY <2>1, <2>2, LinkAssumption DEF PortsInv, Init, LinkInit, RouterInit
<1>2. WireRight(wire)
  <2>1. /\ wire = [l \in Links |-> [r \in Routers |-> IF r \in Ends[l] THEN <<Ping>> ELSE <<>>]]
    BY DEF Init, LinkInit
  <2>2. \A r : <<Ping>> \in Seq(Sendable(r)) /\ <<Ping>> \in Seq(AnyPacket)
    BY PlainSendable DEF AnyPacket
  <2>3. wire \in [Links -> [Routers -> Seq(AnyPacket)]]
    <3>1. <<Ping>> \in Seq(AnyPacket) /\ <<>> \in Seq(AnyPacket)
      BY DEF AnyPacket
    <3> QED BY <2>1, <3>1
  <2>4. \A l \in Links : \A x \in Ends[l] : wire[l][x] \in Seq(Sendable(Far(x, l)))
    BY <2>1, <2>2, LinkAssumption
  <2> QED BY <2>3, <2>4 DEF WireRight
<1>3. NoEntry \in Maps(Routers) /\ DOMAIN NoEntry = {}
  <2>1. NoEntry \in [{} -> Routers] /\ DOMAIN NoEntry = {}
    BY DEF NoEntry
  <2> QED BY <2>1, MapOf
<1>4. \A r \in Routers : MapsRight(r, dv_map[r], forwarding_table[r], direct_neighbors[r])
  BY <1>3 DEF Init, RouterInit, MapsRight, TableRight, NeighboursRight
<1> QED BY <1>1, <1>2, <1>4 DEF PacketInv

\* Every step of the network keeps tables and queues right.
LEMMA StepRight == PacketInv /\ IInv /\ IInv' /\ [Next]_vars => PacketInv'
<1> SUFFICES ASSUME PacketInv, IInv, IInv', [Next]_vars
             PROVE  PacketInv'
  OBVIOUS
<1>1. ASSUME NEW r \in Routers, HandleAlarm(r)
      PROVE  PacketInv'
  BY <1>1, PingAlarmRight, RefreshDVRight, UpdateAlarmRight DEF HandleAlarm
<1>2. ASSUME NEW r \in Routers, NEW l \in PortsOf(r), Recv(r, l)
      PROVE  PacketInv'
  BY <1>2, RecvPingRight, RecvPongRight, RecvDVRight, RecvDataRight DEF Recv
<1>3. ASSUME NEW r \in Routers, NEW dest \in Routers, SendData(r, dest)
      PROVE  PacketInv'
  BY <1>3, SendDataRight
<1>4. ASSUME NEW r \in Routers, NEW l \in PortsOf(r), Lose(r, l) \/ Overtake(r, l), UNCHANGED tableVars
      PROVE  PacketInv'
  BY <1>4, LoseRight, OvertakeRight
<1>5. ASSUME NEW l \in Links, ChangeLink(l), UNCHANGED tableVars
      PROVE  PacketInv'
  BY <1>5, ChangeLinkRight
<1>6. CASE UNCHANGED vars
  BY <1>6, TablesAlone DEF vars, linkVars, PacketInv, PortsInv
<1> QED BY <1>1, <1>2, <1>3, <1>4, <1>5, <1>6 DEF Next

\* Tables and queues are right in every reachable state.
THEOREM PacketsRight == Spec => []PacketInv
BY InitRight, StepRight, Invariance, PTL DEF Spec

\* The maps of every router keep the types of RoutingProtocolImpl.h, costs never
\* become negative, and whatever is under way is a packet that recv knows.
THEOREM TypesKept == Spec => []TypeOK
<1>1. PacketInv => TypeOK
  <2> SUFFICES ASSUME PacketInv
               PROVE  TypeOK
    OBVIOUS
  <2>1. LinkTypeOK
    BY DEF PacketInv, PortsInv, WireRight, LinkTypeOK
  <2>2. RouterTypeOK
    BY DEF PacketInv, PortsInv, MapsRight, TableRight, NeighboursRight, RouterTypeOK
  <2> QED BY <2>1, <2>2 DEF TypeOK
<1> QED BY <1>1, PacketsRight, PTL

\* No router ever lists itself or is told by a neighbour of a route to that
\* neighbour, however vectors, faults and alarms follow one another.
THEOREM NobodyRoutesToSelf == Spec => []NoRouteToSelf
<1>1. PacketInv => NoRouteToSelf
  <2> SUFFICES ASSUME PacketInv, NEW r \in Routers
               PROVE  /\ r \notin DOMAIN dv_map[r]
                      /\ \A l \in PortsOf(r) : \A k \in 1 .. Len(wire[l][Far(r, l)]) :
                           LET p == wire[l][Far(r, l)][k]
                           IN p.type = "DV" => r \notin DOMAIN p.costs
    BY DEF NoRouteToSelf
  <2>1. r \notin DOMAIN dv_map[r]
    BY DEF PacketInv, MapsRight, TableRight
  <2>2. ASSUME NEW l \in PortsOf(r), NEW k \in 1 .. Len(wire[l][Far(r, l)])
        PROVE  wire[l][Far(r, l)][k] \in Sendable(r)
    <3>1. l \in Links /\ Far(r, l) \in Ends[l] /\ Far(Far(r, l), l) = r
      BY FarEnd, FarFar
    <3>2. wire[l][Far(r, l)] \in Seq(Sendable(r))
      BY <3>1 DEF PacketInv, WireRight
    <3> QED BY <3>2
  <2> QED BY <2>1, <2>2 DEF Sendable
<1> QED BY <1>1, PacketsRight, PTL

-----------------------------------------------------------------------------
(* No route changes in silence.  What a handler sends is put together while  *)
(* it goes through the destinations, and a vector may name one of them       *)
(* twice.  A neighbour that reads the packet in order is left with the last  *)
(* word, so it is this that has to agree with the table at the end.          *)

\* The route to d in a table, and what there is to say of it.
RouteIn(dv, d) == IF d \in DOMAIN dv THEN <<dv[d].cost>> ELSE <<>>
Word(dv, d) == IF d \in DOMAIN dv THEN Bits16(dv[d].cost) ELSE INFINITY_COST

\* A packet has this last word on d.
Says(costs, again, d, word) ==
  /\ d \in DOMAIN costs
  /\ word = IF d \in DOMAIN again THEN again[d] ELSE costs[d]

-----------------------------------------------------------------------------
(* Sending. *)

\* What a handler of r sends is the last in the queue of every connected port.
LEMMA SentLast ==
  ASSUME NEW w, WireRight(w), NEW r \in Routers, connected'[r] \in SUBSET PortsOf(r),
         NEW costs, NEW again, NEW d, NEW word, Says(costs, again, d, word),
         SendDVUpdate(w, r, costs, again),
         NEW l \in connected'[r], alive[l]
  PROVE  LastWord(r, l, d)' = <<word>>
<1> DEFINE x == Far(r, l)
           p == DV(costs, again)
<1>1. l \in Links /\ x \in Routers /\ w[l][x] \in Seq(AnyPacket)
  BY FarEnd DEF WireRight
<1>2. wire' = Posted(w, r, connected'[r], p)
  BY DEF SendDVUpdate, Says
<1>3. wire'[l][x] = Append(w[l][x], p)
  BY <1>1, <1>2 DEF Posted
<1> HIDE DEF p
<1>4. wire'[l][x] # <<>> /\ wire'[l][x][Len(wire'[l][x])] = p
  BY <1>1, <1>3
<1>5. p.type = "DV" /\ p.costs = costs /\ p.again = again
  BY DEF p, DV
<1> QED BY <1>4, <1>5 DEF LastWord, Says

\* So all is announced if the packet has the last word on all that changed.
LEMMA SentAll ==
  ASSUME NEW w, WireRight(w), NEW r \in Routers, connected'[r] \in SUBSET PortsOf(r),
         NEW costs, NEW again, SendDVUpdate(w, r, costs, again),
         \A d \in Routers :
           RouteIn(dv_map'[r], d) # RouteIn(dv_map[r], d) =>
             Says(costs, again, d, Word(dv_map'[r], d)),
         \A x \in Routers \ {r} : dv_map'[x] = dv_map[x],
         NEW s \in Routers, NEW d \in Routers, Route(s, d)' # Route(s, d),
         NEW l \in connected'[s], alive[l]
  PROVE  LastWord(s, l, d)' =
           IF Route(s, d)' = <<>> THEN <<INFINITY_COST>> ELSE <<Route(s, d)'[1] % COST_MOD>>
<1>1. s = r
  BY DEF Route
<1>2. Route(r, d)' = RouteIn(dv_map'[r], d) /\ Route(r, d) = RouteIn(dv_map[r], d)
  BY DEF Route, RouteIn
<1>3. LastWord(r, l, d)' = <<Word(dv_map'[r], d)>>
  BY <1>1, <1>2, SentLast
<1>4. <<Word(dv_map'[r], d)>> =
        IF Route(r, d)' = <<>> THEN <<INFINITY_COST>> ELSE <<Route(r, d)'[1] % COST_MOD>>
  BY <1>2 DEF RouteIn, Word, Bits16
<1> QED BY <1>1, <1>3, <1>4

-----------------------------------------------------------------------------
(* The handlers that change routes. *)

\* A change, as the properties of DvNetwork state it.
Announced ==
  \A r \in Routers : \A d \in Routers :
    Route(r, d)' # Route(r, d) =>
      \A l \in connected'[r] : alive[l] =>
        LastWord(r, l, d)' =
          IF Route(r, d)' = <<>> THEN <<INFINITY_COST>> ELSE <<Route(r, d)'[1] % COST_MOD>>

LEMMA RecvPongAnnounces ==
  ASSUME PacketInv, IInv, IInv', NEW r \in Routers, NEW l \in PortsOf(r), RecvPong(r, l)
  PROVE  Announced
<1>0. PICK rrt \in RoundTrips(l) : PongMeasures(r, l, rrt)
  BY DEF RecvPong
<1> DEFINE src      == Far(r, l)
           dv       == dv_map[r]
           nbrs     == Merged(direct_neighbors[r], [n \in {src} |-> Neighbor(l, rrt)], {})
           diff     == rrt - port_cost[r][l]
           may(d)   == (dv[d].cost + diff) % COST_MOD
           mine     == {d \in DOMAIN dv : diff # 0 /\ dv[d].next_hop = src}
           toDirect == {d \in mine : d \in DOMAIN nbrs /\ nbrs[d].cost <= may(d)}
           moved    == mine \ DOMAIN nbrs
           better   == {d \in DOMAIN dv : diff # 0 /\ d = src /\ dv[d].next_hop # src /\ rrt <= dv[d].cost}
           new      == {src} \ DOMAIN dv
           again    == diff # 0 /\ l \notin connected[r]
           said     == IF new # {} \/ again THEN DOMAIN dv \cup new ELSE mine \cup better
           twice    == IF new # {} THEN mine \cup better ELSE {}
           cells    == [d \in toDirect \cup moved \cup better \cup new |->
                          CASE d \in toDirect -> Cell(d, nbrs[d].cost)
                            [] d \in moved    -> Cell(src, may(d))
                            [] OTHER          -> Cell(src, rrt)]
<1>1. /\ dv_map' = [dv_map EXCEPT ![r] = Merged(dv, cells, {})]
      /\ SendDVUpdate(Taken(wire, r, l), r, Told(r, said, {}), Told(r, twice, {}))
      /\ wire[l][r] # <<>>
  BY <1>0 DEF PongMeasures, WriteTables, Arrives
<1>2. /\ said \subseteq DOMAIN Merged(dv, cells, {}) /\ twice \subseteq said
      /\ DOMAIN cells \subseteq said
  <2>1. DOMAIN Merged(dv, cells, {}) = DOMAIN dv \cup toDirect \cup moved \cup better \cup new
    BY DEF Merged
  <2>2. /\ mine \subseteq DOMAIN dv /\ better \subseteq DOMAIN dv
        /\ toDirect \subseteq mine /\ moved \subseteq mine
    OBVIOUS
  <2>3. DOMAIN cells = toDirect \cup moved \cup better \cup new
    OBVIOUS
  <2> HIDE DEF mine, better, toDirect, moved, new, again, dv, cells
  <2> QED BY <2>1, <2>2, <2>3
<1> HIDE DEF cells, said, twice, dv
<1>3. dv_map'[r] = Merged(dv, cells, {}) /\ \A x \in Routers \ {r} : dv_map'[x] = dv_map[x]
  BY <1>1 DEF IInv, Shape
<1>4. WireRight(Taken(wire, r, l)) /\ connected'[r] \in SUBSET PortsOf(r)
  BY <1>1, TakenRight DEF PacketInv, IInv, Good, OnePort
<1>5. ASSUME NEW d \in Routers, RouteIn(dv_map'[r], d) # RouteIn(dv_map[r], d)
      PROVE  Says(Told(r, said, {}), Told(r, twice, {}), d, Word(dv_map'[r], d))
  <2>1. d \in DOMAIN cells
    BY <1>3, <1>5 DEF RouteIn, Merged, dv
  <2>2. d \in said /\ d \in DOMAIN dv_map'[r]
    BY <1>2, <1>3, <2>1
  <2> QED BY <2>2 DEF Says, Told, Word
<1> QED BY <1>1, <1>3, <1>4, <1>5, SentAll DEF Announced

LEMMA RefreshDVAnnounces ==
  ASSUME PacketInv, IInv, IInv', NEW r \in Routers, RefreshDV(r)
  PROVE  Announced
<1>1. PICK dead \in SUBSET (connected[r] \cap silent[r]) :
        LET lost == {Far(r, l) : l \in dead}
            nbrs == Merged(direct_neighbors[r], NoEntry, lost)
            over == Over(r, lost)
        IN \E old \in SUBSET (Stale(r, connected[r]) \ over) :
             LET hit      == over \cup old
                 toDirect == hit \cap DOMAIN nbrs
                 gone     == hit \ DOMAIN nbrs
             IN /\ WriteTables(r, [d \in toDirect |-> Cell(d, nbrs[d].cost)], [d \in toDirect |-> d], gone)
                /\ SendDVUpdate(wire, r, Told(r, hit, gone), NoEntry)
  BY DEF RefreshDV
<1> DEFINE lost == {Far(r, l) : l \in dead}
           nbrs == Merged(direct_neighbors[r], NoEntry, lost)
           over == Over(r, lost)
<1>2. PICK old \in SUBSET (Stale(r, connected[r]) \ over) :
        LET hit      == over \cup old
            toDirect == hit \cap DOMAIN nbrs
            gone     == hit \ DOMAIN nbrs
        IN /\ WriteTables(r, [d \in toDirect |-> Cell(d, nbrs[d].cost)], [d \in toDirect |-> d], gone)
           /\ SendDVUpdate(wire, r, Told(r, hit, gone), NoEntry)
  BY <1>1
<1> DEFINE hit      == over \cup old
           toDirect == hit \cap DOMAIN nbrs
           gone     == hit \ DOMAIN nbrs
           cells    == [d \in toDirect |-> Cell(d, nbrs[d].cost)]
<1>3. /\ dv_map' = [dv_map EXCEPT ![r] = Merged(dv_map[r], cells, gone)]
      /\ SendDVUpdate(wire, r, Told(r, hit, gone), NoEntry)
  BY <1>2 DEF WriteTables
<1>4. hit \subseteq DOMAIN dv_map[r]
  BY DEF Over, Stale
<1>5. gone \subseteq hit /\ toDirect \subseteq hit /\ DOMAIN cells = toDirect
  OBVIOUS
<1> HIDE DEF hit, gone, toDirect, cells
<1>6. dv_map'[r] = Merged(dv_map[r], cells, gone) /\ \A x \in Routers \ {r} : dv_map'[x] = dv_map[x]
  BY <1>3 DEF IInv, Shape
<1>7. WireRight(wire) /\ connected'[r] \in SUBSET PortsOf(r)
  BY DEF PacketInv, IInv, Good, OnePort
<1>8. ASSUME NEW d \in Routers, RouteIn(dv_map'[r], d) # RouteIn(dv_map[r], d)
      PROVE  Says(Told(r, hit, gone), NoEntry, d, Word(dv_map'[r], d))
  <2>1. d \in hit
    BY <1>5, <1>6, <1>8 DEF RouteIn, Merged
  <2>2. d \in gone <=> d \notin DOMAIN dv_map'[r]
    BY <1>4, <1>5, <1>6, <2>1 DEF Merged
  <2>3. d \notin DOMAIN NoEntry
    BY NothingSaid
  <2> QED BY <2>1, <2>2, <2>3 DEF Says, Told, Word
<1> QED BY <1>3, <1>6, <1>7, <1>8, SentAll DEF Announced

\* One pass over a vector: what r will tell is what its table says at the end of the
\* pass, and the rest of the table is as it was.
LEMMA HeardTells ==
  ASSUME NEW t, NEW r, NEW src, NEW nbrs, NEW costs
  PROVE  LET h == Heard(t, r, src, nbrs, costs)
         IN /\ \A d \in DOMAIN h.told : h.told[d] = Word(h.dv, d)
            /\ \A d : d \notin DOMAIN h.told => RouteIn(h.dv, d) = RouteIn(t.dv, d)
            /\ \A d : d \notin DOMAIN h.told => Word(h.dv, d) = Word(t.dv, d)
<1> DEFINE infinite == DOMAIN t.dv \cap (DOMAIN costs \ Finite(costs))
           toDirect == ToDirect(t, src, nbrs, costs)
           toSource == ToSource(t, r, src, nbrs, costs)
           gone     == Withdrawn(t, src, costs) \ DOMAIN nbrs
           cells    == [d \in toDirect \cup toSource |->
                          IF d \in toDirect THEN Cell(d, nbrs[d].cost)
                          ELSE Cell(src, Through(costs[d], nbrs[src].cost))]
           dv       == Merged(t.dv, cells, gone)
           told     == [d \in DOMAIN cells \cup infinite |->
                          IF d \in gone THEN INFINITY_COST ELSE Bits16(dv[d].cost)]
           h        == Heard(t, r, src, nbrs, costs)
<1>1. h.dv = dv /\ h.told = told
  BY DEF Heard
<1>2. gone \subseteq infinite /\ infinite \subseteq DOMAIN t.dv
  BY DEF Withdrawn
<1> HIDE DEF infinite, gone, cells
<1>3. /\ DOMAIN dv = (DOMAIN t.dv \cup DOMAIN cells) \ gone
      /\ \A d \in DOMAIN t.dv : d \notin DOMAIN cells /\ d \notin gone => dv[d] = t.dv[d]
  BY DEF Merged
<1> HIDE DEF dv
<1>4. /\ DOMAIN told = DOMAIN cells \cup infinite
      /\ \A d \in DOMAIN told : told[d] = IF d \in gone THEN INFINITY_COST ELSE Bits16(dv[d].cost)
  OBVIOUS
<1> HIDE DEF told
<1>5. \A d \in DOMAIN told : told[d] = Word(dv, d)
  BY <1>2, <1>3, <1>4 DEF Word
<1>6. \A d : d \notin DOMAIN told => RouteIn(dv, d) = RouteIn(t.dv, d) /\ Word(dv, d) = Word(t.dv, d)
  BY <1>2, <1>3, <1>4 DEF Word, RouteIn
<1> HIDE DEF h
<1> QED BY <1>1, <1>5, <1>6 DEF h

LEMMA RecvDVAnnounces ==
  ASSUME PacketInv, IInv, IInv', NEW r \in Routers, NEW l \in PortsOf(r), RecvDV(r, l)
  PROVE  Announced
<1> DEFINE src    == Far(r, l)
           packet == Head(wire[l][r])
<1>1. PICK link_cost \in LinkCosts(r, src, packet.costs) :
        LET nbrs  == Merged([n \in {src} |-> Neighbor(l, link_cost)], direct_neighbors[r], {})
            t     == [dv |-> dv_map[r], ft |-> forwarding_table[r]]
            once  == Heard(t, r, src, nbrs, packet.costs)
            twice == Heard(once, r, src, nbrs, packet.again)
            both  == DOMAIN once.told \cap DOMAIN twice.told
        IN /\ dv_map' = [dv_map EXCEPT ![r] = twice.dv]
           /\ SendDVUpdate(Taken(wire, r, l), r,
                Merged(twice.told, once.told, {}),
                [d \in both \cup once.kept |-> Merged(once.told, twice.told, {})[d]])
  BY DEF RecvDV
<1> DEFINE nbrs  == Merged([n \in {src} |-> Neighbor(l, link_cost)], direct_neighbors[r], {})
           t     == [dv |-> dv_map[r], ft |-> forwarding_table[r]]
           once  == Heard(t, r, src, nbrs, packet.costs)
           twice == Heard(once, r, src, nbrs, packet.again)
           both  == DOMAIN once.told \cap DOMAIN twice.told
           first == Merged(twice.told, once.told, {})
           last  == Merged(once.told, twice.told, {})
           again == [d \in both \cup once.kept |-> last[d]]
<1>2. /\ dv_map' = [dv_map EXCEPT ![r] = twice.dv]
      /\ SendDVUpdate(Taken(wire, r, l), r, first, again)
  BY <1>1
<1>3. wire[l][r] # <<>>
  BY <1>1 DEF RecvDV, Arrives
<1>4. once.kept \subseteq DOMAIN once.told
  BY DEF Heard
<1>5. t.dv = dv_map[r]
  OBVIOUS
<1> HIDE DEF src, packet, nbrs, t
<1>6. /\ \A d \in DOMAIN once.told : once.told[d] = Word(once.dv, d)
      /\ \A d : d \notin DOMAIN once.told => RouteIn(once.dv, d) = RouteIn(t.dv, d)
  BY HeardTells
<1> HIDE DEF once
<1>7. /\ \A d \in DOMAIN twice.told : twice.told[d] = Word(twice.dv, d)
      /\ \A d : d \notin DOMAIN twice.told =>
           RouteIn(twice.dv, d) = RouteIn(once.dv, d) /\ Word(twice.dv, d) = Word(once.dv, d)
  BY HeardTells
<1> HIDE DEF twice
<1>8. /\ DOMAIN first = DOMAIN once.told \cup DOMAIN twice.told
      /\ \A d \in DOMAIN first : first[d] = IF d \in DOMAIN once.told THEN once.told[d] ELSE twice.told[d]
      /\ \A d \in DOMAIN first : last[d] = IF d \in DOMAIN twice.told THEN twice.told[d] ELSE once.told[d]
  BY DEF Merged
<1>9. DOMAIN again = both \cup once.kept /\ \A d \in DOMAIN again : again[d] = last[d]
  OBVIOUS
<1> HIDE DEF first, last, again
<1>10. dv_map'[r] = twice.dv /\ \A x \in Routers \ {r} : dv_map'[x] = dv_map[x]
  BY <1>2 DEF IInv, Shape
<1>11. WireRight(Taken(wire, r, l)) /\ connected'[r] \in SUBSET PortsOf(r)
  BY <1>3, TakenRight DEF PacketInv, IInv, Good, OnePort
<1>12. ASSUME NEW d \in Routers, RouteIn(dv_map'[r], d) # RouteIn(dv_map[r], d)
       PROVE  Says(first, again, d, Word(dv_map'[r], d))
  <2>1. d \in DOMAIN first
    BY <1>5, <1>6, <1>7, <1>8, <1>10, <1>12
  <2>2. CASE d \in DOMAIN twice.told
    <3>1. twice.told[d] = Word(dv_map'[r], d)
      BY <1>7, <1>10, <2>2
    <3>2. d \in DOMAIN again => again[d] = twice.told[d]
      BY <1>8, <1>9, <2>1, <2>2
    <3>3. d \notin DOMAIN again => first[d] = twice.told[d]
      BY <1>8, <1>9, <2>1, <2>2
    <3> QED BY <2>1, <3>1, <3>2, <3>3 DEF Says
  <2>3. CASE d \notin DOMAIN twice.told
    <3>1. d \in DOMAIN once.told /\ once.told[d] = Word(dv_map'[r], d)
      BY <1>6, <1>7, <1>8, <1>10, <2>1, <2>3
    <3>2. first[d] = once.told[d] /\ (d \in DOMAIN again => again[d] = once.told[d])
      BY <1>8, <1>9, <2>1, <2>3, <3>1
    <3> QED BY <2>1, <3>1, <3>2 DEF Says
  <2> QED BY <2>2, <2>3
<1> QED BY <1>2, <1>10, <1>11, <1>12, SentAll DEF Announced

-----------------------------------------------------------------------------
(* The theorem on changes. *)

\* The other steps change no route.
LEMMA SameRoutes ==
  ASSUME UNCHANGED dv_map
  PROVE  Announced
<1>1. \A r \in Routers : \A d \in Routers : Route(r, d)' = Route(r, d)
  BY DEF Route
<1> QED BY <1>1 DEF Announced

LEMMA StepAnnounces ==
  ASSUME PacketInv, IInv, IInv', Next
  PROVE  Announced
<1>1. ASSUME NEW r \in Routers, HandleAlarm(r)
      PROVE  Announced
  <2>1. CASE PingAlarm(r) \/ UpdateAlarm(r)
    BY <2>1, SameRoutes DEF PingAlarm, UpdateAlarm, tableVars
  <2> QED BY <1>1, <2>1, RefreshDVAnnounces DEF HandleAlarm
<1>2. ASSUME NEW r \in Routers, NEW l \in PortsOf(r), Recv(r, l)
      PROVE  Announced
  <2>1. CASE RecvPing(r, l) \/ RecvData(r, l)
    BY <2>1, SameRoutes DEF RecvPing, RecvData, tableVars
  <2> QED BY <1>2, <2>1, RecvPongAnnounces, RecvDVAnnounces DEF Recv
<1>3. ASSUME NEW r \in Routers, NEW dest \in Routers, SendData(r, dest)
      PROVE  Announced
  BY <1>3, SameRoutes DEF SendData, tableVars
<1>4. CASE UNCHANGED tableVars
  BY <1>4, SameRoutes DEF tableVars
<1> QED BY <1>1, <1>2, <1>3, <1>4 DEF Next

\* No handler changes, adds or erases a route without sending its new cost, or
\* an infinite one, as the last word on it on every port that it then counts
\* as connected, also where a vector names a destination twice
\* (DVImpl.cc:96-97) and what it says first does not hold any more.
THEOREM NoSilentChange == Spec => ChangesAnnounced
<1>1. ASSUME PacketInv, IInv, IInv', [Next]_vars
      PROVE  [\A r \in Routers : \A d \in Routers :
                Route(r, d)' # Route(r, d) =>
                  \A l \in connected'[r] : alive[l] =>
                    LastWord(r, l, d)' =
                      IF Route(r, d)' = <<>> THEN <<INFINITY_COST>>
                      ELSE <<Route(r, d)'[1] % COST_MOD>>]_vars
  <2>1. CASE Next
    BY <1>1, <2>1, StepAnnounces DEF Announced
  <2>2. CASE UNCHANGED vars
    BY <2>2
  <2> QED BY <1>1, <2>1, <2>2
<1> QED BY <1>1, PacketsRight, Invariance, PTL DEF Spec, ChangesAnnounced
=============================================================================
