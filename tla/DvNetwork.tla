----------------------------- MODULE DvNetwork -----------------------------
(***************************************************************************)
(* project3: routers connected by links that lose packets, go down and     *)
(* come up again.                                                          *)
(***************************************************************************)
EXTENDS Router

CONSTANTS
  DATA_CAP,   \* bound: DATA packets under way
  ALARM_CAP   \* bound: packets under way when an alarm goes off

vars == <<linkVars, tableVars>>

Init == LinkInit /\ RouterInit

Recv(r, l) == RecvPing(r, l) \/ RecvPong(r, l) \/ RecvDV(r, l) \/ RecvData(r, l)

\* The packets under way, and those among them of one type.
Packets(type) ==
  UNION {{[link |-> l, to |-> r, place |-> k] :
            k \in {j \in 1 .. Len(wire[l][r]) : wire[l][r][j].type = type}} :
           l \in Links, r \in Routers}
UnderWay == UNION {Packets(type) : type \in {"PING", "PONG", "DV", "DATA"}}

\* A bound of the runs, not of the code: init sets the alarms of all routers at
\* one time, so an alarm finds what another router's alarm has just sent.
Calm == Cardinality(UnderWay) <= ALARM_CAP

HandleAlarm(r) ==
  /\ Calm
  /\ PingAlarm(r) \/ RefreshDV(r) \/ UpdateAlarm(r)

Next ==
  \/ \E r \in Routers :
       \/ HandleAlarm(r)
       \/ \E l \in PortsOf(r) : Recv(r, l)
       \/ \E dest \in Routers :
            Cardinality(Packets("DATA")) < DATA_CAP /\ SendData(r, dest)
  \/ \E r \in Routers : \E l \in PortsOf(r) : (Lose(r, l) \/ Overtake(r, l)) /\ UNCHANGED tableVars
  \/ \E l \in Links : ChangeLink(l) /\ UNCHANGED tableVars

Spec == Init /\ [][Next]_vars

-----------------------------------------------------------------------------
(* Safety. *)

\* The maps of a router keep the types of RoutingProtocolImpl.h, and what is
\* under way is a packet that recv knows.
TypeOK == LinkTypeOK /\ RouterTypeOK

\* forwarding_table is dv_map without the costs: no handler writes one and
\* forgets the other.
TablesAgree ==
  \A r \in Routers :
    /\ DOMAIN forwarding_table[r] = DOMAIN dv_map[r]
    /\ \A d \in DOMAIN dv_map[r] : forwarding_table[r][d] = dv_map[r][d].next_hop

\* Every next hop is a direct neighbour and the port noted for a neighbour
\* leads to it: recvDATA never looks up a neighbour that is not there.
NextHopKnown ==
  \A r \in Routers :
    /\ \A d \in DOMAIN dv_map[r] : dv_map[r][d].next_hop \in DOMAIN direct_neighbors[r]
    /\ \A n \in DOMAIN direct_neighbors[r] :
         LET l == direct_neighbors[r][n].port IN l \in PortsOf(r) /\ Far(r, l) = n

\* A router has no route to itself and never names itself in a vector.  It may
\* well name the neighbour that it sends the vector to.
NoRouteToSelf ==
  \A r \in Routers :
    /\ r \notin DOMAIN dv_map[r]
    /\ \A l \in PortsOf(r) : \A k \in 1 .. Len(wire[l][Far(r, l)]) :
         LET p == wire[l][Far(r, l)][k] IN p.type = "DV" => r \notin DOMAIN p.costs

\* Of several ports to the same router one at most counts as connected, and
\* such a router is a direct neighbour.  refreshDV relies on it: two ports of
\* one neighbour that expire together would erase the same entries twice.
OnePortEach ==
  \A r \in Routers : \A l \in connected[r] :
    /\ l \in PortsOf(r)
    /\ Far(r, l) \in DOMAIN direct_neighbors[r]
    /\ \A p \in connected[r] : Far(r, p) = Far(r, l) => p = l

\* The route of r to d, for comparison with an earlier or later one.
Route(r, d) == IF d \in DOMAIN dv_map[r] THEN <<dv_map[r][d].cost>> ELSE <<>>

\* The last word of r on d in the packet that it sent last on port l.
LastWord(r, l, d) ==
  LET w == wire[l][Far(r, l)]
      p == w[Len(w)]
  IN IF w = <<>> \/ p.type # "DV" THEN <<>>
     ELSE IF d \in DOMAIN p.again THEN <<p.again[d]>>
     ELSE IF d \in DOMAIN p.costs THEN <<p.costs[d]>>
     ELSE <<>>

\* No route appears, changes its cost or goes away without being announced on
\* every connected port whose link works: the last word on it is the new cost,
\* or an infinite one for a route that went away.
ChangesAnnounced ==
  [][\A r \in Routers : \A d \in Routers :
       Route(r, d)' # Route(r, d) =>
         \A l \in connected'[r] : alive[l] =>
           LastWord(r, l, d)' =
             IF Route(r, d)' = <<>> THEN <<INFINITY_COST>> ELSE <<Route(r, d)'[1] % COST_MOD>>]_vars

\* Without faults a route always rests on a shorter one of its next hop, so
\* that packets never go round in circles, also while routes are built up.
RoutesBacked ==
  faults = 0 =>
    \A r \in Routers : \A d \in DOMAIN dv_map[r] :
      LET n == dv_map[r][d].next_hop
      IN n # d => d \in DOMAIN dv_map[n] /\ dv_map[n][d].cost < dv_map[r][d].cost

\* README.txt: "My DV protocol uses the poison reverse method to overcome the
\* count-to-infinity problem."  With poison reverse two neighbours never
\* send the packets for a destination to each other.
NoMutualRoutes ==
  \A r, n, d \in Routers :
    /\ d \in DOMAIN forwarding_table[r] /\ forwarding_table[r][d] = n
    /\ d \in DOMAIN forwarding_table[n]
    => forwarding_table[n][d] # r

-----------------------------------------------------------------------------
(* Liveness. *)

\* A packet under way arrives: weak fairness of Recv, which can be taken
\* exactly when there is a packet.  Nothing is assumed of the alarms: what is
\* sent when a route changes is enough.
FairSpec ==
  /\ Spec
  /\ \A r \in Routers : \A l \in Links :
       []<>(wire[l][r] = <<>>) \/ []<><<Recv(r, l)>>_vars

\* The routes satisfy Bellman's equations, whose one solution are the
\* shortest paths.
ShortestRoutes ==
  \A r \in Routers : \A d \in Routers \ {r} :
    /\ d \in DOMAIN dv_map[r]
    /\ LET route  == dv_map[r][d]
           via(l) == rtt[l] + IF Far(r, l) = d THEN 0 ELSE dv_map[Far(r, l)][d].cost
       IN /\ \A l \in PortsOf(r) : Far(r, l) = d \/ d \in DOMAIN dv_map[Far(r, l)]
          /\ \A l \in PortsOf(r) : route.cost <= via(l)
          /\ \E l \in PortsOf(r) : Far(r, l) = route.next_hop /\ route.cost = via(l)

\* If nothing is lost, no packet overtakes another, not even one of the same
\* millisecond, and no link changes, all routers come to know the shortest
\* routes and keep them.
Converges == <>[]ShortestRoutes

\* A DATA packet is not passed round for ever: with DATA_CAP = 1 the next one
\* is sent only when it is there or dropped.
DataLeaves == []<>(Packets("DATA") = {})
=============================================================================
