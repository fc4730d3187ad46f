------------------------------- MODULE Router -------------------------------
(***************************************************************************)
(* project3: the distance-vector router (RoutingProtocolImpl, DVImpl,      *)
(* PingPongImpl and FwdDataImpl).  A step is one call of recv or of        *)
(* handle_alarm, which runs to its end before another event is taken.      *)
(*                                                                         *)
(* A handler treats the destinations of its table, or of the packet, one   *)
(* by one, and what it does for one does not depend on the others: it is   *)
(* given here by the sets of destinations that meet each branch.  A packet *)
(* may name a destination twice; recvDV treats it twice, and so does the   *)
(* model.  More often it does only where a cost happens to be equal to     *)
(* INFINITY_COST in its 16 bits, and then the others say the same again.   *)
(***************************************************************************)
EXTENDS LinkLayer

CONSTANT Garbage   \* what an uninitialised cost may hold

ASSUME GarbageAssumption == Garbage \subseteq Nat

VARIABLES
  connected,        \* connected[r]: the ports p of r with ports[p].connected
  port_cost,        \* port_cost[r][l]: ports[p].cost
  direct_neighbors, \* direct_neighbors[r]: from a neighbour to [port, cost]
  dv_map,           \* dv_map[r]: from a destination to [next_hop, cost]
  forwarding_table  \* forwarding_table[r]: from a destination to a next hop

tableVars == <<connected, port_cost, direct_neighbors, dv_map, forwarding_table>>

Maps(S) == UNION {[D -> S] : D \in SUBSET Routers}

RouterTypeOK ==
  /\ connected \in [Routers -> SUBSET Links]
  /\ port_cost \in [Routers -> [Links -> Nat]]
  /\ \A r \in Routers :
       /\ DOMAIN direct_neighbors[r] \subseteq Routers
       /\ \A n \in DOMAIN direct_neighbors[r] :
            direct_neighbors[r][n].port \in Links /\ direct_neighbors[r][n].cost \in Nat
       /\ DOMAIN dv_map[r] \subseteq Routers
       /\ \A d \in DOMAIN dv_map[r] :
            dv_map[r][d].next_hop \in Routers /\ dv_map[r][d].cost \in Nat
       /\ forwarding_table[r] \in Maps(Routers)

\* A map that is empty.
NoEntry == [x \in {} |-> x]

RouterInit ==
  /\ connected = [r \in Routers |-> {}]
  /\ port_cost = [r \in Routers |-> [l \in Links |-> 0]]
  /\ direct_neighbors = [r \in Routers |-> NoEntry]
  /\ dv_map = [r \in Routers |-> NoEntry]
  /\ forwarding_table = [r \in Routers |-> NoEntry]

Cell(next_hop, cost) == [next_hop |-> next_hop, cost |-> cost]
Neighbor(port, cost) == [port |-> port, cost |-> cost]

\* Map f with the entries of g put in and those of gone erased.
Merged(f, g, gone) ==
  [x \in (DOMAIN f \cup DOMAIN g) \ gone |-> IF x \in DOMAIN g THEN g[x] ELSE f[x]]

\* Two slips: forwarding_table gets the port of the next hop, as in the line
\* that refreshDV keeps as a comment; a route that goes away stays in it.
WriteTablesPort(r, cells, hops, gone) ==
  /\ dv_map' = [dv_map EXCEPT ![r] = Merged(@, cells, gone)]
  /\ forwarding_table' = [forwarding_table EXCEPT ![r] =
       Merged(@, [d \in DOMAIN hops |-> direct_neighbors'[r][hops[d]].port], gone)]
WriteTablesKeepHop(r, cells, hops, gone) ==
  /\ dv_map' = [dv_map EXCEPT ![r] = Merged(@, cells, gone)]
  /\ forwarding_table' = [forwarding_table EXCEPT ![r] = Merged(@, hops, {})]

\* The end of a handler: cells and hops were written to dv_map and to
\* forwarding_table, gone was erased from both.
WriteTables(r, cells, hops, gone) ==
  /\ dv_map' = [dv_map EXCEPT ![r] = Merged(@, cells, gone)]
  /\ forwarding_table' = [forwarding_table EXCEPT ![r] = Merged(@, hops, gone)]

\* The 16 bits of a cost that a DVPair holds.
Bits16(cost) == cost % COST_MOD

\* What the handler says of the destinations in said.
Told(r, said, gone) ==
  [d \in said |-> IF d \in gone THEN INFINITY_COST ELSE Bits16(dv_map'[r][d].cost)]

\* Two slips: the port that the handler found to be connected is left out, and
\* changes wait for the next periodic update.
SendBeforeConnect(w, r, costs, again) ==
  wire' = IF DOMAIN costs = {} THEN w ELSE Posted(w, r, connected[r], DV(costs, again))
SendLater(w, r, costs, again) == wire' = w

\* sendDVUpdate on every connected port, if there is something to say.
SendDVUpdate(w, r, costs, again) ==
  wire' = IF DOMAIN costs = {} THEN w ELSE Posted(w, r, connected'[r], DV(costs, again))

-----------------------------------------------------------------------------
(* recv *)

\* A PING is answered and changes nothing else.
RecvPing(r, l) ==
  /\ Arrives(r, l, "PING")
  /\ wire' = Posted(Taken(wire, r, l), r, {l}, Pong)
  /\ silent' = IF alive[l] THEN silent ELSE [silent EXCEPT ![Far(r, l)] = @ \cup {l}]
  /\ UNCHANGED <<alive, rtt, rtts, faults, tableVars>>

\* A slip: other ports to the same router stay connected.
ConnectedAlso(r, l) == {l} \cup connected[r]

\* The ports that a PONG on port l shows to be connected: l, and no other
\* port to the same router.
ConnectedBy(r, l) ==
  {l} \cup {p \in connected[r] : Far(r, p) # Far(r, l)}

\* What a PONG may measure: the delay of the link when the PING was sent and
\* that when the PONG was, each half a round-trip time that the link has had.
RoundTrips(l) == {(s + t) \div 2 : s, t \in rtts[l]}

\* A PONG measures the link: routes over it follow the change, a direct link
\* that is as short replaces a route, a new neighbour gets an entry.
PongMeasures(r, l, rrt) ==
  LET src      == Far(r, l)
      dv       == dv_map[r]
      nbrs     == Merged(direct_neighbors[r], [n \in {src} |-> Neighbor(l, rrt)], {})
      diff     == rrt - port_cost[r][l]
      may(d)   == (dv[d].cost + diff) % COST_MOD
      mine     == {d \in DOMAIN dv : diff # 0 /\ dv[d].next_hop = src}
      toDirect == {d \in mine : d \in DOMAIN nbrs /\ nbrs[d].cost <= may(d)}
      moved    == mine \ DOMAIN nbrs
      better   == {d \in DOMAIN dv : diff # 0 /\ d = src /\ dv[d].next_hop # src /\ rrt <= dv[d].cost}
      new      == {src} \ DOMAIN dv
      again    == diff # 0 /\ l \notin connected[r]
      said     == IF new # {} \/ again THEN DOMAIN dv \cup new ELSE mine \cup better
  IN /\ Arrives(r, l, "PONG")
     /\ connected' = [connected EXCEPT ![r] = ConnectedBy(r, l)]
     /\ port_cost' = [port_cost EXCEPT ![r][l] = rrt]
     /\ direct_neighbors' = [direct_neighbors EXCEPT ![r] = nbrs]
     /\ WriteTables(r,
          [d \in toDirect \cup moved \cup better \cup new |->
             CASE d \in toDirect -> Cell(d, nbrs[d].cost)
               [] d \in moved    -> Cell(src, may(d))
               [] OTHER          -> Cell(src, rrt)],
          [d \in toDirect \cup better \cup new |-> IF d \in toDirect THEN d ELSE src],
          {})
     /\ SendDVUpdate(Taken(wire, r, l), r, Told(r, said, {}),
                     Told(r, IF new # {} THEN mine \cup better ELSE {}, {}))
     /\ silent' = [silent EXCEPT ![r] = @ \ {l}]
     /\ UNCHANGED <<alive, rtt, rtts, faults>>

RecvPong(r, l) == \E rrt \in RoundTrips(l) : PongMeasures(r, l, rrt)

\* The cost of the link to the sender of a packet, if it is not known from a
\* PONG: the cost the packet gives for r, or no defined value.
LinkCosts(r, src, costs) ==
  IF src \in DOMAIN direct_neighbors[r] THEN {direct_neighbors[r][src].cost}
  ELSE IF r \in DOMAIN costs THEN {costs[r]}
  ELSE Garbage

\* A slip: r learns of a route to itself.
DiscoveredSelf(r, dv, finite) == finite \ DOMAIN dv

\* The destinations with a finite cost that r learns of.
Discovered(r, dv, finite) == (finite \ DOMAIN dv) \ {r}

\* A slip: the link is not counted.
ThroughUncounted(cost, link_cost) == cost

\* The cost of a route through a neighbour that says cost.
Through(cost, link_cost) == cost + link_cost

Finite(costs) == {d \in DOMAIN costs : costs[d] # INFINITY_COST}

\* The destinations that r reaches over src, and that src has no route to.
Withdrawn(t, src, costs) ==
  {d \in DOMAIN t.dv \cap (DOMAIN costs \ Finite(costs)) : t.dv[d].next_hop = src}

\* Those to which src says a shorter way, and those to which it still is the way.
Better(t, src, nbrs, costs) ==
  {d \in Finite(costs) \cap DOMAIN t.dv : t.dv[d].cost > Through(costs[d], nbrs[src].cost)}
Same(t, src, nbrs, costs) ==
  {d \in (Finite(costs) \cap DOMAIN t.dv) \ Better(t, src, nbrs, costs) : t.dv[d].next_hop = src}

\* Those that go to the direct link instead, and those that go to src.
ToDirect(t, src, nbrs, costs) ==
  {d \in Same(t, src, nbrs, costs) \cap DOMAIN nbrs : nbrs[d].cost <= Through(costs[d], nbrs[src].cost)}
    \cup (Withdrawn(t, src, costs) \cap DOMAIN nbrs)
ToSource(t, r, src, nbrs, costs) ==
  Better(t, src, nbrs, costs) \cup (Same(t, src, nbrs, costs) \ ToDirect(t, src, nbrs, costs))
    \cup Discovered(r, t.dv, Finite(costs))

\* r, whose tables are t.dv and t.ft and whose direct neighbours are nbrs, goes
\* through the costs that src says.  told: what it will tell of them; kept: the
\* destinations it tells its own route to, twice, as src has none.
Heard(t, r, src, nbrs, costs) ==
  LET infinite == DOMAIN t.dv \cap (DOMAIN costs \ Finite(costs))
      toDirect == ToDirect(t, src, nbrs, costs)
      gone     == Withdrawn(t, src, costs) \ DOMAIN nbrs
      cells    == [d \in toDirect \cup ToSource(t, r, src, nbrs, costs) |->
                     IF d \in toDirect THEN Cell(d, nbrs[d].cost)
                     ELSE Cell(src, Through(costs[d], nbrs[src].cost))]
      dv       == Merged(t.dv, cells, gone)
  IN [dv   |-> dv,
      ft   |-> Merged(t.ft, [d \in DOMAIN cells |-> IF d \in toDirect THEN d ELSE src], gone),
      told |-> [d \in DOMAIN cells \cup infinite |->
                  IF d \in gone THEN INFINITY_COST ELSE Bits16(dv[d].cost)],
      kept |-> infinite \ Withdrawn(t, src, costs)]

\* A distance vector arrives from the router behind port l.
RecvDV(r, l) ==
  LET src    == Far(r, l)
      packet == Head(wire[l][r])
  IN /\ Arrives(r, l, "DV")
     /\ \E link_cost \in LinkCosts(r, src, packet.costs) :
          LET nbrs  == Merged([n \in {src} |-> Neighbor(l, link_cost)], direct_neighbors[r], {})
              t     == [dv |-> dv_map[r], ft |-> forwarding_table[r]]
              once  == Heard(t, r, src, nbrs, packet.costs)
              twice == Heard(once, r, src, nbrs, packet.again)
              both  == DOMAIN once.told \cap DOMAIN twice.told
          IN /\ direct_neighbors' = [direct_neighbors EXCEPT ![r] = nbrs]
             /\ dv_map' = [dv_map EXCEPT ![r] = twice.dv]
             /\ forwarding_table' = [forwarding_table EXCEPT ![r] = twice.ft]
             /\ UNCHANGED connected
             /\ SendDVUpdate(Taken(wire, r, l), r,
                  Merged(twice.told, once.told, {}),
                  [d \in both \cup once.kept |-> Merged(once.told, twice.told, {})[d]])
     /\ UNCHANGED <<alive, rtt, rtts, silent, faults, port_cost>>

\* A slip: the packet goes to some neighbour.
ForwardedAnywhere(w, r, dest) ==
  IF dest = r \/ dest \notin DOMAIN forwarding_table[r] THEN w
  ELSE LET hop == CHOOSE n \in DOMAIN direct_neighbors[r] : TRUE
       IN Posted(w, r, {direct_neighbors[r][hop].port}, Data(dest))

\* recvDATA: a packet for r stays here, one without a route is dropped, any
\* other goes to the next hop, which is a direct neighbour (NextHopKnown).
Forwarded(w, r, dest) ==
  IF dest = r \/ dest \notin DOMAIN forwarding_table[r] THEN w
  ELSE LET hop == forwarding_table[r][dest]
       IN Posted(w, r, {direct_neighbors[r][hop].port}, Data(dest))

RecvData(r, l) ==
  /\ Arrives(r, l, "DATA")
  /\ wire' = Forwarded(Taken(wire, r, l), r, Head(wire[l][r]).dest)
  /\ UNCHANGED <<alive, rtt, rtts, silent, faults, tableVars>>

\* Event_Xmit_Pkt_End_To_End_Generic: recv with a packet that r itself sends.
SendData(r, dest) ==
  /\ dest \in DOMAIN forwarding_table[r]
  /\ wire' = Forwarded(wire, r, dest)
  /\ UNCHANGED <<alive, rtt, rtts, silent, faults, tableVars>>

-----------------------------------------------------------------------------
(* handle_alarm *)

\* 'p', every 10 s: by then the answers of the last round are in or lost.
PingAlarm(r) ==
  /\ \A l \in PortsOf(r) : ~ Pinging(r, l)
  /\ wire' = Posted(wire, r, PortsOf(r), Ping)
  /\ silent' = [silent EXCEPT ![r] = @ \cup {l \in PortsOf(r) : ~ alive[l]}]
  /\ UNCHANGED <<alive, rtt, rtts, faults, tableVars>>

\* The entries that may have got no update for 45 s: their next hop is
\* behind no connected port, and no PONG came from it.
Stale(r, ports) ==
  {d \in DOMAIN dv_map[r] :
     \A l \in PortsOf(r) :
       Far(r, l) = dv_map[r][d].next_hop => l \in silent[r] \ ports}

\* A slip: only the routes to the lost neighbours themselves are dropped.
OverDirect(r, lost) == DOMAIN dv_map[r] \cap lost

\* The destinations that r reaches over the neighbours in lost.
Over(r, lost) == {d \in DOMAIN dv_map[r] : dv_map[r][d].next_hop \in lost}

\* 'e', every second: ports without a PONG for 15 s are declared dead, and
\* routes over them, like routes without an update for 45 s, are replaced
\* by the direct link or removed.
RefreshDV(r) ==
  \E dead \in SUBSET (connected[r] \cap silent[r]) :
    LET lost == {Far(r, l) : l \in dead}
        nbrs == Merged(direct_neighbors[r], NoEntry, lost)
        over == Over(r, lost)
    IN \E old \in SUBSET (Stale(r, connected[r]) \ over) :
         LET hit      == over \cup old
             toDirect == hit \cap DOMAIN nbrs
             gone     == hit \ DOMAIN nbrs
         IN /\ dead # {} \/ old # {}
            /\ connected' = [connected EXCEPT ![r] = @ \ dead]
            /\ port_cost' = [port_cost EXCEPT ![r] = [l \in Links |-> IF l \in dead THEN 0 ELSE @[l]]]
            /\ direct_neighbors' = [direct_neighbors EXCEPT ![r] = nbrs]
            /\ WriteTables(r, [d \in toDirect |-> Cell(d, nbrs[d].cost)], [d \in toDirect |-> d], gone)
            /\ SendDVUpdate(wire, r, Told(r, hit, gone), NoEntry)
            /\ UNCHANGED <<alive, rtt, rtts, silent, faults>>

\* 'u', every 30 s: the whole table is sent, also when it is empty.
UpdateAlarm(r) ==
  /\ wire' = Posted(wire, r, connected[r],
               DV([d \in DOMAIN dv_map[r] |-> Bits16(dv_map[r][d].cost)], NoEntry))
  /\ UNCHANGED <<alive, rtt, rtts, silent, faults, tableVars>>
=============================================================================
