----------------------------- MODULE Simulation -----------------------------
(***************************************************************************)
(* project3: the simulator runs the routers: Simulator::run, Event, Link   *)
(* and Node, and of the routers what depends on time: the three alarms,    *)
(* PING and PONG, and the ports that expire.  What the handlers do to      *)
(* their routes is in Router; here it is shown what Router and LinkLayer   *)
(* take for granted of the time that they leave out.                       *)
(***************************************************************************)
EXTENDS ConfigFile

CONSTANT LOSS_CAP   \* bound: packets lost by chance

VARIABLES
  protocol_type,  \* "DV" or "LS", from the command line
  ports,          \* ports[n][p]: to, connected and updated of port p of node n
  losses,         \* packets lost by chance
  silent,         \* history: <<n, p>> lost a PING or PONG after its last PONG
  clean           \* history: clean[l]: when link l last lost a packet or changed

routerVars == <<protocol_type, ports, losses, silent, clean>>
vars == <<queueVars, pc, tableVars, fileVars, routerVars>>

Port(to, up, updated) == [to |-> to, connected |-> up, updated |-> updated]
PortsOf(n) == 1 .. Len(link_vector[n])

\* A slip: a PING every 10 s leaves no more time than that.
DeadAfterTen == 10

\* refreshDV: a connected port whose last PONG is more than 15 s old.
DeadAfter == 15
Expired(port, now) == port.connected /\ Age(now, port.updated) > DeadAfter
Refreshed(port, now) == [port EXCEPT !.connected = @ /\ ~ Expired(port, now)]

-----------------------------------------------------------------------------
(* Node. *)

\* A slip: the number of the link is taken for the port.
LinkPortIndex(n, l) == l

\* The node at the other end, and the port there: 0 if the link is not in its
\* link_vector, for which get_link_port gives up.
Recipient(n, l) == IF links[l].node1 = n THEN links[l].node2 ELSE links[l].node1
LinkPort(n, l) == IF l \in Range(link_vector[n]) THEN SelectInSeq(link_vector[n], LAMBDA k : k = l) ELSE 0

\* Event_Xmit_Pkt_On_Link of a packet that node n sends on port p.
Send(n, p, type, stamp, now) ==
  LET l  == link_vector[n][p]
      to == Recipient(n, l)
  IN [kind |-> "onlink", time |-> now, link |-> l, node |-> to, port |-> LinkPort(to, l),
      type |-> type, from |-> n, stamp |-> stamp]

Alarm(n, data, duration, now) ==
  [kind |-> "alarm", time |-> After(now, duration), node |-> n, data |-> data]

\* generatePingPongMsg
Pings(n, now) == [p \in PortsOf(n) |-> Send(n, p, "PING", now, now)]

\* The events are pushed; get_link_port ends the program if there is no port
\* at which a packet could arrive.
Emit(events, next) ==
  IF \E k \in DOMAIN events : events[k].kind = "onlink" /\ events[k].port = 0
    THEN pc' = "portless" /\ UNCHANGED <<event_q, top>>
    ELSE Push(events) /\ pc' = next

-----------------------------------------------------------------------------
(* init_routing_protocol *)

\* RoutingProtocolImpl::init for one node after another, in any order.
InitRouting ==
  LET first(n) == Pings(n, global_time) \o
                  << Alarm(n, "p", 10, global_time), Alarm(n, "u", 30, global_time),
                     Alarm(n, "e", 1, global_time) >>
  IN /\ pc = "boot"
     /\ null_nodes = {}
     /\ \E order \in SetToSeqs(node_table) :
          Emit(FlattenSeq([k \in 1 .. Len(order) |-> first(order[k])]), "run")
     /\ ports' = [n \in NodeIds |-> [p \in PortsOf(n) |-> Port(0, FALSE, 0)]]
     /\ clean' = [l \in DOMAIN links |-> global_time]
     /\ UNCHANGED <<global_time, curr_event, tableVars, fileVars, protocol_type, losses, silent>>

\* A node that xmit named and nobody defined is a NULL pointer.
InitNull ==
  /\ pc = "boot"
  /\ null_nodes # {}
  /\ pc' = "crashed"
  /\ UNCHANGED <<queueVars, tableVars, fileVars, routerVars>>

-----------------------------------------------------------------------------
(* The dispatch of the top event, with global_time set to its time. *)

\* run() up to pop(): e is the event that is dispatched.
Taken(e) ==
  /\ pc = "run"
  /\ e = top /\ e # NoEvent
  /\ global_time' = e.time
  /\ curr_event' = e

LinkEvents == {"linkdying", "linkcomingup", "changedelay"}

\* An event of a link that the file does not define.
DispatchNull(e) ==
  /\ Taken(e)
  /\ e.kind \in LinkEvents /\ e.link = 0
  /\ pc' = "crashed"
  /\ UNCHANGED <<event_q, top, tableVars, fileVars, routerVars>>

DispatchLink(e) ==
  /\ Taken(e)
  /\ e.kind \in LinkEvents /\ e.link # 0
  /\ links' = CASE e.kind = "linkdying"    -> [links EXCEPT ![e.link].alive = FALSE]
                [] e.kind = "linkcomingup" -> [links EXCEPT ![e.link].alive = TRUE]
                [] e.kind = "changedelay"  -> [links EXCEPT ![e.link].delay = e.delay]
  /\ clean' = [clean EXCEPT ![e.link] = e.time]
  /\ pc' = "pop"
  /\ UNCHANGED <<event_q, top, node_table, null_nodes, link_table, link_vector,
                 fileVars, protocol_type, ports, losses, silent>>

\* A DATA packet goes where the routes lead (Router) and changes no port.
DispatchXmit(e) ==
  /\ Taken(e)
  /\ e.kind = "xmit"
  /\ pc' = "pop"
  /\ UNCHANGED <<event_q, top, tableVars, fileVars, routerVars>>

\* A packet enters a link that is up and is not lost there.
DispatchOnLink(e) ==
  /\ Taken(e)
  /\ e.kind = "onlink"
  /\ links[e.link].alive
  /\ links[e.link].loss # "always"
  /\ Push(<<[e EXCEPT !.kind = "recv", !.time = After(e.time, links[e.link].delay)]>>)
  /\ pc' = "pop"
  /\ UNCHANGED <<tableVars, fileVars, routerVars>>

\* It is lost: silent notes the port that waits for it or for its answer.
DispatchLost(e) ==
  LET link == links[e.link]
  IN /\ Taken(e)
     /\ e.kind = "onlink"
     /\ \/ (~ link.alive \/ link.loss = "always") /\ UNCHANGED losses
        \/ /\ link.alive /\ link.loss = "sometimes"
           /\ losses < LOSS_CAP /\ losses' = losses + 1
     /\ silent' = silent \cup
          {IF e.type = "PING" THEN <<e.from, LinkPort(e.from, e.link)>> ELSE <<e.node, e.port>>}
     /\ clean' = [clean EXCEPT ![e.link] = e.time]
     /\ pc' = "pop"
     /\ UNCHANGED <<event_q, top, tableVars, fileVars, protocol_type, ports>>

\* A PING goes back as a PONG with the stamp it came with.
DispatchPing(e) ==
  /\ Taken(e)
  /\ e.kind = "recv" /\ e.type = "PING"
  /\ Emit(<<Send(e.node, e.port, "PONG", e.stamp, e.time)>>, "pop")
  /\ UNCHANGED <<tableVars, fileVars, routerVars>>

\* A PONG connects its port and no other port to the same node.
DispatchPong(e) ==
  /\ Taken(e)
  /\ e.kind = "recv" /\ e.type = "PONG"
  /\ ports' = [ports EXCEPT ![e.node] = [p \in PortsOf(e.node) |->
       IF p = e.port THEN Port(e.from, TRUE, e.time)
       ELSE IF @[p].to = e.from THEN [@[p] EXCEPT !.connected = FALSE]
       ELSE @[p]]]
  /\ silent' = silent \ {<<e.node, e.port>>}
  /\ pc' = "pop"
  /\ UNCHANGED <<event_q, top, tableVars, fileVars, protocol_type, losses, clean>>

\* Slips: the alarm that looks for dead ports waits as long as that for PINGs;
\* the alarm for updates starts the one for PINGs.
NextAlarmSlow(n, data, now) ==
  CASE data = "e" -> Alarm(n, "e", 10, now)
    [] data = "p" -> Alarm(n, "p", 10, now)
    [] data = "u" -> Alarm(n, "u", 30, now)
NextAlarmMixed(n, data, now) ==
  CASE data = "e" -> Alarm(n, "e", 1, now)
    [] data = "p" -> Alarm(n, "p", 10, now)
    [] data = "u" -> Alarm(n, "p", 30, now)

\* The alarm that a handler sets at its end.
NextAlarm(n, data, now) ==
  CASE data = "e" -> Alarm(n, "e", 1, now)
    [] data = "p" -> Alarm(n, "p", 10, now)
    [] data = "u" -> Alarm(n, "u", 30, now)

\* handle_alarm; with another protocol than DV no port expires.
DispatchAlarm(e) ==
  LET n == e.node
  IN /\ Taken(e)
     /\ e.kind = "alarm"
     /\ ports' = IF e.data = "e" /\ protocol_type = "DV"
                   THEN [ports EXCEPT ![n] = [p \in PortsOf(n) |-> Refreshed(ports[n][p], e.time)]]
                   ELSE ports
     /\ Emit((IF e.data = "p" THEN Pings(n, e.time) ELSE <<>>) \o <<NextAlarm(n, e.data, e.time)>>, "pop")
     /\ UNCHANGED <<tableVars, fileVars, protocol_type, losses, silent, clean>>

\* pop(), delete, and the test for the end.
PopEvent ==
  /\ pc = "pop"
  /\ Pop
  /\ pc' = IF stop_time # 0 /\ global_time > stop_time THEN "ended" ELSE "run"
  /\ curr_event' = NoEvent
  /\ UNCHANGED <<global_time, tableVars, fileVars, routerVars>>

\* The queue is empty.
NoMoreEvents ==
  /\ pc = "run"
  /\ top = NoEvent
  /\ pc' = "ended"
  /\ UNCHANGED <<queueVars, tableVars, fileVars, routerVars>>

Dispatch ==
  \E e \in {top} :
    \/ DispatchNull(e)
    \/ DispatchLink(e)
    \/ DispatchXmit(e)
    \/ DispatchOnLink(e)
    \/ DispatchLost(e)
    \/ DispatchPing(e)
    \/ DispatchPong(e)
    \/ DispatchAlarm(e)

-----------------------------------------------------------------------------
(* The whole program. *)

SimInit ==
  /\ protocol_type \in {"DV", "LS"}
  /\ ports = [n \in NodeIds |-> <<>>]
  /\ losses = 0
  /\ silent = {}
  /\ clean = <<>>

Init == QueueInit /\ FileInit /\ SimInit

\* The program has ended, or reads the end of the file for ever.
Stopped ==
  /\ pc \in {"spin", "ended", "refused", "crashed", "portless"}
  /\ UNCHANGED vars

Reading == (ReadLine \/ EndOfFile) /\ UNCHANGED routerVars

Next ==
  \/ Reading
  \/ InitRouting
  \/ InitNull
  \/ Dispatch
  \/ NoMoreEvents
  \/ PopEvent
  \/ Stopped

Spec == Init /\ [][Next]_vars

\* A program with one thread goes on.
FairSpec == Spec /\ WF_vars(Next)

-----------------------------------------------------------------------------
(* Properties. *)

\* The tables, the queue and the ports keep their types; every packet in the
\* queue is on a link of the file and bound for a port of one of its nodes.
TypeOK ==
  /\ pc \in {"init", "boot", "run", "pop", "spin", "ended", "refused", "crashed", "portless"}
  /\ node_table \subseteq NodeIds
  /\ \A pair \in DOMAIN link_table : link_table[pair] \in DOMAIN links
  /\ \A n \in NodeIds : Range(link_vector[n]) \subseteq DOMAIN links
  /\ global_time \in 0 .. TIME_MOD - 1
  /\ \A e \in BagToSet(event_q) :
       /\ e.time \in 0 .. TIME_MOD - 1
       /\ e.kind \in {"onlink", "recv"} =>
            e.link \in DOMAIN links /\ e.node \in node_table /\ e.port \in PortsOf(e.node)
  /\ \A n \in NodeIds : \A p \in DOMAIN ports[n] :
       ports[n][p].connected => ports[n][p].to \in node_table

\* The event that pop() removes, and delete frees, is the one that was
\* dispatched: nothing that dispatch pushes takes the top of the heap, for
\* nothing is pushed, or left behind, for a time that has passed.
PoppedIsDispatched ==
  /\ pc = "pop" => top = curr_event
  /\ pc \in {"run", "pop"} => \A e \in BagToSet(event_q) : e.time >= global_time

\* While the simulator runs, every router has exactly one alarm of each kind
\* to come, and it is due within its period.
OneAlarmEach ==
  pc = "run" =>
    \A n \in node_table : \A data \in {"e", "p", "u"} :
      LET due == {e \in BagToSet(event_q) : e.kind = "alarm" /\ e.node = n /\ e.data = data}
      IN /\ Cardinality(due) = 1
         /\ \A e \in due :
              /\ Copies(event_q, e) = 1
              /\ e.time - global_time <= CASE data = "e" -> 1 [] data = "p" -> 10 [] data = "u" -> 30

\* What Router takes for granted: a port is declared dead only if a PING or a
\* PONG of it was lost since its last PONG, however the delay of the link changes.
ExpiryNeedsLoss ==
  [][\A n \in NodeIds : \A p \in DOMAIN ports[n] :
       top.kind = "alarm" /\ ports[n][p].connected /\ ~ ports[n][p].connected'
         => <<n, p>> \in silent]_vars

\* The largest delay that a link ever has.
MaxDelay == 2

\* The ports follow the links.  A port is dead at the latest 16 s after its
\* last PONG; a neighbour is connected again once a link to it has worked for
\* the time between two PINGs and a round trip, over one of the links to it.
PortsFollowLinks ==
  pc = "run" =>
    \A n \in node_table : \A p \in PortsOf(n) :
      LET l == link_vector[n][p]
      IN /\ protocol_type = "DV" /\ ports[n][p].connected =>
              Age(global_time, ports[n][p].updated) <= 16
         /\ links[l].alive /\ global_time > clean[l] + 10 + 2 * MaxDelay =>
              \E q \in PortsOf(n) : ports[n][q].connected /\ ports[n][q].to = Recipient(n, l)

\* Node.cc:52: "Unable to find link port number, this is bad."  It does not
\* happen: a link that reading the file gave to a node is known at its other end.
PortsFound == pc # "portless"

\* What a file should look like: nodes, links between them, events of these
\* links and an end.
WellFormed(file) ==
  LET f == SelectSeq(file, LAMBDA line : line.kind # "blank")
      Header(title) == [kind |-> "header", title |-> title]
  IN \E j, k \in 3 .. Len(f) :
       /\ j < k /\ f[1] = Header("nodes") /\ f[j] = Header("links") /\ f[k] = Header("events")
       /\ LET nodes == UNION {Range(f[i].ids) : i \in 2 .. j - 1}
              pairs == {{f[i].from, f[i].to} : i \in j + 1 .. k - 1}
          IN /\ \A i \in 2 .. j - 1 : f[i].kind = "nodes"
             /\ \A i \in j + 1 .. k - 1 : f[i].kind = "link"
             /\ UNION pairs \subseteq nodes
             /\ \A i \in k + 1 .. Len(f) :
                  CASE f[i].kind \in LinkEvents -> {f[i].src, f[i].dst} \in pairs
                    [] f[i].kind = "xmit" -> {f[i].src, f[i].dst} \subseteq nodes
                    [] OTHER -> f[i].kind = "end"
             /\ \E i \in k + 1 .. Len(f) : f[i].kind = "end" /\ f[i].time > 0

\* A file like that is read to its end, and the simulation comes to its own.
RunEnds == WellFormed(lines) => <>(pc = "ended")
=============================================================================
