--------------------------- MODULE DvRoutesProofs ---------------------------
(***************************************************************************)
(* While nothing is lost and no link changes, every route rests on a       *)
(* shorter one of its next hop, in every network of single links with      *)
(* round-trip times above zero whose longest simple path costs less than   *)
(* an infinite cost.                                                       *)
(*                                                                         *)
(* A route is made from what a neighbour said some time ago, so the        *)
(* invariant speaks of the packets under way between each two neighbours:  *)
(* what is under way was true when it was sent, what is said later is not  *)
(* worse, and a route rests on the table of its next hop and on all that   *)
(* is still under way from there.  That holds because costs never rise,    *)
(* which needs two more parts: no vector arrives on a port that no PONG    *)
(* has measured yet, and no cost reaches INFINITY_COST, as every cost is   *)
(* that of a path on which no router comes twice.                          *)
(***************************************************************************)
EXTENDS DvPacketsProofs, FiniteSetTheorems

\* The networks the theorem is about: no two links connect the same routers;
\* no link has a round-trip time of zero or of more than W, and a path through
\* all routers costs less than an infinite cost.
SingleLinks == \A l, m \in Links : Ends[l] = Ends[m] => l = m

CostsFit(W) ==
  /\ W \in Nat
  /\ IsFiniteSet(Routers)
  /\ \A l \in Links : Rtt[l] \subseteq 1 .. W
  /\ (Cardinality(Routers) - 1) * W < INFINITY_COST

-----------------------------------------------------------------------------
(* The invariant. *)

\* Packet p says something of d.
Names(p, d) == p.type = "DV" /\ d \in DOMAIN p.costs

\* What is under way from a router with table dvn, in the order in which it
\* was sent: nothing is said twice in a packet, nothing better than what is in
\* the table now, and nothing worse than what was said before.
Current(q, dvn) ==
  \A k \in 1 .. Len(q) :
    /\ q[k].type = "DV" => DOMAIN q[k].again = {}
    /\ \A d \in Routers : Names(q[k], d) =>
         /\ d \in DOMAIN dvn /\ dvn[d].cost <= q[k].costs[d]
         /\ \A j \in 1 .. k - 1 : Names(q[j], d) => q[k].costs[d] <= q[j].costs[d]

\* Routes over neighbour n, at the given distance, rest on the table dvn of n
\* and on what is under way from n.
RestOn(q, dvn, dv, n, distance) ==
  \A d \in DOMAIN dv : dv[d].next_hop = n /\ d # n =>
    /\ d \in DOMAIN dvn /\ distance + dvn[d].cost <= dv[d].cost
    /\ \A k \in 1 .. Len(q) : Names(q[k], d) => distance + q[k].costs[d] <= dv[d].cost

\* A cost of h for d is that of a path without a router that comes twice: all
\* routers on it have a route to d that is not longer.
Path(W, tables, h, d, cost) ==
  \E S \in SUBSET Routers :
    /\ h \in S /\ d \in S
    /\ cost <= (Cardinality(S) - 1) * W
    /\ \A y \in S \ {d} : d \in DOMAIN tables[y] /\ tables[y][d].cost <= cost

\* A PING that will be answered, a PONG that comes before any vector.
Asked(q) ==
  \E k \in 1 .. Len(q) : q[k].type = "PING" /\ \A j \in 1 .. k - 1 : q[j].type # "PONG"
Answered(q) ==
  \E k \in 1 .. Len(q) : q[k].type = "PONG" /\ \A j \in 1 .. k - 1 : q[j].type # "DV"
NoVector(q) == \A k \in 1 .. Len(q) : q[k].type # "DV"

\* r has had a PONG on port l, or gets one there before it gets a vector.
Shaken(r, l) ==
  \/ l \in connected[r]
  \/ Answered(wire[l][r])
  \/ l \notin connected[Far(r, l)] /\ NoVector(wire[l][r]) /\ Asked(wire[l][Far(r, l)])

\* What r knows of the router behind port l, before and after the first PONG.
Measured(r, l) ==
  /\ l \in connected[r] =>
       /\ Far(r, l) \in DOMAIN direct_neighbors[r]
       /\ direct_neighbors[r][Far(r, l)].cost = rtt[l]
       /\ port_cost[r][l] = rtt[l]
       /\ Far(r, l) \in DOMAIN dv_map[r]
  /\ l \notin connected[r] => Far(r, l) \notin DOMAIN direct_neighbors[r]

Undisturbed ==
  /\ \A l \in Links : alive[l] /\ rtt[l] \in Rtt[l] /\ rtts[l] = {rtt[l]}
  /\ \A r \in Routers : silent[r] = {}

Met == \A r \in Routers : \A l \in PortsOf(r) : Shaken(r, l) /\ Measured(r, l)

Spoken ==
  \A r \in Routers : \A l \in PortsOf(r) :
    /\ Current(wire[l][r], dv_map[Far(r, l)])
    /\ RestOn(wire[l][r], dv_map[Far(r, l)], dv_map[r], Far(r, l), rtt[l])

ListedPaths(W) ==
  \A r \in Routers : \A d \in DOMAIN dv_map[r] : Path(W, dv_map, r, d, dv_map[r][d].cost)

SaidPaths(W) ==
  \A r \in Routers : \A l \in PortsOf(r) : \A k \in 1 .. Len(wire[l][r]) : \A d \in Routers :
    Names(wire[l][r][k], d) => Path(W, dv_map, Far(r, l), d, wire[l][r][k].costs[d])

RoutesInv(W) == Undisturbed /\ Met /\ Spoken /\ ListedPaths(W) /\ SaidPaths(W)

-----------------------------------------------------------------------------
(* Queues. *)

\* What a packet says of a destination is a number.
LEMMA NamesCost ==
  ASSUME NEW p \in AnyPacket, NEW d, Names(p, d)
  PROVE  d \in Routers /\ p.costs[d] \in Nat
<1>1. p.costs \in Vectors
  BY DEF Names, AnyPacket, Ping, Pong, Data
<1> QED BY <1>1, VectorValues DEF Names

\* The packets of a queue without its first one, and with one more.
LEMMA TailAt ==
  ASSUME NEW q \in Seq(AnyPacket), q # <<>>
  PROVE  /\ Tail(q) \in Seq(AnyPacket) /\ Len(Tail(q)) = Len(q) - 1 /\ Len(q) \in Nat \ {0}
         /\ Head(q) = q[1] /\ 1 \in 1 .. Len(q)
         /\ \A k \in 1 .. Len(Tail(q)) : Tail(q)[k] = q[k + 1] /\ k + 1 \in 1 .. Len(q)
OBVIOUS

LEMMA AppendAt ==
  ASSUME NEW q \in Seq(AnyPacket), NEW p \in AnyPacket
  PROVE  /\ Append(q, p) \in Seq(AnyPacket) /\ Len(Append(q, p)) = Len(q) + 1 /\ Len(q) \in Nat
         /\ Append(q, p)[Len(q) + 1] = p
         /\ \A k \in 1 .. Len(q) : Append(q, p)[k] = q[k] /\ q[k] \in AnyPacket
OBVIOUS

\* The handshake in a queue whose first packet is taken.
LEMMA AskedTail ==
  ASSUME NEW q \in Seq(AnyPacket), q # <<>>, Asked(q)
  PROVE  Head(q).type # "PONG" /\ (Head(q).type # "PING" => Asked(Tail(q)))
<1>1. PICK k \in 1 .. Len(q) : q[k].type = "PING" /\ \A j \in 1 .. k - 1 : q[j].type # "PONG"
  BY DEF Asked
<1>2. Head(q).type # "PONG"
  <2>1. CASE k = 1
    BY <1>1, <2>1, TailAt
  <2>2. CASE k # 1
    <3>1. 1 \in 1 .. k - 1
      BY <2>2
    <3> QED BY <1>1, <3>1, TailAt
  <2> QED BY <2>1, <2>2
<1>3. ASSUME Head(q).type # "PING"
      PROVE  Asked(Tail(q))
  <2>1. k # 1
    BY <1>1, <1>3, TailAt
  <2>2. k - 1 \in 1 .. Len(Tail(q)) /\ Tail(q)[k - 1].type = "PING"
    BY <1>1, <2>1, TailAt
  <2>3. ASSUME NEW j \in 1 .. (k - 1) - 1
        PROVE  Tail(q)[j].type # "PONG"
    <3>1. j \in 1 .. Len(Tail(q)) /\ j + 1 \in 1 .. k - 1
      BY <2>2, <2>3, TailAt
    <3>2. Tail(q)[j] = q[j + 1]
      BY <3>1, TailAt
    <3> QED BY <1>1, <3>1, <3>2
  <2> QED BY <2>2, <2>3 DEF Asked
<1> QED BY <1>2, <1>3

LEMMA AnsweredTail ==
  ASSUME NEW q \in Seq(AnyPacket), q # <<>>, Answered(q)
  PROVE  Head(q).type # "DV" /\ (Head(q).type # "PONG" => Answered(Tail(q)))
<1>1. PICK k \in 1 .. Len(q) : q[k].type = "PONG" /\ \A j \in 1 .. k - 1 : q[j].type # "DV"
  BY DEF Answered
<1>2. Head(q).type # "DV"
  <2>1. CASE k = 1
    BY <1>1, <2>1, TailAt
  <2>2. CASE k # 1
    <3>1. 1 \in 1 .. k - 1
      BY <2>2
    <3> QED BY <1>1, <3>1, TailAt
  <2> QED BY <2>1, <2>2
<1>3. ASSUME Head(q).type # "PONG"
      PROVE  Answered(Tail(q))
  <2>1. k # 1
    BY <1>1, <1>3, TailAt
  <2>2. k - 1 \in 1 .. Len(Tail(q)) /\ Tail(q)[k - 1].type = "PONG"
    BY <1>1, <2>1, TailAt
  <2>3. ASSUME NEW j \in 1 .. (k - 1) - 1
        PROVE  Tail(q)[j].type # "DV"
    <3>1. j \in 1 .. Len(Tail(q)) /\ j + 1 \in 1 .. k - 1
      BY <2>2, <2>3, TailAt
    <3>2. Tail(q)[j] = q[j + 1]
      BY <3>1, TailAt
    <3> QED BY <1>1, <3>1, <3>2
  <2> QED BY <2>2, <2>3 DEF Answered
<1> QED BY <1>2, <1>3

LEMMA NoVectorTail ==
  ASSUME NEW q \in Seq(AnyPacket), q # <<>>, NoVector(q)
  PROVE  Head(q).type # "DV" /\ NoVector(Tail(q))
BY TailAt DEF NoVector

\* The handshake in a queue with one packet more.
LEMMA ShakeAppend ==
  ASSUME NEW q \in Seq(AnyPacket), NEW p \in AnyPacket
  PROVE  /\ Asked(q) => Asked(Append(q, p))
         /\ Answered(q) => Answered(Append(q, p))
         /\ NoVector(q) /\ p.type # "DV" => NoVector(Append(q, p))
         /\ NoVector(q) /\ p.type = "PONG" => Answered(Append(q, p))
<1> DEFINE a == Append(q, p)
<1>1. /\ Len(a) = Len(q) + 1 /\ Len(q) \in Nat /\ a[Len(q) + 1] = p
      /\ \A k \in 1 .. Len(q) : a[k] = q[k] /\ k \in 1 .. Len(a)
      /\ \A k \in 1 .. Len(a) : k \in 1 .. Len(q) \/ k = Len(q) + 1
  BY AppendAt
<1> HIDE DEF a
<1>2. \A k \in 1 .. Len(q) : \A j \in 1 .. k - 1 : j \in 1 .. Len(q)
  BY <1>1
<1>3. Asked(q) => Asked(a)
  BY <1>1, <1>2 DEF Asked
<1>4. Answered(q) => Answered(a)
  BY <1>1, <1>2 DEF Answered
<1>5. NoVector(q) /\ p.type # "DV" => NoVector(a)
  BY <1>1 DEF NoVector
<1>6. ASSUME NoVector(q), p.type = "PONG"
      PROVE  Answered(a)
  <2>1. Len(q) + 1 \in 1 .. Len(a) /\ \A j \in 1 .. (Len(q) + 1) - 1 : a[j].type # "DV"
    BY <1>1, <1>6 DEF NoVector
  <2> QED BY <1>1, <1>6, <2>1 DEF Answered
<1> QED BY <1>3, <1>4, <1>5, <1>6 DEF a

-----------------------------------------------------------------------------
(* Two neighbours, and the queue from one to the other. *)

\* No route of a table goes away and none gets longer.
NotWorse(dv, dv2) ==
  \A d \in DOMAIN dv : d \in DOMAIN dv2 /\ dv2[d].cost <= dv[d].cost

\* A packet that says what is in a table, if it is a vector.
TrueOf(p, dv) ==
  p.type = "DV" =>
    /\ DOMAIN p.again = {}
    /\ \A d \in DOMAIN p.costs : d \in DOMAIN dv /\ p.costs[d] = dv[d].cost

Numbers(dv) == \A d \in DOMAIN dv : dv[d].cost \in Nat

\* Taking the first packet leaves a queue that is as good.
LEMMA CurrentTail ==
  ASSUME NEW q \in Seq(AnyPacket), q # <<>>, NEW dvn, Current(q, dvn)
  PROVE  Current(Tail(q), dvn)
<1> DEFINE t == Tail(q)
<1>1. \A k \in 1 .. Len(t) : t[k] = q[k + 1] /\ k + 1 \in 1 .. Len(q)
  BY TailAt
<1>2. \A k \in 1 .. Len(t) : \A j \in 1 .. k - 1 : j \in 1 .. Len(t) /\ j + 1 \in 1 .. (k + 1) - 1
  BY TailAt
<1> HIDE DEF t
<1>3. ASSUME NEW k \in 1 .. Len(t)
      PROVE  /\ t[k].type = "DV" => DOMAIN t[k].again = {}
             /\ \A d \in Routers : Names(t[k], d) =>
                  /\ d \in DOMAIN dvn /\ dvn[d].cost <= t[k].costs[d]
                  /\ \A j \in 1 .. k - 1 : Names(t[j], d) => t[k].costs[d] <= t[j].costs[d]
  BY <1>1, <1>2 DEF Current
<1> QED BY <1>3 DEF Current, t

\* What the sender does: its table gets better, and what it sends is in it.
LEMMA SenderKeeps ==
  ASSUME NEW q \in Seq(AnyPacket), NEW dvn, NEW dvn2, Numbers(dvn), Numbers(dvn2),
         Current(q, dvn), NotWorse(dvn, dvn2),
         NEW p \in AnyPacket, TrueOf(p, dvn2),
         NEW q2, q2 = q \/ q2 = Append(q, p)
  PROVE  Current(q2, dvn2)
<1>1. \A k \in 1 .. Len(q) : \A d \in Routers : Names(q[k], d) =>
        /\ d \in DOMAIN dvn2
        /\ dvn2[d].cost <= q[k].costs[d]
  <2> SUFFICES ASSUME NEW k \in 1 .. Len(q), NEW d \in Routers, Names(q[k], d)
               PROVE  d \in DOMAIN dvn2 /\ dvn2[d].cost <= q[k].costs[d]
    OBVIOUS
  <2>1. /\ d \in DOMAIN dvn /\ dvn[d].cost <= q[k].costs[d]
        /\ d \in DOMAIN dvn2 /\ dvn2[d].cost <= dvn[d].cost
    BY DEF Current, NotWorse
  <2>2. q[k].costs[d] \in Nat /\ dvn[d].cost \in Nat /\ dvn2[d].cost \in Nat
    BY <2>1, NamesCost DEF Numbers
  <2> QED BY <2>1, <2>2
<1>2. CASE q2 = q
  BY <1>1, <1>2 DEF Current
<1>3. CASE q2 = Append(q, p)
  <2>1. /\ Len(q2) = Len(q) + 1 /\ Len(q) \in Nat /\ q2[Len(q) + 1] = p
        /\ \A k \in 1 .. Len(q) : q2[k] = q[k]
        /\ \A k \in 1 .. Len(q2) : k \in 1 .. Len(q) \/ k = Len(q) + 1
        /\ \A k \in 1 .. Len(q) : \A j \in 1 .. k - 1 : j \in 1 .. Len(q)
    BY <1>3, AppendAt
  <2>2. ASSUME NEW k \in 1 .. Len(q)
        PROVE  /\ q2[k].type = "DV" => DOMAIN q2[k].again = {}
               /\ \A d \in Routers : Names(q2[k], d) =>
                    /\ d \in DOMAIN dvn2 /\ dvn2[d].cost <= q2[k].costs[d]
                    /\ \A j \in 1 .. k - 1 : Names(q2[j], d) => q2[k].costs[d] <= q2[j].costs[d]
    BY <1>1, <2>1 DEF Current
  <2>3. p.type = "DV" => DOMAIN p.again = {}
    BY DEF TrueOf
  <2>4. ASSUME NEW d \in Routers, Names(p, d)
        PROVE  /\ d \in DOMAIN dvn2 /\ dvn2[d].cost <= p.costs[d]
               /\ \A j \in 1 .. Len(q) : Names(q[j], d) => p.costs[d] <= q[j].costs[d]
    <3>1. d \in DOMAIN dvn2 /\ p.costs[d] = dvn2[d].cost /\ p.costs[d] \in Nat
      BY <2>4, NamesCost DEF TrueOf, Names
    <3> QED BY <1>1, <3>1
  <2>5. \A j \in 1 .. (Len(q) + 1) - 1 : j \in 1 .. Len(q)
    BY <2>1
  <2>6. ASSUME NEW k \in 1 .. Len(q2)
        PROVE  /\ q2[k].type = "DV" => DOMAIN q2[k].again = {}
               /\ \A d \in Routers : Names(q2[k], d) =>
                    /\ d \in DOMAIN dvn2 /\ dvn2[d].cost <= q2[k].costs[d]
                    /\ \A j \in 1 .. k - 1 : Names(q2[j], d) => q2[k].costs[d] <= q2[j].costs[d]
    <3>1. CASE k \in 1 .. Len(q)
      BY <2>2, <3>1
    <3>2. CASE k = Len(q) + 1
      BY <2>1, <2>3, <2>4, <2>5, <3>2
    <3> QED BY <2>1, <3>1, <3>2
  <2> QED BY <2>6 DEF Current
<1> QED BY <1>2, <1>3

\* The routes over the sender still rest on it.
LEMMA SenderRests ==
  ASSUME NEW q \in Seq(AnyPacket), NEW dvn, NEW dvn2, Numbers(dvn), Numbers(dvn2),
         NotWorse(dvn, dvn2),
         NEW p \in AnyPacket, TrueOf(p, dvn2),
         NEW q2, q2 = q \/ q2 = Append(q, p),
         NEW dv, NEW n, NEW distance \in Nat, Numbers(dv), RestOn(q, dvn, dv, n, distance)
  PROVE  RestOn(q2, dvn2, dv, n, distance)
<1> SUFFICES ASSUME NEW d \in DOMAIN dv, dv[d].next_hop = n, d # n
             PROVE  /\ d \in DOMAIN dvn2 /\ distance + dvn2[d].cost <= dv[d].cost
                    /\ \A k \in 1 .. Len(q2) : Names(q2[k], d) => distance + q2[k].costs[d] <= dv[d].cost
  BY DEF RestOn
<1>1. /\ d \in DOMAIN dvn /\ distance + dvn[d].cost <= dv[d].cost
      /\ \A k \in 1 .. Len(q) : Names(q[k], d) => distance + q[k].costs[d] <= dv[d].cost
  BY DEF RestOn
<1>2. d \in DOMAIN dvn2 /\ distance + dvn2[d].cost <= dv[d].cost
  <2>1. d \in DOMAIN dvn2 /\ dvn2[d].cost <= dvn[d].cost
    BY <1>1 DEF NotWorse
  <2>2. dvn[d].cost \in Nat /\ dvn2[d].cost \in Nat /\ dv[d].cost \in Nat
    BY <1>1, <2>1 DEF Numbers
  <2> QED BY <1>1, <2>1, <2>2
<1>3. ASSUME NEW k \in 1 .. Len(q2), Names(q2[k], d)
      PROVE  distance + q2[k].costs[d] <= dv[d].cost
  <2>1. CASE k \in 1 .. Len(q) /\ q2[k] = q[k]
    BY <1>1, <1>3, <2>1
  <2>2. CASE q2[k] = p
    BY <1>2, <1>3, <2>2 DEF TrueOf, Names
  <2> QED BY <2>1, <2>2, AppendAt
<1> QED BY <1>2, <1>3

\* What the receiver does: it takes a packet or not, and a route over the sender
\* is one that it had before, or the one that this packet speaks of.
Followed(q, q2, dv, dv2, n, distance) ==
  \A d \in DOMAIN dv2 : dv2[d].next_hop = n /\ d # n =>
    \/ d \in DOMAIN dv /\ dv[d].next_hop = n /\ dv2[d].cost = dv[d].cost
    \/ /\ q # <<>> /\ q2 = Tail(q) /\ Names(Head(q), d)
       /\ dv2[d].cost = distance + Head(q).costs[d]

\* Its routes over the sender still rest on it.
LEMMA ReceiverRests ==
  ASSUME NEW q \in Seq(AnyPacket), NEW dvn, Numbers(dvn), Current(q, dvn),
         NEW q2, q2 = q \/ (q # <<>> /\ q2 = Tail(q)),
         NEW dv, NEW dv2, NEW n, NEW distance \in Nat, RestOn(q, dvn, dv, n, distance),
         Followed(q, q2, dv, dv2, n, distance)
  PROVE  RestOn(q2, dvn, dv2, n, distance)
<1> SUFFICES ASSUME NEW d \in DOMAIN dv2, dv2[d].next_hop = n, d # n
             PROVE  /\ d \in DOMAIN dvn /\ distance + dvn[d].cost <= dv2[d].cost
                    /\ \A k \in 1 .. Len(q2) : Names(q2[k], d) => distance + q2[k].costs[d] <= dv2[d].cost
  BY DEF RestOn
<1>0. \/ d \in DOMAIN dv /\ dv[d].next_hop = n /\ dv2[d].cost = dv[d].cost
      \/ /\ q # <<>> /\ q2 = Tail(q) /\ Names(Head(q), d)
         /\ dv2[d].cost = distance + Head(q).costs[d]
  BY DEF Followed
<1>1. CASE d \in DOMAIN dv /\ dv[d].next_hop = n /\ dv2[d].cost = dv[d].cost
  <2>1. /\ d \in DOMAIN dvn /\ distance + dvn[d].cost <= dv2[d].cost
        /\ \A k \in 1 .. Len(q) : Names(q[k], d) => distance + q[k].costs[d] <= dv2[d].cost
    BY <1>1 DEF RestOn
  <2>2. CASE q2 = q
    BY <2>1, <2>2
  <2>3. CASE q # <<>> /\ q2 = Tail(q)
    <3>1. \A k \in 1 .. Len(q2) : q2[k] = q[k + 1] /\ k + 1 \in 1 .. Len(q)
      BY <2>3, TailAt
    <3> QED BY <2>1, <3>1
  <2> QED BY <2>2, <2>3
<1>2. CASE /\ q # <<>> /\ q2 = Tail(q) /\ Names(Head(q), d)
           /\ dv2[d].cost = distance + Head(q).costs[d]
  <2>1. q[1] = Head(q) /\ 1 \in 1 .. Len(q) /\ Head(q) \in AnyPacket
    BY <1>2, TailAt
  <2>2. d \in Routers /\ Head(q).costs[d] \in Nat
    BY <1>2, <2>1, NamesCost
  <2>3. d \in DOMAIN dvn /\ dvn[d].cost <= Head(q).costs[d]
    BY <1>2, <2>1, <2>2 DEF Current
  <2>4. distance + dvn[d].cost <= dv2[d].cost
    <3>1. dvn[d].cost \in Nat
      BY <2>3 DEF Numbers
    <3> QED BY <1>2, <2>2, <2>3, <3>1
  <2>5. ASSUME NEW k \in 1 .. Len(q2), Names(q2[k], d)
        PROVE  distance + q2[k].costs[d] <= dv2[d].cost
    <3>1. q2[k] = q[k + 1] /\ k + 1 \in 1 .. Len(q) /\ 1 \in 1 .. (k + 1) - 1
      BY <1>2, TailAt
    <3>2. q[k + 1].costs[d] <= q[1].costs[d]
      BY <1>2, <2>1, <2>2, <2>5, <3>1 DEF Current
    <3>3. q[k + 1] \in AnyPacket
      BY <3>1
    <3>4. q[k + 1].costs[d] \in Nat
      BY <2>5, <3>1, <3>3, NamesCost
    <3> QED BY <1>2, <2>1, <2>2, <3>1, <3>2, <3>4
  <2> QED BY <2>3, <2>4, <2>5
<1> QED BY <1>0, <1>1, <1>2

-----------------------------------------------------------------------------
(* Paths. *)

\* A path stays one while tables do not get worse.
LEMMA PathKept ==
  ASSUME NEW W, NEW tables, NEW tables2, NEW h, NEW d, NEW cost \in Nat,
         Path(W, tables, h, d, cost),
         \A y \in Routers : /\ NotWorse(tables[y], tables2[y])
                            /\ Numbers(tables[y]) /\ Numbers(tables2[y])
  PROVE  Path(W, tables2, h, d, cost)
<1>1. PICK S \in SUBSET Routers :
        /\ h \in S /\ d \in S
        /\ cost <= (Cardinality(S) - 1) * W
        /\ \A y \in S \ {d} : d \in DOMAIN tables[y] /\ tables[y][d].cost <= cost
  BY DEF Path
<1>2. ASSUME NEW y \in S \ {d}
      PROVE  d \in DOMAIN tables2[y] /\ tables2[y][d].cost <= cost
  <2>1. /\ d \in DOMAIN tables[y] /\ tables[y][d].cost <= cost
        /\ d \in DOMAIN tables2[y] /\ tables2[y][d].cost <= tables[y][d].cost
    BY <1>1 DEF NotWorse
  <2>2. tables[y][d].cost \in Nat /\ tables2[y][d].cost \in Nat
    BY <2>1 DEF Numbers
  <2> QED BY <2>1, <2>2
<1> QED BY <1>1, <1>2 DEF Path

\* A link is a path.
LEMMA PathDirect ==
  ASSUME NEW W \in Nat, NEW tables, NEW r \in Routers, NEW d \in Routers, r # d,
         d \in DOMAIN tables[r], tables[r][d].cost \in 1 .. W
  PROVE  Path(W, tables, r, d, tables[r][d].cost)
<1>1. IsFiniteSet({r}) /\ Cardinality({r}) = 1
  BY FS_Singleton
<1>2. Cardinality({r} \cup {d}) = 2
  <2>1. Cardinality({r} \cup {d}) = IF d \in {r} THEN Cardinality({r}) ELSE Cardinality({r}) + 1
    BY <1>1, FS_AddElement
  <2> QED BY <1>1, <2>1
<1>3. tables[r][d].cost <= (2 - 1) * W
  OBVIOUS
<1>4. /\ {r} \cup {d} \in SUBSET Routers
      /\ r \in {r} \cup {d} /\ d \in {r} \cup {d}
      /\ \A y \in ({r} \cup {d}) \ {d} : y = r
  OBVIOUS
<1> QED BY <1>2, <1>3, <1>4 DEF Path

\* A path of n and the link to n, if r has no route to d that is as short yet.
LEMMA PathLonger ==
  ASSUME NEW W \in Nat, IsFiniteSet(Routers),
         NEW tables, NEW tables2, NEW r \in Routers, NEW n, NEW d, r # d,
         \A y \in Routers : /\ NotWorse(tables[y], tables2[y])
                            /\ Numbers(tables[y]) /\ Numbers(tables2[y]),
         NEW cost \in Nat, Path(W, tables, n, d, cost), NEW distance \in 1 .. W,
         d \in DOMAIN tables2[r], tables2[r][d].cost = distance + cost,
         d \in DOMAIN tables[r] => tables2[r][d].cost < tables[r][d].cost
  PROVE  Path(W, tables2, r, d, tables2[r][d].cost)
<1>1. PICK S \in SUBSET Routers :
        /\ n \in S /\ d \in S
        /\ cost <= (Cardinality(S) - 1) * W
        /\ \A y \in S \ {d} : d \in DOMAIN tables[y] /\ tables[y][d].cost <= cost
  BY DEF Path
<1>2. r \notin S
  <2> SUFFICES ASSUME r \in S
               PROVE  FALSE
    OBVIOUS
  <2>1. d \in DOMAIN tables[r] /\ tables[r][d].cost <= cost
    BY <1>1
  <2>2. tables[r][d].cost \in Nat /\ distance + cost < tables[r][d].cost
    BY <2>1 DEF Numbers
  <2> QED BY <2>1, <2>2
<1>3. IsFiniteSet(S) /\ Cardinality(S) \in Nat
  BY FS_Subset, FS_CardinalityType
<1>4. Cardinality(S \cup {r}) = Cardinality(S) + 1
  BY <1>2, <1>3, FS_AddElement
<1>5. distance + cost <= ((Cardinality(S) + 1) - 1) * W
  <2>1. \A c \in Nat : \A x, y \in Int : y = (c - 1) * W /\ x = ((c + 1) - 1) * W => x = y + W
    OBVIOUS
  <2>2. (Cardinality(S) - 1) * W \in Int /\ ((Cardinality(S) + 1) - 1) * W \in Int
    BY <1>3
  <2>3. ((Cardinality(S) + 1) - 1) * W = (Cardinality(S) - 1) * W + W
    BY <1>3, <2>1, <2>2
  <2> QED BY <1>1, <2>2, <2>3
<1>6. ASSUME NEW y \in (S \cup {r}) \ {d}
      PROVE  d \in DOMAIN tables2[y] /\ tables2[y][d].cost <= distance + cost
  <2>1. CASE y = r
    BY <2>1
  <2>2. CASE y \in S \ {d}
    <3>1. /\ d \in DOMAIN tables[y] /\ tables[y][d].cost <= cost
          /\ d \in DOMAIN tables2[y] /\ tables2[y][d].cost <= tables[y][d].cost
      BY <1>1, <2>2 DEF NotWorse
    <3>2. tables[y][d].cost \in Nat /\ tables2[y][d].cost \in Nat
      BY <2>2, <3>1 DEF Numbers
    <3> QED BY <3>1, <3>2
  <2> QED BY <2>1, <2>2
<1>7. S \cup {r} \in SUBSET Routers /\ r \in S \cup {r} /\ d \in S \cup {r}
  BY <1>1
<1> QED BY <1>4, <1>5, <1>6, <1>7 DEF Path

\* The cost of a path is finite, and a vector holds it in full.
LEMMA PathFits ==
  ASSUME NEW W, CostsFit(W), NEW tables, NEW h, NEW d, NEW cost \in Nat, Path(W, tables, h, d, cost)
  PROVE  cost < INFINITY_COST /\ Bits16(cost) = cost
<1>1. PICK S \in SUBSET Routers : cost <= (Cardinality(S) - 1) * W
  BY DEF Path
<1>2. /\ Cardinality(S) \in Nat /\ Cardinality(Routers) \in Nat
      /\ Cardinality(S) <= Cardinality(Routers) /\ W \in Nat
  BY FS_Subset, FS_CardinalityType DEF CostsFit
<1>3. (Cardinality(S) - 1) * W <= (Cardinality(Routers) - 1) * W
  <2>1. \A m, c, w \in Nat : m <= c => (m - 1) * w <= (c - 1) * w
    OBVIOUS
  <2> QED BY <1>2, <2>1
<1>4. (Cardinality(S) - 1) * W \in Int /\ (Cardinality(Routers) - 1) * W \in Int
  BY <1>2
<1>5. cost < INFINITY_COST
  BY <1>1, <1>3, <1>4, CostRange, LinkAssumption DEF CostsFit, INFINITY_COST
<1>6. cost % COST_MOD = cost
  BY <1>5, LinkAssumption DEF INFINITY_COST
<1> QED BY <1>5, <1>6 DEF Bits16

-----------------------------------------------------------------------------
(* A step of one router, which takes a packet or none and sends one or none. *)

\* The queues after r took the first packets of the ports in took and put p on
\* those in ports.
Moved(r, took, ports, p) ==
  \A x \in Routers : \A m \in PortsOf(x) :
    wire'[m][x] = IF x = r THEN IF m \in took THEN Tail(wire[m][r]) ELSE wire[m][r]
                  ELSE IF m \in ports THEN Append(wire[m][x], p) ELSE wire[m][x]

\* The route of r to d after the step: the one it had, the direct link, or the
\* one that the packet it took speaks of, where that is new or shorter.
FromBefore(r, d) ==
  /\ d \in DOMAIN dv_map[r]
  /\ dv_map'[r][d].next_hop = dv_map[r][d].next_hop
  /\ dv_map'[r][d].cost = dv_map[r][d].cost
FromLink(r, d) ==
  \E m \in PortsOf(r) :
    Far(r, m) = d /\ dv_map'[r][d].next_hop = d /\ dv_map'[r][d].cost = rtt[m]
FromPacket(r, took, d) ==
  \E m \in took :
    /\ Names(Head(wire[m][r]), d)
    /\ dv_map'[r][d].next_hop = Far(r, m)
    /\ dv_map'[r][d].cost = rtt[m] + Head(wire[m][r]).costs[d]
    /\ d \in DOMAIN dv_map[r] => dv_map'[r][d].cost < dv_map[r][d].cost

RoutesMove(r, took) ==
  /\ \A x \in Routers \ {r} : dv_map'[x] = dv_map[x]
  /\ NotWorse(dv_map[r], dv_map'[r])
  /\ \A d \in DOMAIN dv_map'[r] : FromBefore(r, d) \/ FromLink(r, d) \/ FromPacket(r, took, d)

\* The types that these proofs need.
LEMMA QueueType ==
  ASSUME PacketInv, NEW r \in Routers, NEW l \in PortsOf(r)
  PROVE  /\ wire[l][r] \in Seq(AnyPacket) /\ wire[l][Far(r, l)] \in Seq(AnyPacket)
         /\ rtt[l] \in Nat
BY FarEnd DEF PacketInv, WireRight, PortsInv

LEMMA TableNumbers ==
  ASSUME PacketInv, PacketInv'
  PROVE  \A r \in Routers : Numbers(dv_map[r]) /\ Numbers(dv_map'[r])
BY DEF PacketInv, MapsRight, TableRight, Numbers

\* A better table of one router makes no table worse.
LEMMA NoneWorse ==
  ASSUME PacketInv, PacketInv', NEW r \in Routers, NEW took, RoutesMove(r, took)
  PROVE  \A y \in Routers : /\ NotWorse(dv_map[y], dv_map'[y])
                            /\ Numbers(dv_map[y]) /\ Numbers(dv_map'[y])
<1> SUFFICES ASSUME NEW y \in Routers
             PROVE  NotWorse(dv_map[y], dv_map'[y])
  BY TableNumbers
<1>1. CASE y = r
  BY <1>1 DEF RoutesMove
<1>2. CASE y # r
  <2>1. dv_map'[y] = dv_map[y] /\ Numbers(dv_map[y])
    BY <1>2, TableNumbers DEF RoutesMove
  <2> QED BY <2>1 DEF NotWorse, Numbers
<1> QED BY <1>1, <1>2

\* Single links have one port for a neighbour.
LEMMA SinglePort ==
  ASSUME SingleLinks, NEW r \in Routers, NEW l \in PortsOf(r), NEW m \in PortsOf(r),
         Far(r, l) = Far(r, m)
  PROVE  l = m
<1>1. l \in Links /\ m \in Links /\ Ends[l] = {r, Far(r, l)} /\ Ends[m] = {r, Far(r, m)}
  BY FarEnd
<1> QED BY <1>1 DEF SingleLinks

\* The queues of all neighbours stay current, and routes rest on them.
LEMMA SpokenStep ==
  ASSUME PacketInv, PacketInv', SingleLinks, Spoken, rtt' = rtt,
         NEW r \in Routers, NEW took \in SUBSET PortsOf(r), NEW ports \in SUBSET PortsOf(r),
         NEW p \in AnyPacket, Moved(r, took, ports, p), TrueOf(p, dv_map'[r]),
         \A m \in took : wire[m][r] # <<>>,
         RoutesMove(r, took)
  PROVE  Spoken'
<1> SUFFICES ASSUME NEW x \in Routers, NEW m \in PortsOf(x)
             PROVE  /\ Current(wire'[m][x], dv_map'[Far(x, m)])
                    /\ RestOn(wire'[m][x], dv_map'[Far(x, m)], dv_map'[x], Far(x, m), rtt[m])
  BY DEF Spoken
<1> DEFINE n == Far(x, m)
<1>1. /\ wire[m][x] \in Seq(AnyPacket) /\ rtt[m] \in Nat
      /\ n \in Routers /\ n # x
      /\ Current(wire[m][x], dv_map[n])
      /\ RestOn(wire[m][x], dv_map[n], dv_map[x], n, rtt[m])
  BY QueueType, FarEnd DEF Spoken
<1>2. /\ Numbers(dv_map[n]) /\ Numbers(dv_map'[n]) /\ Numbers(dv_map[x])
      /\ NotWorse(dv_map[n], dv_map'[n])
  BY <1>1, NoneWorse
<1> HIDE DEF n
<1>3. CASE x = r
  <2>1. dv_map'[n] = dv_map[n]
    BY <1>1, <1>3 DEF RoutesMove
  <2>2. wire'[m][x] = IF m \in took THEN Tail(wire[m][r]) ELSE wire[m][r]
    BY <1>3 DEF Moved
  <2>3. wire'[m][x] = wire[m][x] \/ (wire[m][x] # <<>> /\ wire'[m][x] = Tail(wire[m][x]))
    BY <1>3, <2>2
  <2>4. Current(wire'[m][x], dv_map'[n])
    BY <1>1, <2>1, <2>3, CurrentTail
  <2>5. ASSUME NEW d \in DOMAIN dv_map'[r], dv_map'[r][d].next_hop = n, d # n
        PROVE  \/ d \in DOMAIN dv_map[r] /\ dv_map[r][d].next_hop = n /\ dv_map'[r][d].cost = dv_map[r][d].cost
               \/ /\ wire[m][r] # <<>> /\ wire'[m][r] = Tail(wire[m][r]) /\ Names(Head(wire[m][r]), d)
                  /\ dv_map'[r][d].cost = rtt[m] + Head(wire[m][r]).costs[d]
    <3>1. CASE FromBefore(r, d)
      BY <2>5, <3>1 DEF FromBefore
    <3>2. CASE FromLink(r, d)
      BY <2>5, <3>2 DEF FromLink
    <3>3. CASE FromPacket(r, took, d)
      <4>1. PICK k \in took : /\ Names(Head(wire[k][r]), d)
                              /\ dv_map'[r][d].next_hop = Far(r, k)
                              /\ dv_map'[r][d].cost = rtt[k] + Head(wire[k][r]).costs[d]
        BY <3>3 DEF FromPacket
      <4>2. k = m
        BY <1>3, <2>5, <4>1, SinglePort DEF n
      <4> QED BY <1>3, <2>2, <4>1, <4>2
    <3> QED BY <3>1, <3>2, <3>3 DEF RoutesMove
  <2>6. RestOn(wire'[m][x], dv_map[n], dv_map'[x], n, rtt[m])
    <3>1. Followed(wire[m][x], wire'[m][x], dv_map[x], dv_map'[x], n, rtt[m])
      BY <1>3, <2>5 DEF Followed
    <3> QED BY <1>1, <1>2, <2>3, <3>1, ReceiverRests
  <2> QED BY <2>1, <2>4, <2>6 DEF n
<1>4. CASE x # r /\ n = r
  <2>1. dv_map'[x] = dv_map[x]
    BY <1>4 DEF RoutesMove
  <2>2. wire'[m][x] = wire[m][x] \/ wire'[m][x] = Append(wire[m][x], p)
    BY <1>4 DEF Moved
  <2>3. Current(wire'[m][x], dv_map'[n])
    BY <1>1, <1>2, <1>4, <2>2, SenderKeeps
  <2>4. RestOn(wire'[m][x], dv_map'[n], dv_map[x], n, rtt[m])
    BY <1>1, <1>2, <1>4, <2>2, SenderRests
  <2> QED BY <2>1, <2>3, <2>4 DEF n
<1>5. CASE x # r /\ n # r
  <2>1. dv_map'[x] = dv_map[x] /\ dv_map'[n] = dv_map[n]
    BY <1>1, <1>5 DEF RoutesMove
  <2>2. m \notin ports
    BY <1>5, FarEnd DEF n, PortsOf
  <2>3. wire'[m][x] = wire[m][x]
    BY <1>5, <2>2 DEF Moved
  <2> QED BY <1>1, <2>1, <2>3 DEF n
<1> QED BY <1>3, <1>4, <1>5

\* Every cost that is listed is that of a path.
LEMMA ListedStep ==
  ASSUME PacketInv, PacketInv', NEW W, CostsFit(W), ListedPaths(W), SaidPaths(W),
         \A m \in Links : rtt[m] \in Rtt[m],
         NEW r \in Routers, NEW took \in SUBSET PortsOf(r),
         \A m \in took : wire[m][r] # <<>>,
         RoutesMove(r, took)
  PROVE  ListedPaths(W)'
<1> SUFFICES ASSUME NEW x \in Routers, NEW d \in DOMAIN dv_map'[x]
             PROVE  Path(W, dv_map', x, d, dv_map'[x][d].cost)
  BY DEF ListedPaths
<1>1. \A y \in Routers : /\ NotWorse(dv_map[y], dv_map'[y])
                         /\ Numbers(dv_map[y]) /\ Numbers(dv_map'[y])
  BY NoneWorse
<1>2. dv_map'[x][d].cost \in Nat /\ x # d /\ d \in Routers
  BY <1>1 DEF Numbers, PacketInv, MapsRight, TableRight
<1>3. CASE d \in DOMAIN dv_map[x] /\ dv_map'[x][d].cost = dv_map[x][d].cost
  <2>1. Path(W, dv_map, x, d, dv_map[x][d].cost)
    BY <1>3 DEF ListedPaths
  <2> QED BY <1>1, <1>2, <1>3, <2>1, PathKept
<1>4. CASE x = r /\ FromLink(r, d)
  <2>1. PICK m \in PortsOf(r) : dv_map'[r][d].cost = rtt[m]
    BY <1>4 DEF FromLink
  <2>2. dv_map'[x][d].cost \in 1 .. W /\ W \in Nat
    BY <1>4, <2>1, FarEnd DEF CostsFit
  <2> QED BY <1>2, <2>2, PathDirect
<1>5. CASE x = r /\ FromPacket(r, took, d)
  <2>1. PICK m \in took :
          /\ Names(Head(wire[m][r]), d)
          /\ dv_map'[r][d].cost = rtt[m] + Head(wire[m][r]).costs[d]
          /\ d \in DOMAIN dv_map[r] => dv_map'[r][d].cost < dv_map[r][d].cost
    BY <1>5 DEF FromPacket
  <2>2. m \in PortsOf(r) /\ wire[m][r] \in Seq(AnyPacket) /\ wire[m][r] # <<>>
    BY QueueType
  <2>3. 1 \in 1 .. Len(wire[m][r]) /\ Head(wire[m][r]) = wire[m][r][1] /\ Head(wire[m][r]) \in AnyPacket
    BY <2>2, TailAt
  <2>4. Path(W, dv_map, Far(r, m), d, Head(wire[m][r]).costs[d])
    BY <1>2, <2>1, <2>2, <2>3 DEF SaidPaths
  <2>5. Head(wire[m][r]).costs[d] \in Nat
    BY <2>1, <2>3, NamesCost
  <2>6. rtt[m] \in 1 .. W /\ W \in Nat /\ IsFiniteSet(Routers)
    BY <2>2, FarEnd DEF CostsFit
  <2>7. r # d /\ d \in DOMAIN dv_map'[r]
    BY <1>2, <1>5
  <2> QED BY <1>1, <1>5, <2>1, <2>4, <2>5, <2>6, <2>7, PathLonger
<1>6. CASE x # r
  BY <1>3, <1>6 DEF RoutesMove
<1> QED BY <1>3, <1>4, <1>5, <1>6 DEF RoutesMove, FromBefore

\* So is every cost that is under way.
LEMMA SaidStep ==
  ASSUME PacketInv, PacketInv', NEW W, SaidPaths(W), ListedPaths(W)',
         NEW r \in Routers, NEW took \in SUBSET PortsOf(r), NEW ports \in SUBSET PortsOf(r),
         NEW p \in AnyPacket, Moved(r, took, ports, p), TrueOf(p, dv_map'[r]),
         \A m \in took : wire[m][r] # <<>>,
         RoutesMove(r, took)
  PROVE  SaidPaths(W)'
<1> SUFFICES ASSUME NEW x \in Routers, NEW m \in PortsOf(x), NEW k \in 1 .. Len(wire'[m][x]),
                    NEW d \in Routers, Names(wire'[m][x][k], d)
             PROVE  Path(W, dv_map', Far(x, m), d, wire'[m][x][k].costs[d])
  BY DEF SaidPaths
<1>1. wire[m][x] \in Seq(AnyPacket)
  BY QueueType
<1>2. ASSUME NEW j \in 1 .. Len(wire[m][x]), wire'[m][x][k] = wire[m][x][j]
      PROVE  Path(W, dv_map', Far(x, m), d, wire'[m][x][k].costs[d])
  <2>1. Path(W, dv_map, Far(x, m), d, wire[m][x][j].costs[d])
    BY <1>2 DEF SaidPaths
  <2>2. wire[m][x][j] \in AnyPacket
    BY <1>1
  <2>3. wire[m][x][j].costs[d] \in Nat
    BY <1>2, <2>2, NamesCost
  <2>4. \A y \in Routers : /\ NotWorse(dv_map[y], dv_map'[y])
                           /\ Numbers(dv_map[y]) /\ Numbers(dv_map'[y])
    BY NoneWorse
  <2> QED BY <1>2, <2>1, <2>3, <2>4, PathKept
<1>3. CASE wire'[m][x] = wire[m][x]
  BY <1>2, <1>3
<1>4. CASE x = r /\ m \in took
  <2>1. wire'[m][x] = Tail(wire[m][x]) /\ wire[m][x] # <<>>
    BY <1>4 DEF Moved
  <2>2. wire'[m][x][k] = wire[m][x][k + 1] /\ k + 1 \in 1 .. Len(wire[m][x])
    BY <1>1, <2>1, TailAt
  <2> QED BY <1>2, <2>2
<1>5. CASE x # r /\ m \in ports
  <2>1. wire'[m][x] = Append(wire[m][x], p)
    BY <1>5 DEF Moved
  <2>2. CASE k \in 1 .. Len(wire[m][x])
    BY <1>1, <1>2, <2>1, <2>2, AppendAt
  <2>3. CASE wire'[m][x][k] = p
    <3>1. d \in DOMAIN dv_map'[r] /\ p.costs[d] = dv_map'[r][d].cost
      BY <2>3 DEF TrueOf, Names
    <3>2. Far(x, m) = r
      BY <1>5, FarEnd DEF PortsOf
    <3> QED BY <2>3, <3>1, <3>2 DEF ListedPaths
  <2> QED BY <1>1, <2>1, <2>2, <2>3, AppendAt
<1> QED BY <1>3, <1>4, <1>5 DEF Moved

\* Every port gets its PONG before the first vector.
LEMMA ShakenStep ==
  ASSUME PacketInv, \A x \in Routers : \A m \in PortsOf(x) : Shaken(x, m),
         NEW r \in Routers, NEW took \in SUBSET PortsOf(r), NEW ports \in SUBSET PortsOf(r),
         NEW p \in AnyPacket, Moved(r, took, ports, p),
         \A m \in took : wire[m][r] # <<>>,
         \A x \in Routers \ {r} : connected'[x] = connected[x],
         \A m \in connected[r] : m \in connected'[r],
         \A m \in connected'[r] \ connected[r] : m \in took /\ Head(wire[m][r]).type = "PONG",
         \A m \in took : Head(wire[m][r]).type = "PONG" => m \in connected'[r],
         \A m \in took : Head(wire[m][r]).type = "PING" => m \in ports /\ p.type = "PONG",
         p.type = "DV" => ports \subseteq connected'[r]
  PROVE  \A x \in Routers : \A m \in PortsOf(x) : Shaken(x, m)'
<1> SUFFICES ASSUME NEW x \in Routers, NEW m \in PortsOf(x)
             PROVE  Shaken(x, m)'
  OBVIOUS
<1> DEFINE n == Far(x, m)
<1>1. /\ wire[m][x] \in Seq(AnyPacket) /\ wire[m][n] \in Seq(AnyPacket)
      /\ n \in Routers /\ n # x /\ m \in PortsOf(n)
      /\ Shaken(x, m)
  BY QueueType, FarEnd, FarFar
<1>2. /\ wire'[m][x] = IF x = r THEN IF m \in took THEN Tail(wire[m][r]) ELSE wire[m][r]
                       ELSE IF m \in ports THEN Append(wire[m][x], p) ELSE wire[m][x]
      /\ wire'[m][n] = IF n = r THEN IF m \in took THEN Tail(wire[m][r]) ELSE wire[m][r]
                       ELSE IF m \in ports THEN Append(wire[m][n], p) ELSE wire[m][n]
  BY <1>1 DEF Moved
<1>3. Shaken(x, m)' <=>
        \/ m \in connected'[x]
        \/ Answered(wire'[m][x])
        \/ m \notin connected'[n] /\ NoVector(wire'[m][x]) /\ Asked(wire'[m][n])
  BY DEF Shaken
<1>4. \/ m \in connected[x]
      \/ Answered(wire[m][x])
      \/ m \notin connected[n] /\ NoVector(wire[m][x]) /\ Asked(wire[m][n])
  BY <1>1 DEF Shaken
<1> HIDE DEF n
<1>5. CASE m \in connected[x]
  BY <1>3, <1>5
<1>6. CASE x = r /\ m \notin connected[x]
  <2>1. connected'[n] = connected[n] /\ n # r
    BY <1>1, <1>6
  <2>2. Asked(wire[m][n]) => Asked(wire'[m][n])
    BY <1>1, <1>2, <2>1, ShakeAppend
  <2>3. CASE m \in took
    <3>1. wire'[m][x] = Tail(wire[m][x]) /\ wire[m][x] # <<>>
      BY <1>2, <1>6, <2>3
    <3>2. CASE Head(wire[m][x]).type = "PONG"
      BY <1>3, <1>6, <2>3, <3>2
    <3>3. CASE Head(wire[m][x]).type # "PONG" /\ Answered(wire[m][x])
      BY <1>1, <1>3, <3>1, <3>3, AnsweredTail
    <3>4. CASE m \notin connected[n] /\ NoVector(wire[m][x]) /\ Asked(wire[m][n])
      BY <1>1, <1>3, <2>1, <2>2, <3>1, <3>4, NoVectorTail
    <3> QED BY <1>4, <1>6, <3>2, <3>3, <3>4
  <2>4. CASE m \notin took
    BY <1>2, <1>3, <1>4, <1>6, <2>1, <2>2, <2>4
  <2> QED BY <2>3, <2>4
<1>7. CASE x # r /\ n = r /\ m \notin connected[x]
  <2>1. wire'[m][x] = wire[m][x] \/ (m \in ports /\ wire'[m][x] = Append(wire[m][x], p))
    BY <1>2, <1>7
  <2>2. CASE Answered(wire[m][x])
    BY <1>1, <1>3, <2>1, <2>2, ShakeAppend
  <2>3. CASE m \notin connected[n] /\ NoVector(wire[m][x]) /\ Asked(wire[m][n])
    <3>1. m \in took => wire[m][n] # <<>> /\ Head(wire[m][n]).type # "PONG"
      BY <1>1, <1>7, <2>3, AskedTail
    <3>2. m \notin connected'[n]
      BY <1>7, <2>3, <3>1
    <3>3. m \in ports => p.type # "DV"
      BY <1>7, <3>2
    <3>4. NoVector(wire'[m][x])
      BY <1>1, <2>1, <2>3, <3>3, ShakeAppend
    <3>5. CASE m \in took /\ Head(wire[m][n]).type = "PING"
      <4>1. m \in ports /\ p.type = "PONG"
        BY <1>7, <3>5
      <4>2. wire'[m][x] = Append(wire[m][x], p)
        BY <1>2, <1>7, <4>1
      <4> QED BY <1>1, <1>3, <2>3, <4>1, <4>2, ShakeAppend
    <3>6. CASE m \in took /\ Head(wire[m][n]).type # "PING"
      <4>1. wire'[m][n] = Tail(wire[m][n])
        BY <1>2, <1>7, <3>6
      <4>2. Asked(wire'[m][n])
        BY <1>1, <2>3, <3>1, <3>6, <4>1, AskedTail
      <4> QED BY <1>3, <3>2, <3>4, <4>2
    <3>7. CASE m \notin took
      BY <1>2, <1>3, <1>7, <2>3, <3>2, <3>4, <3>7
    <3> QED BY <3>5, <3>6, <3>7
  <2> QED BY <1>4, <1>7, <2>2, <2>3
<1>8. CASE x # r /\ n # r
  <2>1. m \notin ports
    BY <1>8, FarEnd DEF n, PortsOf
  <2>2. /\ wire'[m][x] = wire[m][x] /\ wire'[m][n] = wire[m][n]
        /\ connected'[x] = connected[x] /\ connected'[n] = connected[n]
    BY <1>1, <1>2, <1>8, <2>1
  <2> QED BY <1>3, <1>4, <2>2
<1> QED BY <1>5, <1>6, <1>7, <1>8

-----------------------------------------------------------------------------
(* The steps of a router. *)

\* What the four parts of a step make of the invariant.
LEMMA RoutesStep ==
  ASSUME PacketInv, PacketInv', SingleLinks, NEW W, CostsFit(W), RoutesInv(W), ListedPaths(W)',
         rtt' = rtt, rtts' = rtts, alive' = alive, \A x \in Routers : silent'[x] = {},
         NEW r \in Routers, NEW took \in SUBSET PortsOf(r), NEW ports \in SUBSET PortsOf(r),
         NEW p \in AnyPacket, Moved(r, took, ports, p), TrueOf(p, dv_map'[r]),
         \A m \in took : wire[m][r] # <<>>,
         RoutesMove(r, took),
         \A x \in Routers \ {r} : /\ direct_neighbors'[x] = direct_neighbors[x]
                                  /\ connected'[x] = connected[x]
                                  /\ port_cost'[x] = port_cost[x],
         \A m \in PortsOf(r) : Measured(r, m)',
         \A m \in connected[r] : m \in connected'[r],
         \A m \in connected'[r] \ connected[r] : m \in took /\ Head(wire[m][r]).type = "PONG",
         \A m \in took : Head(wire[m][r]).type = "PONG" => m \in connected'[r],
         \A m \in took : Head(wire[m][r]).type = "PING" => m \in ports /\ p.type = "PONG",
         p.type = "DV" => ports \subseteq connected'[r]
  PROVE  RoutesInv(W)'
<1>1. Undisturbed'
  BY DEF RoutesInv, Undisturbed
<1>2. ASSUME NEW x \in Routers, NEW m \in PortsOf(x)
      PROVE  Measured(x, m)'
  <2>1. CASE x = r
    BY <2>1
  <2>2. CASE x # r
    <3>1. /\ direct_neighbors'[x] = direct_neighbors[x] /\ connected'[x] = connected[x]
          /\ port_cost'[x] = port_cost[x] /\ dv_map'[x] = dv_map[x]
      BY <2>2 DEF RoutesMove
    <3>2. Measured(x, m)
      BY DEF RoutesInv, Met
    <3> QED BY <3>1, <3>2 DEF Measured
  <2> QED BY <2>1, <2>2
<1>3. \A x \in Routers : \A m \in PortsOf(x) : Shaken(x, m)'
  <2>1. \A x \in Routers : \A m \in PortsOf(x) : Shaken(x, m)
    BY DEF RoutesInv, Met
  <2>2. \A x \in Routers \ {r} : connected'[x] = connected[x]
    OBVIOUS
  <2> QED BY <2>1, <2>2, ShakenStep
<1>4. Spoken'
  BY SpokenStep DEF RoutesInv
<1>5. SaidPaths(W)'
  BY SaidStep DEF RoutesInv
<1> QED BY <1>1, <1>2, <1>3, <1>4, <1>5 DEF RoutesInv, Met

\* Queues that a handler wrote with Posted and Taken.
LEMMA MovedBy ==
  ASSUME PacketInv, Undisturbed, NEW r \in Routers, NEW ports \in SUBSET PortsOf(r), NEW p
  PROVE  /\ \A l \in PortsOf(r) :
              /\ wire' = Posted(Taken(wire, r, l), r, ports, p) => Moved(r, {l}, ports, p)
              /\ wire' = Taken(wire, r, l) => Moved(r, {l}, {}, p)
         /\ wire' = Posted(wire, r, ports, p) => Moved(r, {}, ports, p)
         /\ wire' = wire => Moved(r, {}, {}, p)
<1>1. ASSUME NEW w
      PROVE  \A x \in Routers : \A m \in PortsOf(x) :
               Posted(w, r, ports, p)[m][x] =
                 IF x # r /\ m \in ports THEN Append(w[m][x], p) ELSE w[m][x]
  <2> SUFFICES ASSUME NEW x \in Routers, NEW m \in PortsOf(x)
               PROVE  Posted(w, r, ports, p)[m][x] =
                        IF x # r /\ m \in ports THEN Append(w[m][x], p) ELSE w[m][x]
    OBVIOUS
  <2>1. m \in Links /\ alive[m]
    BY FarEnd DEF Undisturbed
  <2>2. Posted(w, r, ports, p)[m][x] =
          IF m \in ports /\ alive[m] /\ x = Far(r, m) THEN Append(w[m][x], p) ELSE w[m][x]
    BY <2>1 DEF Posted
  <2>3. m \in ports => (x = Far(r, m) <=> x # r)
    BY FarEnd
  <2> QED BY <2>1, <2>2, <2>3
<1>2. ASSUME NEW l \in PortsOf(r)
      PROVE  /\ wire' = Posted(Taken(wire, r, l), r, ports, p) => Moved(r, {l}, ports, p)
             /\ wire' = Taken(wire, r, l) => Moved(r, {l}, {}, p)
  <2>1. \A x \in Routers : \A m \in PortsOf(x) :
          Taken(wire, r, l)[m][x] = IF x = r /\ m \in {l} THEN Tail(wire[m][r]) ELSE wire[m][x]
    BY FarEnd DEF Taken, PacketInv, WireRight
  <2> HIDE DEF Taken
  <2>2. ASSUME wire' = Posted(Taken(wire, r, l), r, ports, p)
        PROVE  Moved(r, {l}, ports, p)
    BY <1>1, <2>1, <2>2 DEF Moved
  <2>3. ASSUME wire' = Taken(wire, r, l)
        PROVE  Moved(r, {l}, {}, p)
    BY <2>1, <2>3 DEF Moved
  <2> QED BY <2>2, <2>3
<1>3. ASSUME wire' = Posted(wire, r, ports, p)
      PROVE  Moved(r, {}, ports, p)
  BY <1>1, <1>3 DEF Moved
<1>4. ASSUME wire' = wire
      PROVE  Moved(r, {}, {}, p)
  BY <1>4 DEF Moved
<1> QED BY <1>2, <1>3, <1>4

\* A step that leaves the tables alone moves no route.
LEMMA TablesRest ==
  ASSUME PacketInv, PacketInv', NEW W, CostsFit(W), RoutesInv(W), UNCHANGED tableVars, rtt' = rtt,
         NEW r \in Routers
  PROVE  /\ \A took : RoutesMove(r, took)
         /\ ListedPaths(W)'
         /\ \A m \in PortsOf(r) : Measured(r, m)'
         /\ direct_neighbors' = direct_neighbors /\ connected' = connected /\ port_cost' = port_cost
<1>1. /\ dv_map' = dv_map /\ direct_neighbors' = direct_neighbors
      /\ connected' = connected /\ port_cost' = port_cost
  BY DEF tableVars
<1>2. Numbers(dv_map[r])
  BY TableNumbers
<1>3. \A took : RoutesMove(r, took)
  BY <1>1, <1>2 DEF RoutesMove, FromBefore, NotWorse, Numbers
<1>4. \A m \in PortsOf(r) : Measured(r, m)'
  BY <1>1 DEF RoutesInv, Met, Measured
<1>5. ListedPaths(W)'
  BY <1>1 DEF RoutesInv, ListedPaths
<1> QED BY <1>1, <1>3, <1>4, <1>5

\* So does what it sends, unless that is a vector, keep the invariant.
LEMMA PlainStep ==
  ASSUME PacketInv, PacketInv', SingleLinks, NEW W, CostsFit(W), RoutesInv(W), UNCHANGED tableVars,
         rtt' = rtt, rtts' = rtts, alive' = alive, \A x \in Routers : silent'[x] = {},
         NEW r \in Routers, NEW took \in SUBSET PortsOf(r), NEW ports \in SUBSET PortsOf(r),
         NEW p \in AnyPacket, Moved(r, took, ports, p), p.type # "DV",
         \A m \in took : wire[m][r] # <<>> /\ Head(wire[m][r]).type # "PONG",
         \A m \in took : Head(wire[m][r]).type = "PING" => m \in ports /\ p.type = "PONG"
  PROVE  RoutesInv(W)'
<1>1. TrueOf(p, dv_map'[r])
  BY DEF TrueOf
<1>2. /\ RoutesMove(r, took) /\ ListedPaths(W)' /\ \A m \in PortsOf(r) : Measured(r, m)'
      /\ direct_neighbors' = direct_neighbors /\ connected' = connected /\ port_cost' = port_cost
  BY TablesRest
<1>3. \A x \in Routers \ {r} : /\ direct_neighbors'[x] = direct_neighbors[x]
                               /\ connected'[x] = connected[x]
                               /\ port_cost'[x] = port_cost[x]
  BY <1>2
<1>4. /\ \A m \in took : wire[m][r] # <<>>
      /\ \A m \in connected[r] : m \in connected'[r]
      /\ \A m \in connected'[r] \ connected[r] : m \in took /\ Head(wire[m][r]).type = "PONG"
      /\ \A m \in took : Head(wire[m][r]).type = "PONG" => m \in connected'[r]
      /\ \A m \in took : Head(wire[m][r]).type = "PING" => m \in ports /\ p.type = "PONG"
      /\ p.type = "DV" => ports \subseteq connected'[r]
  BY <1>2
<1> QED BY <1>1, <1>2, <1>3, <1>4, RoutesStep

\* The packets without a vector.
LEMMA PlainPackets ==
  /\ Ping \in AnyPacket /\ Ping.type = "PING"
  /\ Pong \in AnyPacket /\ Pong.type = "PONG"
  /\ \A d \in Routers : Data(d) \in AnyPacket /\ Data(d).type = "DATA"
BY DEF AnyPacket, Ping, Pong, Data

LEMMA RecvPingRests ==
  ASSUME PacketInv, PacketInv', SingleLinks, NEW W, CostsFit(W), RoutesInv(W),
         NEW r \in Routers, NEW l \in PortsOf(r), RecvPing(r, l)
  PROVE  RoutesInv(W)'
<1>1. /\ wire[l][r] # <<>> /\ Head(wire[l][r]).type = "PING"
      /\ wire' = Posted(Taken(wire, r, l), r, {l}, Pong)
      /\ silent' = IF alive[l] THEN silent ELSE [silent EXCEPT ![Far(r, l)] = @ \cup {l}]
      /\ alive' = alive /\ rtt' = rtt /\ rtts' = rtts /\ UNCHANGED tableVars
  BY DEF RecvPing, Arrives
<1>2. Undisturbed
  BY DEF RoutesInv
<1>3. silent' = silent /\ \A x \in Routers : silent'[x] = {}
  BY <1>1, <1>2, FarEnd DEF Undisturbed
<1>4. Moved(r, {l}, {l}, Pong)
  BY <1>1, <1>2, MovedBy
<1> QED BY <1>1, <1>3, <1>4, PlainPackets, PlainStep

\* A packet passed on, if there is a next hop.
LEMMA ForwardedMoves ==
  ASSUME PacketInv, IInv, Undisturbed, NEW r \in Routers, NEW dest \in Routers
  PROVE  /\ \A l \in PortsOf(r) : wire' = Forwarded(Taken(wire, r, l), r, dest) =>
              \E ports \in SUBSET PortsOf(r) : Moved(r, {l}, ports, Data(dest))
         /\ wire' = Forwarded(wire, r, dest) =>
              \E ports \in SUBSET PortsOf(r) : Moved(r, {}, ports, Data(dest))
<1> DEFINE port == direct_neighbors[r][forwarding_table[r][dest]].port
<1>1. CASE dest = r \/ dest \notin DOMAIN forwarding_table[r]
  <2>1. \A w : Forwarded(w, r, dest) = w
    BY <1>1 DEF Forwarded
  <2>2. {} \in SUBSET PortsOf(r)
    OBVIOUS
  <2> QED BY <2>1, <2>2, MovedBy
<1>2. CASE dest # r /\ dest \in DOMAIN forwarding_table[r]
  <2>1. forwarding_table[r][dest] \in DOMAIN direct_neighbors[r]
    BY <1>2 DEF IInv, Good, Agree, HopsIn
  <2>2. {port} \in SUBSET PortsOf(r)
    BY <2>1 DEF IInv, Good, PortsRight
  <2>3. \A w : Forwarded(w, r, dest) = Posted(w, r, {port}, Data(dest))
    BY <1>2 DEF Forwarded
  <2> HIDE DEF port
  <2> QED BY <2>2, <2>3, MovedBy
<1> QED BY <1>1, <1>2

LEMMA RecvDataRests ==
  ASSUME PacketInv, PacketInv', IInv, SingleLinks, NEW W, CostsFit(W), RoutesInv(W),
         NEW r \in Routers, NEW l \in PortsOf(r), RecvData(r, l)
  PROVE  RoutesInv(W)'
<1>1. /\ wire[l][r] # <<>> /\ Head(wire[l][r]).type = "DATA"
      /\ wire' = Forwarded(Taken(wire, r, l), r, Head(wire[l][r]).dest)
      /\ silent' = silent /\ alive' = alive /\ rtt' = rtt /\ rtts' = rtts /\ UNCHANGED tableVars
  BY DEF RecvData, Arrives
<1>2. Undisturbed /\ \A x \in Routers : silent'[x] = {}
  BY <1>1 DEF RoutesInv, Undisturbed
<1>3. Head(wire[l][r]) \in Sendable(Far(r, l))
  BY <1>1, TakenRight DEF PacketInv
<1>4. Head(wire[l][r]).dest \in Routers
  BY <1>1, <1>3, PacketShape
<1>5. PICK ports \in SUBSET PortsOf(r) : Moved(r, {l}, ports, Data(Head(wire[l][r]).dest))
  BY <1>1, <1>2, <1>4, ForwardedMoves
<1> QED BY <1>1, <1>2, <1>4, <1>5, PlainPackets, PlainStep

LEMMA SendDataRests ==
  ASSUME PacketInv, PacketInv', IInv, SingleLinks, NEW W, CostsFit(W), RoutesInv(W),
         NEW r \in Routers, NEW dest \in Routers, SendData(r, dest)
  PROVE  RoutesInv(W)'
<1>1. /\ dest \in DOMAIN forwarding_table[r] /\ wire' = Forwarded(wire, r, dest)
      /\ silent' = silent /\ alive' = alive /\ rtt' = rtt /\ rtts' = rtts /\ UNCHANGED tableVars
  BY DEF SendData
<1>2. Undisturbed /\ \A x \in Routers : silent'[x] = {}
  BY <1>1 DEF RoutesInv, Undisturbed
<1>3. PICK ports \in SUBSET PortsOf(r) : Moved(r, {}, ports, Data(dest))
  BY <1>1, <1>2, ForwardedMoves
<1> QED BY <1>1, <1>2, <1>3, PlainPackets, PlainStep

LEMMA PingAlarmRests ==
  ASSUME PacketInv, PacketInv', SingleLinks, NEW W, CostsFit(W), RoutesInv(W),
         NEW r \in Routers, PingAlarm(r)
  PROVE  RoutesInv(W)'
<1>1. /\ wire' = Posted(wire, r, PortsOf(r), Ping)
      /\ silent' = [silent EXCEPT ![r] = @ \cup {m \in PortsOf(r) : ~ alive[m]}]
      /\ alive' = alive /\ rtt' = rtt /\ rtts' = rtts /\ UNCHANGED tableVars
  BY DEF PingAlarm
<1>2. Undisturbed
  BY DEF RoutesInv
<1>3. \A x \in Routers : silent'[x] = {}
  <2>1. {m \in PortsOf(r) : ~ alive[m]} = {}
    BY <1>2, FarEnd DEF Undisturbed
  <2> QED BY <1>1, <1>2, <2>1 DEF Undisturbed, PacketInv, PortsInv
<1>4. Moved(r, {}, PortsOf(r), Ping)
  BY <1>1, <1>2, MovedBy
<1> QED BY <1>1, <1>3, <1>4, PlainPackets, PlainStep

-----------------------------------------------------------------------------
(* The steps that send vectors. *)

\* What is listed fits into a vector.
LEMMA ListedFits ==
  ASSUME PacketInv', NEW W, CostsFit(W), ListedPaths(W)', NEW r \in Routers
  PROVE  \A d \in DOMAIN dv_map'[r] : Bits16(dv_map'[r][d].cost) = dv_map'[r][d].cost
<1> SUFFICES ASSUME NEW d \in DOMAIN dv_map'[r]
             PROVE  Bits16(dv_map'[r][d].cost) = dv_map'[r][d].cost
  OBVIOUS
<1>1. dv_map'[r][d].cost \in Nat
  BY DEF PacketInv, MapsRight, TableRight
<1>2. Path(W, dv_map', r, d, dv_map'[r][d].cost)
  BY DEF ListedPaths
<1> QED BY <1>1, <1>2, PathFits

\* A vector is a packet, with what it was made of.
LEMMA VectorPacket ==
  ASSUME NEW costs \in Vectors, NEW again \in Vectors
  PROVE  /\ DV(costs, again) \in AnyPacket /\ DV(costs, again).type = "DV"
         /\ DV(costs, again).costs = costs /\ DV(costs, again).again = again
BY DEF AnyPacket, DV

\* The vector that a handler sends when it took a packet.
LEMMA VectorMoves ==
  ASSUME PacketInv, Undisturbed, NEW r \in Routers, NEW l \in PortsOf(r),
         connected'[r] \in SUBSET PortsOf(r),
         NEW costs \in Vectors, NEW again \in Vectors, DOMAIN again = {},
         SendDVUpdate(Taken(wire, r, l), r, costs, again),
         \A d \in DOMAIN costs : d \in DOMAIN dv_map'[r] /\ costs[d] = dv_map'[r][d].cost
  PROVE  \E ports \in SUBSET PortsOf(r) : \E p \in AnyPacket :
           /\ Moved(r, {l}, ports, p) /\ TrueOf(p, dv_map'[r])
           /\ p.type = "DV" => ports \subseteq connected'[r]
<1>1. CASE DOMAIN costs = {}
  <2>1. wire' = Taken(wire, r, l)
    BY <1>1 DEF SendDVUpdate
  <2>2. Moved(r, {l}, {}, Ping)
    BY <2>1, MovedBy
  <2>3. TrueOf(Ping, dv_map'[r])
    BY PlainPackets DEF TrueOf
  <2> QED BY <2>2, <2>3, PlainPackets
<1>2. CASE DOMAIN costs # {}
  <2>1. wire' = Posted(Taken(wire, r, l), r, connected'[r], DV(costs, again))
    BY <1>2 DEF SendDVUpdate
  <2>2. Moved(r, {l}, connected'[r], DV(costs, again))
    BY <2>1, MovedBy
  <2>3. TrueOf(DV(costs, again), dv_map'[r])
    BY VectorPacket DEF TrueOf
  <2> QED BY <2>2, <2>3, VectorPacket
<1> QED BY <1>1, <1>2

\* The periodic update repeats the table.
LEMMA UpdateAlarmRests ==
  ASSUME PacketInv, PacketInv', IInv, SingleLinks, NEW W, CostsFit(W), RoutesInv(W),
         NEW r \in Routers, UpdateAlarm(r)
  PROVE  RoutesInv(W)'
<1> DEFINE costs == [d \in DOMAIN dv_map[r] |-> Bits16(dv_map[r][d].cost)]
<1>1. /\ wire' = Posted(wire, r, connected[r], DV(costs, NoEntry))
      /\ silent' = silent /\ alive' = alive /\ rtt' = rtt /\ rtts' = rtts /\ UNCHANGED tableVars
  BY DEF UpdateAlarm
<1>2. TableRight(r, dv_map[r]) /\ connected[r] \in SUBSET PortsOf(r)
  BY OwnMaps
<1>3. costs \in [DOMAIN dv_map[r] -> 0 .. COST_MOD - 1] /\ DOMAIN dv_map[r] \in SUBSET Routers
  BY <1>2, CostRange DEF TableRight
<1>4. costs \in Vectors
  BY <1>3, VectorOf
<1>5. /\ RoutesMove(r, {}) /\ ListedPaths(W)' /\ \A m \in PortsOf(r) : Measured(r, m)'
      /\ direct_neighbors' = direct_neighbors /\ connected' = connected /\ port_cost' = port_cost
  BY <1>1, TablesRest
<1>6. dv_map' = dv_map
  BY <1>1 DEF tableVars
<1>7. \A d \in DOMAIN costs : d \in DOMAIN dv_map'[r] /\ costs[d] = dv_map'[r][d].cost
  BY <1>5, <1>6, ListedFits
<1> HIDE DEF costs
<1>8. DV(costs, NoEntry) \in AnyPacket /\ TrueOf(DV(costs, NoEntry), dv_map'[r])
  BY <1>4, <1>7, NothingSaid, VectorPacket DEF TrueOf
<1>9. Undisturbed /\ \A x \in Routers : silent'[x] = {}
  BY <1>1 DEF RoutesInv, Undisturbed
<1>10. Moved(r, {}, connected[r], DV(costs, NoEntry))
  BY <1>1, <1>2, <1>9, MovedBy
<1>11. \A x \in Routers \ {r} : /\ direct_neighbors'[x] = direct_neighbors[x]
                                /\ connected'[x] = connected[x]
                                /\ port_cost'[x] = port_cost[x]
  BY <1>5
<1>12. {} \in SUBSET PortsOf(r)
  OBVIOUS
<1> QED BY <1>1, <1>2, <1>5, <1>8, <1>9, <1>10, <1>11, <1>12, RoutesStep

\* Nothing is there for a refresh to replace: no port is without its PONG, and
\* every next hop is behind a port.
LEMMA NoRefresh ==
  ASSUME IInv, Undisturbed, NEW r \in Routers
  PROVE  ~ RefreshDV(r)
<1> SUFFICES ASSUME RefreshDV(r)
             PROVE  FALSE
  OBVIOUS
<1>1. silent[r] = {}
  BY DEF Undisturbed
<1>2. PICK dead \in SUBSET (connected[r] \cap silent[r]) :
        \E old \in SUBSET (Stale(r, connected[r]) \ Over(r, {Far(r, l) : l \in dead})) :
          dead # {} \/ old # {}
  BY DEF RefreshDV
<1>3. PICK d \in DOMAIN dv_map[r] :
        \A l \in PortsOf(r) : Far(r, l) = dv_map[r][d].next_hop => l \in silent[r] \ connected[r]
  BY <1>1, <1>2 DEF Stale
<1> DEFINE n == dv_map[r][d].next_hop
<1>4. n \in DOMAIN direct_neighbors[r]
  BY DEF IInv, Good, HopsIn
<1>5. direct_neighbors[r][n].port \in PortsOf(r) /\ Far(r, direct_neighbors[r][n].port) = n
  BY <1>4 DEF IInv, Good, PortsRight
<1> QED BY <1>1, <1>3, <1>5

\* The first PONG on a port brings a direct route, a later one nothing new.
LEMMA RecvPongRests ==
  ASSUME PacketInv, PacketInv', IInv, IInv', SingleLinks, NEW W, CostsFit(W), RoutesInv(W),
         NEW r \in Routers, NEW l \in PortsOf(r), RecvPong(r, l)
  PROVE  RoutesInv(W)'
<1>0. PICK rrt : rrt = rtt[l] /\ PongMeasures(r, l, rrt)
  <2>1. PICK t \in RoundTrips(l) : PongMeasures(r, l, t)
    BY DEF RecvPong
  <2>2. l \in Links /\ rtts[l] = {rtt[l]} /\ rtt[l] \in Nat
    BY FarEnd DEF RoutesInv, Undisturbed, PacketInv, PortsInv
  <2>3. t = (rtt[l] + rtt[l]) \div 2
    BY <2>2 DEF RoundTrips
  <2>4. (rtt[l] + rtt[l]) \div 2 = rtt[l]
    BY <2>2
  <2> QED BY <2>1, <2>3, <2>4
<1> DEFINE src      == Far(r, l)
           dv       == dv_map[r]
           nbrs     == Merged(direct_neighbors[r], [n \in {src} |-> Neighbor(l, rrt)], {})
           diff     == rrt - port_cost[r][l]
           may(d)   == (dv[d].cost + diff) % COST_MOD
           mine     == {d \in DOMAIN dv : diff # 0 /\ dv[d].next_hop = src}
           toDirect == {d \in mine : d \in DOMAIN nbrs /\ nbrs[d].cost <= may(d)}
           moved    == mine \ DOMAIN nbrs
           better   == {d \in DOMAIN dv : diff # 0 /\ d = src /\ dv[d].next_hop # src /\ rrt <= dv[d].cost}
           new      == {src} \ DOMAIN dv
           again    == diff # 0 /\ l \notin connected[r]
           said     == IF new # {} \/ again THEN DOMAIN dv \cup new ELSE mine \cup better
           twice    == IF new # {} THEN mine \cup better ELSE {}
           cells    == [d \in toDirect \cup moved \cup better \cup new |->
                          CASE d \in toDirect -> Cell(d, nbrs[d].cost)
                            [] d \in moved    -> Cell(src, may(d))
                            [] OTHER          -> Cell(src, rrt)]
<1>1. /\ dv_map' = [dv_map EXCEPT ![r] = Merged(dv, cells, {})]
      /\ direct_neighbors' = [direct_neighbors EXCEPT ![r] = nbrs]
      /\ connected' = [connected EXCEPT ![r] = ConnectedBy(r, l)]
      /\ port_cost' = [port_cost EXCEPT ![r][l] = rrt]
      /\ silent' = [silent EXCEPT ![r] = silent[r] \ {l}]
      /\ alive' = alive /\ rtt' = rtt /\ rtts' = rtts
      /\ SendDVUpdate(Taken(wire, r, l), r, Told(r, said, {}), Told(r, twice, {}))
      /\ wire[l][r] # <<>> /\ Head(wire[l][r]).type = "PONG"
  BY <1>0 DEF PongMeasures, WriteTables, Arrives
<1>2. /\ src \in Routers /\ src # r /\ l \in Links /\ rrt \in Nat /\ port_cost[r][l] \in Nat
      /\ TableRight(r, dv) /\ Undisturbed /\ Measured(r, l)
  BY <1>0, FarEnd, OwnMaps DEF PacketInv, PortsInv, RoutesInv, Met
<1>3. mine = {}
  <2>1. CASE l \in connected[r]
    BY <1>0, <1>2, <2>1 DEF Measured
  <2>2. CASE l \notin connected[r]
    BY <1>2, <2>2 DEF Measured, IInv, Good, HopsIn
  <2> QED BY <2>1, <2>2
<1>4. /\ toDirect = {} /\ moved = {} /\ twice = {}
      /\ better \subseteq {src} /\ new \subseteq {src} /\ {src} \subseteq DOMAIN dv \cup new
      /\ better \subseteq DOMAIN dv /\ new \cap DOMAIN dv = {}
      /\ \A d \in better : rrt <= dv[d].cost
      /\ said \subseteq DOMAIN dv \cup new
  BY <1>3
<1>5. DOMAIN cells = better \cup new /\ \A d \in better \cup new : cells[d] = Cell(src, rrt)
  BY <1>4
<1> HIDE DEF cells, mine, toDirect, moved, better, new, said, twice, nbrs, diff, dv, src
<1>6. /\ dv_map'[r] = Merged(dv, cells, {})
      /\ direct_neighbors'[r] = nbrs /\ connected'[r] = ConnectedBy(r, l)
      /\ port_cost'[r] = [port_cost[r] EXCEPT ![l] = rrt]
      /\ \A x \in Routers \ {r} : /\ dv_map'[x] = dv_map[x]
                                  /\ direct_neighbors'[x] = direct_neighbors[x]
                                  /\ connected'[x] = connected[x]
                                  /\ port_cost'[x] = port_cost[x]
  BY <1>1 DEF IInv, Shape, PacketInv, PortsInv
<1>7. /\ DOMAIN dv_map'[r] = DOMAIN dv \cup new
      /\ \A d \in DOMAIN dv_map'[r] :
           dv_map'[r][d] = IF d \in better \cup new THEN Cell(src, rrt) ELSE dv[d]
  BY <1>4, <1>5, <1>6 DEF Merged
<1>8. RoutesMove(r, {l})
  <2>1. NotWorse(dv, dv_map'[r])
    BY <1>2, <1>4, <1>7 DEF NotWorse, Cell, TableRight
  <2>2. ASSUME NEW d \in DOMAIN dv_map'[r]
        PROVE  FromBefore(r, d) \/ FromLink(r, d)
    <3>1. CASE d \in better \cup new
      <4>1. d = src /\ dv_map'[r][d].next_hop = src /\ dv_map'[r][d].cost = rrt
        BY <1>4, <1>7, <3>1 DEF Cell
      <4> QED BY <1>0, <4>1 DEF FromLink, src
    <3>2. CASE d \notin better \cup new
      BY <1>7, <3>2 DEF FromBefore, dv
    <3> QED BY <3>1, <3>2
  <2> QED BY <1>6, <2>1, <2>2 DEF RoutesMove, dv
<1>9. {l} \in SUBSET PortsOf(r) /\ \A m \in {l} : wire[m][r] # <<>>
  BY <1>1
<1>10. ListedPaths(W)'
  BY <1>2, <1>8, <1>9, ListedStep DEF RoutesInv, Undisturbed
<1>11. /\ Told(r, said, {}) \in Vectors /\ Told(r, {}, {}) \in Vectors /\ DOMAIN Told(r, {}, {}) = {}
       /\ \A d \in DOMAIN Told(r, said, {}) :
            d \in DOMAIN dv_map'[r] /\ Told(r, said, {})[d] = dv_map'[r][d].cost
  <2>1. TableRight(r, dv_map'[r])
    BY DEF PacketInv, MapsRight
  <2>2. said \subseteq DOMAIN dv_map'[r] /\ said \in SUBSET (Routers \ {r})
    BY <1>4, <1>7, <2>1 DEF TableRight
  <2>3. Told(r, said, {}) \in Vectors /\ DOMAIN Told(r, said, {}) = said
    BY <2>1, <2>2, ToldRight
  <2>4. Told(r, {}, {}) \in Vectors /\ DOMAIN Told(r, {}, {}) = {}
    BY <2>1, ToldRight
  <2>5. \A d \in said : Told(r, said, {})[d] = Bits16(dv_map'[r][d].cost)
    BY DEF Told
  <2> QED BY <1>10, <2>2, <2>3, <2>4, <2>5, ListedFits
<1>12. connected'[r] \in SUBSET PortsOf(r)
  BY DEF IInv, Good, OnePort
<1>13. PICK ports \in SUBSET PortsOf(r), p \in AnyPacket :
         /\ Moved(r, {l}, ports, p) /\ TrueOf(p, dv_map'[r])
         /\ p.type = "DV" => ports \subseteq connected'[r]
  <2>1. SendDVUpdate(Taken(wire, r, l), r, Told(r, said, {}), Told(r, {}, {}))
    BY <1>1, <1>4
  <2>2. Undisturbed
    BY <1>2
  <2> QED BY <1>11, <1>12, <2>1, <2>2, VectorMoves
<1>14. connected'[r] = {l} \cup connected[r]
  <2>1. \A m \in connected[r] : m \in PortsOf(r)
    BY DEF IInv, Good, OnePort
  <2>2. \A m \in connected[r] : Far(r, m) = Far(r, l) => m = l
    BY <2>1, SinglePort
  <2> QED BY <1>6, <2>2 DEF ConnectedBy
<1>15. ASSUME NEW m \in PortsOf(r)
       PROVE  Measured(r, m)'
  <2>1. /\ DOMAIN direct_neighbors'[r] = DOMAIN direct_neighbors[r] \cup {src}
        /\ direct_neighbors'[r][src] = Neighbor(l, rrt)
        /\ \A n \in DOMAIN direct_neighbors[r] : n # src =>
             direct_neighbors'[r][n] = direct_neighbors[r][n]
    BY <1>6 DEF nbrs, Merged
  <2>2. CASE m = l
    <3>1. l \in connected'[r] /\ src \in DOMAIN direct_neighbors'[r] /\ src \in DOMAIN dv_map'[r]
      BY <1>4, <1>7, <1>14, <2>1
    <3>2. direct_neighbors'[r][src].cost = rrt
      BY <2>1 DEF Neighbor
    <3>3. port_cost'[r][l] = rrt
      BY <1>2, <1>6 DEF PacketInv, PortsInv
    <3> QED BY <1>0, <1>1, <2>2, <3>1, <3>2, <3>3 DEF Measured, src
  <2>3. CASE m # l
    <3>1. Far(r, m) # src
      BY <2>3, SinglePort DEF src
    <3>2. Measured(r, m)
      BY DEF RoutesInv, Met
    <3>3. port_cost'[r][m] = port_cost[r][m] /\ (m \in connected'[r] <=> m \in connected[r])
      BY <1>2, <1>6, <1>14, <2>3 DEF PacketInv, PortsInv, PortsOf
    <3>4. \A d \in DOMAIN dv_map[r] : d \in DOMAIN dv_map'[r]
      BY <1>7 DEF dv
    <3> QED BY <1>1, <2>1, <3>1, <3>2, <3>3, <3>4 DEF Measured
  <2> QED BY <2>2, <2>3
<1>16. \A x \in Routers : silent'[x] = {}
  BY <1>1, <1>2 DEF Undisturbed, PacketInv, PortsInv
<1>17. /\ \A m \in connected[r] : m \in connected'[r]
       /\ \A m \in connected'[r] \ connected[r] : m \in {l} /\ Head(wire[m][r]).type = "PONG"
       /\ \A m \in {l} : Head(wire[m][r]).type = "PONG" => m \in connected'[r]
       /\ \A m \in {l} : Head(wire[m][r]).type = "PING" => m \in ports /\ p.type = "PONG"
  BY <1>1, <1>14
<1>18. \A x \in Routers \ {r} : /\ direct_neighbors'[x] = direct_neighbors[x]
                                /\ connected'[x] = connected[x]
                                /\ port_cost'[x] = port_cost[x]
  BY <1>6
<1> QED BY <1>1, <1>8, <1>9, <1>10, <1>13, <1>15, <1>16, <1>17, <1>18, RoutesStep

\* One pass over what src says, if that is finite and the routes over src rest
\* on it: a route stays, or gets the direct link, or is the new and shorter one.
LEMMA HeardFinite ==
  ASSUME NEW t, NEW r, NEW src, NEW nbrs, NEW costs, NEW distance \in Nat,
         Numbers(t.dv), Numbers(nbrs),
         src \in DOMAIN nbrs, nbrs[src].cost = distance,
         \A d \in DOMAIN costs : costs[d] \in Nat /\ costs[d] # INFINITY_COST,
         \A d \in DOMAIN costs : d \in DOMAIN t.dv /\ t.dv[d].next_hop = src =>
           distance + costs[d] <= t.dv[d].cost
  PROVE  LET h == Heard(t, r, src, nbrs, costs)
         IN /\ NotWorse(t.dv, h.dv)
            /\ \A d \in DOMAIN h.dv :
                 \/ /\ d \in DOMAIN t.dv /\ h.dv[d].next_hop = t.dv[d].next_hop
                    /\ h.dv[d].cost = t.dv[d].cost
                 \/ d \in DOMAIN nbrs /\ h.dv[d].next_hop = d /\ h.dv[d].cost = nbrs[d].cost
                 \/ /\ d \in DOMAIN costs /\ h.dv[d].next_hop = src
                    /\ h.dv[d].cost = distance + costs[d]
                    /\ d \in DOMAIN t.dv => h.dv[d].cost < t.dv[d].cost
            /\ \A d \in DOMAIN h.told : d \in DOMAIN h.dv /\ h.told[d] = Bits16(h.dv[d].cost)
            /\ h.kept = {}
<1> DEFINE infinite == DOMAIN t.dv \cap (DOMAIN costs \ Finite(costs))
           toDirect == ToDirect(t, src, nbrs, costs)
           toSource == ToSource(t, r, src, nbrs, costs)
           gone     == Withdrawn(t, src, costs) \ DOMAIN nbrs
           cells    == [d \in toDirect \cup toSource |->
                          IF d \in toDirect THEN Cell(d, nbrs[d].cost)
                          ELSE Cell(src, Through(costs[d], nbrs[src].cost))]
           dv       == Merged(t.dv, cells, gone)
           told     == [d \in DOMAIN cells \cup infinite |->
                          IF d \in gone THEN INFINITY_COST ELSE Bits16(dv[d].cost)]
           h        == Heard(t, r, src, nbrs, costs)
<1>1. h.dv = dv /\ h.told = told /\ h.kept = infinite \ Withdrawn(t, src, costs)
  BY DEF Heard
<1>2. Finite(costs) = DOMAIN costs
  BY DEF Finite
<1>3. infinite = {} /\ Withdrawn(t, src, costs) = {} /\ gone = {}
  BY <1>2 DEF Withdrawn
<1>4. \A d \in DOMAIN costs : Through(costs[d], nbrs[src].cost) = distance + costs[d]
  BY DEF Through
<1>5. ASSUME NEW d \in toDirect
      PROVE  /\ d \in DOMAIN t.dv /\ d \in DOMAIN nbrs
             /\ nbrs[d].cost <= t.dv[d].cost
  <2>1. d \in Same(t, src, nbrs, costs) /\ d \in DOMAIN nbrs /\ nbrs[d].cost <= Through(costs[d], nbrs[src].cost)
    BY <1>3, <1>5 DEF ToDirect
  <2>2. d \in DOMAIN costs /\ d \in DOMAIN t.dv /\ t.dv[d].next_hop = src
    BY <1>2, <2>1 DEF Same
  <2>3. /\ nbrs[d].cost \in Nat /\ t.dv[d].cost \in Nat /\ costs[d] \in Nat
        /\ nbrs[d].cost <= distance + costs[d] /\ distance + costs[d] <= t.dv[d].cost
    BY <1>4, <2>1, <2>2 DEF Numbers
  <2> QED BY <2>1, <2>2, <2>3
<1>6. ASSUME NEW d \in toSource
      PROVE  /\ d \in DOMAIN costs
             /\ d \in DOMAIN t.dv => \/ distance + costs[d] < t.dv[d].cost
                                     \/ t.dv[d].next_hop = src /\ distance + costs[d] = t.dv[d].cost
  <2>1. CASE d \in Better(t, src, nbrs, costs)
    <3>1. d \in DOMAIN costs /\ d \in DOMAIN t.dv /\ t.dv[d].cost > Through(costs[d], nbrs[src].cost)
      BY <1>2, <2>1 DEF Better
    <3>2. t.dv[d].cost \in Nat /\ costs[d] \in Nat
      BY <3>1 DEF Numbers
    <3> QED BY <1>4, <3>1, <3>2
  <2>2. CASE d \in Same(t, src, nbrs, costs)
    <3>1. d \in DOMAIN costs /\ d \in DOMAIN t.dv /\ t.dv[d].next_hop = src
      BY <1>2, <2>2 DEF Same
    <3>2. ~ (t.dv[d].cost > Through(costs[d], nbrs[src].cost))
      BY <1>2, <2>2, <3>1 DEF Same, Better
    <3>3. t.dv[d].cost \in Nat /\ costs[d] \in Nat /\ distance + costs[d] <= t.dv[d].cost
      BY <3>1 DEF Numbers
    <3> QED BY <1>4, <3>1, <3>2, <3>3
  <2>3. CASE d \in Discovered(r, t.dv, Finite(costs))
    BY <1>2, <2>3 DEF Discovered
  <2> QED BY <1>6, <2>1, <2>2, <2>3 DEF ToSource
<1> HIDE DEF toDirect, toSource, infinite, gone
<1>7. /\ DOMAIN cells = toDirect \cup toSource
      /\ \A d \in toDirect : cells[d] = Cell(d, nbrs[d].cost)
      /\ \A d \in toSource \ toDirect : cells[d] = Cell(src, distance + costs[d])
  BY <1>4, <1>6
<1> HIDE DEF cells
<1>8. /\ DOMAIN dv = DOMAIN t.dv \cup DOMAIN cells
      /\ \A d \in DOMAIN dv : dv[d] = IF d \in DOMAIN cells THEN cells[d] ELSE t.dv[d]
  BY <1>3 DEF Merged
<1> HIDE DEF dv
<1>9. ASSUME NEW d \in DOMAIN dv
      PROVE  \/ /\ d \in DOMAIN t.dv /\ dv[d].next_hop = t.dv[d].next_hop
                /\ dv[d].cost = t.dv[d].cost
             \/ /\ d \in DOMAIN nbrs /\ dv[d].next_hop = d /\ dv[d].cost = nbrs[d].cost
                /\ d \in DOMAIN t.dv /\ dv[d].cost <= t.dv[d].cost
             \/ /\ d \in DOMAIN costs /\ dv[d].next_hop = src
                /\ dv[d].cost = distance + costs[d]
                /\ d \in DOMAIN t.dv => dv[d].cost < t.dv[d].cost
  <2>1. CASE d \in toDirect
    <3>1. dv[d].next_hop = d /\ dv[d].cost = nbrs[d].cost
      BY <1>7, <1>8, <2>1 DEF Cell
    <3> QED BY <1>5, <2>1, <3>1
  <2>2. CASE d \in toSource \ toDirect
    <3>1. dv[d].next_hop = src /\ dv[d].cost = distance + costs[d]
      BY <1>7, <1>8, <2>2 DEF Cell
    <3>2. CASE d \in DOMAIN t.dv /\ t.dv[d].next_hop = src /\ distance + costs[d] = t.dv[d].cost
      BY <3>1, <3>2
    <3>3. CASE d \in DOMAIN t.dv => distance + costs[d] < t.dv[d].cost
      BY <1>6, <2>2, <3>1, <3>3
    <3> QED BY <1>6, <2>2, <3>2, <3>3
  <2>3. CASE d \notin DOMAIN cells
    BY <1>8, <2>3
  <2> QED BY <1>7, <2>1, <2>2, <2>3
<1>10. NotWorse(t.dv, dv)
  <2> SUFFICES ASSUME NEW d \in DOMAIN t.dv
               PROVE  d \in DOMAIN dv /\ dv[d].cost <= t.dv[d].cost
    BY DEF NotWorse
  <2>1. d \in DOMAIN dv /\ t.dv[d].cost \in Nat
    BY <1>8 DEF Numbers
  <2>2. \/ dv[d].cost = t.dv[d].cost
        \/ dv[d].cost <= t.dv[d].cost
        \/ d \in DOMAIN costs /\ dv[d].cost = distance + costs[d] /\ dv[d].cost < t.dv[d].cost
    BY <1>9, <2>1
  <2> QED BY <2>1, <2>2
<1>11. \A d \in DOMAIN told : d \in DOMAIN dv /\ told[d] = Bits16(dv[d].cost)
  BY <1>3, <1>8
<1> HIDE DEF h, told
<1>12. h.kept = {}
  BY <1>1, <1>3
<1>13. \A d \in DOMAIN h.dv :
         \/ /\ d \in DOMAIN t.dv /\ h.dv[d].next_hop = t.dv[d].next_hop
            /\ h.dv[d].cost = t.dv[d].cost
         \/ d \in DOMAIN nbrs /\ h.dv[d].next_hop = d /\ h.dv[d].cost = nbrs[d].cost
         \/ /\ d \in DOMAIN costs /\ h.dv[d].next_hop = src
            /\ h.dv[d].cost = distance + costs[d]
            /\ d \in DOMAIN t.dv => h.dv[d].cost < t.dv[d].cost
  BY <1>1, <1>9
<1>14. /\ NotWorse(t.dv, h.dv)
       /\ \A d \in DOMAIN h.told : d \in DOMAIN h.dv /\ h.told[d] = Bits16(h.dv[d].cost)
  BY <1>1, <1>10, <1>11
<1> QED BY <1>12, <1>13, <1>14 DEF h

\* A pass over nothing.
LEMMA HeardNothing ==
  ASSUME NEW t, NEW r, NEW src, NEW nbrs, NEW costs, DOMAIN costs = {}
  PROVE  LET h == Heard(t, r, src, nbrs, costs)
         IN /\ DOMAIN h.dv = DOMAIN t.dv /\ \A d \in DOMAIN t.dv : h.dv[d] = t.dv[d]
            /\ DOMAIN h.told = {} /\ h.kept = {}
<1> DEFINE infinite == DOMAIN t.dv \cap (DOMAIN costs \ Finite(costs))
           toDirect == ToDirect(t, src, nbrs, costs)
           toSource == ToSource(t, r, src, nbrs, costs)
           gone     == Withdrawn(t, src, costs) \ DOMAIN nbrs
           cells    == [d \in toDirect \cup toSource |->
                          IF d \in toDirect THEN Cell(d, nbrs[d].cost)
                          ELSE Cell(src, Through(costs[d], nbrs[src].cost))]
           dv       == Merged(t.dv, cells, gone)
           told     == [d \in DOMAIN cells \cup infinite |->
                          IF d \in gone THEN INFINITY_COST ELSE Bits16(dv[d].cost)]
           h        == Heard(t, r, src, nbrs, costs)
<1>1. h.dv = dv /\ h.told = told /\ h.kept = infinite \ Withdrawn(t, src, costs)
  BY DEF Heard
<1>2. Finite(costs) = {}
  BY DEF Finite
<1>3. infinite = {} /\ Withdrawn(t, src, costs) = {} /\ gone = {}
  BY <1>2 DEF Withdrawn
<1>4. toDirect = {} /\ toSource = {}
  BY <1>2, <1>3 DEF ToDirect, ToSource, Same, Better, Discovered
<1> HIDE DEF toDirect, toSource, infinite, gone
<1>5. DOMAIN cells = {}
  BY <1>4
<1> HIDE DEF cells
<1>6. DOMAIN dv = DOMAIN t.dv /\ \A d \in DOMAIN t.dv : dv[d] = t.dv[d]
  BY <1>3, <1>5 DEF Merged
<1>7. DOMAIN told = {}
  BY <1>3, <1>5
<1> HIDE DEF h, dv, told
<1>8. h.kept = {}
  BY <1>1, <1>3
<1> QED BY <1>1, <1>6, <1>7, <1>8 DEF h

\* A vector comes on a port that is measured, and says nothing twice.
LEMMA VectorOnMeasured ==
  ASSUME PacketInv, NEW W, CostsFit(W), RoutesInv(W), NEW r \in Routers, NEW l \in PortsOf(r),
         wire[l][r] # <<>>, Head(wire[l][r]).type = "DV"
  PROVE  LET packet == Head(wire[l][r])
         IN /\ l \in connected[r]
            /\ packet.costs \in Vectors /\ packet.again \in Vectors /\ DOMAIN packet.again = {}
            /\ \A d \in DOMAIN packet.costs :
                 /\ Names(packet, d) /\ d # Far(r, l)
                 /\ packet.costs[d] \in Nat /\ packet.costs[d] # INFINITY_COST
                 /\ d \in DOMAIN dv_map[r] /\ dv_map[r][d].next_hop = Far(r, l) =>
                      rtt[l] + packet.costs[d] <= dv_map[r][d].cost
<1> DEFINE packet == Head(wire[l][r])
           src    == Far(r, l)
<1>1. /\ wire[l][r] \in Seq(AnyPacket) /\ 1 \in 1 .. Len(wire[l][r]) /\ packet = wire[l][r][1]
      /\ packet \in AnyPacket /\ packet \in Sendable(src)
  <2>1. wire[l][r] \in Seq(AnyPacket) /\ packet \in Sendable(src)
    BY QueueType, TakenRight DEF PacketInv
  <2> QED BY <2>1, TailAt
<1>2. /\ Shaken(r, l) /\ Current(wire[l][r], dv_map[src])
      /\ RestOn(wire[l][r], dv_map[src], dv_map[r], src, rtt[l])
  BY DEF RoutesInv, Met, Spoken
<1>3. l \in connected[r]
  BY <1>1, <1>2, AnsweredTail, NoVectorTail DEF Shaken
<1>4. packet.costs \in Vectors /\ packet.again \in Vectors /\ DOMAIN packet.again = {}
  BY <1>1, <1>2, PacketShape DEF Current
<1>5. ASSUME NEW d \in DOMAIN packet.costs
      PROVE  /\ Names(packet, d) /\ d # src
             /\ packet.costs[d] \in Nat /\ packet.costs[d] # INFINITY_COST
             /\ d \in DOMAIN dv_map[r] /\ dv_map[r][d].next_hop = src =>
                  rtt[l] + packet.costs[d] <= dv_map[r][d].cost
  <2>1. Names(packet, d) /\ d # src
    BY <1>1 DEF Names, Sendable
  <2>2. d \in Routers /\ packet.costs[d] \in Nat
    BY <1>1, <2>1, NamesCost
  <2>3. Path(W, dv_map, src, d, packet.costs[d])
    BY <1>1, <2>1, <2>2 DEF RoutesInv, SaidPaths
  <2>4. packet.costs[d] < INFINITY_COST
    BY <2>2, <2>3, PathFits
  <2>5. packet.costs[d] # INFINITY_COST
    BY <2>2, <2>4, CostRange
  <2>6. d \in DOMAIN dv_map[r] /\ dv_map[r][d].next_hop = src =>
          rtt[l] + packet.costs[d] <= dv_map[r][d].cost
    BY <1>1, <1>2, <2>1 DEF RestOn
  <2> QED BY <2>1, <2>2, <2>5, <2>6
<1> QED BY <1>3, <1>4, <1>5

\* What a vector brings are routes that rest on it.
LEMMA RecvDVRests ==
  ASSUME PacketInv, PacketInv', IInv, IInv', SingleLinks, NEW W, CostsFit(W), RoutesInv(W),
         NEW r \in Routers, NEW l \in PortsOf(r), RecvDV(r, l)
  PROVE  RoutesInv(W)'
<1> DEFINE src    == Far(r, l)
           packet == Head(wire[l][r])
<1>1. PICK link_cost \in LinkCosts(r, src, packet.costs) :
        LET nbrs  == Merged([n \in {src} |-> Neighbor(l, link_cost)], direct_neighbors[r], {})
            t     == [dv |-> dv_map[r], ft |-> forwarding_table[r]]
            once  == Heard(t, r, src, nbrs, packet.costs)
            twice == Heard(once, r, src, nbrs, packet.again)
            both  == DOMAIN once.told \cap DOMAIN twice.told
        IN /\ direct_neighbors' = [direct_neighbors EXCEPT ![r] = nbrs]
           /\ dv_map' = [dv_map EXCEPT ![r] = twice.dv]
           /\ SendDVUpdate(Taken(wire, r, l), r,
                Merged(twice.told, once.told, {}),
                [d \in both \cup once.kept |-> Merged(once.told, twice.told, {})[d]])
  BY DEF RecvDV
<1> DEFINE nbrs  == Merged([n \in {src} |-> Neighbor(l, link_cost)], direct_neighbors[r], {})
           t     == [dv |-> dv_map[r], ft |-> forwarding_table[r]]
           once  == Heard(t, r, src, nbrs, packet.costs)
           twice == Heard(once, r, src, nbrs, packet.again)
           both  == DOMAIN once.told \cap DOMAIN twice.told
           first == Merged(twice.told, once.told, {})
           last  == Merged(once.told, twice.told, {})
           again == [d \in both \cup once.kept |-> last[d]]
<1>2. /\ direct_neighbors' = [direct_neighbors EXCEPT ![r] = nbrs]
      /\ dv_map' = [dv_map EXCEPT ![r] = twice.dv]
      /\ SendDVUpdate(Taken(wire, r, l), r, first, again)
  BY <1>1
<1>3. /\ wire[l][r] # <<>> /\ packet.type = "DV"
      /\ alive' = alive /\ rtt' = rtt /\ rtts' = rtts /\ silent' = silent /\ connected' = connected
      /\ port_cost' = port_cost
  BY DEF RecvDV, Arrives
<1>4. /\ l \in connected[r]
      /\ packet.costs \in Vectors /\ packet.again \in Vectors /\ DOMAIN packet.again = {}
      /\ \A d \in DOMAIN packet.costs :
           /\ Names(packet, d) /\ d # src
           /\ packet.costs[d] \in Nat /\ packet.costs[d] # INFINITY_COST
           /\ d \in DOMAIN dv_map[r] /\ dv_map[r][d].next_hop = src =>
                rtt[l] + packet.costs[d] <= dv_map[r][d].cost
  BY <1>3, VectorOnMeasured
<1>5. /\ Undisturbed /\ \A m \in PortsOf(r) : Measured(r, m)
      /\ rtt[l] \in Nat /\ Numbers(dv_map[r]) /\ NeighboursRight(direct_neighbors[r])
  BY QueueType, TableNumbers, OwnMaps DEF RoutesInv, Met
<1>6. src \in DOMAIN direct_neighbors[r] /\ direct_neighbors[r][src].cost = rtt[l]
  BY <1>4, <1>5 DEF Measured
<1>7. /\ DOMAIN nbrs = DOMAIN direct_neighbors[r]
      /\ \A n \in DOMAIN nbrs : nbrs[n] = direct_neighbors[r][n]
  BY <1>6 DEF Merged
<1>8. t.dv = dv_map[r]
  OBVIOUS
<1> HIDE DEF nbrs, t, packet, src
<1>9. Numbers(nbrs) /\ src \in DOMAIN nbrs /\ nbrs[src].cost = rtt[l]
  BY <1>5, <1>6, <1>7 DEF Numbers, NeighboursRight
<1>10. /\ NotWorse(dv_map[r], once.dv)
       /\ \A d \in DOMAIN once.dv :
            \/ /\ d \in DOMAIN dv_map[r] /\ once.dv[d].next_hop = dv_map[r][d].next_hop
               /\ once.dv[d].cost = dv_map[r][d].cost
            \/ d \in DOMAIN nbrs /\ once.dv[d].next_hop = d /\ once.dv[d].cost = nbrs[d].cost
            \/ /\ d \in DOMAIN packet.costs /\ once.dv[d].next_hop = src
               /\ once.dv[d].cost = rtt[l] + packet.costs[d]
               /\ d \in DOMAIN dv_map[r] => once.dv[d].cost < dv_map[r][d].cost
       /\ \A d \in DOMAIN once.told : d \in DOMAIN once.dv /\ once.told[d] = Bits16(once.dv[d].cost)
       /\ once.kept = {}
  <2>1. Numbers(t.dv)
    BY <1>5, <1>8
  <2>2. \A d \in DOMAIN packet.costs : packet.costs[d] \in Nat /\ packet.costs[d] # INFINITY_COST
    BY <1>4
  <2>3. \A d \in DOMAIN packet.costs : d \in DOMAIN t.dv /\ t.dv[d].next_hop = src =>
          rtt[l] + packet.costs[d] <= t.dv[d].cost
    BY <1>4, <1>8
  <2> QED BY <1>5, <1>8, <1>9, <2>1, <2>2, <2>3, HeardFinite
<1> HIDE DEF once
<1>11. /\ DOMAIN twice.dv = DOMAIN once.dv /\ \A d \in DOMAIN once.dv : twice.dv[d] = once.dv[d]
       /\ DOMAIN twice.told = {} /\ twice.kept = {}
  BY <1>4, HeardNothing
<1> HIDE DEF twice
<1>12. /\ DOMAIN first = DOMAIN once.told /\ \A d \in DOMAIN first : first[d] = once.told[d]
       /\ DOMAIN again = {}
  BY <1>10, <1>11 DEF Merged
<1>13. /\ dv_map'[r] = twice.dv /\ direct_neighbors'[r] = nbrs
       /\ \A x \in Routers \ {r} : /\ dv_map'[x] = dv_map[x]
                                   /\ direct_neighbors'[x] = direct_neighbors[x]
                                   /\ connected'[x] = connected[x]
                                   /\ port_cost'[x] = port_cost[x]
  BY <1>2, <1>3 DEF IInv, Shape
<1>14. RoutesMove(r, {l})
  <2>1. NotWorse(dv_map[r], dv_map'[r])
    BY <1>10, <1>11, <1>13 DEF NotWorse
  <2>2. ASSUME NEW d \in DOMAIN dv_map'[r]
        PROVE  FromBefore(r, d) \/ FromLink(r, d) \/ FromPacket(r, {l}, d)
    <3>1. d \in DOMAIN once.dv /\ dv_map'[r][d] = once.dv[d]
      BY <1>11, <1>13
    <3>2. CASE /\ d \in DOMAIN dv_map[r] /\ once.dv[d].next_hop = dv_map[r][d].next_hop
               /\ once.dv[d].cost = dv_map[r][d].cost
      BY <3>1, <3>2 DEF FromBefore
    <3>3. CASE d \in DOMAIN nbrs /\ once.dv[d].next_hop = d /\ once.dv[d].cost = nbrs[d].cost
      <4>1. d \in DOMAIN direct_neighbors[r] /\ dv_map'[r][d].cost = direct_neighbors[r][d].cost
        BY <1>7, <3>1, <3>3
      <4>2. PICK m \in PortsOf(r) : Far(r, m) = d
        BY <4>1 DEF IInv, Good, PortsRight
      <4>3. direct_neighbors[r][d].cost = rtt[m]
        BY <1>5, <4>1, <4>2 DEF Measured
      <4> QED BY <3>1, <3>3, <4>1, <4>2, <4>3 DEF FromLink
    <3>4. CASE /\ d \in DOMAIN packet.costs /\ once.dv[d].next_hop = src
               /\ once.dv[d].cost = rtt[l] + packet.costs[d]
               /\ d \in DOMAIN dv_map[r] => once.dv[d].cost < dv_map[r][d].cost
      <4>1. Names(packet, d)
        BY <1>4, <3>4
      <4> QED BY <3>1, <3>4, <4>1 DEF FromPacket, packet, src
    <3> QED BY <1>10, <3>1, <3>2, <3>3, <3>4
  <2> QED BY <1>13, <2>1, <2>2 DEF RoutesMove
<1>15. {l} \in SUBSET PortsOf(r) /\ \A m \in {l} : wire[m][r] # <<>>
  BY <1>3
<1>16. ListedPaths(W)'
  BY <1>5, <1>14, <1>15, ListedStep DEF RoutesInv, Undisturbed
<1>17. \A d \in DOMAIN first :
         /\ d \in DOMAIN dv_map'[r]
         /\ first[d] = Bits16(dv_map'[r][d].cost) /\ first[d] = dv_map'[r][d].cost
  BY <1>10, <1>11, <1>12, <1>13, <1>16, ListedFits
<1>18. first \in Vectors /\ again \in Vectors
  <2>1. TableRight(r, dv_map'[r])
    BY DEF PacketInv, MapsRight
  <2>2. \A d \in DOMAIN first : first[d] \in 0 .. COST_MOD - 1
    BY <1>17, <2>1, CostRange DEF TableRight
  <2>3. DOMAIN first \in SUBSET Routers
    BY <1>17, <2>1 DEF TableRight
  <2>4. first = [d \in DOMAIN first |-> first[d]] /\ again = [d \in DOMAIN again |-> again[d]]
    BY DEF Merged
  <2> HIDE DEF first, again
  <2>5. first \in [DOMAIN first -> 0 .. COST_MOD - 1] /\ again \in [{} -> 0 .. COST_MOD - 1]
    BY <1>12, <2>2, <2>4
  <2> QED BY <2>3, <2>5, VectorOf
<1> HIDE DEF first, again
<1>19. connected'[r] \in SUBSET PortsOf(r)
  BY DEF IInv, Good, OnePort
<1>20. PICK ports \in SUBSET PortsOf(r), p \in AnyPacket :
         /\ Moved(r, {l}, ports, p) /\ TrueOf(p, dv_map'[r])
         /\ p.type = "DV" => ports \subseteq connected'[r]
  <2>1. Undisturbed /\ connected'[r] \in SUBSET PortsOf(r)
    BY <1>5, <1>19
  <2>2. \A d \in DOMAIN first : d \in DOMAIN dv_map'[r] /\ first[d] = dv_map'[r][d].cost
    BY <1>17
  <2>3. SendDVUpdate(Taken(wire, r, l), r, first, again)
    BY <1>2
  <2>4. first \in Vectors /\ again \in Vectors /\ DOMAIN again = {}
    BY <1>12, <1>18
  <2> QED BY <2>1, <2>2, <2>3, <2>4, VectorMoves
<1>21. ASSUME NEW m \in PortsOf(r)
       PROVE  Measured(r, m)'
  <2>1. Measured(r, m)
    BY <1>5
  <2>2. \A d \in DOMAIN dv_map[r] : d \in DOMAIN dv_map'[r]
    BY <1>14 DEF RoutesMove, NotWorse
  <2> QED BY <1>3, <1>7, <1>13, <2>1, <2>2 DEF Measured
<1>22. \A x \in Routers : silent'[x] = {}
  BY <1>3, <1>5 DEF Undisturbed
<1>23. /\ \A m \in connected[r] : m \in connected'[r]
       /\ \A m \in connected'[r] \ connected[r] : m \in {l} /\ Head(wire[m][r]).type = "PONG"
       /\ \A m \in {l} : Head(wire[m][r]).type = "PONG" => m \in connected'[r]
       /\ \A m \in {l} : Head(wire[m][r]).type = "PING" => m \in ports /\ p.type = "PONG"
  BY <1>3, <1>4 DEF packet
<1>24. \A x \in Routers \ {r} : /\ direct_neighbors'[x] = direct_neighbors[x]
                                /\ connected'[x] = connected[x]
                                /\ port_cost'[x] = port_cost[x]
  BY <1>13
<1> QED BY <1>3, <1>14, <1>15, <1>16, <1>20, <1>21, <1>22, <1>23, <1>24, RoutesStep

-----------------------------------------------------------------------------
(* The theorem. *)

\* The invariant of the routes, as long as nothing was lost or changed.
RoutesSound(W) == faults = 0 => RoutesInv(W)

\* At first a PING is on its way on every port, and nothing is listed.
LEMMA InitRests ==
  ASSUME NEW W, CostsFit(W), Init
  PROVE  RoutesInv(W)
<1>1. /\ \A l \in Links : alive[l] /\ rtt[l] \in Rtt[l] /\ rtts[l] = {rtt[l]}
      /\ \A r \in Routers : silent[r] = {}
  BY DEF Init, LinkInit
<1>2. \A r \in Routers : /\ connected[r] = {}
                         /\ DOMAIN direct_neighbors[r] = {} /\ DOMAIN dv_map[r] = {}
  BY DEF Init, RouterInit, NoEntry
<1>3. ASSUME NEW r \in Routers, NEW l \in PortsOf(r)
      PROVE  wire[l][r] = <<Ping>> /\ wire[l][Far(r, l)] = <<Ping>> /\ Far(r, l) \in Routers
  BY <1>3, FarEnd DEF Init, LinkInit
<1>4. Len(<<Ping>>) = 1 /\ <<Ping>>[1] = Ping /\ Ping.type = "PING"
  BY DEF Ping
<1>5. /\ NoVector(<<Ping>>) /\ Asked(<<Ping>>)
      /\ \A d : \A k \in 1 .. Len(<<Ping>>) : ~ Names(<<Ping>>[k], d)
      /\ \A k \in 1 .. Len(<<Ping>>) : <<Ping>>[k].type # "DV"
  <2>1. \A k \in 1 .. Len(<<Ping>>) : <<Ping>>[k] = Ping
    BY <1>4
  <2>2. 1 \in 1 .. Len(<<Ping>>) /\ \A j \in 1 .. 1 - 1 : <<Ping>>[j].type # "PONG"
    BY <1>4
  <2> QED BY <1>4, <2>1, <2>2 DEF NoVector, Asked, Names
<1>6. Met
  BY <1>2, <1>3, <1>5 DEF Met, Shaken, Measured
<1>7. Spoken
  BY <1>2, <1>3, <1>5 DEF Spoken, Current, RestOn
<1>8. ListedPaths(W) /\ SaidPaths(W)
  BY <1>2, <1>3, <1>5 DEF ListedPaths, SaidPaths
<1> QED BY <1>1, <1>6, <1>7, <1>8 DEF RoutesInv, Undisturbed

\* A fault counts.
LEMMA FaultCounts ==
  ASSUME PacketInv, faults' = 0
  PROVE  ~ Fault
BY LinkAssumption DEF Fault, PacketInv, PortsInv

\* Every step without a fault keeps the invariant.
LEMMA StepRests ==
  ASSUME PacketInv, PacketInv', IInv, IInv', SingleLinks, NEW W, CostsFit(W),
         RoutesInv(W), [Next]_vars, faults' = 0
  PROVE  RoutesInv(W)'
<1>1. ASSUME NEW r \in Routers, HandleAlarm(r)
      PROVE  RoutesInv(W)'
  <2>1. ~ RefreshDV(r)
    BY NoRefresh DEF RoutesInv
  <2> QED BY <1>1, <2>1, PingAlarmRests, UpdateAlarmRests DEF HandleAlarm
<1>2. ASSUME NEW r \in Routers, NEW l \in PortsOf(r), Recv(r, l)
      PROVE  RoutesInv(W)'
  BY <1>2, RecvPingRests, RecvPongRests, RecvDVRests, RecvDataRests DEF Recv
<1>3. ASSUME NEW r \in Routers, NEW dest \in Routers, SendData(r, dest)
      PROVE  RoutesInv(W)'
  BY <1>3, SendDataRests
<1>4. ASSUME NEW r \in Routers, NEW l \in PortsOf(r), Lose(r, l) \/ Overtake(r, l)
      PROVE  FALSE
  BY <1>4, FaultCounts DEF Lose, Overtake
<1>5. ASSUME NEW l \in Links, ChangeLink(l)
      PROVE  FALSE
  BY <1>5, FaultCounts DEF ChangeLink
<1>6. CASE UNCHANGED vars
  BY <1>6 DEF vars, linkVars, tableVars, RoutesInv, Undisturbed, Met, Spoken, ListedPaths,
              SaidPaths, Shaken, Measured
<1> QED BY <1>1, <1>2, <1>3, <1>4, <1>5, <1>6 DEF Next

\* Faults are never taken back.
LEMMA FaultsStay ==
  ASSUME PacketInv, [Next]_vars, faults' = 0
  PROVE  faults = 0
<1>1. faults \in Nat
  BY LinkAssumption DEF PacketInv, PortsInv
<1>2. ASSUME Fault
      PROVE  FALSE
  BY <1>2, FaultCounts
<1>3. ASSUME NEW r \in Routers, HandleAlarm(r)
      PROVE  faults' = faults
  BY <1>3 DEF HandleAlarm, PingAlarm, UpdateAlarm, RefreshDV
<1>4. ASSUME NEW r \in Routers, NEW l \in PortsOf(r), Recv(r, l)
      PROVE  faults' = faults
  BY <1>4 DEF Recv, RecvPing, RecvPong, PongMeasures, RecvDV, RecvData
<1>5. ASSUME NEW r \in Routers, NEW dest \in Routers, SendData(r, dest)
      PROVE  faults' = faults
  BY <1>5 DEF SendData
<1>6. CASE UNCHANGED vars
  BY <1>6 DEF vars, linkVars
<1> QED BY <1>2, <1>3, <1>4, <1>5, <1>6 DEF Next, Lose, Overtake, ChangeLink

\* A route over a neighbour rests on a shorter one of that neighbour.
LEMMA RestsBacked ==
  ASSUME PacketInv, IInv, NEW W, CostsFit(W), RoutesInv(W),
         NEW r \in Routers, NEW d \in DOMAIN dv_map[r], dv_map[r][d].next_hop # d
  PROVE  LET n == dv_map[r][d].next_hop
         IN d \in DOMAIN dv_map[n] /\ dv_map[n][d].cost < dv_map[r][d].cost
<1> DEFINE n == dv_map[r][d].next_hop
<1>1. n \in DOMAIN direct_neighbors[r]
  BY DEF IInv, Good, HopsIn
<1>2. PICK l \in PortsOf(r) : Far(r, l) = n
  BY <1>1 DEF IInv, Good, PortsRight
<1>3. n \in Routers
  BY <1>2, FarEnd
<1>4. RestOn(wire[l][r], dv_map[n], dv_map[r], n, rtt[l])
  BY <1>2 DEF RoutesInv, Spoken
<1>5. d \in DOMAIN dv_map[n] /\ rtt[l] + dv_map[n][d].cost <= dv_map[r][d].cost
  BY <1>4 DEF RestOn
<1>6. rtt[l] \in Nat \ {0}
  <2>1. l \in Links
    BY FarEnd
  <2>2. rtt[l] \in 1 .. W
    BY <2>1 DEF RoutesInv, Undisturbed, CostsFit
  <2> QED BY <2>2 DEF CostsFit
<1>7. dv_map[n][d].cost \in Nat /\ dv_map[r][d].cost \in Nat
  <2>1. Numbers(dv_map[n]) /\ Numbers(dv_map[r])
    BY <1>3 DEF PacketInv, MapsRight, TableRight, Numbers
  <2> HIDE DEF n
  <2> QED BY <1>5, <2>1 DEF Numbers
<1> HIDE DEF n
<1>8. dv_map[n][d].cost < dv_map[r][d].cost
  BY <1>5, <1>6, <1>7
<1> QED BY <1>5, <1>8 DEF n

\* Until the first fault every route over a neighbour rests on a shorter route
\* of that neighbour, also while the vectors that build up the tables
\* (DVImpl.cc:66-145) are under way in any number and order: no packet ever
\* goes round in a circle.
THEOREM RoutesAreBacked ==
  ASSUME NEW CONSTANT W, SingleLinks, CostsFit(W)
  PROVE  Spec => []RoutesBacked
<1>1. Init => RoutesSound(W)
  BY InitRests DEF RoutesSound
<1>2. PacketInv /\ PacketInv' /\ IInv /\ IInv' /\ RoutesSound(W) /\ [Next]_vars => RoutesSound(W)'
  <2> SUFFICES ASSUME PacketInv, PacketInv', IInv, IInv', RoutesSound(W), [Next]_vars, faults' = 0
               PROVE  RoutesInv(W)'
    BY DEF RoutesSound
  <2>1. RoutesInv(W)
    BY FaultsStay DEF RoutesSound
  <2> QED BY <2>1, StepRests
<1>3. PacketInv /\ IInv /\ RoutesSound(W) => RoutesBacked
  BY RestsBacked DEF RoutesSound, RoutesBacked
<1> QED BY <1>1, <1>2, <1>3, PacketsRight, Invariance, PTL DEF Spec
=============================================================================
