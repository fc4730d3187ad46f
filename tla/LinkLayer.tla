----------------------------- MODULE LinkLayer -----------------------------
(***************************************************************************)
(* What project3's simulator does to the packets of the routers: Node,     *)
(* Link and the events that carry a packet.  A packet sent on a link that  *)
(* is down is lost; one sent on a link that is up may be lost, and arrives *)
(* even if the link goes down meanwhile.  Packets of a link arrive in the  *)
(* order in which they were sent, except that one may overtake another     *)
(* when the delay of the link is changed or both are sent at one time.     *)
(*                                                                         *)
(* Time is left out, but for what it makes certain.  Delays are short      *)
(* against the 10 s between two PINGs, so a port that has been silent for  *)
(* 15 s has lost a PING or a PONG since the last PONG.  silent remembers   *)
(* that.                                                                   *)
(***************************************************************************)
EXTENDS Integers, Sequences, FiniteSets

CONSTANTS
  Routers,
  Links,
  Ends,         \* Ends[l]: the two routers link l connects
  Rtt,          \* Rtt[l]: the round-trip times that link l may have
  COST_MOD,     \* costs in packets are taken modulo this (2^16)
  FAULTS        \* bound: losses, overtakings and changes of links

INFINITY_COST == COST_MOD - 1

ASSUME LinkAssumption ==
  /\ COST_MOD \in Nat /\ COST_MOD >= 2
  /\ FAULTS \in Nat
  /\ Ends \in [Links -> SUBSET Routers]
  /\ \A l \in Links : \E a, b \in Routers : a # b /\ Ends[l] = {a, b}
  /\ Rtt \in [Links -> (SUBSET Nat) \ {{}}]

VARIABLES
  wire,     \* wire[l][r]: the packets on link l towards router r
  alive,    \* is_alive of the links
  rtt,      \* rtt[l]: the round-trip time of link l, twice its delay
  rtts,     \* rtts[l]: those that it has had so far
  silent,   \* silent[r]: ports of r that lost a PING or PONG after the last PONG
  faults    \* how many of the FAULTS have happened

linkVars == <<wire, alive, rtt, rtts, silent, faults>>

\* A port of r is the link behind it; Far(r, l) is the router there.
PortsOf(r) == {l \in Links : r \in Ends[l]}
Far(r, l) == CHOOSE x \in Ends[l] : x # r

Ping == [type |-> "PING"]
Pong == [type |-> "PONG"]
\* costs: what a vector says of its destinations; again: what it says of those
\* that it names a second time, further back.
DV(costs, again) == [type |-> "DV", costs |-> costs, again |-> again]
Data(dest) == [type |-> "DATA", dest |-> dest]

Vectors == UNION {[D -> 0 .. COST_MOD - 1] : D \in SUBSET Routers}
AnyPacket ==
  {Ping, Pong} \cup {Data(d) : d \in Routers} \cup [type : {"DV"}, costs : Vectors, again : Vectors]

LinkTypeOK ==
  /\ wire \in [Links -> [Routers -> Seq(AnyPacket)]]
  /\ alive \in [Links -> BOOLEAN]
  /\ rtt \in [Links -> Nat]
  /\ rtts \in [Links -> SUBSET Nat]
  /\ silent \in [Routers -> SUBSET Links]
  /\ faults \in 0 .. FAULTS

\* Every router's init() sends a PING on every port.
LinkInit ==
  /\ wire = [l \in Links |-> [r \in Routers |-> IF r \in Ends[l] THEN <<Ping>> ELSE <<>>]]
  /\ alive = [l \in Links |-> TRUE]
  /\ rtt \in {f \in [Links -> UNION {Rtt[l] : l \in Links}] : \A l \in Links : f[l] \in Rtt[l]}
  /\ rtts = [l \in Links |-> {rtt[l]}]
  /\ silent = [r \in Routers |-> {}]
  /\ faults = 0

\* w with packet p sent by r on the given ports.
Posted(w, r, ports, p) ==
  [l \in Links |-> [x \in Routers |->
     IF l \in ports /\ alive[l] /\ x = Far(r, l) THEN Append(w[l][x], p) ELSE w[l][x]]]

\* w without the first packet on link l towards r.
Taken(w, r, l) == [w EXCEPT ![l][r] = Tail(@)]

\* The packet that arrives next on port l of r is of this type.
Arrives(r, l, type) == wire[l][r] # <<>> /\ Head(wire[l][r]).type = type

\* An exchange of r on port l is under way.
Pinging(r, l) ==
  \/ \E k \in 1 .. Len(wire[l][Far(r, l)]) : wire[l][Far(r, l)][k] = Ping
  \/ \E k \in 1 .. Len(wire[l][r]) : wire[l][r][k] = Pong

Fault == faults < FAULTS /\ faults' = faults + 1

\* Event_Xmit_Pkt_On_Link_Generic draws the loss of a packet on link l to r.
Lose(r, l) ==
  /\ Fault
  /\ wire[l][r] # <<>>
  /\ wire' = Taken(wire, r, l)
  /\ silent' = CASE Arrives(r, l, "PING") -> [silent EXCEPT ![Far(r, l)] = @ \cup {l}]
                  [] Arrives(r, l, "PONG") -> [silent EXCEPT ![r] = @ \cup {l}]
                  [] OTHER -> silent
  /\ UNCHANGED <<alive, rtt, rtts>>

\* A packet overtakes the one before it.  The queue of events does not order
\* what is due at one time, so two packets of one millisecond may change places
\* on a link that nothing happened to; they count as a fault all the same.
Overtake(r, l) ==
  /\ Fault
  /\ \E k \in 1 .. Len(wire[l][r]) - 1 :
       LET w == wire[l][r]
       IN wire' = [wire EXCEPT ![l][r] = [w EXCEPT ![k] = w[k + 1], ![k + 1] = w[k]]]
  /\ UNCHANGED <<alive, rtt, rtts, silent>>

\* Event_Link_Die, Event_Link_Come_Up, Event_Change_Delay.
ChangeLink(l) ==
  /\ Fault
  /\ \/ alive' = [alive EXCEPT ![l] = ~ @] /\ UNCHANGED <<rtt, rtts>>
     \/ \E t \in Rtt[l] \ {rtt[l]} :
          /\ rtt' = [rtt EXCEPT ![l] = t]
          /\ rtts' = [rtts EXCEPT ![l] = @ \cup {t}]
          /\ UNCHANGED alive
  /\ UNCHANGED <<wire, silent>>
=============================================================================
