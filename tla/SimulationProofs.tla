-------------------------- MODULE SimulationProofs --------------------------
(***************************************************************************)
(* Theorems about Simulation: the tables, the events and the ports keep    *)
(* their types, and every packet finds the port it is bound for; the event *)
(* that run() pops is the one it dispatched; the alarms keep themselves    *)
(* going; and with them the PINGs and PONGs keep the ports connected that  *)
(* have working links, and only those.  All but the first two need a clock *)
(* that starts at 0 and does not reach the end of its range.               *)
(***************************************************************************)
EXTENDS Simulation, FiniteSetTheorems, SequenceTheorems, TLAPS

-----------------------------------------------------------------------------
(* Sets of numbers: the least one, and induction. *)

\* A set of natural numbers that is not empty has a least element.
LEMMA LeastElement ==
  ASSUME NEW T, T \subseteq Nat, T # {}
  PROVE  \E m \in T : \A n \in T : m <= n
<1>. DEFINE U == {0 .. n : n \in T}
<1>1. U \subseteq FiniteSubsetsOf(Nat)
  <2>1. \A n \in Nat : IsFiniteSet(0 .. n) /\ (0 .. n) \subseteq Nat
    BY FS_Interval
  <2>. QED
    BY <2>1 DEF FiniteSubsetsOf
<1>2. U # {}
  OBVIOUS
<1>3. IsWellFoundedOn(StrictSubsetOrdering(Nat), FiniteSubsetsOf(Nat))
  BY FS_StrictSubsetOrderingWellFounded
<1>. HIDE DEF U
<1>4. PICK u \in U : \A v \in U : ~ (<<v, u>> \in StrictSubsetOrdering(Nat))
  BY <1>1, <1>2, <1>3, WFMin, Zenon
<1>5. PICK m \in T : u = 0 .. m
  BY DEF U
<1>6. ASSUME NEW n \in T, n < m
      PROVE  FALSE
  <2>1. m \in Nat /\ n \in Nat
    OBVIOUS
  <2>2. (0 .. n) \in SUBSET (0 .. m) /\ m \in 0 .. m /\ m \notin 0 .. n
    BY <1>6, <2>1
  <2>3. (0 .. n) \in U
    BY DEF U
  <2>4. <<0 .. n, 0 .. m>> \in StrictSubsetOrdering(Nat)
    BY <2>1, <2>2 DEF StrictSubsetOrdering
  <2>. QED
    BY <1>4, <1>5, <2>3, <2>4
<1>. QED
  BY <1>6

-----------------------------------------------------------------------------
(* Types. *)

LinkRec == [node1 : Nat, node2 : Nat, delay : Time,
            loss : {"never", "sometimes", "always"}, alive : BOOLEAN]

PacketEvent == [kind : {"onlink", "recv"}, time : Time, link : Nat, node : Nat, port : Nat,
                type : {"PING", "PONG"}, from : Nat, stamp : Time]
AlarmEvent == [kind : {"alarm"}, time : Time, node : Nat, data : {"e", "p", "u"}]
LinkEvent == [kind : LinkEvents, time : Time, link : Nat, delay : Time]
XmitEvent == [kind : {"xmit"}, time : Time, node : Nat]

Event == PacketEvent \cup AlarmEvent \cup LinkEvent \cup XmitEvent

PortRec == [to : Nat, connected : BOOLEAN, updated : Time]

-----------------------------------------------------------------------------
(* The invariant of the tables, the queue and the ports. *)

\* Every link is known at both of its ends, and every port leads to a link.
TablesInv ==
  /\ node_table \subseteq NodeIds
  /\ IsFiniteSet(node_table)
  /\ links \in Seq(LinkRec)
  /\ link_vector \in [NodeIds -> Seq(Nat)]
  /\ \A pair \in DOMAIN link_table : link_table[pair] \in DOMAIN links
  /\ \A n \in NodeIds : Range(link_vector[n]) \subseteq DOMAIN links
  /\ \A l \in DOMAIN links : \A n \in {links[l].node1, links[l].node2} :
       n \in node_table /\ l \in Range(link_vector[n])

\* What is left of the file.
ReadInv ==
  /\ lines \in Seq(FileLine)
  /\ \A k \in DOMAIN lines : lines[k].kind \notin {"blank", "header"} => Range(lines[k].ids) \subseteq NodeIds
  /\ section \in {"start", "nodes", "links", "events"}

\* An event, about nodes, links and ports that are there.
Placed(e) ==
  /\ e \in Event
  /\ e.kind \in {"onlink", "recv"} => /\ e.link \in DOMAIN links /\ e.port \in PortsOf(e.node)
                                      /\ {e.node, e.from} \subseteq node_table
  /\ e.kind = "alarm" => e.node \in node_table
  /\ e.kind \in LinkEvents => e.link \in {0} \cup DOMAIN links

QueueInv ==
  /\ global_time \in Time
  /\ \A e \in DOMAIN event_q : Placed(e)
  /\ top = NoEvent \/ Placed(top)

\* From boot on there is an entry for every port.
PortsInv ==
  /\ DOMAIN ports = NodeIds
  /\ \A n \in NodeIds :
       /\ pc \in {"run", "pop"} => DOMAIN ports[n] = PortsOf(n)
       /\ \A p \in DOMAIN ports[n] :
            ports[n][p] \in PortRec /\ (ports[n][p].connected => ports[n][p].to \in node_table)

Running == {"init", "boot", "run", "pop", "spin", "ended", "refused", "crashed"}

SimInv ==
  /\ pc \in Running
  /\ TablesInv
  /\ ReadInv
  /\ QueueInv
  /\ PortsInv

\* Times are natural numbers, and what is taken modulo TIME_MOD is a time.
LEMMA TimeIsNat == Time \subseteq Nat /\ \A x \in Int : x % TIME_MOD \in Time
BY ClockAssumption DEF Time

\* The fields of an event, by its kind.
LEMMA EventFields ==
  ASSUME NEW e \in Event
  PROVE  /\ e.time \in Time /\ e # NoEvent
         /\ e.kind \in {"onlink", "recv"} <=> e \in PacketEvent
         /\ e.kind = "alarm" <=> e \in AlarmEvent
         /\ e.kind \in LinkEvents <=> e \in LinkEvent
         /\ e.kind = "xmit" <=> e \in XmitEvent
<1>1. e.kind # "none"
  BY DEF Event, PacketEvent, AlarmEvent, LinkEvent, XmitEvent, LinkEvents
<1>2. e # NoEvent
  BY <1>1 DEF NoEvent
<1>3. e.time \in Time
  BY DEF Event, PacketEvent, AlarmEvent, LinkEvent, XmitEvent
<1>4. e \in PacketEvent => e.kind \in {"onlink", "recv"}
  BY DEF PacketEvent
<1>5. e \in AlarmEvent => e.kind = "alarm"
  BY DEF AlarmEvent
<1>6. e \in LinkEvent => e.kind \in LinkEvents
  BY DEF LinkEvent
<1>7. e \in XmitEvent => e.kind = "xmit"
  BY DEF XmitEvent
<1>. QED
  BY <1>2, <1>3, <1>4, <1>5, <1>6, <1>7 DEF Event, LinkEvents

\* The fields of a line, by its kind.
LEMMA LineFields ==
  ASSUME NEW line \in FileLine
  PROVE  /\ line.kind \notin {"blank", "header"} => line.ids \in Seq(Nat)
         /\ line.kind = "link" => /\ line.from \in Nat /\ line.to \in Nat /\ line.delay \in Time
                                  /\ line.loss \in {"never", "sometimes", "always"}
         /\ line.kind \in LinkEvents => /\ line.time \in Time /\ line.delay \in Time
                                        /\ line.src \in Nat /\ line.dst \in Nat
         /\ line.kind = "xmit" => line.time \in Time /\ line.src \in Nat /\ line.dst \in Nat
         /\ line.kind = "end" => line.time \in Time
BY DEF FileLine, LinkEvents

-----------------------------------------------------------------------------
(* The queue. *)

\* What Pushed holds, and how often.
LEMMA PushedEvents ==
  ASSUME NEW q, NEW events
  PROVE  /\ DOMAIN Pushed(q, events) = DOMAIN q \cup Range(events)
         /\ \A e \in DOMAIN q \cup Range(events) :
              Pushed(q, events)[e] = Copies(q, e) + Cardinality({k \in DOMAIN events : events[k] = e})
BY DEF Pushed

\* The top is an event of least time, the first of them.
LEMMA TopIsFirst ==
  ASSUME NEW first, first = NoEvent \/ first \in Event, NEW events \in Seq(Event)
  PROVE  LET new == TopAfter(first, events)
         IN /\ new = NoEvent => first = NoEvent /\ events = <<>>
            /\ new # NoEvent => /\ new \in Event
                                /\ new = first \/ new \in Range(events)
                                /\ first # NoEvent => new.time <= first.time
                                /\ \A k \in 1 .. Len(events) : new.time <= events[k].time
            /\ first # NoEvent /\ (\A k \in 1 .. Len(events) : first.time <= events[k].time)
                 => new = first
<1>. DEFINE all == IF first = NoEvent THEN events ELSE <<first>> \o events
            N == Len(all)
            IsFirst(k) == \A j \in DOMAIN all :
              (j < k => Before(all[k], all[j])) /\ (j > k => ~ Before(all[j], all[k]))
            new == TopAfter(first, events)
<1>0. new = IF all = <<>> THEN NoEvent ELSE all[CHOOSE k \in DOMAIN all : IsFirst(k)]
  BY DEF TopAfter
<1>1. /\ all \in Seq(Event) /\ N \in Nat /\ DOMAIN all = 1 .. N
      /\ first = NoEvent => all = events
      /\ first # NoEvent => /\ all # <<>> /\ all[1] = first /\ 1 \in 1 .. N
                            /\ \A k \in 1 .. Len(events) : k + 1 \in 1 .. N /\ all[k + 1] = events[k]
                            /\ \A k \in 1 .. N : k # 1 => k - 1 \in 1 .. Len(events) /\ all[k] = events[k - 1]
  <2>1. CASE first = NoEvent
    BY <2>1
  <2>2. CASE first # NoEvent
    <3>1. first \in Event
      BY <2>2
    <3>2. /\ <<first>> \in Seq(Event) /\ Len(<<first>>) = 1 /\ <<first>>[1] = first
      BY <3>1
    <3>. DEFINE one == <<first>>
    <3>3. /\ one \o events \in Seq(Event)
          /\ Len(one \o events) = Len(one) + Len(events)
          /\ \A k \in 1 .. Len(one) + Len(events) :
               (one \o events)[k] = IF k <= Len(one) THEN one[k] ELSE events[k - Len(one)]
      <4>. HIDE DEF one
      <4>. QED
        BY <3>2, ConcatProperties DEF one
    <3>4. all = one \o events
      BY <2>2
    <3>. HIDE DEF one, all
    <3>5. Len(one) = 1 /\ one[1] = first /\ Len(events) \in Nat
      BY <3>2 DEF one
    <3>6. N = Len(events) + 1 /\ all \in Seq(Event)
      BY <3>3, <3>4, <3>5
    <3>7. \A k \in 1 .. N : all[k] = IF k <= 1 THEN first ELSE events[k - 1]
      <4>1. \A k \in 1 .. N : k \in 1 .. Len(one) + Len(events) /\ (k <= 1 => k = 1)
        BY <3>5, <3>6
      <4>. QED
        BY <3>3, <3>4, <3>5, <4>1
    <3>8. 1 \in 1 .. N /\ all # <<>> /\ DOMAIN all = 1 .. N
      BY <3>5, <3>6
    <3>9. \A k \in 1 .. Len(events) : k + 1 \in 1 .. N /\ all[k + 1] = events[k]
      BY <3>5, <3>6, <3>7
    <3>10. \A k \in 1 .. N : k # 1 => k - 1 \in 1 .. Len(events) /\ all[k] = events[k - 1]
      BY <3>5, <3>6, <3>7
    <3>. QED
      BY <2>2, <3>6, <3>7, <3>8, <3>9, <3>10
  <2>. QED
    BY <2>1, <2>2
<1>. HIDE DEF all, N
<1>2. \A k \in 1 .. N : all[k] \in Event /\ all[k].time \in Nat /\ all[k] # NoEvent
  <2>1. \A k \in 1 .. N : all[k] \in Event
    BY <1>1
  <2>. QED
    BY <2>1, EventFields, TimeIsNat
<1>3. ASSUME all # <<>>
      PROVE  \E k \in 1 .. N : IsFirst(k)
  <2>. DEFINE T == {all[k].time : k \in 1 .. N}
  <2>1. T \subseteq Nat /\ T # {}
    <3>1. 1 \in 1 .. N
      BY <1>1, <1>3
    <3>. QED
      BY <1>2, <3>1
  <2>. HIDE DEF T
  <2>2. PICK m \in T : \A x \in T : m <= x
    BY <2>1, LeastElement
  <2>. DEFINE K == {k \in 1 .. N : all[k].time = m}
  <2>3. K \subseteq Nat /\ K # {}
    BY <1>1 DEF T
  <2>. HIDE DEF K
  <2>4. PICK k \in K : \A j \in K : k <= j
    BY <2>3, LeastElement
  <2>5. k \in 1 .. N /\ all[k].time = m /\ m \in Nat
    BY <2>1 DEF K
  <2>6. \A j \in 1 .. N : m <= all[j].time
    BY <2>2 DEF T
  <2>7. ASSUME NEW j \in 1 .. N, j < k
        PROVE  m < all[j].time
    <3>1. j \notin K
      BY <2>4, <2>5, <2>7
    <3>2. all[j].time # m
      BY <3>1 DEF K
    <3>. QED
      BY <1>2, <2>5, <2>6, <3>2
  <2>8. ASSUME NEW j \in 1 .. N
        PROVE  ~ (all[j].time < m)
    BY <1>2, <2>5, <2>6
  <2>9. IsFirst(k)
    BY <1>1, <2>5, <2>7, <2>8 DEF Before
  <2>. QED
    BY <2>5, <2>9
<1>4. ASSUME NEW k \in 1 .. N, IsFirst(k), NEW j \in 1 .. N
      PROVE  all[k].time <= all[j].time
  <2>1. all[k].time \in Nat /\ all[j].time \in Nat
    BY <1>2
  <2>2. (j < k => all[k].time < all[j].time) /\ (j > k => ~ (all[j].time < all[k].time))
    BY <1>1, <1>4 DEF Before
  <2>3. CASE j = k
    BY <2>1, <2>3
  <2>4. CASE j < k
    BY <2>1, <2>2, <2>4
  <2>5. CASE j > k
    BY <2>1, <2>2, <2>5
  <2>. QED
    BY <1>1, <2>3, <2>4, <2>5
<1>5. CASE all = <<>>
  <2>1. new = NoEvent
    BY <1>0, <1>5
  <2>2. first = NoEvent /\ events = <<>>
    BY <1>1, <1>5
  <2>. HIDE DEF new
  <2>. QED
    BY <2>1, <2>2 DEF new
<1>6. CASE all # <<>>
  <2>1. PICK k \in 1 .. N : IsFirst(k) /\ new = all[k]
    <3>. DEFINE c == CHOOSE k \in DOMAIN all : IsFirst(k)
    <3>1. c \in 1 .. N /\ IsFirst(c)
      BY <1>1, <1>3, <1>6
    <3>. HIDE DEF IsFirst
    <3>. QED
      BY <1>0, <1>6, <3>1
  <2>2. \A j \in 1 .. N : new.time <= all[j].time
    BY <1>4, <2>1
  <2>3. new \in Event /\ new # NoEvent
    BY <1>2, <2>1
  <2>4. new = first \/ new \in Range(events)
    <3>1. CASE first = NoEvent
      BY <1>1, <2>1, <3>1 DEF Range
    <3>2. CASE first # NoEvent /\ k = 1
      BY <1>1, <2>1, <3>2
    <3>3. CASE first # NoEvent /\ k # 1
      <4>1. k - 1 \in 1 .. Len(events) /\ new = events[k - 1]
        BY <1>1, <2>1, <3>3
      <4>2. \A i \in 1 .. Len(events) : events[i] \in Range(events)
        BY DEF Range
      <4>. HIDE DEF new
      <4>. QED
        BY <4>1, <4>2
    <3>. QED
      BY <3>1, <3>2, <3>3
  <2>5. /\ first # NoEvent => new.time <= first.time
        /\ \A j \in 1 .. Len(events) : new.time <= events[j].time
    BY <1>1, <2>2
  <2>6. ASSUME first # NoEvent, \A j \in 1 .. Len(events) : first.time <= events[j].time
        PROVE  new = first
    <3>1. k = 1
      <4>1. SUFFICES ASSUME k # 1 PROVE FALSE
        OBVIOUS
      <4>2. all[k] = events[k - 1] /\ k - 1 \in 1 .. Len(events) /\ all[1] = first /\ 1 \in 1 .. N
        BY <1>1, <2>6, <4>1
      <4>3. 1 < k
        BY <1>1, <4>1
      <4>4. all[k].time < all[1].time
        BY <1>1, <2>1, <4>2, <4>3 DEF Before
      <4>5. all[1].time <= all[k].time
        BY <2>6, <4>2
      <4>. QED
        BY <1>2, <4>2, <4>4, <4>5
    <3>. QED
      BY <1>1, <2>1, <2>6, <3>1
  <2>. HIDE DEF new
  <2>. QED
    BY <2>3, <2>4, <2>5, <2>6 DEF new
<1>. QED
  BY <1>5, <1>6

\* get_link_port finds a link that the node has.
LEMMA LinkPortFound ==
  ASSUME NEW n, NEW l, link_vector[n] \in Seq(Nat), l \in Range(link_vector[n])
  PROVE  LinkPort(n, l) \in PortsOf(n) /\ link_vector[n][LinkPort(n, l)] = l
<1>. DEFINE v == link_vector[n]
            I == {i \in 1 .. Len(v) : v[i] = l}
<1>1. I # {} /\ I \subseteq Nat
  BY DEF Range
<1>2. PICK m \in I : \A i \in I : m <= i
  BY <1>1, LeastElement
<1>3. Min(I) \in I
  BY <1>2 DEF Min
<1>4. LinkPort(n, l) = Min(I)
  BY <1>1 DEF LinkPort, SelectInSeq
<1>. QED
  BY <1>3, <1>4 DEF PortsOf

\* pop() takes one copy of the top out of the queue and touches no other.
LEMMA PopBag ==
  ASSUME NEW q, NEW e
  PROVE  LET rest == q (-) SetToBag({e})
         IN /\ DOMAIN rest \subseteq DOMAIN q
            /\ \A f \in DOMAIN q : q[f] > 0 /\ f # e => f \in DOMAIN rest /\ rest[f] = q[f]
            /\ e \in DOMAIN rest => rest[e] = q[e] - 1 /\ q[e] - 1 > 0
BY DEF SetToBag, (-)

-----------------------------------------------------------------------------
(* Sequences of events, one after another. *)

\* Induction: a set that has 0, and n + 1 with every n, has all natural numbers.
LEMMA SetInduction ==
  ASSUME NEW T, 0 \in T, \A n \in Nat : n \in T => n + 1 \in T
  PROVE  Nat \subseteq T
<1>. SUFFICES ASSUME Nat \ T # {} PROVE FALSE
  OBVIOUS
<1>1. PICK m \in Nat \ T : \A n \in Nat \ T : m <= n
  BY LeastElement
<1>2. m - 1 \in Nat /\ m - 1 \in T
  BY <1>1
<1>3. (m - 1) + 1 \in T
  BY <1>2
<1>. QED
  BY <1>1, <1>2, <1>3

\* e is once, and only once, in s.
Once(s, e) == \E k \in 1 .. Len(s) : s[k] = e /\ \A j \in 1 .. Len(s) : s[j] = e => j = k

\* What two sequences hold when they are joined.
LEMMA Joined ==
  ASSUME NEW S, NEW s \in Seq(S), NEW t \in Seq(S)
  PROVE  /\ s \o t \in Seq(S)
         /\ Range(s \o t) = Range(s) \cup Range(t)
         /\ \A e : Once(s, e) /\ e \notin Range(t) => Once(s \o t, e)
         /\ \A e : Once(t, e) /\ e \notin Range(s) => Once(s \o t, e)
<1>. DEFINE m == Len(s)
            n == Len(t)
            u == s \o t
<1>1. /\ u \in Seq(S) /\ m \in Nat /\ n \in Nat /\ Len(u) = m + n
      /\ \A k \in 1 .. m + n : u[k] = IF k <= m THEN s[k] ELSE t[k - m]
  BY ConcatProperties
<1>. HIDE DEF u
<1>2. /\ \A k \in 1 .. m : k \in 1 .. Len(u) /\ u[k] = s[k]
      /\ \A k \in 1 .. n : k + m \in 1 .. Len(u) /\ u[k + m] = t[k]
  <2>1. \A a, b \in Nat : \A k \in 1 .. a : k \in 1 .. a + b /\ k <= a
    OBVIOUS
  <2>2. \A a, b \in Nat : \A k \in 1 .. b : k + a \in 1 .. a + b /\ ~ (k + a <= a) /\ (k + a) - a = k
    OBVIOUS
  <2>. HIDE DEF m, n
  <2>3. ASSUME NEW k \in 1 .. m PROVE k \in 1 .. Len(u) /\ u[k] = s[k]
    BY <1>1, <2>1
  <2>4. ASSUME NEW k \in 1 .. n PROVE k + m \in 1 .. Len(u) /\ u[k + m] = t[k]
    BY <1>1, <2>2
  <2>. QED
    BY <2>3, <2>4
<1>3. ASSUME NEW k \in 1 .. Len(u)
      PROVE  \/ k \in 1 .. m /\ u[k] = s[k]
             \/ k - m \in 1 .. n /\ u[k] = t[k - m] /\ k = (k - m) + m
  <2>1. \A a, b \in Nat : \A j \in 1 .. a + b :
          IF j <= a THEN j \in 1 .. a ELSE j - a \in 1 .. b /\ j = (j - a) + a
    OBVIOUS
  <2>. HIDE DEF m, n
  <2>. QED
    BY <1>1, <2>1
<1>4. /\ Range(s) = {s[k] : k \in 1 .. m} /\ Range(t) = {t[k] : k \in 1 .. n}
      /\ Range(u) = {u[k] : k \in 1 .. Len(u)}
  BY <1>1 DEF Range
<1>. HIDE DEF m, n
<1>5. Range(u) = Range(s) \cup Range(t)
  <2>1. Range(u) \subseteq Range(s) \cup Range(t)
    BY <1>3, <1>4
  <2>2. Range(s) \subseteq Range(u)
    BY <1>2, <1>4
  <2>3. Range(t) \subseteq Range(u)
    BY <1>2, <1>4
  <2>. QED
    BY <2>1, <2>2, <2>3
<1>6. ASSUME NEW e, Once(s, e), e \notin Range(t)
      PROVE  Once(u, e)
  <2>1. PICK k \in 1 .. m : s[k] = e /\ \A j \in 1 .. m : s[j] = e => j = k
    BY <1>6 DEF Once, m
  <2>2. ASSUME NEW j \in 1 .. Len(u), u[j] = e
        PROVE  j = k
    BY <1>3, <1>4, <1>6, <2>1, <2>2
  <2>. QED
    BY <1>2, <2>1, <2>2 DEF Once
<1>7. ASSUME NEW e, Once(t, e), e \notin Range(s)
      PROVE  Once(u, e)
  <2>1. PICK k \in 1 .. n : t[k] = e /\ \A j \in 1 .. n : t[j] = e => j = k
    BY <1>7 DEF Once, n
  <2>2. ASSUME NEW j \in 1 .. Len(u), u[j] = e
        PROVE  j = k + m
    BY <1>3, <1>4, <1>7, <2>1, <2>2
  <2>3. k + m \in 1 .. Len(u) /\ u[k + m] = e
    BY <1>2, <2>1
  <2>. QED
    BY <2>2, <2>3 DEF Once
<1>. QED
  BY <1>1, <1>5, <1>6, <1>7 DEF u

\* What an event that is pushed once adds to the queue.
LEMMA OnceCounts ==
  ASSUME NEW s, DOMAIN s = 1 .. Len(s), NEW e
  PROVE  /\ Once(s, e) => Cardinality({k \in DOMAIN s : s[k] = e}) = 1
         /\ e \notin Range(s) => Cardinality({k \in DOMAIN s : s[k] = e}) = 0
<1>1. ASSUME Once(s, e)
      PROVE  Cardinality({k \in DOMAIN s : s[k] = e}) = 1
  <2>1. PICK k \in 1 .. Len(s) : s[k] = e /\ \A j \in 1 .. Len(s) : s[j] = e => j = k
    BY <1>1 DEF Once
  <2>2. {j \in DOMAIN s : s[j] = e} = {k}
    BY <2>1
  <2>. QED
    BY <2>2, FS_Singleton
<1>2. ASSUME e \notin Range(s)
      PROVE  Cardinality({k \in DOMAIN s : s[k] = e}) = 0
  <2>1. {j \in DOMAIN s : s[j] = e} = {}
    BY <1>2 DEF Range
  <2>. QED
    BY <2>1, FS_EmptySet
<1>. QED
  BY <1>1, <1>2

\* FlattenSeq: the sequences of seqs up to the i-th, one after another.
IsFlat(ft, seqs, m) == ft = [i \in 1 .. m |-> IF i = 1 THEN seqs[i] ELSE ft[i - 1] \o seqs[i]]

\* FlattenSeq is the function that its recursive definition describes.
LEMMA FlatExists ==
  ASSUME NEW seqs, NEW m \in Nat
  PROVE  \E ft : IsFlat(ft, seqs, m)
<1>. DEFINE T == {i \in Nat : \E ft : IsFlat(ft, seqs, i)}
<1>1. 0 \in T
  <2>. DEFINE ft == [i \in 1 .. 0 |-> 0]
  <2>1. 1 .. 0 = {}
    OBVIOUS
  <2>2. IsFlat(ft, seqs, 0)
    BY <2>1 DEF IsFlat
  <2>. QED
    BY <2>2
<1>2. ASSUME NEW n \in Nat, n \in T
      PROVE  n + 1 \in T
  <2>1. PICK ft : IsFlat(ft, seqs, n)
    BY <1>2
  <2>2. /\ ft = [i \in 1 .. n |-> IF i = 1 THEN seqs[i] ELSE ft[i - 1] \o seqs[i]]
        /\ \A i \in 1 .. n : ft[i] = IF i = 1 THEN seqs[i] ELSE ft[i - 1] \o seqs[i]
    BY <2>1 DEF IsFlat
  <2>. DEFINE last == IF n + 1 = 1 THEN seqs[n + 1] ELSE ft[n] \o seqs[n + 1]
              gt == [i \in 1 .. n + 1 |-> IF i = n + 1 THEN last ELSE ft[i]]
  <2>3. ASSUME NEW i \in 1 .. n + 1
        PROVE  gt[i] = IF i = 1 THEN seqs[i] ELSE gt[i - 1] \o seqs[i]
    <3>1. CASE i = n + 1
      <4>1. gt[i] = last
        BY <3>1
      <4>2. CASE i = 1
        BY <3>1, <4>1, <4>2
      <4>3. CASE i # 1
        <5>1. i - 1 = n /\ n \in 1 .. n + 1 /\ n # n + 1
          BY <3>1, <4>3
        <5>2. gt[n] = ft[n]
          BY <5>1
        <5>. HIDE DEF gt
        <5>. QED
          BY <3>1, <4>1, <4>3, <5>1, <5>2
      <4>. QED
        BY <4>2, <4>3
    <3>2. CASE i # n + 1
      <4>1. i \in 1 .. n /\ gt[i] = ft[i]
        BY <3>2
      <4>2. i # 1 => i - 1 \in 1 .. n + 1 /\ i - 1 # n + 1
        BY <4>1
      <4>3. i # 1 => gt[i - 1] = ft[i - 1]
        BY <4>2
      <4>. HIDE DEF gt
      <4>. QED
        BY <2>2, <4>1, <4>3
    <3>. QED
      BY <3>1, <3>2
  <2>4. gt = [i \in 1 .. n + 1 |-> gt[i]]
    OBVIOUS
  <2>. HIDE DEF gt, last, T
  <2>5. gt = [i \in 1 .. n + 1 |-> IF i = 1 THEN seqs[i] ELSE gt[i - 1] \o seqs[i]]
    BY <2>3, <2>4
  <2>6. IsFlat(gt, seqs, n + 1)
    BY <2>5, Zenon DEF IsFlat
  <2>7. n + 1 \in Nat
    OBVIOUS
  <2>. QED
    BY <2>6, <2>7 DEF T
<1>. HIDE DEF T
<1>3. m \in T
  BY <1>1, <1>2, SetInduction
<1>. QED
  BY <1>3 DEF T

\* What FlattenSeq joins is what its sequences hold, and nothing else.
LEMMA Flattened ==
  ASSUME NEW S, NEW seqs \in Seq(Seq(S))
  PROVE  /\ FlattenSeq(seqs) \in Seq(S)
         /\ \A e : (\A i \in 1 .. Len(seqs) : e \notin Range(seqs[i])) => e \notin Range(FlattenSeq(seqs))
         /\ \A e : \A i \in 1 .. Len(seqs) :
              Once(seqs[i], e) /\ (\A j \in 1 .. Len(seqs) : j # i => e \notin Range(seqs[j]))
                => Once(FlattenSeq(seqs), e)
<1>. DEFINE N == Len(seqs)
            Absent(e, i) == \A j \in 1 .. i : e \notin Range(seqs[j])
            Single(e, i, k) == Once(seqs[k], e) /\ \A j \in 1 .. i : j # k => e \notin Range(seqs[j])
<1>0. N \in Nat /\ \A i \in 1 .. N : seqs[i] \in Seq(S)
  OBVIOUS
<1>1. CASE N = 0
  <2>1. FlattenSeq(seqs) = seqs /\ seqs = <<>>
    BY <1>1 DEF FlattenSeq
  <2>2. Range(<<>>) = {} /\ 1 .. N = {} /\ <<>> \in Seq(S)
    BY <1>1 DEF Range
  <2>. QED
    BY <2>1, <2>2
<1>2. CASE N # 0
  <2>. DEFINE c == CHOOSE ft : IsFlat(ft, seqs, N)
  <2>1. IsFlat(c, seqs, N)
    BY <1>0, FlatExists
  <2>2. FlattenSeq(seqs) = c[N]
    BY <1>2 DEF FlattenSeq, IsFlat
  <2>3. \A i \in 1 .. N : c[i] = IF i = 1 THEN seqs[i] ELSE c[i - 1] \o seqs[i]
    BY <2>1 DEF IsFlat
  <2>. HIDE DEF c, N
  <2>. DEFINE Good(i) == /\ c[i] \in Seq(S)
                         /\ \A e : Absent(e, i) => e \notin Range(c[i])
                         /\ \A e : \A k \in 1 .. i : Single(e, i, k) => Once(c[i], e)
              T == {n \in Nat : n + 1 \in 1 .. N => Good(n + 1)}
  <2>4. 0 \in T
    <3>1. 0 + 1 = 1 /\ 1 .. 1 = {1} /\ 1 \in 1 .. N
      BY <1>0, <1>2
    <3>2. c[1] = seqs[1] /\ seqs[1] \in Seq(S)
      BY <1>0, <2>3, <3>1
    <3>3. Good(1)
      BY <3>1, <3>2
    <3>. HIDE DEF Good
    <3>. QED
      BY <3>1, <3>3
  <2>5. ASSUME NEW n \in Nat, n \in T
        PROVE  n + 1 \in T
    <3>. DEFINE i == n + 1
    <3>1. SUFFICES ASSUME i + 1 \in 1 .. N PROVE Good(i + 1)
      OBVIOUS
    <3>2. /\ i \in 1 .. N /\ i \in Nat /\ i + 1 # 1 /\ (i + 1) - 1 = i
          /\ 1 .. i + 1 = (1 .. i) \cup {i + 1} /\ i + 1 \notin 1 .. i
      BY <1>0, <3>1
    <3>3. Good(i)
      BY <2>5, <3>2
    <3>. HIDE DEF i
    <3>4. c[i + 1] = c[i] \o seqs[i + 1] /\ seqs[i + 1] \in Seq(S) /\ c[i] \in Seq(S)
      BY <1>0, <2>3, <3>1, <3>2, <3>3
    <3>. DEFINE s == c[i]
                t == seqs[i + 1]
    <3>5. /\ s \o t \in Seq(S)
          /\ Range(s \o t) = Range(s) \cup Range(t)
          /\ \A e : Once(s, e) /\ e \notin Range(t) => Once(s \o t, e)
          /\ \A e : Once(t, e) /\ e \notin Range(s) => Once(s \o t, e)
      <4>. HIDE DEF s, t
      <4>1. s \in Seq(S) /\ t \in Seq(S)
        BY <3>4 DEF s, t
      <4>. QED
        BY <4>1, Joined
    <3>6. ASSUME NEW e, Absent(e, i + 1)
          PROVE  e \notin Range(c[i + 1])
      <4>1. Absent(e, i) /\ e \notin Range(t)
        BY <3>2, <3>6
      <4>. QED
        BY <3>3, <3>4, <3>5, <4>1
    <3>7. ASSUME NEW e, NEW k \in 1 .. i + 1, Single(e, i + 1, k)
          PROVE  Once(c[i + 1], e)
      <4>1. CASE k = i + 1
        <5>1. Absent(e, i) /\ Once(t, e)
          BY <3>2, <3>7, <4>1
        <5>. QED
          BY <3>3, <3>4, <3>5, <5>1
      <4>2. CASE k # i + 1
        <5>1. k \in 1 .. i /\ Single(e, i, k) /\ e \notin Range(t)
          BY <3>2, <3>7, <4>2
        <5>2. Once(s, e)
          BY <3>3, <5>1
        <5>. QED
          BY <3>4, <3>5, <5>1, <5>2
      <4>. QED
        BY <4>1, <4>2
    <3>. QED
      BY <3>4, <3>5, <3>6, <3>7
  <2>. HIDE DEF T
  <2>6. N - 1 \in T
    <3>1. N - 1 \in Nat
      BY <1>0, <1>2
    <3>. QED
      BY <2>4, <2>5, <3>1, SetInduction
  <2>7. Good(N)
    <3>1. (N - 1) + 1 = N /\ N \in 1 .. N
      BY <1>0, <1>2
    <3>. HIDE DEF Good
    <3>. QED
      BY <2>6, <3>1 DEF T
  <2>. QED
    BY <2>2, <2>7 DEF N
<1>. QED
  BY <1>1, <1>2

-----------------------------------------------------------------------------
(* What is sent and what is set. *)

\* The ids of nodes are numbers.
LEMMA NodesAreNat == NodeIds \subseteq Nat
<1>1. ASSUME NEW f \in Files, NEW k \in 1 .. Len(f), f[k].kind \notin {"blank", "header"}, NEW j \in 1 .. Len(f[k].ids)
      PROVE  f[k].ids[j] \in Nat
  <2>1. f \in Seq(FileLine)
    BY FilesAssumption
  <2>2. f[k] \in FileLine
    BY <2>1
  <2>3. f[k].ids \in Seq(Nat)
    BY <1>1, <2>2, LineFields
  <2>. QED
    BY <2>3
<1>. QED
  BY <1>1 DEF NodeIds

\* A packet that a node sends on one of its ports has somewhere to arrive.
LEMMA SendPlaced ==
  ASSUME TablesInv, NEW n \in node_table, NEW p \in PortsOf(n),
         NEW type \in {"PING", "PONG"}, NEW stamp \in Time, NEW now \in Time
  PROVE  LET e == Send(n, p, type, stamp, now)
         IN Placed(e) /\ e.port # 0 /\ e.time = now /\ e.kind = "onlink"
<1>. DEFINE l == link_vector[n][p]
            to == Recipient(n, l)
            port == LinkPort(to, l)
            e == Send(n, p, type, stamp, now)
<1>1. n \in NodeIds /\ link_vector[n] \in Seq(Nat)
  BY DEF TablesInv
<1>2. l \in Range(link_vector[n]) /\ l \in Nat
  BY <1>1 DEF PortsOf, Range
<1>3. l \in DOMAIN links
  BY <1>1, <1>2 DEF TablesInv
<1>4. to \in node_table /\ l \in Range(link_vector[to])
  BY <1>3 DEF TablesInv, Recipient
<1>5. to \in NodeIds /\ link_vector[to] \in Seq(Nat)
  BY <1>4 DEF TablesInv
<1>. HIDE DEF l, to
<1>6. port \in PortsOf(to)
  BY <1>4, <1>5, LinkPortFound
<1>7. port \in Nat /\ port # 0
  BY <1>5, <1>6 DEF PortsOf
<1>8. to \in Nat /\ n \in Nat
  BY <1>1, <1>5, NodesAreNat
<1>. HIDE DEF port
<1>9. e = [kind |-> "onlink", time |-> now, link |-> l, node |-> to, port |-> port,
           type |-> type, from |-> n, stamp |-> stamp]
  BY DEF Send, l, to, port
<1>. HIDE DEF e
<1>10. e \in PacketEvent
  BY <1>2, <1>7, <1>8, <1>9 DEF PacketEvent
<1>11. e \in Event
  BY <1>10 DEF Event
<1>12. /\ e.kind = "onlink" /\ e.time = now /\ e.link = l /\ e.node = to /\ e.port = port /\ e.from = n
  BY <1>9
<1>13. Placed(e)
  BY <1>3, <1>4, <1>6, <1>11, <1>12 DEF Placed, LinkEvents
<1>. QED
  BY <1>7, <1>12, <1>13 DEF e

\* A new alarm may be in the queue.
LEMMA AlarmPlaced ==
  ASSUME NEW n \in node_table, node_table \subseteq NodeIds, NEW data \in {"e", "p", "u"},
         NEW duration \in Nat, NEW now \in Time
  PROVE  LET e == Alarm(n, data, duration, now)
         IN /\ Placed(e) /\ e.kind = "alarm" /\ e.node = n /\ e.data = data
            /\ e.time = After(now, duration)
<1>. DEFINE e == Alarm(n, data, duration, now)
            t == After(now, duration)
<1>1. t \in Time
  BY TimeIsNat DEF After
<1>2. n \in Nat
  BY NodesAreNat
<1>. HIDE DEF t
<1>3. e = [kind |-> "alarm", time |-> t, node |-> n, data |-> data]
  BY DEF Alarm, t
<1>. HIDE DEF e
<1>4. e \in AlarmEvent
  BY <1>1, <1>2, <1>3 DEF AlarmEvent
<1>5. e \in Event
  BY <1>4 DEF Event
<1>6. Placed(e)
  BY <1>3, <1>5 DEF Placed, LinkEvents
<1>. QED
  BY <1>3, <1>6 DEF e, t

\* The events about which nothing is missing.
PlacedEvents == {e \in Event : Placed(e)}

\* So may the PINGs of a node, and each has a port to arrive at.
LEMMA PingsPlaced ==
  ASSUME TablesInv, NEW n \in node_table, NEW now \in Time
  PROVE  /\ Pings(n, now) \in Seq(PlacedEvents)
         /\ \A e \in Range(Pings(n, now)) : e.kind = "onlink" /\ e.port # 0 /\ e.time = now
<1>. DEFINE s == Pings(n, now)
<1>1. link_vector[n] \in Seq(Nat)
  BY DEF TablesInv
<1>2. PortsOf(n) = 1 .. Len(link_vector[n]) /\ Len(link_vector[n]) \in Nat
  BY <1>1 DEF PortsOf
<1>3. \A p \in PortsOf(n) : /\ Send(n, p, "PING", now, now) \in PlacedEvents
                            /\ Send(n, p, "PING", now, now).kind = "onlink"
                            /\ Send(n, p, "PING", now, now).port # 0
                            /\ Send(n, p, "PING", now, now).time = now
  BY SendPlaced DEF PlacedEvents, Placed
<1>4. s = [p \in PortsOf(n) |-> Send(n, p, "PING", now, now)]
  BY DEF Pings
<1>5. s \in [1 .. Len(link_vector[n]) -> PlacedEvents]
  BY <1>2, <1>3, <1>4
<1>6. s \in Seq(PlacedEvents)
  BY <1>2, <1>5, SeqDef
<1>7. \A e \in Range(s) : e.kind = "onlink" /\ e.port # 0 /\ e.time = now
  BY <1>3, <1>4 DEF Range
<1>. QED
  BY <1>6, <1>7

\* push() of such events keeps the queue as it should be.
LEMMA PushKeeps ==
  ASSUME QueueInv, NEW events \in Seq(PlacedEvents), Push(events)
  PROVE  /\ \A e \in DOMAIN event_q' : Placed(e)
         /\ top' = NoEvent \/ Placed(top')
<1>1. DOMAIN event_q' = DOMAIN event_q \cup Range(events)
  BY PushedEvents DEF Push
<1>2. \A e \in Range(events) : Placed(e) /\ e \in Event
  BY DEF PlacedEvents, Range
<1>3. events \in Seq(Event)
  BY DEF PlacedEvents
<1>4. top = NoEvent \/ top \in Event
  BY DEF QueueInv, Placed
<1>5. top' = NoEvent \/ top' = top \/ top' \in Range(events)
  BY <1>3, <1>4, TopIsFirst DEF Push
<1>. QED
  BY <1>1, <1>2, <1>5 DEF QueueInv

\* get_link_port finds the port of every packet.
LEMMA EmitPushes ==
  ASSUME NEW events \in Seq(PlacedEvents), NEW next, Emit(events, next),
         \A e \in Range(events) : e.kind = "onlink" => e.port # 0
  PROVE  Push(events) /\ pc' = next
BY DEF Emit, Range

\* The tables only grow, and what was there stays there.
LEMMA PlacedGrows ==
  ASSUME node_table \subseteq node_table', DOMAIN links \subseteq DOMAIN links',
         \A n \in node_table : PortsOf(n) \subseteq PortsOf(n)'
  PROVE  \A e : Placed(e) => Placed(e)'
BY DEF Placed

-----------------------------------------------------------------------------
(* What the routers have sent and set when the simulation begins. *)

\* RoutingProtocolImpl::init of one node.
FirstEvents(n) ==
  Pings(n, global_time) \o << Alarm(n, "p", 10, global_time), Alarm(n, "u", 30, global_time),
                              Alarm(n, "e", 1, global_time) >>

BootEvents(order) == FlattenSeq([k \in 1 .. Len(order) |-> FirstEvents(order[k])])

\* What RoutingProtocolImpl::init pushes for one node.
LEMMA FirstPlaced ==
  ASSUME TablesInv, QueueInv, NEW n \in node_table
  PROVE  /\ FirstEvents(n) \in Seq(PlacedEvents)
         /\ \A e \in Range(FirstEvents(n)) :
              \/ e.kind = "onlink" /\ e.port # 0 /\ e.time = global_time /\ e \in Range(Pings(n, global_time))
              \/ e.kind = "alarm" /\ \E data \in {"e", "p", "u"} : e = NextAlarm(n, data, global_time)
         /\ \A data \in {"e", "p", "u"} : Once(FirstEvents(n), NextAlarm(n, data, global_time))
<1>. DEFINE now == global_time
            ea == Alarm(n, "e", 1, now)
            pa == Alarm(n, "p", 10, now)
            ua == Alarm(n, "u", 30, now)
            s == Pings(n, now)
            t == <<pa, ua, ea>>
<1>1. now \in Time /\ node_table \subseteq NodeIds
  BY DEF QueueInv, TablesInv
<1>2. /\ s \in Seq(PlacedEvents)
      /\ \A e \in Range(s) : e.kind = "onlink" /\ e.port # 0 /\ e.time = now
  BY <1>1, PingsPlaced
<1>3. /\ Placed(ea) /\ ea.kind = "alarm" /\ ea.data = "e"
      /\ Placed(pa) /\ pa.kind = "alarm" /\ pa.data = "p"
      /\ Placed(ua) /\ ua.kind = "alarm" /\ ua.data = "u"
  BY <1>1, AlarmPlaced
<1>4. /\ ea = NextAlarm(n, "e", now) /\ pa = NextAlarm(n, "p", now) /\ ua = NextAlarm(n, "u", now)
  BY DEF NextAlarm
<1>. HIDE DEF ea, pa, ua, s
<1>5. t \in Seq(PlacedEvents)
  <2>1. {ea, pa, ua} \subseteq PlacedEvents
    BY <1>3 DEF PlacedEvents, Placed
  <2>. QED
    BY <2>1
<1>6. Len(t) = 3 /\ t[1] = pa /\ t[2] = ua /\ t[3] = ea /\ 1 .. 3 = {1, 2, 3}
  OBVIOUS
<1>. HIDE DEF t
<1>7. Range(t) = {pa, ua, ea}
  BY <1>5, <1>6 DEF Range
<1>8. pa # ua /\ pa # ea /\ ua # ea
  BY <1>3
<1>9. Once(t, ea) /\ Once(t, pa) /\ Once(t, ua)
  BY <1>6, <1>8 DEF Once
<1>10. ea \notin Range(s) /\ pa \notin Range(s) /\ ua \notin Range(s)
  BY <1>2, <1>3
<1>11. /\ s \o t \in Seq(PlacedEvents)
       /\ Range(s \o t) = Range(s) \cup Range(t)
       /\ \A e : Once(t, e) /\ e \notin Range(s) => Once(s \o t, e)
  BY <1>2, <1>5, Joined
<1>12. FirstEvents(n) = s \o t
  BY DEF FirstEvents, s, t, ea, pa, ua
<1>13. \A e \in Range(s \o t) :
         \/ e.kind = "onlink" /\ e.port # 0 /\ e.time = now /\ e \in Range(s)
         \/ e.kind = "alarm" /\ \E data \in {"e", "p", "u"} : e = NextAlarm(n, data, now)
  BY <1>2, <1>3, <1>4, <1>7, <1>11
<1>14. \A data \in {"e", "p", "u"} : Once(s \o t, NextAlarm(n, data, now))
  BY <1>4, <1>9, <1>10, <1>11
<1>. QED
  BY <1>11, <1>12, <1>13, <1>14 DEF s

\* Every node comes up once in the order in which they are initialised.
LEMMA OrderTakesAll ==
  ASSUME TablesInv, NEW order \in SetToSeqs(node_table)
  PROVE  /\ order \in Seq(node_table)
         /\ \A i, j \in 1 .. Len(order) : order[i] = order[j] => i = j
         /\ \A n \in node_table : \E i \in 1 .. Len(order) : order[i] = n
<1>. DEFINE N == Cardinality(node_table)
<1>1. IsFiniteSet(node_table) /\ N \in Nat
  BY FS_CardinalityType DEF TablesInv
<1>. HIDE DEF N
<1>2. order \in [1 .. N -> node_table] /\ \A i, j \in 1 .. N : i # j => order[i] # order[j]
  BY DEF SetToSeqs, N
<1>3. order \in Seq(node_table) /\ Len(order) = N
  BY <1>1, <1>2
<1>4. order \in Injection(1 .. N, node_table)
  BY <1>2 DEF Injection, IsInjective
<1>5. IsFiniteSet(1 .. N) /\ Cardinality(1 .. N) = N
  BY <1>1, FS_Interval
<1>6. order \in Surjection(1 .. N, node_table)
  BY <1>1, <1>4, <1>5, FS_Injection DEF N
<1>. QED
  BY <1>2, <1>3, <1>6 DEF Surjection

\* What it pushes for all nodes, and that each alarm is among them once.
LEMMA BootPlaced ==
  ASSUME TablesInv, QueueInv, NEW order \in SetToSeqs(node_table)
  PROVE  /\ BootEvents(order) \in Seq(PlacedEvents)
         /\ \A e \in Range(BootEvents(order)) :
              \/ /\ e.kind = "onlink" /\ e.port # 0 /\ e.time = global_time
                 /\ \E n \in node_table : e \in Range(Pings(n, global_time))
              \/ /\ e.kind = "alarm"
                 /\ \E n \in node_table : \E data \in {"e", "p", "u"} : e = NextAlarm(n, data, global_time)
         /\ \A n \in node_table : \A data \in {"e", "p", "u"} :
              Once(BootEvents(order), NextAlarm(n, data, global_time))
<1>. DEFINE seqs == [k \in 1 .. Len(order) |-> FirstEvents(order[k])]
            flat == FlattenSeq(seqs)
            Kind(e) == \/ /\ e.kind = "onlink" /\ e.port # 0 /\ e.time = global_time
                          /\ \E n \in node_table : e \in Range(Pings(n, global_time))
                       \/ /\ e.kind = "alarm"
                          /\ \E n \in node_table : \E data \in {"e", "p", "u"} : e = NextAlarm(n, data, global_time)
<1>1. /\ order \in Seq(node_table) /\ Len(order) \in Nat
      /\ \A i, j \in 1 .. Len(order) : order[i] = order[j] => i = j
      /\ \A n \in node_table : \E i \in 1 .. Len(order) : order[i] = n
  BY OrderTakesAll
<1>2. \A k \in 1 .. Len(order) : order[k] \in node_table
  BY <1>1
<1>3. \A k \in 1 .. Len(order) : seqs[k] = FirstEvents(order[k]) /\ seqs[k] \in Seq(PlacedEvents)
  BY <1>2, FirstPlaced
<1>4. seqs \in Seq(Seq(PlacedEvents)) /\ Len(seqs) = Len(order)
  BY <1>1, <1>3
<1>5. BootEvents(order) = flat
  BY DEF BootEvents
<1>. HIDE DEF seqs
<1>6. flat \in Seq(PlacedEvents)
  BY <1>4, Flattened
<1>7. ASSUME NEW e \in Range(flat)
      PROVE  Kind(e)
  <2>1. PICK k \in 1 .. Len(order) : e \in Range(seqs[k])
    BY <1>4, Flattened
  <2>2. e \in Range(FirstEvents(order[k])) /\ order[k] \in node_table
    BY <1>2, <1>3, <2>1
  <2>. QED
    BY <2>2, FirstPlaced
<1>8. ASSUME NEW n \in node_table, NEW data \in {"e", "p", "u"}
      PROVE  Once(flat, NextAlarm(n, data, global_time))
  <2>. DEFINE a == NextAlarm(n, data, global_time)
  <2>1. PICK i \in 1 .. Len(order) : order[i] = n
    BY <1>1
  <2>2. Once(seqs[i], a)
    BY <1>3, <2>1, FirstPlaced
  <2>3. \A m \in node_table, d \in {"e", "p", "u"} : NextAlarm(m, d, global_time).node = m
    BY DEF NextAlarm, Alarm
  <2>4. a.kind = "alarm"
    BY DEF NextAlarm, Alarm
  <2>5. ASSUME NEW j \in 1 .. Len(order), j # i, a \in Range(seqs[j])
        PROVE  FALSE
    <3>. HIDE DEF a
    <3>1. order[j] \in node_table /\ order[j] # n
      BY <1>1, <1>2, <2>1, <2>5
    <3>2. a \in Range(FirstEvents(order[j]))
      BY <1>3, <2>5
    <3>3. \E d \in {"e", "p", "u"} : a = NextAlarm(order[j], d, global_time)
      BY <2>4, <3>1, <3>2, FirstPlaced
    <3>. QED
      BY <2>3, <3>1, <3>3 DEF a
  <2>. HIDE DEF a
  <2>6. \A j \in 1 .. Len(seqs) : j # i => a \notin Range(seqs[j])
    BY <1>4, <2>5
  <2>. QED
    BY <1>4, <2>1, <2>2, <2>6, Flattened DEF a
<1>. HIDE DEF flat
<1>. QED
  BY <1>5, <1>6, <1>7, <1>8

-----------------------------------------------------------------------------
(* Reading the file. *)

\* At the start there is nothing in the tables.
LEMMA SimInvInit == Init => SimInv
<1>. SUFFICES ASSUME Init PROVE SimInv
  OBVIOUS
<1>. USE DEF Init, QueueInit, FileInit, SimInit
<1>1. pc \in Running
  BY DEF Running
<1>2. TablesInv
  <2>1. IsFiniteSet({}) /\ Range(<<>>) = {} /\ <<>> \in Seq(Nat)
    BY FS_EmptySet DEF Range
  <2>2. links \in Seq(LinkRec) /\ DOMAIN links = {} /\ DOMAIN link_table = {}
    BY DEF NoLinks
  <2>. QED
    BY <2>1, <2>2 DEF TablesInv
<1>3. ReadInv
  <2>1. lines \in Seq(FileLine)
    BY FilesAssumption
  <2>2. ASSUME NEW k \in DOMAIN lines, lines[k].kind \notin {"blank", "header"}
        PROVE  Range(lines[k].ids) \subseteq NodeIds
    <3>1. lines \in Files /\ k \in {i \in 1 .. Len(lines) : lines[i].kind \notin {"blank", "header"}}
      BY <2>1, <2>2
    <3>2. lines[k].ids \in Seq(Nat)
      BY <2>1, <2>2, LineFields
    <3>3. Range(lines[k].ids) = {lines[k].ids[j] : j \in 1 .. Len(lines[k].ids)}
      BY <3>2 DEF Range
    <3>. QED
      BY <3>1, <3>3 DEF NodeIds
  <2>. QED
    BY <2>1, <2>2 DEF ReadInv
<1>4. QueueInv
  BY ClockAssumption DEF QueueInv, Time, EmptyBag, SetToBag
<1>5. PortsInv
  BY DEF PortsInv
<1>. QED
  BY <1>1, <1>2, <1>3, <1>4, <1>5 DEF SimInv

\* What is left to read, after a line.
LEMMA NextLine ==
  ASSUME ReadInv, lines # <<>>, lines' = Tail(lines), section' \in {section, "nodes", "links", "events"}
  PROVE  /\ ReadInv'
         /\ Head(lines) \in FileLine
         /\ Head(lines).kind \notin {"blank", "header"} => Range(Head(lines).ids) \subseteq NodeIds
<1>1. lines \in Seq(FileLine)
  BY DEF ReadInv
<1>2. Head(lines) = lines[1] /\ 1 \in DOMAIN lines /\ Head(lines) \in FileLine
  BY <1>1
<1>3. /\ Tail(lines) \in Seq(FileLine)
      /\ \A k \in DOMAIN Tail(lines) : k + 1 \in DOMAIN lines /\ Tail(lines)[k] = lines[k + 1]
  BY <1>1
<1>4. \A k \in DOMAIN lines' : lines'[k].kind \notin {"blank", "header"} => Range(lines'[k].ids) \subseteq NodeIds
  BY <1>3 DEF ReadInv
<1>5. lines' \in Seq(FileLine) /\ section' \in {"start", "nodes", "links", "events"}
  BY <1>3 DEF ReadInv
<1>. QED
  BY <1>2, <1>4, <1>5 DEF ReadInv

\* Both ends of a new link, which may be the same node, get a port for it.
LEMMA AttachedVectors ==
  ASSUME NEW V \in [NodeIds -> Seq(Nat)], NEW n \in NodeIds, NEW m \in NodeIds, NEW l \in Nat
  PROVE  /\ Attached(V, n, m, l) \in [NodeIds -> Seq(Nat)]
         /\ \A k \in NodeIds :
              /\ Len(V[k]) <= Len(Attached(V, n, m, l)[k])
              /\ Range(V[k]) \subseteq Range(Attached(V, n, m, l)[k])
              /\ Range(Attached(V, n, m, l)[k]) \subseteq Range(V[k]) \cup {l}
         /\ l \in Range(Attached(V, n, m, l)[n]) /\ l \in Range(Attached(V, n, m, l)[m])
<1>. DEFINE one == [V EXCEPT ![n] = Append(@, l)]
            two == [one EXCEPT ![m] = Append(@, l)]
<1>. DEFINE Longer(s, t) == Len(s) <= Len(t) /\ Range(s) \subseteq Range(t) /\ Range(t) \subseteq Range(s) \cup {l}
<1>1. \A s \in Seq(Nat) : /\ Append(s, l) \in Seq(Nat) /\ Longer(s, s) /\ Longer(s, Append(s, l))
                          /\ l \in Range(Append(s, l))
  <2>1. ASSUME NEW s \in Seq(Nat)
        PROVE  /\ Append(s, l) \in Seq(Nat) /\ Longer(s, s) /\ Longer(s, Append(s, l))
               /\ l \in Range(Append(s, l))
    <3>. DEFINE t == Append(s, l)
    <3>1. /\ t \in Seq(Nat) /\ Len(t) = Len(s) + 1 /\ Len(s) \in Nat
          /\ DOMAIN t = 1 .. Len(t) /\ DOMAIN s = 1 .. Len(s)
          /\ \A k \in 1 .. Len(s) : t[k] = s[k]
          /\ t[Len(s) + 1] = l
      OBVIOUS
    <3>. HIDE DEF t
    <3>2. 1 .. Len(t) = (1 .. Len(s)) \cup {Len(s) + 1}
      BY <3>1
    <3>3. Range(t) = {t[k] : k \in 1 .. Len(t)} /\ Range(s) = {s[k] : k \in 1 .. Len(s)}
      BY <3>1 DEF Range
    <3>4. Range(t) = Range(s) \cup {l}
      <4>1. ASSUME NEW x \in Range(t) PROVE x \in Range(s) \cup {l}
        <5>1. PICK k \in 1 .. Len(t) : x = t[k]
          BY <3>3
        <5>. QED
          BY <3>1, <3>2, <3>3, <5>1
      <4>2. ASSUME NEW x \in Range(s) PROVE x \in Range(t)
        <5>1. PICK k \in 1 .. Len(s) : x = s[k]
          BY <3>3
        <5>2. k \in 1 .. Len(t) /\ t[k] = x
          BY <3>1, <3>2, <5>1
        <5>. QED
          BY <3>3, <5>2
      <4>3. l \in Range(t)
        <5>1. Len(s) + 1 \in 1 .. Len(t)
          BY <3>1
        <5>. QED
          BY <3>1, <3>3, <5>1
      <4>. QED
        BY <4>1, <4>2, <4>3
    <3>5. Len(s) <= Len(t) /\ Len(s) <= Len(s)
      BY <3>1
    <3>. QED
      BY <3>1, <3>4, <3>5 DEF t
  <2>. QED
    BY <2>1
<1>2. /\ one \in [NodeIds -> Seq(Nat)] /\ one[n] = Append(V[n], l)
      /\ \A k \in NodeIds : k # n => one[k] = V[k]
  BY <1>1
<1>. HIDE DEF one
<1>3. /\ two \in [NodeIds -> Seq(Nat)] /\ two[m] = Append(one[m], l)
      /\ \A k \in NodeIds : k # m => two[k] = one[k]
  BY <1>1, <1>2
<1>4. Attached(V, n, m, l) = two
  BY DEF Attached, one
<1>. HIDE DEF two
<1>5. \A k \in NodeIds : V[k] \in Seq(Nat) /\ one[k] \in Seq(Nat) /\ two[k] \in Seq(Nat)
  BY <1>2, <1>3
<1>6. \A k \in NodeIds : Longer(V[k], one[k]) /\ Longer(one[k], two[k])
  <2>. HIDE DEF Longer
  <2>1. \A k \in NodeIds : Longer(V[k], one[k])
    BY <1>1, <1>2, <1>5
  <2>2. \A k \in NodeIds : Longer(one[k], two[k])
    BY <1>1, <1>3, <1>5
  <2>. QED
    BY <2>1, <2>2
<1>7. \A k \in NodeIds : Len(V[k]) <= Len(two[k])
  <2>1. \A a, b, c \in Nat : a <= b /\ b <= c => a <= c
    OBVIOUS
  <2>2. \A k \in NodeIds : Len(V[k]) \in Nat /\ Len(one[k]) \in Nat /\ Len(two[k]) \in Nat
    BY <1>5
  <2>. QED
    BY <1>6, <2>1, <2>2
<1>8. l \in Range(one[n]) /\ l \in Range(two[m])
  BY <1>1, <1>2, <1>3, <1>5
<1>9. l \in Range(two[n])
  BY <1>6, <1>8
<1>. QED
  BY <1>3, <1>4, <1>6, <1>7, <1>8, <1>9

\* A line of nodes keeps the tables as they should be.
LEMMA ReadNodesKeeps ==
  ASSUME SimInv, NEW line \in FileLine, ReadNodes(line), Range(line.ids) \subseteq NodeIds
  PROVE  /\ TablesInv' /\ pc' = pc /\ UNCHANGED <<event_q, top>>
         /\ \A e : Placed(e) => Placed(e)'
         /\ node_table \subseteq node_table'
<1>1. IsFiniteSet(node_table')
  <2>1. line.ids \in Seq(Nat)
    BY LineFields DEF ReadNodes
  <2>2. /\ line.ids \in Surjection(1 .. Len(line.ids), Range(line.ids))
    BY <2>1 DEF Surjection, Range
  <2>3. IsFiniteSet(Range(line.ids))
    <3>1. IsFiniteSet(1 .. Len(line.ids))
      BY <2>1, FS_Interval
    <3>. QED
      BY <2>2, <3>1, FS_Surjection
  <2>. QED
    BY <2>3, FS_Union DEF ReadNodes, SimInv, TablesInv
<1>2. UNCHANGED <<links, link_table, link_vector, pc, event_q, top>> /\ node_table' = node_table \cup Range(line.ids)
  BY DEF ReadNodes
<1>3. TablesInv'
  BY <1>1, <1>2 DEF SimInv, TablesInv
<1>4. \A e : Placed(e) => Placed(e)'
  BY <1>2, PlacedGrows DEF PortsOf
<1>. QED
  BY <1>2, <1>3, <1>4

\* So does a link: both ends get it as a new port.
LEMMA ReadLinkKeeps ==
  ASSUME SimInv, NEW line \in FileLine, ReadLink(line), pc = "init"
  PROVE  /\ TablesInv' /\ pc' \in {"init", "crashed"} /\ UNCHANGED <<event_q, top>>
         /\ \A e : Placed(e) => Placed(e)'
         /\ node_table \subseteq node_table'
<1>1. UNCHANGED <<node_table, event_q, top>>
  BY DEF ReadLink
<1>2. CASE {line.from, line.to} \subseteq node_table
  <2>. DEFINE l == Len(links) + 1
              rec == Link(line.from, line.to, line.delay, line.loss)
  <2>1. /\ links' = Append(links, rec)
        /\ link_table' = [p \in DOMAIN link_table \cup {{line.from, line.to}} |->
                 IF p = {line.from, line.to} THEN l ELSE link_table[p]]
        /\ link_vector' = Attached(link_vector, line.from, line.to, l)
        /\ UNCHANGED pc
    BY <1>2 DEF ReadLink
  <2>2. links \in Seq(LinkRec) /\ link_vector \in [NodeIds -> Seq(Nat)] /\ node_table \subseteq NodeIds
    BY DEF SimInv, TablesInv
  <2>3. rec \in LinkRec /\ rec.node1 = line.from /\ rec.node2 = line.to
    BY LineFields DEF Link, LinkRec, ReadLink
  <2>. HIDE DEF rec
  <2>4. /\ links' \in Seq(LinkRec) /\ l \in Nat /\ l \notin DOMAIN links
        /\ DOMAIN links' = DOMAIN links \cup {l} /\ links'[l] = rec
        /\ \A k \in DOMAIN links : links'[k] = links[k]
    BY <2>1, <2>2, <2>3
  <2>. HIDE DEF l
  <2>5. /\ link_vector' \in [NodeIds -> Seq(Nat)]
        /\ \A k \in NodeIds :
              /\ Len(link_vector[k]) <= Len(link_vector'[k])
              /\ Range(link_vector[k]) \subseteq Range(link_vector'[k])
              /\ Range(link_vector'[k]) \subseteq Range(link_vector[k]) \cup {l}
        /\ l \in Range(link_vector'[line.from]) /\ l \in Range(link_vector'[line.to])
    <3>1. line.from \in NodeIds /\ line.to \in NodeIds /\ l \in Nat
      BY <1>2, <2>2, <2>4
    <3>2. link_vector' = Attached(link_vector, line.from, line.to, l) /\ link_vector \in [NodeIds -> Seq(Nat)]
      BY <2>1, <2>2
    <3>. DEFINE old == link_vector
                new == Attached(old, line.from, line.to, l)
    <3>3. /\ new \in [NodeIds -> Seq(Nat)]
          /\ \A k \in NodeIds :
                /\ Len(old[k]) <= Len(new[k])
                /\ Range(old[k]) \subseteq Range(new[k])
                /\ Range(new[k]) \subseteq Range(old[k]) \cup {l}
          /\ l \in Range(new[line.from]) /\ l \in Range(new[line.to])
      BY <3>1, <3>2, AttachedVectors
    <3>. HIDE DEF new
    <3>4. link_vector' = new
      BY <3>2 DEF new
    <3>. QED
      BY <3>3, <3>4
  <2>6. \A pair \in DOMAIN link_table' : link_table'[pair] \in DOMAIN links'
    BY <2>1, <2>4 DEF SimInv, TablesInv
  <2>7. \A n \in NodeIds : Range(link_vector'[n]) \subseteq DOMAIN links'
    BY <2>4, <2>5 DEF SimInv, TablesInv
  <2>8. ASSUME NEW k \in DOMAIN links', NEW n \in {links'[k].node1, links'[k].node2}
        PROVE  n \in node_table' /\ k \in Range(link_vector'[n])
    <3>1. CASE k = l
      BY <1>1, <1>2, <2>3, <2>4, <2>5, <2>8, <3>1
    <3>2. CASE k # l
      <4>1. k \in DOMAIN links /\ n \in {links[k].node1, links[k].node2}
        BY <2>4, <2>8, <3>2
      <4>2. n \in node_table /\ k \in Range(link_vector[n])
        BY <4>1 DEF SimInv, TablesInv
      <4>. QED
        BY <1>1, <2>2, <2>5, <4>2
    <3>. QED
      BY <3>1, <3>2
  <2>9. TablesInv'
    BY <1>1, <2>2, <2>4, <2>5, <2>6, <2>7, <2>8 DEF SimInv, TablesInv
  <2>10. ASSUME NEW n \in node_table
         PROVE  PortsOf(n) \subseteq PortsOf(n)'
    <3>1. \A a, b \in Nat : a <= b => 1 .. a \subseteq 1 .. b
      OBVIOUS
    <3>2. Len(link_vector[n]) \in Nat /\ Len(link_vector'[n]) \in Nat /\ Len(link_vector[n]) <= Len(link_vector'[n])
      BY <2>2, <2>5
    <3>. QED
      BY <3>1, <3>2 DEF PortsOf
  <2>11. \A e : Placed(e) => Placed(e)'
    BY <1>1, <2>4, <2>10, PlacedGrows
  <2>. QED
    BY <1>1, <2>1, <2>9, <2>11
<1>3. CASE ~ ({line.from, line.to} \subseteq node_table)
  <2>1. UNCHANGED <<links, link_table, link_vector>> /\ pc' = "crashed"
    BY <1>3 DEF ReadLink
  <2>2. TablesInv'
    BY <1>1, <2>1 DEF SimInv, TablesInv
  <2>3. \A e : Placed(e) => Placed(e)'
    BY <1>1, <2>1, PlacedGrows DEF PortsOf
  <2>. QED
    BY <1>1, <2>1, <2>2, <2>3
<1>. QED
  BY <1>2, <1>3

\* An event of the file is pushed, if any; it is not an alarm and no packet.
LEMMA ReadEventPushes ==
  ASSUME SimInv, NEW line \in FileLine, ReadEvent(line)
  PROVE  /\ UNCHANGED <<pc, section, node_table, links, link_table, link_vector>>
         /\ \/ UNCHANGED <<event_q, top>>
            \/ \E events \in Seq(PlacedEvents) :
                 Push(events) /\ \A e \in Range(events) : e.kind \in LinkEvents \cup {"xmit"}
<1>1. UNCHANGED <<pc, section, node_table, links, link_table, link_vector>>
  BY DEF ReadEvent
<1>2. ASSUME NEW e \in PlacedEvents, e.kind \in LinkEvents \cup {"xmit"}, Push(<<e>>)
      PROVE  \E events \in Seq(PlacedEvents) : Push(events) /\ \A f \in Range(events) : f.kind \in LinkEvents \cup {"xmit"}
  <2>1. <<e>> \in Seq(PlacedEvents) /\ Range(<<e>>) = {e}
    BY DEF Range
  <2>. QED
    BY <1>2, <2>1
<1>3. CASE line.kind = "end"
  BY <1>1, <1>3 DEF ReadEvent
<1>4. CASE line.kind = "xmit"
  <2>. DEFINE e == [kind |-> "xmit", time |-> line.time, node |-> line.src]
  <2>1. Push(<<e>>)
    BY <1>4 DEF ReadEvent
  <2>2. e \in XmitEvent /\ e.kind = "xmit"
    BY <1>4, LineFields DEF XmitEvent
  <2>. HIDE DEF e
  <2>3. e \in PlacedEvents
    BY <2>2 DEF Placed, Event, LinkEvents, PlacedEvents
  <2>. QED
    BY <1>1, <1>2, <2>1, <2>2, <2>3
<1>5. CASE line.kind \in LinkEvents
  <2>. DEFINE e == [kind |-> line.kind, time |-> line.time, link |-> LinkOf(line.src, line.dst), delay |-> line.delay]
  <2>1. Push(<<e>>)
    BY <1>5 DEF ReadEvent, LinkEvents
  <2>2. LinkOf(line.src, line.dst) \in {0} \cup DOMAIN links /\ DOMAIN links \subseteq Nat
    BY DEF LinkOf, SimInv, TablesInv
  <2>3. e \in LinkEvent /\ e.kind \in LinkEvents /\ e.link \in {0} \cup DOMAIN links
    BY <1>5, <2>2, LineFields DEF LinkEvent
  <2>. HIDE DEF e
  <2>4. e \in PlacedEvents /\ e.kind \in LinkEvents
    BY <2>3 DEF Placed, Event, LinkEvents, PlacedEvents
  <2>. QED
    BY <1>1, <1>2, <2>1, <2>4
<1>. QED
  BY <1>3, <1>4, <1>5 DEF ReadEvent, LinkEvents

\* So does an event.
LEMMA ReadEventKeeps ==
  ASSUME SimInv, NEW line \in FileLine, ReadEvent(line)
  PROVE  /\ UNCHANGED <<pc, section, node_table, links, link_table, link_vector>>
         /\ \A e \in DOMAIN event_q' : Placed(e)
         /\ top' = NoEvent \/ Placed(top')
<1>1. ASSUME NEW events \in Seq(PlacedEvents), Push(events)
      PROVE  (\A e \in DOMAIN event_q' : Placed(e)) /\ (top' = NoEvent \/ Placed(top'))
  BY <1>1, PushKeeps DEF SimInv
<1>. QED
  BY <1>1, ReadEventPushes DEF SimInv, QueueInv

\* The ports are empty, or what they are, while the tables grow.
LEMMA PortsStay ==
  ASSUME PortsInv, UNCHANGED ports, node_table \subseteq node_table',
         pc' \in {"run", "pop"} => pc \in {"run", "pop"} /\ UNCHANGED link_vector
  PROVE  PortsInv'
<1>1. ASSUME NEW n \in NodeIds
      PROVE  /\ (pc \in {"run", "pop"})' => (DOMAIN ports[n] = PortsOf(n))'
             /\ \A p \in DOMAIN ports[n] :
                  ports[n][p] \in PortRec /\ (ports[n][p].connected => ports[n][p].to \in node_table')
  BY DEF PortsInv, PortsOf
<1>. QED
  BY <1>1 DEF PortsInv

\* So does every line of the file.
LEMMA ReadLineKeeps ==
  ASSUME SimInv, ReadLine, UNCHANGED routerVars
  PROVE  SimInv'
<1>. DEFINE line == Head(lines)
<1>1. /\ pc = "init" /\ lines # <<>> /\ lines' = Tail(lines)
      /\ UNCHANGED <<global_time, curr_event, ports>>
  BY DEF ReadLine, routerVars
<1>2. \/ ReadBlank(line) \/ ReadHeader(line) \/ ReadNoHeader(line) \/ ReadNodes(line)
      \/ ReadLink(line) \/ ReadEvent(line) \/ ReadWrong(line)
  BY DEF ReadLine
<1>3. section' \in {section, "nodes", "links", "events"}
  <2>1. CASE ReadHeader(line)
    <3>1. section' = section \/ section' \in Follow[section]
      BY <2>1 DEF ReadHeader
    <3>2. section \in {"start", "nodes", "links", "events"}
      BY DEF SimInv, ReadInv
    <3>. QED
      BY <3>1, <3>2 DEF Follow
  <2>. QED
    BY <1>2, <2>1 DEF ReadBlank, ReadNoHeader, ReadNodes, ReadLink, ReadEvent, ReadWrong
<1>4. /\ ReadInv' /\ line \in FileLine
      /\ line.kind \notin {"blank", "header"} => Range(line.ids) \subseteq NodeIds
  BY <1>1, <1>3, NextLine DEF SimInv
<1>. HIDE DEF line
<1>5. /\ TablesInv' /\ pc' \in Running \ {"run", "pop"}
      /\ node_table \subseteq node_table'
      /\ \A e : Placed(e) => Placed(e)'
      /\ \/ UNCHANGED <<event_q, top>>
         \/ (\A e \in DOMAIN event_q' : Placed(e)) /\ (top' = NoEvent \/ Placed(top'))
  <2>1. CASE ReadBlank(line) \/ ReadHeader(line) \/ ReadNoHeader(line) \/ ReadWrong(line)
    <3>1. UNCHANGED <<tableVars, event_q, top>> /\ pc' \in {pc, "boot", "refused"}
      BY <2>1 DEF ReadBlank, ReadHeader, ReadNoHeader, ReadWrong
    <3>2. UNCHANGED <<node_table, links, link_table, link_vector, event_q, top>>
      BY <3>1 DEF tableVars
    <3>3. TablesInv'
      BY <3>2 DEF SimInv, TablesInv
    <3>4. \A e : Placed(e) => Placed(e)'
      BY <3>2, PlacedGrows DEF PortsOf
    <3>. QED
      BY <1>1, <3>1, <3>2, <3>3, <3>4 DEF Running
  <2>2. CASE ReadNodes(line)
    <3>1. Range(line.ids) \subseteq NodeIds
      BY <1>4, <2>2 DEF ReadNodes
    <3>. QED
      BY <1>1, <1>4, <2>2, <3>1, ReadNodesKeeps DEF Running
  <2>3. CASE ReadLink(line)
    BY <1>1, <1>4, <2>3, ReadLinkKeeps DEF Running
  <2>4. CASE ReadEvent(line)
    <3>1. /\ UNCHANGED <<pc, section, node_table, links, link_table, link_vector>>
          /\ \A e \in DOMAIN event_q' : Placed(e)
          /\ top' = NoEvent \/ Placed(top')
      BY <1>4, <2>4, ReadEventKeeps
    <3>2. TablesInv'
      BY <3>1 DEF SimInv, TablesInv
    <3>3. \A e : Placed(e) => Placed(e)'
      BY <3>1, PlacedGrows DEF PortsOf
    <3>. QED
      BY <1>1, <3>1, <3>2, <3>3 DEF Running
  <2>. QED
    BY <1>2, <2>1, <2>2, <2>3, <2>4
<1>6. QueueInv'
  <2>1. /\ \A e \in DOMAIN event_q' : Placed(e)
        /\ top' = NoEvent \/ Placed(top')
    BY <1>5 DEF SimInv, QueueInv
  <2>2. /\ \A e \in DOMAIN event_q' : Placed(e)'
        /\ top' = NoEvent \/ Placed(top)'
    <3>1. Placed(top') => Placed(top)'
      BY <1>5
    <3>. QED
      BY <1>5, <2>1, <3>1
  <2>. QED
    BY <1>1, <2>2 DEF SimInv, QueueInv
<1>7. PortsInv'
  BY <1>1, <1>5, PortsStay DEF SimInv
<1>. QED
  BY <1>4, <1>5, <1>6, <1>7 DEF SimInv

-----------------------------------------------------------------------------
(* The simulation. *)

\* What the steps that leave the tables alone keep of them.
LEMMA SameTables ==
  ASSUME SimInv, UNCHANGED <<tableVars, fileVars>>
  PROVE  TablesInv' /\ ReadInv' /\ \A e : Placed(e) <=> Placed(e)'
<1>. USE DEF tableVars, fileVars
<1>1. TablesInv'
  BY DEF SimInv, TablesInv
<1>2. ReadInv'
  BY DEF SimInv, ReadInv
<1>3. \A e : Placed(e) <=> Placed(e)'
  BY DEF Placed, PortsOf
<1>. QED
  BY <1>1, <1>2, <1>3

\* A step after which the queue holds nothing that is not placed.
LEMMA QueueKept ==
  ASSUME QueueInv, global_time' \in Time, \A e : Placed(e) => Placed(e)',
         \/ UNCHANGED <<event_q, top>>
         \/ (\A e \in DOMAIN event_q' : Placed(e)) /\ (top' = NoEvent \/ Placed(top'))
  PROVE  QueueInv'
<1>1. /\ \A e \in DOMAIN event_q' : Placed(e)
      /\ top' = NoEvent \/ Placed(top')
  BY DEF QueueInv
<1>2. Placed(top') => Placed(top)'
  OBVIOUS
<1>3. /\ \A e \in DOMAIN event_q' : Placed(e)'
      /\ top' = NoEvent \/ Placed(top)'
  BY <1>1, <1>2
<1>. QED
  BY <1>3 DEF QueueInv

\* The start of the routers finds all ports.
LEMMA InitRoutingPushes ==
  ASSUME SimInv, InitRouting
  PROVE  pc' = "run" /\ \E order \in SetToSeqs(node_table) : Push(BootEvents(order))
<1>1. PICK order \in SetToSeqs(node_table) : Emit(BootEvents(order), "run")
  BY DEF InitRouting, BootEvents, FirstEvents
<1>2. /\ BootEvents(order) \in Seq(PlacedEvents)
      /\ \A e \in Range(BootEvents(order)) : e.kind = "onlink" => e.port # 0
  BY BootPlaced DEF SimInv
<1>. QED
  BY <1>1, <1>2, EmitPushes

\* The routers start with ports that are not connected.
LEMMA InitRoutingKeeps ==
  ASSUME SimInv, InitRouting
  PROVE  SimInv'
<1>1. UNCHANGED <<global_time, tableVars, fileVars>>
  BY DEF InitRouting
<1>2. TablesInv' /\ ReadInv' /\ \A e : Placed(e) => Placed(e)'
  BY <1>1, SameTables
<1>3. PICK order \in SetToSeqs(node_table) : Push(BootEvents(order)) /\ pc' = "run"
  BY InitRoutingPushes
<1>4. BootEvents(order) \in Seq(PlacedEvents)
  BY BootPlaced DEF SimInv
<1>5. (\A e \in DOMAIN event_q' : Placed(e)) /\ (top' = NoEvent \/ Placed(top'))
  BY <1>3, <1>4, PushKeeps DEF SimInv
<1>6. QueueInv'
  BY <1>1, <1>2, <1>5, QueueKept DEF SimInv, QueueInv
<1>7. PortsInv'
  <2>1. ports' = [n \in NodeIds |-> [p \in PortsOf(n) |-> Port(0, FALSE, 0)]]
    BY DEF InitRouting
  <2>2. Port(0, FALSE, 0) \in PortRec /\ ~ Port(0, FALSE, 0).connected
    <3>1. 0 \in Time
      BY ClockAssumption DEF Time
    <3>. QED
      BY <3>1 DEF Port, PortRec
  <2>3. \A n \in NodeIds : PortsOf(n)' = PortsOf(n)
    BY <1>1 DEF PortsOf, tableVars
  <2>. QED
    BY <2>1, <2>2, <2>3 DEF PortsInv
<1>. QED
  BY <1>2, <1>3, <1>6, <1>7 DEF SimInv, Running

\* The event that is dispatched.
LEMMA TopPlaced ==
  ASSUME SimInv, NEW e, Taken(e)
  PROVE  /\ Placed(e) /\ e \in Event /\ e.time \in Time /\ global_time' = e.time
         /\ pc = "run" /\ e = top /\ curr_event' = e
BY EventFields DEF SimInv, QueueInv, Taken, Placed

\* An event of a link changes no table but the link.
LEMMA DispatchLinkKeeps ==
  ASSUME SimInv, NEW e, DispatchLink(e)
  PROVE  SimInv'
<1>1. /\ Taken(e) /\ e.kind \in LinkEvents /\ e.link # 0 /\ pc' = "pop"
      /\ UNCHANGED <<event_q, top, node_table, null_nodes, link_table, link_vector, fileVars, ports>>
  BY DEF DispatchLink
<1>2. /\ Placed(e) /\ e \in LinkEvent /\ e.time \in Time /\ global_time' = e.time /\ pc = "run"
  BY <1>1, TopPlaced, EventFields
<1>3. e.link \in DOMAIN links /\ e.delay \in Time
  BY <1>1, <1>2 DEF Placed, LinkEvent
<1>. DEFINE l == e.link
<1>4. links \in Seq(LinkRec)
  BY DEF SimInv, TablesInv
<1>5. links[l] \in LinkRec
  BY <1>3, <1>4
<1>6. PICK rec : /\ links' = [links EXCEPT ![l] = rec]
                 /\ rec \in LinkRec /\ rec.node1 = links[l].node1 /\ rec.node2 = links[l].node2
  <2>1. CASE e.kind = "linkdying"
    <3>. DEFINE r == [links[l] EXCEPT !.alive = FALSE]
    <3>1. links' = [links EXCEPT ![l] = r]
      BY <2>1 DEF DispatchLink
    <3>2. r \in LinkRec /\ r.node1 = links[l].node1 /\ r.node2 = links[l].node2
      BY <1>5 DEF LinkRec
    <3>. QED
      BY <3>1, <3>2
  <2>2. CASE e.kind = "linkcomingup"
    <3>. DEFINE r == [links[l] EXCEPT !.alive = TRUE]
    <3>1. links' = [links EXCEPT ![l] = r]
      BY <2>2 DEF DispatchLink
    <3>2. r \in LinkRec /\ r.node1 = links[l].node1 /\ r.node2 = links[l].node2
      BY <1>5 DEF LinkRec
    <3>. QED
      BY <3>1, <3>2
  <2>3. CASE e.kind = "changedelay"
    <3>. DEFINE r == [links[l] EXCEPT !.delay = e.delay]
    <3>1. links' = [links EXCEPT ![l] = r]
      BY <2>3 DEF DispatchLink
    <3>2. r \in LinkRec /\ r.node1 = links[l].node1 /\ r.node2 = links[l].node2
      BY <1>3, <1>5 DEF LinkRec
    <3>. QED
      BY <3>1, <3>2
  <2>. QED
    BY <1>1, <2>1, <2>2, <2>3 DEF LinkEvents
<1>7. /\ links' \in Seq(LinkRec) /\ DOMAIN links' = DOMAIN links
      /\ \A k \in DOMAIN links : links'[k].node1 = links[k].node1 /\ links'[k].node2 = links[k].node2
  <2>1. links' \in Seq(LinkRec) /\ DOMAIN links' = DOMAIN links
    <3>1. links \in [1 .. Len(links) -> LinkRec] /\ Len(links) \in Nat
      BY <1>4
    <3>. DEFINE N == Len(links)
    <3>. HIDE DEF N
    <3>2. links' \in [1 .. N -> LinkRec]
      BY <1>6, <3>1 DEF N
    <3>3. links' \in Seq(LinkRec)
      BY <3>1, <3>2, SeqDef DEF N
    <3>. QED
      BY <1>6, <3>3
  <2>2. \A k \in DOMAIN links : links'[k] = IF k = l THEN rec ELSE links[k]
    BY <1>3, <1>4, <1>6
  <2>. QED
    BY <1>6, <2>1, <2>2
<1>8. TablesInv'
  BY <1>1, <1>7 DEF SimInv, TablesInv
<1>9. ReadInv'
  BY <1>1 DEF SimInv, ReadInv, fileVars
<1>10. \A f : Placed(f) => Placed(f)'
  BY <1>1, <1>7, PlacedGrows DEF PortsOf
<1>11. QueueInv'
  BY <1>1, <1>2, <1>10, QueueKept DEF SimInv
<1>12. PortsInv'
  BY <1>1, <1>2, PortsStay DEF SimInv
<1>. QED
  BY <1>1, <1>8, <1>9, <1>11, <1>12 DEF SimInv, Running

\* A dispatch that pushes placed events, if any, and leaves tables and ports.
LEMMA DispatchKeeps ==
  ASSUME SimInv, NEW e, Taken(e), UNCHANGED <<tableVars, fileVars>>, pc' \in {"pop", "crashed"},
         \/ UNCHANGED <<event_q, top>>
         \/ \E events \in Seq(PlacedEvents) : Push(events),
         UNCHANGED ports \/ PortsInv'
  PROVE  SimInv'
<1>1. TablesInv' /\ ReadInv' /\ \A f : Placed(f) => Placed(f)'
  BY SameTables
<1>2. global_time' \in Time /\ pc = "run"
  BY TopPlaced
<1>3. QueueInv'
  <2>1. ASSUME NEW events \in Seq(PlacedEvents), Push(events)
        PROVE  (\A f \in DOMAIN event_q' : Placed(f)) /\ (top' = NoEvent \/ Placed(top'))
    BY <2>1, PushKeeps DEF SimInv
  <2>. QED
    BY <1>1, <1>2, <2>1, QueueKept DEF SimInv
<1>4. PortsInv'
  BY <1>2, PortsStay DEF SimInv, tableVars
<1>. QED
  BY <1>1, <1>3, <1>4 DEF SimInv, Running

\* The packet that enters a link, or goes back on it.
LEMMA OnLinkPlaced ==
  ASSUME SimInv, NEW e, Placed(e), e.kind = "onlink"
  PROVE  LET f == [e EXCEPT !.kind = "recv", !.time = After(e.time, links[e.link].delay)]
         IN <<f>> \in Seq(PlacedEvents) /\ f.kind = "recv" /\ f.time = After(e.time, links[e.link].delay)
<1>. DEFINE t == After(e.time, links[e.link].delay)
            f == [e EXCEPT !.kind = "recv", !.time = t]
<1>1. e \in PacketEvent /\ e.link \in DOMAIN links /\ e.port \in PortsOf(e.node)
      /\ {e.node, e.from} \subseteq node_table
  BY EventFields DEF Placed
<1>2. links[e.link].delay \in Nat
  <2>1. links \in Seq(LinkRec)
    BY DEF SimInv, TablesInv
  <2>2. links[e.link] \in LinkRec
    BY <1>1, <2>1
  <2>. QED
    BY <2>2, TimeIsNat DEF LinkRec
<1>3. e.time \in Nat
  BY <1>1, TimeIsNat DEF PacketEvent
<1>4. t \in Time
  BY <1>2, <1>3, TimeIsNat DEF After
<1>. HIDE DEF t
<1>5. f \in PacketEvent /\ f.kind = "recv" /\ f.time = t /\ f.link = e.link /\ f.node = e.node
      /\ f.port = e.port /\ f.from = e.from
  BY <1>1, <1>4 DEF PacketEvent
<1>. HIDE DEF f
<1>6. Placed(f) /\ f \in Event
  BY <1>1, <1>5 DEF Placed, Event, LinkEvents
<1>7. <<f>> \in Seq(PlacedEvents)
  BY <1>6 DEF PlacedEvents
<1>. QED
  BY <1>5, <1>7 DEF f, t

\* The answer to a PING may be in the queue, and has a port to arrive at.
LEMMA PongPlaced ==
  ASSUME SimInv, NEW e, Placed(e), e.kind = "recv"
  PROVE  LET f == Send(e.node, e.port, "PONG", e.stamp, e.time)
         IN <<f>> \in Seq(PlacedEvents) /\ f.kind = "onlink" /\ f.port # 0 /\ f.time = e.time
<1>. DEFINE f == Send(e.node, e.port, "PONG", e.stamp, e.time)
<1>1. e \in PacketEvent /\ e.port \in PortsOf(e.node) /\ e.node \in node_table
  BY EventFields DEF Placed
<1>2. e.stamp \in Time /\ e.time \in Time
  BY <1>1 DEF PacketEvent
<1>3. Placed(f) /\ f.port # 0 /\ f.time = e.time /\ f.kind = "onlink"
  BY <1>1, <1>2, SendPlaced DEF SimInv
<1>. HIDE DEF f
<1>4. <<f>> \in Seq(PlacedEvents)
  BY <1>3 DEF PlacedEvents, Placed
<1>. QED
  BY <1>3, <1>4 DEF f

\* The events that an alarm pushes: its own successor and maybe PINGs.
AlarmEvents(e) ==
  (IF e.data = "p" THEN Pings(e.node, e.time) ELSE <<>>) \o <<NextAlarm(e.node, e.data, e.time)>>

\* So may the alarm that a handler sets.
LEMMA NextAlarmPlaced ==
  ASSUME NEW n \in node_table, node_table \subseteq NodeIds, NEW data \in {"e", "p", "u"}, NEW now \in Time
  PROVE  LET a == NextAlarm(n, data, now)
         IN /\ Placed(a) /\ a.kind = "alarm" /\ a.node = n /\ a.data = data
            /\ a.time = After(now, CASE data = "e" -> 1 [] data = "p" -> 10 [] data = "u" -> 30)
<1>1. CASE data = "e"
  BY <1>1, AlarmPlaced DEF NextAlarm
<1>2. CASE data = "p"
  BY <1>2, AlarmPlaced DEF NextAlarm
<1>3. CASE data = "u"
  BY <1>3, AlarmPlaced DEF NextAlarm
<1>. QED
  BY <1>1, <1>2, <1>3

\* So may all that a handler of an alarm pushes.
LEMMA AlarmEventsPlaced ==
  ASSUME SimInv, NEW e, Placed(e), e.kind = "alarm"
  PROVE  LET a == NextAlarm(e.node, e.data, e.time)
         IN /\ AlarmEvents(e) \in Seq(PlacedEvents)
            /\ \A f \in Range(AlarmEvents(e)) :
                 \/ f.kind = "onlink" /\ f.port # 0 /\ f.time = e.time
                 \/ f = a
            /\ Once(AlarmEvents(e), a)
<1>. DEFINE a == NextAlarm(e.node, e.data, e.time)
            s == IF e.data = "p" THEN Pings(e.node, e.time) ELSE <<>>
            t == <<a>>
<1>1. e.node \in node_table /\ node_table \subseteq NodeIds /\ e.data \in {"e", "p", "u"} /\ e.time \in Time
  BY EventFields DEF Placed, AlarmEvent, SimInv, TablesInv
<1>2. Placed(a) /\ a.kind = "alarm"
  BY <1>1, NextAlarmPlaced
<1>3. s \in Seq(PlacedEvents) /\ \A f \in Range(s) : f.kind = "onlink" /\ f.port # 0 /\ f.time = e.time
  <2>1. CASE e.data = "p"
    BY <1>1, <2>1, PingsPlaced DEF SimInv
  <2>2. CASE e.data # "p"
    BY <2>2 DEF Range
  <2>. QED
    BY <2>1, <2>2
<1>. HIDE DEF a, s
<1>4. t \in Seq(PlacedEvents) /\ Len(t) = 1 /\ t[1] = a
  BY <1>2 DEF PlacedEvents, Placed
<1>. HIDE DEF t
<1>5. Range(t) = {a} /\ Once(t, a)
  <2>1. DOMAIN t = {1} /\ 1 .. 1 = {1}
    BY <1>4
  <2>2. Range(t) = {a}
    BY <1>4, <2>1 DEF Range
  <2>3. Once(t, a)
    BY <1>4, <2>1 DEF Once
  <2>. QED
    BY <2>2, <2>3
<1>6. a \notin Range(s)
  BY <1>2, <1>3
<1>7. /\ s \o t \in Seq(PlacedEvents)
      /\ Range(s \o t) = Range(s) \cup Range(t)
      /\ Once(s \o t, a)
  BY <1>3, <1>4, <1>5, <1>6, Joined
<1>8. AlarmEvents(e) = s \o t
  BY DEF AlarmEvents, a, s, t
<1>9. \A f \in Range(s \o t) :
         \/ f.kind = "onlink" /\ f.port # 0 /\ f.time = e.time
         \/ f = a
  BY <1>3, <1>5, <1>7
<1>. QED
  BY <1>7, <1>8, <1>9 DEF a

\* A PONG, or the alarm, rewrites the entries of one node.
LEMMA PortsRewritten ==
  ASSUME SimInv, pc = "run", UNCHANGED <<tableVars, fileVars>>, NEW n \in node_table,
         NEW new, ports' = [ports EXCEPT ![n] = [p \in PortsOf(n) |-> new[p]]],
         \A p \in PortsOf(n) : new[p] \in PortRec /\ (new[p].connected => new[p].to \in node_table)
  PROVE  PortsInv'
<1>1. DOMAIN ports = NodeIds /\ n \in NodeIds
  BY DEF SimInv, PortsInv, TablesInv
<1>2. UNCHANGED <<link_vector, node_table>>
  BY DEF tableVars
<1>3. /\ DOMAIN ports' = NodeIds
      /\ ports'[n] = [p \in PortsOf(n) |-> new[p]]
      /\ \A m \in NodeIds : m # n => ports'[m] = ports[m]
  BY <1>1
<1>4. ASSUME NEW m \in NodeIds
      PROVE  /\ DOMAIN ports'[m] = PortsOf(m)
             /\ \A p \in DOMAIN ports'[m] :
                  ports'[m][p] \in PortRec /\ (ports'[m][p].connected => ports'[m][p].to \in node_table)
  <2>1. CASE m = n
    BY <1>3, <2>1
  <2>2. CASE m # n
    BY <1>3, <2>2 DEF SimInv, PortsInv
  <2>. QED
    BY <2>1, <2>2
<1>5. \A m \in NodeIds : PortsOf(m)' = PortsOf(m)
  BY <1>2 DEF PortsOf
<1>. QED
  BY <1>2, <1>3, <1>4, <1>5 DEF PortsInv

\* A PONG connects its port to a node of the file.
LEMMA DispatchPongKeeps ==
  ASSUME SimInv, NEW e, DispatchPong(e)
  PROVE  SimInv'
<1>1. /\ Taken(e) /\ e.kind = "recv" /\ pc' = "pop"
      /\ UNCHANGED <<event_q, top, tableVars, fileVars>>
  BY DEF DispatchPong
<1>2. Placed(e) /\ e \in PacketEvent /\ pc = "run" /\ e.time \in Time
  BY <1>1, TopPlaced, EventFields
<1>3. e.node \in node_table /\ e.from \in node_table /\ node_table \subseteq NodeIds
  BY <1>1, <1>2 DEF Placed, SimInv, TablesInv
<1>. DEFINE n == e.node
            new == [p \in PortsOf(n) |->
                      IF p = e.port THEN Port(e.from, TRUE, e.time)
                      ELSE IF ports[n][p].to = e.from THEN [ports[n][p] EXCEPT !.connected = FALSE]
                      ELSE ports[n][p]]
<1>4. ports' = [ports EXCEPT ![n] = [p \in PortsOf(n) |-> new[p]]]
  BY DEF DispatchPong
<1>5. ASSUME NEW p \in PortsOf(n)
      PROVE  new[p] \in PortRec /\ (new[p].connected => new[p].to \in node_table)
  <2>1. ports[n][p] \in PortRec /\ (ports[n][p].connected => ports[n][p].to \in node_table)
    BY <1>2, <1>3 DEF SimInv, PortsInv
  <2>2. CASE p = e.port
    <3>1. new[p] = Port(e.from, TRUE, e.time)
      BY <2>2
    <3>2. e.from \in Nat
      BY <1>2 DEF PacketEvent
    <3>. HIDE DEF new
    <3>. QED
      BY <1>2, <1>3, <3>1, <3>2 DEF Port, PortRec
  <2>3. CASE p # e.port /\ ports[n][p].to = e.from
    <3>1. new[p] = [ports[n][p] EXCEPT !.connected = FALSE]
      BY <2>3
    <3>. HIDE DEF new
    <3>. QED
      BY <2>1, <3>1 DEF PortRec
  <2>4. CASE p # e.port /\ ports[n][p].to # e.from
    <3>1. new[p] = ports[n][p]
      BY <2>4
    <3>. QED
      BY <2>1, <3>1
  <2>. QED
    BY <2>2, <2>3, <2>4
<1>. HIDE DEF new
<1>6. PortsInv'
  BY <1>1, <1>2, <1>3, <1>4, <1>5, PortsRewritten
<1>. QED
  BY <1>1, <1>6, DispatchKeeps

\* The handler of an alarm finds all ports.
LEMMA DispatchAlarmPushes ==
  ASSUME SimInv, NEW e, DispatchAlarm(e)
  PROVE  /\ Taken(e) /\ e.kind = "alarm" /\ Placed(e) /\ pc' = "pop"
         /\ AlarmEvents(e) \in Seq(PlacedEvents) /\ Push(AlarmEvents(e))
         /\ UNCHANGED <<tableVars, fileVars>>
<1>1. /\ Taken(e) /\ e.kind = "alarm" /\ Emit(AlarmEvents(e), "pop")
      /\ UNCHANGED <<tableVars, fileVars>>
  BY DEF DispatchAlarm, AlarmEvents
<1>2. Placed(e)
  BY <1>1, TopPlaced
<1>3. /\ AlarmEvents(e) \in Seq(PlacedEvents)
      /\ \A f \in Range(AlarmEvents(e)) : f.kind = "onlink" => f.port # 0
  <2>1. NextAlarm(e.node, e.data, e.time).kind = "alarm"
    <3>1. e.node \in node_table /\ node_table \subseteq NodeIds /\ e.data \in {"e", "p", "u"} /\ e.time \in Time
      BY <1>1, <1>2, EventFields DEF Placed, AlarmEvent, SimInv, TablesInv
    <3>. QED
      BY <3>1, NextAlarmPlaced
  <2>. QED
    BY <1>1, <1>2, <2>1, AlarmEventsPlaced
<1>4. Push(AlarmEvents(e)) /\ pc' = "pop"
  BY <1>1, <1>3, EmitPushes
<1>. QED
  BY <1>1, <1>2, <1>3, <1>4

\* It changes the ports of its node, and connects none.
LEMMA DispatchAlarmKeeps ==
  ASSUME SimInv, NEW e, DispatchAlarm(e)
  PROVE  SimInv'
<1>1. /\ Taken(e) /\ e.kind = "alarm" /\ Placed(e) /\ pc' = "pop"
      /\ AlarmEvents(e) \in Seq(PlacedEvents) /\ Push(AlarmEvents(e))
      /\ UNCHANGED <<tableVars, fileVars>>
  BY DispatchAlarmPushes
<1>. DEFINE n == e.node
<1>2. n \in node_table /\ node_table \subseteq NodeIds /\ pc = "run"
  BY <1>1, TopPlaced DEF Placed, SimInv, TablesInv
<1>3. CASE e.data = "e" /\ protocol_type = "DV"
  <2>. DEFINE new == [p \in PortsOf(n) |-> Refreshed(ports[n][p], e.time)]
  <2>1. ports' = [ports EXCEPT ![n] = [p \in PortsOf(n) |-> new[p]]]
    BY <1>3 DEF DispatchAlarm
  <2>2. ASSUME NEW p \in PortsOf(n)
        PROVE  new[p] \in PortRec /\ (new[p].connected => new[p].to \in node_table)
    <3>. DEFINE port == ports[n][p]
    <3>1. port \in PortRec /\ (port.connected => port.to \in node_table)
      BY <1>2 DEF SimInv, PortsInv
    <3>2. new[p] = Refreshed(port, e.time)
      OBVIOUS
    <3>. HIDE DEF new, port
    <3>3. Refreshed(port, e.time) \in PortRec /\ Refreshed(port, e.time).to = port.to
      BY <3>1 DEF Refreshed, PortRec
    <3>4. Refreshed(port, e.time).connected => port.connected
      BY <3>1 DEF Refreshed, PortRec
    <3>. QED
      BY <3>1, <3>2, <3>3, <3>4
  <2>. HIDE DEF new
  <2>3. PortsInv'
    BY <1>1, <1>2, <2>1, <2>2, PortsRewritten
  <2>. QED
    BY <1>1, <2>3, DispatchKeeps
<1>4. CASE ~ (e.data = "e" /\ protocol_type = "DV")
  <2>1. UNCHANGED ports
    BY <1>4 DEF DispatchAlarm
  <2>. QED
    BY <1>1, <2>1, DispatchKeeps
<1>. QED
  BY <1>3, <1>4

\* pop() takes an event away.
LEMMA PopKeeps ==
  ASSUME SimInv, PopEvent
  PROVE  SimInv'
<1>1. /\ pc = "pop" /\ Pop /\ pc' \in {"ended", "run"}
      /\ UNCHANGED <<global_time, tableVars, fileVars, ports>>
  BY DEF PopEvent, routerVars
<1>2. TablesInv' /\ ReadInv' /\ \A f : Placed(f) => Placed(f)'
  BY <1>1, SameTables
<1>3. DOMAIN event_q' \subseteq DOMAIN event_q
  BY <1>1, PopBag DEF Pop
<1>4. top' = NoEvent \/ top' \in DOMAIN event_q'
  BY <1>1 DEF Pop, Earliest, BagToSet
<1>5. QueueInv'
  BY <1>1, <1>2, <1>3, <1>4, QueueKept DEF SimInv, QueueInv
<1>6. PortsInv'
  BY <1>1, PortsStay DEF SimInv, tableVars
<1>. QED
  BY <1>1, <1>2, <1>5, <1>6 DEF SimInv, Running

\* Every step keeps the tables, the queue and the ports as they should be.
LEMMA SimInvNext == SimInv /\ [Next]_vars => SimInv'
<1>. SUFFICES ASSUME SimInv, [Next]_vars PROVE SimInv'
  OBVIOUS
<1>1. ASSUME UNCHANGED <<queueVars, tableVars, fileVars, ports>>, pc' \in Running,
             pc' \in {"run", "pop"} => pc \in {"run", "pop"}
      PROVE  SimInv'
  <2>1. TablesInv' /\ ReadInv' /\ \A f : Placed(f) => Placed(f)'
    BY <1>1, SameTables
  <2>2. QueueInv'
    BY <1>1, <2>1, QueueKept DEF SimInv, QueueInv, queueVars
  <2>3. PortsInv'
    BY <1>1, PortsStay DEF SimInv, tableVars
  <2>. QED
    BY <1>1, <2>1, <2>2, <2>3 DEF SimInv
<1>2. CASE Reading
  <2>1. CASE ReadLine
    BY <1>2, <2>1, ReadLineKeeps DEF Reading
  <2>2. CASE EndOfFile
    BY <1>1, <1>2, <2>2 DEF Reading, EndOfFile, routerVars, Running
  <2>. QED
    BY <1>2, <2>1, <2>2 DEF Reading
<1>3. CASE InitRouting
  BY <1>3, InitRoutingKeeps
<1>4. CASE InitNull
  BY <1>1, <1>4 DEF InitNull, routerVars, Running
<1>5. ASSUME NEW e, DispatchNull(e)
      PROVE  SimInv'
  BY <1>5, DispatchKeeps DEF DispatchNull, routerVars
<1>6. ASSUME NEW e, DispatchXmit(e)
      PROVE  SimInv'
  BY <1>6, DispatchKeeps DEF DispatchXmit, routerVars
<1>7. ASSUME NEW e, DispatchOnLink(e)
      PROVE  SimInv'
  <2>1. Taken(e) /\ e.kind = "onlink" /\ UNCHANGED <<tableVars, fileVars, ports>> /\ pc' = "pop"
    BY <1>7 DEF DispatchOnLink, routerVars
  <2>2. \E events \in Seq(PlacedEvents) : Push(events)
    BY <1>7, <2>1, TopPlaced, OnLinkPlaced DEF DispatchOnLink
  <2>. QED
    BY <2>1, <2>2, DispatchKeeps
<1>8. ASSUME NEW e, DispatchLost(e)
      PROVE  SimInv'
  BY <1>8, DispatchKeeps DEF DispatchLost
<1>9. ASSUME NEW e, DispatchPing(e)
      PROVE  SimInv'
  <2>. DEFINE f == Send(e.node, e.port, "PONG", e.stamp, e.time)
  <2>1. Taken(e) /\ e.kind = "recv" /\ UNCHANGED <<tableVars, fileVars, ports>> /\ Emit(<<f>>, "pop")
    BY <1>9 DEF DispatchPing, routerVars
  <2>2. <<f>> \in Seq(PlacedEvents) /\ f.port # 0
    BY <2>1, TopPlaced, PongPlaced
  <2>. HIDE DEF f
  <2>3. Range(<<f>>) = {f}
    BY DEF Range
  <2>4. Push(<<f>>) /\ pc' = "pop"
    BY <2>1, <2>2, <2>3, EmitPushes
  <2>. QED
    BY <2>1, <2>2, <2>4, DispatchKeeps
<1>10. CASE Dispatch
  BY <1>5, <1>6, <1>7, <1>8, <1>9, <1>10, DispatchLinkKeeps, DispatchPongKeeps, DispatchAlarmKeeps DEF Dispatch
<1>11. CASE NoMoreEvents
  BY <1>1, <1>11 DEF NoMoreEvents, routerVars, Running
<1>12. CASE PopEvent
  BY <1>12, PopKeeps
<1>13. CASE UNCHANGED vars
  BY <1>1, <1>13 DEF vars, routerVars, SimInv
<1>. QED
  BY <1>2, <1>3, <1>4, <1>10, <1>11, <1>12, <1>13 DEF Next, Stopped

\* So they always are.
LEMMA Always == Spec => []SimInv
BY SimInvInit, SimInvNext, PTL DEF Spec

\* The tables, the queue and the ports keep their types, whatever is in the
\* file: Simulator::init, the handlers of the events and the loop of run().
THEOREM SimulationTypes == Spec => []TypeOK
<1>1. SimInv => TypeOK
  <2>. SUFFICES ASSUME SimInv PROVE TypeOK
    OBVIOUS
  <2>1. \A e \in BagToSet(event_q) :
          /\ e.time \in 0 .. TIME_MOD - 1
          /\ e.kind \in {"onlink", "recv"} =>
               e.link \in DOMAIN links /\ e.node \in node_table /\ e.port \in PortsOf(e.node)
    BY EventFields DEF SimInv, QueueInv, Placed, BagToSet, Time
  <2>. QED
    BY <2>1 DEF SimInv, TypeOK, TablesInv, QueueInv, PortsInv, Running, Time
<1>. QED
  BY <1>1, Always, PTL

\* get_link_port (Node.cc:52) never fails: every link that a node sends on is
\* in the link_vector of its other end.
THEOREM EveryPortIsFound == Spec => []PortsFound
<1>1. SimInv => PortsFound
  BY DEF SimInv, PortsFound, Running
<1>. QED
  BY <1>1, Always, PTL

-----------------------------------------------------------------------------
(* The clock. *)

\* The clock does not reach the end of its range: neither the longest period of
\* an alarm nor the delay of a link leads past it.
ClockFits ==
  /\ global_time + 30 < TIME_MOD
  /\ \A l \in DOMAIN links : global_time + links[l].delay < TIME_MOD

\* The queue is a bag, and its top has the least time.
HeapInv ==
  /\ event_q \in [DOMAIN event_q -> Nat \ {0}]
  /\ top = NoEvent => DOMAIN event_q = {}
  /\ top # NoEvent => top \in DOMAIN event_q /\ \A e \in DOMAIN event_q : top.time <= e.time

\* Nothing in the queue is late, and the top is what was dispatched.
ClockInv ==
  /\ pc \in {"init", "boot"} => global_time = 0
  /\ pc \in {"run", "pop"} => \A e \in DOMAIN event_q : global_time <= e.time
  /\ pc = "pop" => top # NoEvent /\ curr_event = top /\ global_time = top.time

\* The alarms of a kind that a node has in the queue; the one that is being
\* handled is there as well.
Due(n, data) == {e \in DOMAIN event_q : e.kind = "alarm" /\ e.node = n /\ e.data = data}
Handled == IF pc = "pop" THEN {top} ELSE {}

Period(data) == CASE data = "e" -> 1 [] data = "p" -> 10 [] data = "u" -> 30

AlarmInv ==
  /\ pc \in {"init", "boot"} => \A e \in DOMAIN event_q : e.kind # "alarm"
  /\ pc \in {"run", "pop"} =>
       \A n \in node_table : \A data \in {"e", "p", "u"} :
         \E a \in DOMAIN event_q : /\ Due(n, data) \ Handled = {a}
                                   /\ event_q[a] = 1
                                   /\ a.time <= global_time + Period(data)
  /\ pc = "pop" /\ top.kind = "alarm" => event_q[top] = 1

\* Below the end of its range the clock does not wrap.
LEMMA NoWrap ==
  ASSUME NEW t \in Nat, NEW d \in Nat, t + d < TIME_MOD
  PROVE  After(t, d) = t + d
<1>1. TIME_MOD \in Nat \ {0}
  BY ClockAssumption
<1>2. \A m \in Nat \ {0} : \A x \in Nat : x < m => x % m = x
  OBVIOUS
<1>. QED
  BY <1>1, <1>2 DEF After

\* What push() does to the heap.
LEMMA PushHeap ==
  ASSUME HeapInv, \A e \in DOMAIN event_q : e \in Event, NEW events \in Seq(Event), Push(events)
  PROVE  /\ HeapInv'
         /\ DOMAIN event_q' = DOMAIN event_q \cup Range(events)
         /\ top # NoEvent /\ (\A e \in Range(events) : top.time <= e.time) => top' = top
         /\ \A e \in DOMAIN event_q : e \notin Range(events) => event_q'[e] = event_q[e]
         /\ \A e \in Range(events) : e \notin DOMAIN event_q /\ Once(events, e) => event_q'[e] = 1
<1>1. /\ DOMAIN event_q' = DOMAIN event_q \cup Range(events)
      /\ \A e \in DOMAIN event_q' :
           event_q'[e] = Copies(event_q, e) + Cardinality({k \in DOMAIN events : events[k] = e})
      /\ event_q' = [e \in DOMAIN event_q' |-> event_q'[e]]
  BY PushedEvents DEF Push, Pushed
<1>2. top = NoEvent \/ top \in Event
  BY DEF HeapInv
<1>3. DOMAIN events = 1 .. Len(events) /\ Len(events) \in Nat
      /\ Range(events) = {events[k] : k \in 1 .. Len(events)}
  BY DEF Range
<1>4. /\ top' = NoEvent => top = NoEvent /\ events = <<>>
      /\ top' # NoEvent => /\ top' = top \/ top' \in Range(events)
                           /\ top # NoEvent => top'.time <= top.time
                           /\ \A k \in 1 .. Len(events) : top'.time <= events[k].time
      /\ top' # NoEvent => top' \in Event
      /\ top # NoEvent /\ (\A k \in 1 .. Len(events) : top.time <= events[k].time) => top' = top
  BY <1>2, TopIsFirst DEF Push
<1>5. \A e \in DOMAIN event_q : e \notin Range(events) => event_q'[e] = event_q[e]
  <2>1. ASSUME NEW e \in DOMAIN event_q, e \notin Range(events)
        PROVE  event_q'[e] = event_q[e]
    <3>1. Cardinality({k \in DOMAIN events : events[k] = e}) = 0
      BY <1>3, <2>1, OnceCounts
    <3>2. Copies(event_q, e) = event_q[e] /\ event_q[e] \in Nat
      BY DEF Copies, HeapInv
    <3>. QED
      BY <1>1, <3>1, <3>2
  <2>. QED
    BY <2>1
<1>6. \A e \in Range(events) : e \notin DOMAIN event_q /\ Once(events, e) => event_q'[e] = 1
  <2>1. ASSUME NEW e \in Range(events), e \notin DOMAIN event_q, Once(events, e)
        PROVE  event_q'[e] = 1
    <3>1. Cardinality({k \in DOMAIN events : events[k] = e}) = 1
      BY <1>3, <2>1, OnceCounts
    <3>2. Copies(event_q, e) = 0
      BY <2>1 DEF Copies
    <3>. QED
      BY <1>1, <3>1, <3>2
  <2>. QED
    BY <2>1
<1>7. ASSUME NEW e \in DOMAIN event_q'
      PROVE  event_q'[e] \in Nat \ {0}
  <2>. DEFINE K == {k \in DOMAIN events : events[k] = e}
  <2>1. IsFiniteSet(K) /\ Cardinality(K) \in Nat
    <3>1. IsFiniteSet(1 .. Len(events))
      BY <1>3, FS_Interval
    <3>. QED
      BY <1>3, <3>1, FS_Subset, FS_CardinalityType
  <2>2. Copies(event_q, e) \in Nat /\ (e \in DOMAIN event_q => Copies(event_q, e) # 0)
    BY DEF Copies, HeapInv
  <2>3. e \notin DOMAIN event_q => K # {}
    BY <1>1, <1>3
  <2>4. K # {} => Cardinality(K) # 0
    BY <2>1, FS_EmptySet
  <2>5. event_q'[e] = Copies(event_q, e) + Cardinality(K)
    BY <1>1
  <2>. HIDE DEF K
  <2>. QED
    BY <2>1, <2>2, <2>3, <2>4, <2>5
<1>8. event_q' \in [DOMAIN event_q' -> Nat \ {0}]
  BY <1>1, <1>7
<1>9. ASSUME top' = NoEvent
      PROVE  DOMAIN event_q' = {}
  <2>1. Range(events) = {}
    BY <1>3, <1>4, <1>9
  <2>. QED
    BY <1>1, <1>4, <1>9, <2>1 DEF HeapInv
<1>10. ASSUME top' # NoEvent
       PROVE  top' \in DOMAIN event_q' /\ \A e \in DOMAIN event_q' : top'.time <= e.time
  <2>1. top' \in DOMAIN event_q'
    <3>1. top' = top => top \in DOMAIN event_q
      BY <1>10 DEF HeapInv
    <3>. QED
      BY <1>1, <1>4, <1>10, <3>1
  <2>2. ASSUME NEW e \in DOMAIN event_q
        PROVE  top'.time <= e.time
    <3>1. top # NoEvent /\ top.time <= e.time
      BY DEF HeapInv
    <3>2. top'.time <= top.time
      BY <1>4, <1>10, <3>1
    <3>3. top'.time \in Nat /\ top.time \in Nat /\ e.time \in Nat
      BY <1>2, <1>4, <1>10, <3>1, EventFields, TimeIsNat
    <3>. QED
      BY <3>1, <3>2, <3>3
  <2>3. ASSUME NEW e \in Range(events)
        PROVE  top'.time <= e.time
    BY <1>3, <1>4, <1>10
  <2>. QED
    BY <1>1, <2>1, <2>2, <2>3
<1>11. HeapInv'
  BY <1>8, <1>9, <1>10 DEF HeapInv
<1>12. top # NoEvent /\ (\A e \in Range(events) : top.time <= e.time) => top' = top
  BY <1>3, <1>4
<1>. QED
  BY <1>1, <1>5, <1>6, <1>11, <1>12

\* What pop() does to it: one copy of the top goes.
LEMMA PopHeap ==
  ASSUME HeapInv, \A e \in DOMAIN event_q : e \in Event, Pop
  PROVE  /\ HeapInv'
         /\ DOMAIN event_q' \subseteq DOMAIN event_q
         /\ \A e \in DOMAIN event_q : e # top => e \in DOMAIN event_q' /\ event_q'[e] = event_q[e]
         /\ top \in DOMAIN event_q /\ event_q[top] = 1 => top \notin DOMAIN event_q'
<1>. DEFINE rest == event_q (-) SetToBag({top})
<1>1. event_q' = rest /\ event_q' = [e \in DOMAIN event_q' |-> event_q'[e]]
  BY DEF Pop, (-)
<1>2. /\ DOMAIN rest \subseteq DOMAIN event_q
      /\ \A f \in DOMAIN event_q : event_q[f] > 0 /\ f # top => f \in DOMAIN rest /\ rest[f] = event_q[f]
      /\ top \in DOMAIN rest => rest[top] = event_q[top] - 1 /\ event_q[top] - 1 > 0
  BY PopBag
<1>. HIDE DEF rest
<1>3. \A e \in DOMAIN event_q : event_q[e] \in Nat /\ event_q[e] > 0
  BY DEF HeapInv
<1>4. \A e \in DOMAIN event_q : e # top => e \in DOMAIN event_q' /\ event_q'[e] = event_q[e]
  BY <1>1, <1>2, <1>3
<1>5. ASSUME NEW e \in DOMAIN event_q'
      PROVE  event_q'[e] \in Nat \ {0}
  <2>1. e \in DOMAIN event_q
    BY <1>1, <1>2
  <2>2. CASE e = top
    BY <1>1, <1>2, <1>3, <2>1, <2>2
  <2>3. CASE e # top
    BY <1>3, <1>4, <2>1, <2>3
  <2>. QED
    BY <2>2, <2>3
<1>6. event_q' \in [DOMAIN event_q' -> Nat \ {0}]
  BY <1>1, <1>5
<1>7. top \in DOMAIN event_q /\ event_q[top] = 1 => top \notin DOMAIN event_q'
  BY <1>1, <1>2
<1>8. CASE event_q' = EmptyBag
  <2>1. top' = NoEvent /\ DOMAIN event_q' = {}
    BY <1>8 DEF Pop, EmptyBag, SetToBag
  <2>. QED
    BY <1>1, <1>2, <1>4, <1>6, <1>7, <2>1 DEF HeapInv
<1>9. CASE event_q' # EmptyBag
  <2>1. top' \in DOMAIN event_q' /\ \A e \in DOMAIN event_q' : top'.time <= e.time
    BY <1>9 DEF Pop, Earliest, BagToSet
  <2>2. top' # NoEvent
    BY <1>1, <1>2, <2>1, EventFields
  <2>3. HeapInv'
    BY <1>6, <2>1, <2>2 DEF HeapInv
  <2>. QED
    BY <1>1, <1>2, <1>4, <1>7, <2>3
<1>. QED
  BY <1>8, <1>9

\* The next alarm is due one period later.
LEMMA NextAlarmTime ==
  ASSUME NEW n \in node_table, node_table \subseteq NodeIds, NEW data \in {"e", "p", "u"},
         NEW now \in Time, now + 30 < TIME_MOD
  PROVE  NextAlarm(n, data, now).time = now + Period(data) /\ Period(data) \in 1 .. 30
<1>1. now \in Nat /\ TIME_MOD \in Nat
  BY TimeIsNat, ClockAssumption
<1>2. Period(data) \in 1 .. 30
  BY DEF Period
<1>3. NextAlarm(n, data, now).time = After(now, Period(data))
  BY NextAlarmPlaced DEF Period
<1>4. now + Period(data) < TIME_MOD
  BY <1>1, <1>2
<1>. QED
  BY <1>1, <1>2, <1>3, <1>4, NoWrap

\* What the dispatch of an event pushes: nothing, packets, or the next alarm of
\* the same kind with it; nothing that is late.
LEMMA DispatchPushes ==
  ASSUME SimInv, Dispatch, ClockFits'
  PROVE  \E e \in Event :
           /\ Taken(e) /\ Placed(e) /\ UNCHANGED node_table /\ pc' \in {"pop", "crashed"}
           /\ \/ /\ e.kind # "alarm"
                 /\ UNCHANGED <<event_q, top>>
              \/ /\ e.kind # "alarm"
                 /\ \E events \in Seq(PlacedEvents) :
                      Push(events) /\ \A f \in Range(events) : f.kind # "alarm" /\ e.time <= f.time
              \/ /\ e.kind = "alarm" /\ pc' = "pop"
                 /\ AlarmEvents(e) \in Seq(PlacedEvents) /\ Push(AlarmEvents(e))
                 /\ \A f \in Range(AlarmEvents(e)) : e.time <= f.time
<1>1. PICK e : \/ DispatchNull(e) \/ DispatchLink(e) \/ DispatchXmit(e) \/ DispatchOnLink(e)
               \/ DispatchLost(e) \/ DispatchPing(e) \/ DispatchPong(e) \/ DispatchAlarm(e)
  BY DEF Dispatch
<1>2. /\ Taken(e) /\ Placed(e) /\ e \in Event /\ e.time \in Nat /\ global_time' = e.time /\ e.time \in Time
  <2>1. Taken(e)
    BY <1>1 DEF DispatchNull, DispatchLink, DispatchXmit, DispatchOnLink, DispatchLost, DispatchPing,
                DispatchPong, DispatchAlarm
  <2>. QED
    BY <2>1, TopPlaced, TimeIsNat
<1>3. CASE DispatchNull(e) \/ DispatchLink(e) \/ DispatchXmit(e) \/ DispatchLost(e) \/ DispatchPong(e)
  <2>1. UNCHANGED <<event_q, top, node_table>> /\ pc' \in {"pop", "crashed"} /\ e.kind # "alarm"
    BY <1>3 DEF DispatchNull, DispatchLink, DispatchXmit, DispatchLost, DispatchPong, LinkEvents, tableVars
  <2>. QED
    BY <1>2, <2>1
<1>4. ASSUME NEW f, <<f>> \in Seq(PlacedEvents), Push(<<f>>), f.kind # "alarm", e.time <= f.time
      PROVE  \E events \in Seq(PlacedEvents) :
                      Push(events) /\ \A g \in Range(events) : g.kind # "alarm" /\ e.time <= g.time
  <2>1. Range(<<f>>) = {f}
    BY DEF Range
  <2>. QED
    BY <1>4, <2>1
<1>5. CASE DispatchOnLink(e)
  <2>. DEFINE d == links[e.link].delay
              f == [e EXCEPT !.kind = "recv", !.time = After(e.time, d)]
  <2>1. e.kind = "onlink" /\ Push(<<f>>) /\ pc' = "pop" /\ UNCHANGED <<node_table, links>>
    BY <1>5 DEF DispatchOnLink, tableVars
  <2>2. <<f>> \in Seq(PlacedEvents) /\ f.kind = "recv" /\ f.time = After(e.time, d)
    BY <1>2, <2>1, OnLinkPlaced
  <2>3. e.link \in DOMAIN links
    BY <1>2, <2>1 DEF Placed
  <2>4. d \in Nat
    <3>1. links \in Seq(LinkRec)
      BY DEF SimInv, TablesInv
    <3>2. links[e.link] \in LinkRec
      BY <2>3, <3>1
    <3>. QED
      BY <3>2, TimeIsNat DEF LinkRec
  <2>5. e.time + d < TIME_MOD
    BY <1>2, <2>1, <2>3 DEF ClockFits
  <2>. HIDE DEF f, d
  <2>6. e.time <= f.time
    BY <1>2, <2>2, <2>4, <2>5, NoWrap
  <2>. QED
    BY <1>2, <1>4, <2>1, <2>2, <2>6
<1>6. CASE DispatchPing(e)
  <2>. DEFINE f == Send(e.node, e.port, "PONG", e.stamp, e.time)
  <2>1. e.kind = "recv" /\ UNCHANGED node_table /\ Emit(<<f>>, "pop")
    BY <1>6 DEF DispatchPing, tableVars
  <2>2. <<f>> \in Seq(PlacedEvents) /\ f.kind = "onlink" /\ f.port # 0 /\ f.time = e.time
    BY <1>2, <2>1, PongPlaced
  <2>. HIDE DEF f
  <2>3. Range(<<f>>) = {f}
    BY DEF Range
  <2>4. Push(<<f>>) /\ pc' = "pop"
    BY <2>1, <2>2, <2>3, EmitPushes
  <2>5. e.time <= f.time
    BY <1>2, <2>2
  <2>. QED
    BY <1>2, <1>4, <2>1, <2>2, <2>4, <2>5
<1>7. CASE DispatchAlarm(e)
  <2>1. /\ e.kind = "alarm" /\ pc' = "pop" /\ UNCHANGED node_table
        /\ AlarmEvents(e) \in Seq(PlacedEvents) /\ Push(AlarmEvents(e))
    BY <1>7, DispatchAlarmPushes DEF tableVars
  <2>2. e.node \in node_table /\ node_table \subseteq NodeIds /\ e.data \in {"e", "p", "u"}
    BY <1>2, <2>1, EventFields DEF Placed, AlarmEvent, SimInv, TablesInv
  <2>3. e.time + 30 < TIME_MOD
    BY <1>2 DEF ClockFits
  <2>4. NextAlarm(e.node, e.data, e.time).time >= e.time
    BY <1>2, <2>2, <2>3, NextAlarmTime
  <2>5. \A f \in Range(AlarmEvents(e)) : e.time <= f.time
    BY <1>2, <2>1, <2>4, AlarmEventsPlaced
  <2>. QED
    BY <1>2, <2>1, <2>5
<1>. QED
  BY <1>1, <1>3, <1>5, <1>6, <1>7

\* What a step does to the queue, whichever step it is.
LEMMA HeapNext ==
  ASSUME SimInv, HeapInv, ClockInv, ClockFits', [Next]_vars
  PROVE  HeapInv' /\ ClockInv'
<1>0. /\ \A e \in DOMAIN event_q : e \in Event /\ e.time \in Nat
      /\ top = NoEvent \/ top \in Event
      /\ \A events \in Seq(PlacedEvents) : events \in Seq(Event) /\ \A e \in Range(events) : e.time \in Nat
  <2>1. \A e \in Event : e.time \in Nat
    BY EventFields, TimeIsNat
  <2>2. \A events \in Seq(PlacedEvents) : events \in Seq(Event) /\ Range(events) \subseteq Event
    BY DEF PlacedEvents, Range
  <2>. QED
    BY <2>1, <2>2 DEF SimInv, QueueInv, Placed
<1>1. ASSUME UNCHANGED queueVars, pc' \notin {"run", "pop"} \/ UNCHANGED pc,
             pc' \in {"init", "boot"} => pc \in {"init", "boot"}
      PROVE  HeapInv' /\ ClockInv'
  BY <1>1 DEF queueVars, HeapInv, ClockInv
<1>2. CASE Reading
  <2>1. CASE EndOfFile
    BY <1>1, <2>1 DEF EndOfFile
  <2>2. CASE ReadLine
    <3>. DEFINE line == Head(lines)
    <3>1. pc = "init" /\ UNCHANGED global_time /\ lines \in Seq(FileLine) /\ lines # <<>> /\ UNCHANGED curr_event
      BY <2>2 DEF ReadLine, SimInv, ReadInv
    <3>2. line \in FileLine
      BY <3>1
    <3>3. CASE ReadEvent(line)
      <4>1. CASE UNCHANGED <<event_q, top>>
        BY <3>1, <3>2, <3>3, <4>1, ReadEventPushes DEF HeapInv, ClockInv
      <4>2. ASSUME NEW events \in Seq(PlacedEvents), Push(events)
            PROVE  HeapInv'
        BY <1>0, <4>2, PushHeap
      <4>3. pc' = "init"
        BY <3>1, <3>2, <3>3, ReadEventPushes
      <4>. QED
        BY <3>1, <3>2, <3>3, <4>1, <4>2, <4>3, ReadEventPushes DEF ClockInv
    <3>4. CASE ~ ReadEvent(line)
      <4>1. UNCHANGED <<event_q, top>> /\ pc' \in {pc, "boot", "crashed", "refused"}
        BY <2>2, <3>4 DEF ReadLine, ReadBlank, ReadHeader, ReadNoHeader, ReadNodes, ReadLink, ReadWrong
      <4>. QED
        BY <1>1, <3>1, <4>1 DEF queueVars
    <3>. QED
      BY <3>3, <3>4
  <2>. QED
    BY <1>2, <2>1, <2>2 DEF Reading
<1>3. CASE InitRouting
  <2>1. PICK order \in SetToSeqs(node_table) : Push(BootEvents(order)) /\ pc' = "run"
    BY <1>3, InitRoutingPushes
  <2>2. BootEvents(order) \in Seq(PlacedEvents)
    BY BootPlaced DEF SimInv
  <2>. DEFINE events == BootEvents(order)
  <2>. HIDE DEF events
  <2>3. events \in Seq(PlacedEvents) /\ Push(events)
    BY <2>1, <2>2 DEF events
  <2>4. HeapInv' /\ DOMAIN event_q' = DOMAIN event_q \cup Range(events)
    BY <1>0, <2>3, PushHeap
  <2>5. \A e \in DOMAIN event_q' : e.time \in Nat
    BY <1>0, <2>3, <2>4
  <2>6. global_time' = 0
    BY <1>3 DEF InitRouting, ClockInv
  <2>7. \A e \in DOMAIN event_q' : global_time' <= e.time
    BY <2>5, <2>6
  <2>. QED
    BY <2>1, <2>4, <2>7 DEF ClockInv
<1>4. CASE InitNull
  BY <1>1, <1>4 DEF InitNull
<1>5. CASE Dispatch
  <2>1. PICK e \in Event :
           /\ Taken(e) /\ UNCHANGED node_table /\ pc' \in {"pop", "crashed"}
           /\ \/ UNCHANGED <<event_q, top>>
              \/ \E events \in Seq(PlacedEvents) :
                      Push(events) /\ \A f \in Range(events) : e.time <= f.time
    BY <1>5, DispatchPushes
  <2>2. e = top /\ e # NoEvent /\ global_time' = e.time /\ curr_event' = e
    BY <2>1 DEF Taken
  <2>3. \A f \in DOMAIN event_q : e.time <= f.time
    BY <2>2 DEF HeapInv
  <2>4. HeapInv' /\ top' = top /\ \A f \in DOMAIN event_q' : e.time <= f.time
    <3>1. CASE UNCHANGED <<event_q, top>>
      BY <2>3, <3>1 DEF HeapInv
    <3>2. ASSUME NEW events \in Seq(PlacedEvents), Push(events), \A f \in Range(events) : e.time <= f.time
          PROVE  HeapInv' /\ top' = top /\ \A f \in DOMAIN event_q' : e.time <= f.time
      BY <1>0, <2>2, <2>3, <3>2, PushHeap
    <3>. QED
      BY <2>1, <3>1, <3>2
  <2>. QED
    BY <2>1, <2>2, <2>4 DEF ClockInv
<1>6. CASE NoMoreEvents
  BY <1>1, <1>6 DEF NoMoreEvents
<1>7. CASE PopEvent
  <2>1. pc = "pop" /\ Pop /\ pc' \in {"ended", "run"} /\ UNCHANGED global_time
    BY <1>7 DEF PopEvent
  <2>2. HeapInv' /\ DOMAIN event_q' \subseteq DOMAIN event_q
    BY <1>0, <2>1, PopHeap
  <2>. QED
    BY <2>1, <2>2 DEF ClockInv
<1>8. CASE UNCHANGED vars
  BY <1>1, <1>8 DEF vars
<1>. QED
  BY <1>2, <1>3, <1>4, <1>5, <1>6, <1>7, <1>8 DEF Next, Stopped

\* The run that pop() ends is the one that dispatched the event: as long as the
\* clock does not reach the end of its range, and starts at 0, the event that
\* run() pops and deletes is the one that it has dispatched.
THEOREM PopsWhatItDispatched ==
  ASSUME Boot = {0}
  PROVE  Spec /\ []ClockFits => []PoppedIsDispatched
<1>1. Init => HeapInv /\ ClockInv
  <2>. SUFFICES ASSUME Init PROVE HeapInv /\ ClockInv
    OBVIOUS
  <2>1. DOMAIN event_q = {} /\ event_q = [e \in {} |-> 1] /\ top = NoEvent /\ global_time = 0 /\ pc = "init"
    BY DEF Init, QueueInit, FileInit, EmptyBag, SetToBag
  <2>. QED
    BY <2>1 DEF HeapInv, ClockInv
<1>2. SimInv /\ HeapInv /\ ClockInv /\ ClockFits' /\ [Next]_vars => (HeapInv /\ ClockInv)'
  BY HeapNext
<1>3. HeapInv /\ ClockInv => PoppedIsDispatched
  BY DEF HeapInv, ClockInv, PoppedIsDispatched, BagToSet
<1>. QED
  BY <1>1, <1>2, <1>3, Always, PTL DEF Spec

-----------------------------------------------------------------------------
(* The alarms. *)

\* Every step keeps the alarms.
LEMMA AlarmNext ==
  ASSUME SimInv, HeapInv, ClockInv, ClockFits', AlarmInv, SimInv', HeapInv', ClockInv', [Next]_vars
  PROVE  AlarmInv'
<1>0. /\ \A e \in DOMAIN event_q : e \in Event /\ e.time \in Nat
      /\ top = NoEvent \/ top \in Event
      /\ \A events \in Seq(PlacedEvents) : events \in Seq(Event) /\ Range(events) \subseteq Event
      /\ global_time \in Nat
  <2>1. \A e \in Event : e.time \in Nat
    BY EventFields, TimeIsNat
  <2>2. \A events \in Seq(PlacedEvents) : events \in Seq(Event) /\ Range(events) \subseteq Event
    BY DEF PlacedEvents, Range
  <2>3. global_time \in Nat
    BY TimeIsNat DEF SimInv, QueueInv
  <2>. QED
    BY <2>1, <2>2, <2>3 DEF SimInv, QueueInv, Placed
<1>1. ASSUME UNCHANGED <<event_q, top>>, pc' \notin {"run", "pop"},
             pc' \in {"init", "boot"} => pc \in {"init", "boot"}
      PROVE  AlarmInv'
  BY <1>1 DEF AlarmInv
<1>2. CASE Reading
  <2>1. CASE EndOfFile
    BY <1>1, <2>1 DEF EndOfFile, queueVars
  <2>2. CASE ReadLine
    <3>. DEFINE line == Head(lines)
    <3>1. pc = "init" /\ lines \in Seq(FileLine) /\ lines # <<>>
      BY <2>2 DEF ReadLine, SimInv, ReadInv
    <3>2. line \in FileLine
      BY <3>1
    <3>3. CASE ReadEvent(line)
      <4>1. pc' = "init"
        BY <3>1, <3>2, <3>3, ReadEventPushes
      <4>2. ASSUME NEW events \in Seq(PlacedEvents), Push(events),
                   \A e \in Range(events) : e.kind \in LinkEvents \cup {"xmit"}
            PROVE  AlarmInv'
        <5>1. DOMAIN event_q' = DOMAIN event_q \cup Range(events)
          BY <1>0, <4>2, PushHeap
        <5>. QED
          BY <3>1, <4>1, <4>2, <5>1 DEF AlarmInv, LinkEvents
      <4>. QED
        BY <1>1, <3>1, <3>2, <3>3, <4>1, <4>2, ReadEventPushes
    <3>4. CASE ~ ReadEvent(line)
      <4>1. UNCHANGED <<event_q, top>> /\ pc' \in {pc, "boot", "crashed", "refused"}
        BY <2>2, <3>4 DEF ReadLine, ReadBlank, ReadHeader, ReadNoHeader, ReadNodes, ReadLink, ReadWrong
      <4>. QED
        BY <1>1, <3>1, <4>1
    <3>. QED
      BY <3>3, <3>4
  <2>. QED
    BY <1>2, <2>1, <2>2 DEF Reading
<1>3. CASE InitRouting
  <2>1. PICK order \in SetToSeqs(node_table) : Push(BootEvents(order)) /\ pc' = "run"
    BY <1>3, InitRoutingPushes
  <2>. DEFINE events == BootEvents(order)
              now == global_time
  <2>2. /\ events \in Seq(PlacedEvents)
        /\ \A e \in Range(events) :
              \/ e.kind = "onlink"
              \/ \E n \in node_table : \E data \in {"e", "p", "u"} : e = NextAlarm(n, data, now)
        /\ \A n \in node_table : \A data \in {"e", "p", "u"} : Once(events, NextAlarm(n, data, now))
    BY BootPlaced DEF SimInv
  <2>3. pc = "boot" /\ UNCHANGED <<global_time, node_table>> /\ Push(events)
    BY <1>3, <2>1 DEF InitRouting, tableVars
  <2>. HIDE DEF events
  <2>4. /\ DOMAIN event_q' = DOMAIN event_q \cup Range(events)
        /\ \A e \in Range(events) : e \notin DOMAIN event_q /\ Once(events, e) => event_q'[e] = 1
    BY <1>0, <2>2, <2>3, PushHeap
  <2>5. \A e \in DOMAIN event_q : e.kind # "alarm"
    BY <2>3 DEF AlarmInv
  <2>6. /\ now \in Time /\ now \in Nat /\ now + 30 < TIME_MOD /\ node_table \subseteq NodeIds
    BY <1>0, <2>3 DEF SimInv, QueueInv, TablesInv, ClockFits
  <2>7. ASSUME NEW n \in node_table, NEW data \in {"e", "p", "u"}
        PROVE  \E a \in DOMAIN event_q' : /\ (Due(n, data) \ Handled)' = {a}
                                          /\ event_q'[a] = 1
                                          /\ a.time <= global_time' + Period(data)
    <3>. DEFINE a == NextAlarm(n, data, now)
    <3>1. \A m \in node_table, d \in {"e", "p", "u"} :
            LET b == NextAlarm(m, d, now) IN b.kind = "alarm" /\ b.node = m /\ b.data = d
      BY <2>6, NextAlarmPlaced
    <3>2. a.kind = "alarm" /\ a.node = n /\ a.data = data
      BY <3>1
    <3>3. Once(events, a)
      BY <2>2
    <3>4. a.time = now + Period(data) /\ Period(data) \in Nat
      BY <2>6, NextAlarmTime
    <3>5. ASSUME NEW e \in Range(events), e.kind = "alarm", e.node = n, e.data = data
          PROVE  e = a
      <4>1. PICK m \in node_table, d \in {"e", "p", "u"} : e = NextAlarm(m, d, now)
        BY <2>2, <3>5
      <4>. QED
        BY <3>1, <3>5, <4>1
    <3>. HIDE DEF a
    <3>6. a \in Range(events)
      <4>1. DOMAIN events = 1 .. Len(events)
        BY <2>2
      <4>. QED
        BY <3>3, <4>1 DEF Once, Range
    <3>7. Due(n, data)' = {a}
      BY <2>4, <2>5, <3>2, <3>5, <3>6 DEF Due
    <3>8. Handled' = {}
      BY <2>1 DEF Handled
    <3>9. event_q'[a] = 1
      BY <2>4, <2>5, <3>2, <3>3, <3>6
    <3>. QED
      BY <2>3, <2>4, <2>6, <3>4, <3>6, <3>7, <3>8, <3>9
  <2>. QED
    BY <2>1, <2>3, <2>7 DEF AlarmInv
<1>4. CASE InitNull
  BY <1>1, <1>4 DEF InitNull, queueVars
<1>5. CASE Dispatch
  <2>1. PICK e \in Event :
           /\ Taken(e) /\ Placed(e) /\ UNCHANGED node_table /\ pc' \in {"pop", "crashed"}
           /\ \/ /\ e.kind # "alarm"
                 /\ UNCHANGED <<event_q, top>>
              \/ /\ e.kind # "alarm"
                 /\ \E events \in Seq(PlacedEvents) :
                      Push(events) /\ \A f \in Range(events) : f.kind # "alarm" /\ e.time <= f.time
              \/ /\ e.kind = "alarm" /\ pc' = "pop"
                 /\ AlarmEvents(e) \in Seq(PlacedEvents) /\ Push(AlarmEvents(e))
                 /\ \A f \in Range(AlarmEvents(e)) : e.time <= f.time
    BY <1>5, DispatchPushes
  <2>2. /\ e = top /\ e # NoEvent /\ global_time' = e.time /\ pc = "run" /\ e.time \in Nat /\ e.time \in Time
        /\ top \in DOMAIN event_q
    BY <1>0, <2>1, TopPlaced, TimeIsNat DEF Taken, HeapInv
  <2>3. Handled = {} /\ global_time <= global_time' /\ global_time' \in Nat
    BY <2>2 DEF Handled, ClockInv
  <2>4. \A n \in node_table : \A data \in {"e", "p", "u"} :
          \E a \in DOMAIN event_q : /\ Due(n, data) = {a}
                                    /\ event_q[a] = 1
                                    /\ a.time <= global_time + Period(data)
    BY <2>2, <2>3 DEF AlarmInv
  <2>5. \A data \in {"e", "p", "u"} : Period(data) \in Nat
    BY DEF Period
  <2>6. CASE pc' = "crashed"
    BY <2>6 DEF AlarmInv
  <2>7. ASSUME NEW n \in node_table, NEW data \in {"e", "p", "u"}, NEW a \in DOMAIN event_q,
               a.time <= global_time + Period(data)
        PROVE  a.time <= global_time' + Period(data)
    <3>. DEFINE P == Period(data)
    <3>1. P \in Nat /\ a.time \in Nat
      BY <1>0, <2>5
    <3>. HIDE DEF P
    <3>2. \A x, y, z, w \in Nat : x <= y + w /\ y <= z => x <= z + w
      OBVIOUS
    <3>3. a.time <= global_time + P
      BY <2>7 DEF P
    <3>4. a.time <= global_time' + P
      BY <1>0, <2>3, <3>1, <3>2, <3>3
    <3>. QED
      BY <3>4 DEF P
  <2>8. ASSUME pc' = "pop", e.kind # "alarm", top' = top,
               DOMAIN event_q \subseteq DOMAIN event_q',
               \A f \in DOMAIN event_q' : f.kind = "alarm" => f \in DOMAIN event_q /\ event_q'[f] = event_q[f]
        PROVE  AlarmInv'
    <3>1. ASSUME NEW n \in node_table, NEW data \in {"e", "p", "u"}
          PROVE  \E a \in DOMAIN event_q' : /\ (Due(n, data) \ Handled)' = {a}
                                            /\ event_q'[a] = 1
                                            /\ a.time <= global_time' + Period(data)
      <4>1. PICK a \in DOMAIN event_q : /\ Due(n, data) = {a} /\ event_q[a] = 1
                                        /\ a.time <= global_time + Period(data)
        BY <2>4
      <4>2. Due(n, data)' = Due(n, data) /\ a.kind = "alarm"
        BY <2>8, <4>1 DEF Due
      <4>3. Handled' = {top} /\ a # top
        BY <2>2, <2>8, <4>2 DEF Handled
      <4>4. (Due(n, data) \ Handled)' = {a}
        BY <4>1, <4>2, <4>3
      <4>5. a \in DOMAIN event_q' /\ event_q'[a] = 1
        BY <2>8, <4>1, <4>2
      <4>6. a.time <= global_time' + Period(data)
        BY <2>7, <4>1
      <4>. QED
        BY <4>4, <4>5, <4>6
    <3>2. top'.kind # "alarm"
      BY <2>2, <2>8
    <3>3. node_table' = node_table
      BY <2>1
    <3>. QED
      BY <2>8, <3>1, <3>2, <3>3 DEF AlarmInv
  <2>9. CASE pc' = "pop" /\ e.kind # "alarm" /\ UNCHANGED <<event_q, top>>
    BY <2>8, <2>9
  <2>10. ASSUME pc' = "pop", e.kind # "alarm", NEW events \in Seq(PlacedEvents), Push(events),
                \A f \in Range(events) : f.kind # "alarm" /\ e.time <= f.time
         PROVE  AlarmInv'
    <3>1. /\ DOMAIN event_q' = DOMAIN event_q \cup Range(events)
          /\ top # NoEvent /\ (\A f \in Range(events) : top.time <= f.time) => top' = top
          /\ \A f \in DOMAIN event_q : f \notin Range(events) => event_q'[f] = event_q[f]
      BY <1>0, <2>10, PushHeap
    <3>2. top' = top
      BY <2>2, <2>10, <3>1
    <3>3. \A f \in DOMAIN event_q' : f.kind = "alarm" => f \in DOMAIN event_q /\ event_q'[f] = event_q[f]
      BY <2>10, <3>1
    <3>. QED
      BY <2>8, <2>10, <3>1, <3>2, <3>3
  <2>11. CASE /\ e.kind = "alarm" /\ pc' = "pop"
              /\ AlarmEvents(e) \in Seq(PlacedEvents) /\ Push(AlarmEvents(e))
              /\ \A f \in Range(AlarmEvents(e)) : e.time <= f.time
    <3>. DEFINE events == AlarmEvents(e)
                b == NextAlarm(e.node, e.data, e.time)
    <3>1. e.node \in node_table /\ node_table \subseteq NodeIds /\ e.data \in {"e", "p", "u"}
      BY <2>1, <2>11, EventFields DEF Placed, AlarmEvent, SimInv, TablesInv
    <3>2. e.time + 30 < TIME_MOD
      BY <2>2 DEF ClockFits
    <3>3. /\ b.kind = "alarm" /\ b.node = e.node /\ b.data = e.data
          /\ b.time = e.time + Period(e.data) /\ Period(e.data) \in 1 .. 30
      BY <2>2, <3>1, <3>2, NextAlarmPlaced, NextAlarmTime
    <3>4. /\ \A f \in Range(events) : f.kind = "onlink" \/ f = b
          /\ Once(events, b)
      BY <2>1, <2>11, AlarmEventsPlaced
    <3>5. events \in Seq(PlacedEvents) /\ Push(events) /\ \A f \in Range(events) : e.time <= f.time
      BY <2>11
    <3>. HIDE DEF events, b
    <3>6. b # e /\ b.time # e.time
      BY <2>2, <3>3
    <3>7. b \in Range(events)
      <4>1. DOMAIN events = 1 .. Len(events)
        BY <3>5
      <4>. QED
        BY <3>4, <4>1 DEF Once, Range
    <3>8. /\ DOMAIN event_q' = DOMAIN event_q \cup Range(events)
          /\ top # NoEvent /\ (\A f \in Range(events) : top.time <= f.time) => top' = top
          /\ \A f \in DOMAIN event_q : f \notin Range(events) => event_q'[f] = event_q[f]
          /\ \A f \in Range(events) : f \notin DOMAIN event_q /\ Once(events, f) => event_q'[f] = 1
      BY <1>0, <3>5, PushHeap
    <3>9. top' = top /\ top = e
      BY <2>2, <3>5, <3>8
    <3>10. Due(e.node, e.data) = {e} /\ event_q[e] = 1
      <4>1. e \in Due(e.node, e.data)
        BY <2>2, <2>11 DEF Due
      <4>. QED
        BY <2>4, <3>1, <4>1
    <3>11. b \notin DOMAIN event_q
      BY <3>3, <3>6, <3>10 DEF Due
    <3>12. event_q'[b] = 1
      BY <3>4, <3>7, <3>8, <3>11
    <3>13. event_q'[e] = 1
      <4>1. e \notin Range(events)
        BY <2>11, <3>4, <3>6
      <4>. QED
        BY <2>2, <3>8, <3>10, <4>1
    <3>14. Handled' = {e}
      BY <2>11, <3>9 DEF Handled
    <3>15. ASSUME NEW n \in node_table, NEW data \in {"e", "p", "u"}
           PROVE  \E a \in DOMAIN event_q' : /\ (Due(n, data) \ Handled)' = {a}
                                             /\ event_q'[a] = 1
                                             /\ a.time <= global_time' + Period(data)
      <4>1. CASE n = e.node /\ data = e.data
        <5>1. Due(n, data)' = {e, b}
          BY <3>3, <3>4, <3>7, <3>8, <3>10, <4>1 DEF Due
        <5>2. (Due(n, data) \ Handled)' = {b}
          BY <3>6, <3>14, <5>1
        <5>3. b.time <= global_time' + Period(data)
          BY <2>2, <3>3, <4>1
        <5>. QED
          BY <3>7, <3>8, <3>12, <5>2, <5>3
      <4>2. CASE ~ (n = e.node /\ data = e.data)
        <5>1. PICK a \in DOMAIN event_q : /\ Due(n, data) = {a} /\ event_q[a] = 1
                                          /\ a.time <= global_time + Period(data)
          BY <2>4
        <5>2. a.kind = "alarm" /\ a.node = n /\ a.data = data
          BY <5>1 DEF Due
        <5>3. a \notin Range(events) /\ a # e
          BY <3>3, <3>4, <4>2, <5>2
        <5>4. Due(n, data)' = {a}
          BY <3>3, <3>4, <3>8, <4>2, <5>1 DEF Due
        <5>5. (Due(n, data) \ Handled)' = {a}
          BY <3>14, <5>3, <5>4
        <5>6. event_q'[a] = 1 /\ a \in DOMAIN event_q'
          BY <3>8, <5>1, <5>3
        <5>7. a.time <= global_time' + Period(data)
          BY <2>7, <5>1
        <5>. QED
          BY <5>5, <5>6, <5>7
      <4>. QED
        BY <4>1, <4>2
    <3>16. event_q'[top'] = 1
      BY <3>9, <3>13
    <3>. QED
      BY <2>1, <2>11, <3>15, <3>16 DEF AlarmInv
  <2>. QED
    BY <2>1, <2>6, <2>9, <2>10, <2>11
<1>6. CASE NoMoreEvents
  BY <1>1, <1>6 DEF NoMoreEvents, queueVars
<1>7. CASE PopEvent
  <2>1. pc = "pop" /\ Pop /\ pc' \in {"ended", "run"} /\ UNCHANGED <<global_time, node_table>>
    BY <1>7 DEF PopEvent, tableVars
  <2>2. /\ DOMAIN event_q' \subseteq DOMAIN event_q
        /\ \A e \in DOMAIN event_q : e # top => e \in DOMAIN event_q' /\ event_q'[e] = event_q[e]
        /\ top \in DOMAIN event_q /\ event_q[top] = 1 => top \notin DOMAIN event_q'
    BY <1>0, <2>1, PopHeap
  <2>3. top \in DOMAIN event_q /\ Handled = {top} /\ Handled' \in {{}, {top}'}
    BY <2>1 DEF ClockInv, HeapInv, Handled
  <2>4. ASSUME pc' = "run", NEW n \in node_table, NEW data \in {"e", "p", "u"}
        PROVE  \E a \in DOMAIN event_q' : /\ (Due(n, data) \ Handled)' = {a}
                                          /\ event_q'[a] = 1
                                          /\ a.time <= global_time' + Period(data)
    <3>1. PICK a \in DOMAIN event_q : /\ Due(n, data) \ {top} = {a} /\ event_q[a] = 1
                                      /\ a.time <= global_time + Period(data)
      BY <2>1, <2>3 DEF AlarmInv
    <3>2. a # top /\ a \in Due(n, data)
      BY <3>1
    <3>3. top.kind = "alarm" => top \notin DOMAIN event_q'
      BY <2>1, <2>2, <2>3 DEF AlarmInv
    <3>4. Due(n, data)' = {a}
      BY <2>2, <3>1, <3>2, <3>3 DEF Due
    <3>5. Handled' = {}
      BY <2>4 DEF Handled
    <3>6. event_q'[a] = 1 /\ a \in DOMAIN event_q'
      BY <2>2, <3>1, <3>2
    <3>. QED
      BY <2>1, <3>1, <3>4, <3>5, <3>6
  <2>. QED
    BY <2>1, <2>4 DEF AlarmInv
<1>8. CASE UNCHANGED vars
  <2>1. UNCHANGED <<event_q, top, pc, node_table, global_time>>
    BY <1>8 DEF vars, queueVars, tableVars
  <2>2. Handled' = Handled /\ \A n, data : Due(n, data)' = Due(n, data)
    BY <2>1 DEF Handled, Due
  <2>. QED
    BY <2>1, <2>2 DEF AlarmInv
<1>9. CASE Stopped
  BY <1>8, <1>9 DEF Stopped
<1>. QED
  BY <1>2, <1>3, <1>4, <1>5, <1>6, <1>7, <1>8, <1>9 DEF Next

\* While the simulation runs, every node has one alarm of each kind in the
\* queue, due within its period: set_alarm at the end of each handler, and the
\* three alarms that RoutingProtocolImpl::init sets.
THEOREM AlarmsKeepGoing ==
  ASSUME Boot = {0}
  PROVE  Spec /\ []ClockFits => []OneAlarmEach
<1>1. Init => HeapInv /\ ClockInv /\ AlarmInv
  <2>. SUFFICES ASSUME Init PROVE HeapInv /\ ClockInv /\ AlarmInv
    OBVIOUS
  <2>1. DOMAIN event_q = {} /\ event_q = [e \in {} |-> 1] /\ top = NoEvent /\ global_time = 0 /\ pc = "init"
    BY DEF Init, QueueInit, FileInit, EmptyBag, SetToBag
  <2>. QED
    BY <2>1 DEF HeapInv, ClockInv, AlarmInv
<1>2. SimInv /\ SimInv' /\ HeapInv /\ ClockInv /\ AlarmInv /\ ClockFits' /\ [Next]_vars
        => (HeapInv /\ ClockInv /\ AlarmInv)'
  BY HeapNext, AlarmNext
<1>3. SimInv /\ ClockInv /\ AlarmInv => OneAlarmEach
  <2>. SUFFICES ASSUME SimInv, ClockInv, AlarmInv, pc = "run", NEW n \in node_table, NEW data \in {"e", "p", "u"}
       PROVE  LET due == {e \in BagToSet(event_q) : e.kind = "alarm" /\ e.node = n /\ e.data = data}
              IN /\ Cardinality(due) = 1
                 /\ \A e \in due :
                      /\ Copies(event_q, e) = 1
                      /\ e.time - global_time <= CASE data = "e" -> 1 [] data = "p" -> 10 [] data = "u" -> 30
    BY DEF OneAlarmEach
  <2>. DEFINE due == {e \in BagToSet(event_q) : e.kind = "alarm" /\ e.node = n /\ e.data = data}
  <2>1. PICK a \in DOMAIN event_q : /\ Due(n, data) \ Handled = {a} /\ event_q[a] = 1
                                    /\ a.time <= global_time + Period(data)
    BY DEF AlarmInv
  <2>2. due = {a}
    BY <2>1 DEF Due, Handled, BagToSet
  <2>3. Cardinality(due) = 1
    BY <2>2, FS_Singleton
  <2>4. Copies(event_q, a) = 1
    BY <2>1 DEF Copies
  <2>5. a.time \in Nat /\ global_time \in Nat
    BY EventFields, TimeIsNat DEF SimInv, QueueInv, Placed
  <2>6. Period(data) \in Nat
    BY DEF Period
  <2>. DEFINE P == Period(data)
  <2>7. a.time - global_time <= P
    <3>1. P \in Nat /\ a.time <= global_time + P
      BY <2>1, <2>6
    <3>. HIDE DEF P
    <3>. QED
      BY <2>5, <3>1
  <2>8. a.time - global_time <= CASE data = "e" -> 1 [] data = "p" -> 10 [] data = "u" -> 30
    BY <2>7 DEF Period
  <2>. HIDE DEF due
  <2>. QED
    BY <2>2, <2>3, <2>4, <2>8 DEF due
<1>. QED
  BY <1>1, <1>2, <1>3, Always, PTL DEF Spec

-----------------------------------------------------------------------------
(* PING and PONG. *)

\* The hypothesis on the links: a round trip takes no longer than the 5 s by which
\* the life of a port exceeds the time between two PINGs.
DelaysFit == \A l \in DOMAIN links : links[l].delay <= MaxDelay

\* The alarms that are still to come.
Pending(n, data) == Due(n, data) \ Handled

IsPacket(e) == e.kind \in {"onlink", "recv"}

\* The port that waits for the packet, or for the answer to it.
ReturnsTo(e, n, p) ==
  IF e.type = "PING" THEN e.from = n /\ LinkPort(n, e.link) = p ELSE e.node = n /\ e.port = p

\* How often the delay of the link has been added to the stamp.
Hops(e) == (IF e.type = "PONG" THEN 1 ELSE 0) + (IF e.kind = "recv" THEN 1 ELSE 0)

\* A node that has a link is one of its ends.
EndsInv == \A n \in NodeIds : \A l \in Range(link_vector[n]) : n \in {links[l].node1, links[l].node2}

\* A packet travels from one end of its link to the other, and is not older
\* than the links are slow.
OnItsWay(e) ==
  /\ e.from \in node_table /\ e.link \in Range(link_vector[e.from])
  /\ e.node = Recipient(e.from, e.link) /\ e.port = LinkPort(e.node, e.link)
  /\ e.stamp <= e.time /\ e.time <= e.stamp + Hops(e) * MaxDelay

PacketInv ==
  \A e \in DOMAIN event_q : IsPacket(e) => pc \notin {"init", "boot"} /\ OnItsWay(e)

\* A PING of node n with this stamp, or its answer, is on its way to port p.
Waiting(n, p, s) == \E e \in DOMAIN event_q \ Handled : IsPacket(e) /\ ReturnsTo(e, n, p) /\ e.stamp = s

\* Node n has been connected to m since time x, on one of its ports.
Linked(n, m, x) ==
  \E q \in PortsOf(n) : ports[n][q].connected /\ ports[n][q].to = m /\ ports[n][q].updated >= x

\* A connected port that has lost nothing hears of its neighbour between two
\* PINGs, the last of which was sent 10 s before the alarm for the next one.
PortWatched(n, p) ==
  LET port == ports[n][p]
  IN /\ port.updated <= global_time
     /\ port.connected => port.to = Recipient(n, link_vector[n][p]) /\ LinkPort(n, link_vector[n][p]) = p
     /\ port.connected /\ <<n, p>> \notin silent =>
          \A a \in Pending(n, "p") :
            /\ port.updated >= a.time - 20
            /\ port.updated >= a.time - 10 \/ Waiting(n, p, a.time - 10)
     /\ port.connected /\ protocol_type = "DV" =>
          \A a \in Pending(n, "e") : port.updated >= a.time - 16

\* A link that is up and has lost nothing answers the PINGs.
LinkWatched(n, l) ==
  links[l].alive =>
    \A a \in Pending(n, "p") :
      /\ a.time - 10 > clean[l] =>
           Linked(n, Recipient(n, l), a.time - 10) \/ Waiting(n, LinkPort(n, l), a.time - 10)
      /\ a.time - 20 > clean[l] => Linked(n, Recipient(n, l), a.time - 20)

WatchInv ==
  /\ pc \in {"init", "boot"} => \A n \in NodeIds : DOMAIN ports[n] = {}
  /\ pc \in {"run", "pop"} =>
       /\ clean \in [DOMAIN links -> Time]
       /\ \A n \in node_table :
            /\ \A p \in PortsOf(n) : PortWatched(n, p)
            /\ \A l \in Range(link_vector[n]) : LinkWatched(n, l)

\* What an event of a link changes: nothing but the one link, and not its ends.
LEMMA LinkChanged ==
  ASSUME SimInv, NEW e, DispatchLink(e)
  PROVE  /\ DOMAIN links' = DOMAIN links /\ e.link \in DOMAIN links
         /\ \A k \in DOMAIN links : links'[k].node1 = links[k].node1 /\ links'[k].node2 = links[k].node2
         /\ \A k \in DOMAIN links : k # e.link => links'[k] = links[k]
<1>. DEFINE l == e.link
<1>1. links \in Seq(LinkRec)
  BY DEF SimInv, TablesInv
<1>2. l \in DOMAIN links
  BY TopPlaced DEF DispatchLink, Placed
<1>3. links[l] \in LinkRec
  BY <1>1, <1>2
<1>4. PICK rec : /\ links' = [links EXCEPT ![l] = rec]
                 /\ rec.node1 = links[l].node1 /\ rec.node2 = links[l].node2
  <2>1. CASE e.kind = "linkdying"
    <3>. DEFINE r == [links[l] EXCEPT !.alive = FALSE]
    <3>1. links' = [links EXCEPT ![l] = r]
      BY <2>1 DEF DispatchLink
    <3>2. r.node1 = links[l].node1 /\ r.node2 = links[l].node2
      BY <1>3 DEF LinkRec
    <3>. QED
      BY <3>1, <3>2
  <2>2. CASE e.kind = "linkcomingup"
    <3>. DEFINE r == [links[l] EXCEPT !.alive = TRUE]
    <3>1. links' = [links EXCEPT ![l] = r]
      BY <2>2 DEF DispatchLink
    <3>2. r.node1 = links[l].node1 /\ r.node2 = links[l].node2
      BY <1>3 DEF LinkRec
    <3>. QED
      BY <3>1, <3>2
  <2>3. CASE e.kind = "changedelay"
    <3>. DEFINE r == [links[l] EXCEPT !.delay = e.delay]
    <3>1. links' = [links EXCEPT ![l] = r]
      BY <2>3 DEF DispatchLink
    <3>2. r.node1 = links[l].node1 /\ r.node2 = links[l].node2
      BY <1>3 DEF LinkRec
    <3>. QED
      BY <3>1, <3>2
  <2>. QED
    BY <2>1, <2>2, <2>3 DEF DispatchLink, LinkEvents
<1>5. DOMAIN links' = DOMAIN links
  BY <1>4
<1>6. \A k \in DOMAIN links : links'[k] = IF k = l THEN rec ELSE links[k]
  BY <1>2, <1>4
<1>. QED
  BY <1>2, <1>4, <1>5, <1>6

\* Once the file is read the network stays as it is.
LEMMA NetworkStays ==
  ASSUME SimInv, Next, pc \in {"boot", "run", "pop"}
  PROVE  /\ UNCHANGED <<link_vector, node_table, protocol_type>> /\ DOMAIN links' = DOMAIN links
         /\ \A n : PortsOf(n)' = PortsOf(n)
         /\ \A n, l : LinkPort(n, l)' = LinkPort(n, l)
         /\ \A n : \A l \in DOMAIN links : Recipient(n, l)' = Recipient(n, l)
<1>1. /\ UNCHANGED <<link_vector, node_table, protocol_type>>
      /\ DOMAIN links' = DOMAIN links
      /\ \A l \in DOMAIN links : links'[l].node1 = links[l].node1 /\ links'[l].node2 = links[l].node2
  <2>1. ASSUME NEW e, DispatchLink(e)
        PROVE  /\ UNCHANGED <<link_vector, node_table, protocol_type>>
               /\ DOMAIN links' = DOMAIN links
               /\ \A l \in DOMAIN links : links'[l].node1 = links[l].node1 /\ links'[l].node2 = links[l].node2
    BY <2>1, LinkChanged DEF DispatchLink
  <2>2. CASE UNCHANGED <<tableVars, protocol_type>>
    BY <2>2 DEF tableVars
  <2>3. CASE Dispatch
    BY <2>1, <2>2, <2>3 DEF Dispatch, DispatchNull, DispatchXmit, DispatchOnLink, DispatchLost, DispatchPing,
                            DispatchPong, DispatchAlarm, routerVars
  <2>4. ~ Reading
    BY DEF Reading, ReadLine, EndOfFile
  <2>. QED
    BY <2>2, <2>3, <2>4 DEF Next, InitRouting, InitNull, NoMoreEvents, PopEvent, Stopped, routerVars, vars
<1>2. /\ \A n : PortsOf(n)' = PortsOf(n)
      /\ \A n, l : LinkPort(n, l)' = LinkPort(n, l)
  BY <1>1 DEF PortsOf, LinkPort, SelectInSeq
<1>3. \A n : \A l \in DOMAIN links : Recipient(n, l)' = Recipient(n, l)
  BY <1>1 DEF Recipient
<1>. QED
  BY <1>1, <1>2, <1>3

\* Every step keeps the links at their ends.
LEMMA EndsNext ==
  ASSUME SimInv, SimInv', EndsInv, [Next]_vars
  PROVE  EndsInv'
<1>1. ASSUME UNCHANGED <<links, link_vector>>
      PROVE  EndsInv'
  BY <1>1 DEF EndsInv
<1>2. CASE UNCHANGED vars
  BY <1>1, <1>2 DEF vars, tableVars
<1>3. ASSUME NEW line \in FileLine, ReadLink(line)
      PROVE  EndsInv'
  <2>1. CASE ~ ({line.from, line.to} \subseteq node_table)
    BY <1>1, <1>3, <2>1 DEF ReadLink
  <2>2. CASE {line.from, line.to} \subseteq node_table
    <3>. DEFINE l == Len(links) + 1
                rec == Link(line.from, line.to, line.delay, line.loss)
    <3>1. /\ links' = Append(links, rec)
          /\ link_vector' = Attached(link_vector, line.from, line.to, l)
      BY <1>3, <2>2 DEF ReadLink
    <3>2. /\ links \in Seq(LinkRec) /\ link_vector \in [NodeIds -> Seq(Nat)] /\ node_table \subseteq NodeIds
          /\ \A n \in NodeIds : Range(link_vector[n]) \subseteq DOMAIN links
      BY DEF SimInv, TablesInv
    <3>3. rec.node1 = line.from /\ rec.node2 = line.to
      BY DEF Link
    <3>. HIDE DEF rec
    <3>4. links'[l] = rec /\ l \in Nat /\ \A k \in DOMAIN links : links'[k] = links[k]
      BY <3>1, <3>2
    <3>. HIDE DEF l
    <3>5. \A k \in NodeIds :
              /\ Range(link_vector'[k]) \subseteq Range(link_vector[k]) \cup {l}
              /\ k \notin {line.from, line.to} => link_vector'[k] = link_vector[k]
      <4>1. line.from \in NodeIds /\ line.to \in NodeIds
        BY <2>2, <3>2
      <4>2. PICK n \in NodeIds, m \in NodeIds : n = line.from /\ m = line.to
        BY <4>1
      <4>3. \A k \in NodeIds :
              Range(Attached(link_vector, n, m, l)[k]) \subseteq Range(link_vector[k]) \cup {l}
        BY <3>2, <3>4, <4>2, AttachedVectors
      <4>4. \A k \in NodeIds : k \notin {n, m} => Attached(link_vector, n, m, l)[k] = link_vector[k]
        BY <3>2, <4>2 DEF Attached
      <4>. QED
        BY <3>1, <4>2, <4>3, <4>4
    <3>6. ASSUME NEW n \in NodeIds, NEW k \in Range(link_vector'[n])
          PROVE  n \in {links'[k].node1, links'[k].node2}
      <4>1. CASE k \in Range(link_vector[n])
        <5>1. k \in DOMAIN links /\ n \in {links[k].node1, links[k].node2}
          BY <3>2, <4>1 DEF EndsInv
        <5>. QED
          BY <3>4, <5>1
      <4>2. CASE k \notin Range(link_vector[n])
        <5>1. k = l /\ n \in {line.from, line.to}
          BY <3>5, <3>6, <4>2
        <5>. QED
          BY <3>3, <3>4, <5>1
      <4>. QED
        BY <4>1, <4>2
    <3>. QED
      BY <3>6 DEF EndsInv
  <2>. QED
    BY <2>1, <2>2
<1>4. CASE Reading
  <2>1. CASE EndOfFile
    BY <1>1, <2>1 DEF EndOfFile, tableVars
  <2>2. CASE ReadLine
    <3>. DEFINE line == Head(lines)
    <3>1. line \in FileLine
      BY <2>2 DEF ReadLine, SimInv, ReadInv
    <3>2. CASE ~ ReadLink(line)
      <4>1. UNCHANGED <<links, link_vector>>
        BY <2>2, <3>2 DEF ReadLine, ReadBlank, ReadHeader, ReadNoHeader, ReadNodes, ReadEvent, ReadWrong, tableVars
      <4>. QED
        BY <1>1, <4>1
    <3>. QED
      BY <1>3, <3>1, <3>2
  <2>. QED
    BY <1>4, <2>1, <2>2 DEF Reading
<1>5. CASE Next /\ pc \in {"boot", "run", "pop"}
  <2>1. /\ link_vector' = link_vector
        /\ \A l \in DOMAIN links : Recipient(0, l)' = Recipient(0, l)
    BY <1>5, NetworkStays
  <2>2. CASE UNCHANGED links
    BY <1>1, <2>1, <2>2
  <2>3. CASE \E e : DispatchLink(e)
    <3>1. \A k \in DOMAIN links : links'[k].node1 = links[k].node1 /\ links'[k].node2 = links[k].node2
      BY <2>3, LinkChanged
    <3>2. \A n \in NodeIds : Range(link_vector[n]) \subseteq DOMAIN links
      BY DEF SimInv, TablesInv
    <3>. QED
      BY <2>1, <3>1, <3>2 DEF EndsInv
  <2>4. UNCHANGED links \/ \E e : DispatchLink(e)
    BY <1>5 DEF Next, Reading, ReadLine, EndOfFile, InitRouting, InitNull, Dispatch, NoMoreEvents, PopEvent,
                Stopped, DispatchNull, DispatchXmit, DispatchOnLink, DispatchLost, DispatchPing, DispatchPong,
                DispatchAlarm, tableVars, vars
  <2>. QED
    BY <2>2, <2>3, <2>4
<1>6. CASE Next /\ pc \notin {"init", "boot", "run", "pop"}
  <2>1. CASE Stopped
    BY <1>2, <2>1 DEF Stopped
  <2>2. ~ (InitRouting \/ InitNull \/ Dispatch \/ NoMoreEvents \/ PopEvent \/ Reading)
    BY <1>6 DEF Reading, ReadLine, EndOfFile, InitRouting, InitNull, Dispatch, NoMoreEvents, PopEvent, Taken,
                DispatchNull, DispatchLink, DispatchXmit, DispatchOnLink, DispatchLost, DispatchPing,
                DispatchPong, DispatchAlarm
  <2>. QED
    BY <1>6, <2>1, <2>2 DEF Next
<1>7. Next /\ pc = "init" => Reading
  BY DEF Next, InitRouting, InitNull, Dispatch, NoMoreEvents, PopEvent, Stopped, Taken,
         DispatchNull, DispatchLink, DispatchXmit, DispatchOnLink, DispatchLost, DispatchPing,
         DispatchPong, DispatchAlarm
<1>. QED
  BY <1>2, <1>4, <1>5, <1>6, <1>7

\* The two ends of a link.
LEMMA TwoEnds ==
  ASSUME SimInv, EndsInv, NEW n \in NodeIds, NEW l \in Range(link_vector[n])
  PROVE  /\ l \in DOMAIN links
         /\ Recipient(n, l) \in node_table /\ l \in Range(link_vector[Recipient(n, l)])
         /\ Recipient(Recipient(n, l), l) = n
<1>1. l \in DOMAIN links
  BY DEF SimInv, TablesInv
<1>2. n \in {links[l].node1, links[l].node2}
  BY DEF EndsInv
<1>3. Recipient(n, l) \in {links[l].node1, links[l].node2}
  BY DEF Recipient
<1>4. Recipient(n, l) \in node_table /\ l \in Range(link_vector[Recipient(n, l)])
  BY <1>1, <1>3 DEF SimInv, TablesInv
<1>5. Recipient(Recipient(n, l), l) = n
  BY <1>2 DEF Recipient
<1>. QED
  BY <1>1, <1>4, <1>5

\* The port of a link, and the link of that port.
LEMMA PortOfLink ==
  ASSUME SimInv, NEW n \in NodeIds, NEW l \in Range(link_vector[n])
  PROVE  LinkPort(n, l) \in PortsOf(n) /\ link_vector[n][LinkPort(n, l)] = l
BY LinkPortFound DEF SimInv, TablesInv

\* What Node::send makes of a packet.
LEMMA SentFields ==
  ASSUME NEW n, NEW p, NEW type, NEW stamp, NEW now
  PROVE  LET f == Send(n, p, type, stamp, now)
         IN /\ f.kind = "onlink" /\ f.type = type /\ f.from = n /\ f.stamp = stamp /\ f.time = now
            /\ f.link = link_vector[n][p]
            /\ f.node = Recipient(n, link_vector[n][p])
            /\ f.port = LinkPort(f.node, f.link)
BY DEF Send

\* A packet that is sent starts on its way.
LEMMA SentOnItsWay ==
  ASSUME SimInv, NEW n \in node_table, NEW p \in PortsOf(n),
         NEW type \in {"PING", "PONG"}, NEW stamp \in Nat, NEW now \in Nat,
         stamp <= now, now <= stamp + (IF type = "PONG" THEN MaxDelay ELSE 0)
  PROVE  OnItsWay(Send(n, p, type, stamp, now))
<1>. DEFINE f == Send(n, p, type, stamp, now)
<1>1. /\ f.kind = "onlink" /\ f.type = type /\ f.from = n /\ f.stamp = stamp /\ f.time = now
      /\ f.link = link_vector[n][p] /\ f.node = Recipient(n, link_vector[n][p])
      /\ f.port = LinkPort(f.node, f.link)
  BY SentFields
<1>. HIDE DEF f
<1>2. f.link \in Range(link_vector[n])
  <2>1. link_vector[n] \in Seq(Nat)
    BY DEF SimInv, TablesInv
  <2>. QED
    BY <1>1, <2>1 DEF PortsOf, Range
<1>3. Hops(f) = IF type = "PONG" THEN 1 ELSE 0
  BY <1>1 DEF Hops
<1>4. f.time <= f.stamp + Hops(f) * MaxDelay
  BY <1>1, <1>3 DEF MaxDelay
<1>5. OnItsWay(f)
  BY <1>1, <1>2, <1>4 DEF OnItsWay
<1>. QED
  BY <1>5 DEF f

\* So do all PINGs of a node.
LEMMA PingsOnTheirWay ==
  ASSUME SimInv, NEW n \in node_table, NEW now \in Nat, NEW f \in Range(Pings(n, now))
  PROVE  OnItsWay(f)
<1>1. PICK p \in PortsOf(n) : f = Send(n, p, "PING", now, now)
  BY DEF Pings, Range
<1>. QED
  BY <1>1, SentOnItsWay

\* Nothing that comes after the reading of the file disturbs a packet.
LEMMA StaysOnItsWay ==
  ASSUME SimInv, Next, pc \in {"boot", "run", "pop"}, NEW e, OnItsWay(e)
  PROVE  OnItsWay(e)'
<1>1. e.link \in DOMAIN links
  BY DEF OnItsWay, SimInv, TablesInv
<1>2. /\ UNCHANGED <<link_vector, node_table>>
      /\ \A n, l : LinkPort(n, l)' = LinkPort(n, l)
      /\ \A n : \A l \in DOMAIN links : Recipient(n, l)' = Recipient(n, l)
  BY NetworkStays
<1>3. Recipient(e.from, e.link)' = Recipient(e.from, e.link)
  BY <1>1, <1>2
<1>4. LinkPort(e.node, e.link)' = LinkPort(e.node, e.link)
  BY <1>2
<1>. QED
  BY <1>2, <1>3, <1>4 DEF OnItsWay, Hops

\* The packets that the dispatch of an event pushes.
LEMMA DispatchSends ==
  ASSUME SimInv, ClockFits', DelaysFit, EndsInv, PacketInv, NEW e, Taken(e), e \in DOMAIN event_q,
         NEW events \in Seq(PlacedEvents), Push(events),
         \/ /\ DispatchOnLink(e)
            /\ events = <<[e EXCEPT !.kind = "recv", !.time = After(e.time, links[e.link].delay)]>>
         \/ DispatchPing(e) /\ events = <<Send(e.node, e.port, "PONG", e.stamp, e.time)>>
         \/ DispatchAlarm(e) /\ events = AlarmEvents(e)
  PROVE  \A f \in Range(events) : IsPacket(f) => OnItsWay(f)
<1>1. /\ Placed(e) /\ e \in Event /\ e.time \in Nat /\ global_time' = e.time /\ pc = "run"
  BY TopPlaced, TimeIsNat
<1>2. IsPacket(e) => OnItsWay(e) /\ e.stamp \in Nat /\ e.from \in NodeIds /\ e.node \in NodeIds
                      /\ e.type \in {"PING", "PONG"}
  <2>1. IsPacket(e) => OnItsWay(e)
    BY DEF PacketInv
  <2>2. IsPacket(e) => e \in PacketEvent /\ e.from \in node_table /\ e.node \in node_table
    BY <1>1, EventFields DEF IsPacket, Placed
  <2>3. e \in PacketEvent => e.stamp \in Nat /\ e.type \in {"PING", "PONG"}
    BY TimeIsNat DEF PacketEvent
  <2>. QED
    BY <2>1, <2>2, <2>3 DEF SimInv, TablesInv
<1>3. CASE /\ DispatchOnLink(e)
           /\ events = <<[e EXCEPT !.kind = "recv", !.time = After(e.time, links[e.link].delay)]>>
  <2>. DEFINE d == links[e.link].delay
              f == [e EXCEPT !.kind = "recv", !.time = After(e.time, d)]
  <2>1. e.kind = "onlink" /\ UNCHANGED links
    BY <1>3 DEF DispatchOnLink, tableVars
  <2>2. IsPacket(e) /\ e \in PacketEvent /\ e.link \in DOMAIN links
    BY <1>1, <2>1, EventFields DEF IsPacket, Placed
  <2>3. /\ f.kind = "recv" /\ f.time = After(e.time, d) /\ f.from = e.from /\ f.link = e.link /\ f.node = e.node
        /\ f.port = e.port /\ f.stamp = e.stamp /\ f.type = e.type
    BY <2>2 DEF PacketEvent
  <2>4. Range(events) = {f}
    BY <1>3 DEF Range
  <2>. HIDE DEF f
  <2>5. d \in Nat /\ d <= 2
    <3>1. links \in Seq(LinkRec)
      BY DEF SimInv, TablesInv
    <3>2. links[e.link] \in LinkRec
      BY <2>2, <3>1
    <3>. QED
      BY <2>2, <3>2, TimeIsNat DEF LinkRec, DelaysFit, MaxDelay
  <2>6. e.time + d < TIME_MOD
    BY <1>1, <2>1, <2>2 DEF ClockFits
  <2>. HIDE DEF d
  <2>7. f.time = e.time + d
    BY <1>1, <2>3, <2>5, <2>6, NoWrap
  <2>8. Hops(f) = Hops(e) + 1 /\ Hops(e) \in {0, 1}
    BY <2>1, <2>3 DEF Hops
  <2>9. e.stamp <= e.time /\ e.time <= e.stamp + Hops(e) * 2
    BY <1>2, <2>2 DEF OnItsWay, MaxDelay
  <2>10. f.stamp <= f.time /\ f.time <= f.stamp + Hops(f) * 2
    BY <1>1, <1>2, <2>2, <2>3, <2>5, <2>7, <2>8, <2>9
  <2>11. OnItsWay(f)
    BY <1>2, <2>2, <2>3, <2>10 DEF OnItsWay, MaxDelay
  <2>. QED
    BY <2>4, <2>11
<1>4. CASE DispatchPing(e) /\ events = <<Send(e.node, e.port, "PONG", e.stamp, e.time)>>
  <2>1. e.kind = "recv" /\ e.type = "PING" /\ IsPacket(e)
    BY <1>4 DEF DispatchPing, IsPacket
  <2>2. e.stamp <= e.time /\ e.time <= e.stamp + MaxDelay
    BY <1>2, <2>1 DEF OnItsWay, Hops, MaxDelay
  <2>3. e.node \in node_table /\ e.port \in PortsOf(e.node)
    BY <1>1, <2>1 DEF Placed
  <2>4. OnItsWay(Send(e.node, e.port, "PONG", e.stamp, e.time))
    BY <1>1, <1>2, <2>1, <2>2, <2>3, SentOnItsWay
  <2>5. Range(events) = {Send(e.node, e.port, "PONG", e.stamp, e.time)}
    BY <1>4 DEF Range
  <2>. QED
    BY <2>4, <2>5
<1>5. CASE DispatchAlarm(e) /\ events = AlarmEvents(e)
  <2>1. e.node \in node_table /\ e.kind = "alarm" /\ node_table \subseteq NodeIds /\ e.data \in {"e", "p", "u"}
    BY <1>1, <1>5, EventFields DEF DispatchAlarm, Placed, AlarmEvent, SimInv, TablesInv
  <2>. DEFINE s == IF e.data = "p" THEN Pings(e.node, e.time) ELSE <<>>
              a == NextAlarm(e.node, e.data, e.time)
  <2>2. \A f \in Range(s) : OnItsWay(f)
    <3>1. CASE e.data = "p"
      BY <1>1, <2>1, <3>1, PingsOnTheirWay
    <3>2. CASE e.data # "p"
      BY <3>2 DEF Range
    <3>. QED
      BY <3>1, <3>2
  <2>3. a.kind = "alarm"
    BY <1>1, <2>1, NextAlarmPlaced, EventFields
  <2>4. Range(events) \subseteq Range(s) \cup {a}
    <3>1. events = s \o <<a>>
      BY <1>5 DEF AlarmEvents
    <3>2. \E n \in Nat : DOMAIN s = 1 .. n
      <4>1. Len(link_vector[e.node]) \in Nat
        BY <2>1 DEF SimInv, TablesInv
      <4>. QED
        BY <4>1 DEF Pings, PortsOf
    <3>. HIDE DEF s, a
    <3>. QED
      BY <3>1, <3>2 DEF Range
  <2>. HIDE DEF s, a
  <2>. QED
    BY <2>2, <2>3, <2>4 DEF IsPacket
<1>. QED
  BY <1>3, <1>4, <1>5

\* Every step keeps the packets on their way.
LEMMA PacketNext ==
  ASSUME SimInv, HeapInv, ClockInv, ClockFits', DelaysFit, EndsInv, PacketInv, [Next]_vars
  PROVE  PacketInv'
<1>0. /\ \A e \in DOMAIN event_q : e \in Event
      /\ \A events \in Seq(PlacedEvents) : events \in Seq(Event)
  BY DEF PlacedEvents, SimInv, QueueInv, Placed
<1>1. CASE UNCHANGED vars
  BY <1>1 DEF vars, queueVars, tableVars, PacketInv, OnItsWay, Recipient, LinkPort, SelectInSeq
<1>2. ASSUME \A e \in DOMAIN event_q' : ~ IsPacket(e)
      PROVE  PacketInv'
  BY <1>2 DEF PacketInv, IsPacket
<1>3. CASE Reading
  <2>1. pc = "init" /\ \A e \in DOMAIN event_q : ~ IsPacket(e)
    BY <1>3 DEF Reading, ReadLine, EndOfFile, PacketInv
  <2>2. CASE EndOfFile
    BY <1>2, <2>1, <2>2 DEF EndOfFile, queueVars
  <2>3. CASE ReadLine
    <3>. DEFINE line == Head(lines)
    <3>1. lines \in Seq(FileLine) /\ lines # <<>>
      BY <2>3 DEF ReadLine, SimInv, ReadInv
    <3>2. line \in FileLine
      BY <3>1
    <3>3. CASE ReadEvent(line)
      <4>1. ASSUME NEW events \in Seq(PlacedEvents), Push(events),
                   \A e \in Range(events) : e.kind \in LinkEvents \cup {"xmit"}
            PROVE  PacketInv'
        <5>1. DOMAIN event_q' = DOMAIN event_q \cup Range(events)
          BY <1>0, <4>1, PushHeap
        <5>2. \A e \in Range(events) : ~ IsPacket(e)
          BY <4>1 DEF IsPacket, LinkEvents
        <5>. QED
          BY <1>2, <2>1, <5>1, <5>2
      <4>. QED
        BY <1>2, <2>1, <3>2, <3>3, <4>1, ReadEventPushes
    <3>4. CASE ~ ReadEvent(line)
      <4>1. UNCHANGED event_q
        BY <2>3, <3>4 DEF ReadLine, ReadBlank, ReadHeader, ReadNoHeader, ReadNodes, ReadLink, ReadWrong
      <4>. QED
        BY <1>2, <2>1, <4>1
    <3>. QED
      BY <3>3, <3>4
  <2>. QED
    BY <1>3, <2>2, <2>3 DEF Reading
<1>4. ASSUME Next, pc \in {"run", "pop"}, pc' \notin {"init", "boot"},
             \A e \in DOMAIN event_q' : IsPacket(e) => e \in DOMAIN event_q \/ OnItsWay(e)
      PROVE  PacketInv'
  <2>1. \A e \in DOMAIN event_q' : IsPacket(e) => OnItsWay(e)
    BY <1>4 DEF PacketInv
  <2>2. \A e \in DOMAIN event_q' : IsPacket(e) => OnItsWay(e)'
    BY <1>4, <2>1, StaysOnItsWay
  <2>. QED
    BY <1>4, <2>2 DEF PacketInv, IsPacket
<1>5. CASE InitRouting
  <2>1. PICK order \in SetToSeqs(node_table) : Push(BootEvents(order)) /\ pc' = "run"
    BY <1>5, InitRoutingPushes
  <2>. DEFINE events == BootEvents(order)
  <2>2. /\ events \in Seq(PlacedEvents)
        /\ \A e \in Range(events) :
             \/ \E n \in node_table : e \in Range(Pings(n, global_time))
             \/ e.kind = "alarm"
    BY BootPlaced DEF SimInv
  <2>3. Push(events)
    BY <2>1
  <2>. HIDE DEF events
  <2>4. DOMAIN event_q' = DOMAIN event_q \cup Range(events)
    BY <1>0, <2>2, <2>3, PushHeap
  <2>5. pc = "boot" /\ \A e \in DOMAIN event_q : ~ IsPacket(e)
    BY <1>5 DEF InitRouting, PacketInv
  <2>6. \A e \in DOMAIN event_q' : IsPacket(e) => OnItsWay(e)
    <3>1. global_time \in Nat
      BY TimeIsNat DEF SimInv, QueueInv
    <3>. QED
      BY <2>2, <2>4, <2>5, <3>1, PingsOnTheirWay DEF IsPacket
  <2>7. Next
    BY <1>5 DEF Next
  <2>8. \A e \in DOMAIN event_q' : IsPacket(e) => OnItsWay(e)'
    BY <2>5, <2>6, <2>7, StaysOnItsWay
  <2>. QED
    BY <2>1, <2>8 DEF PacketInv, IsPacket
<1>6. CASE InitNull
  <2>1. UNCHANGED event_q /\ pc = "boot"
    BY <1>6 DEF InitNull, queueVars
  <2>. QED
    BY <1>2, <2>1 DEF PacketInv
<1>7. CASE Dispatch
  <2>1. PICK e : \/ DispatchNull(e) \/ DispatchLink(e) \/ DispatchXmit(e) \/ DispatchOnLink(e)
                 \/ DispatchLost(e) \/ DispatchPing(e) \/ DispatchPong(e) \/ DispatchAlarm(e)
    BY <1>7 DEF Dispatch
  <2>2. Taken(e) /\ pc = "run" /\ Placed(e) /\ e = top /\ e \in DOMAIN event_q /\ Next
    <3>1. Taken(e)
      BY <2>1 DEF DispatchNull, DispatchLink, DispatchXmit, DispatchOnLink, DispatchLost, DispatchPing,
                  DispatchPong, DispatchAlarm
    <3>. QED
      BY <1>7, <3>1, TopPlaced DEF Taken, HeapInv, Next
  <2>3. CASE DispatchNull(e) \/ DispatchLink(e) \/ DispatchXmit(e) \/ DispatchLost(e) \/ DispatchPong(e)
    <3>1. UNCHANGED event_q /\ pc' \notin {"init", "boot"}
      BY <2>3 DEF DispatchNull, DispatchLink, DispatchXmit, DispatchLost, DispatchPong
    <3>. QED
      BY <1>4, <2>2, <3>1
  <2>4. ASSUME NEW events \in Seq(PlacedEvents), Push(events), pc' = "pop",
               \A f \in Range(events) : IsPacket(f) => OnItsWay(f)
        PROVE  PacketInv'
    <3>1. DOMAIN event_q' = DOMAIN event_q \cup Range(events)
      BY <1>0, <2>4, PushHeap
    <3>2. \A f \in DOMAIN event_q' : IsPacket(f) => f \in DOMAIN event_q \/ OnItsWay(f)
      BY <2>4, <3>1
    <3>. QED
      BY <1>4, <2>2, <2>4, <3>2
  <2>5. CASE DispatchOnLink(e)
    <3>. DEFINE events == <<[e EXCEPT !.kind = "recv", !.time = After(e.time, links[e.link].delay)]>>
    <3>1. e.kind = "onlink" /\ pc' = "pop" /\ Push(events)
      BY <2>5 DEF DispatchOnLink
    <3>2. events \in Seq(PlacedEvents)
      BY <2>2, <3>1, OnLinkPlaced
    <3>3. \A f \in Range(events) : IsPacket(f) => OnItsWay(f)
      BY <2>2, <2>5, <3>1, <3>2, DispatchSends
    <3>. QED
      BY <2>4, <3>1, <3>2, <3>3
  <2>6. CASE DispatchPing(e)
    <3>. DEFINE f == Send(e.node, e.port, "PONG", e.stamp, e.time)
                events == <<f>>
    <3>1. e.kind = "recv" /\ Emit(events, "pop")
      BY <2>6 DEF DispatchPing
    <3>2. events \in Seq(PlacedEvents) /\ f.port # 0
      BY <2>2, <3>1, PongPlaced
    <3>3. Push(events) /\ pc' = "pop"
      <4>1. \A g \in Range(events) : g.port # 0
        BY <3>2 DEF Range
      <4>. QED
        BY <3>1, <3>2, <4>1, EmitPushes
    <3>4. \A g \in Range(events) : IsPacket(g) => OnItsWay(g)
      BY <2>2, <2>6, <3>2, <3>3, DispatchSends
    <3>. QED
      BY <2>4, <3>2, <3>3, <3>4
  <2>7. CASE DispatchAlarm(e)
    <3>1. pc' = "pop" /\ AlarmEvents(e) \in Seq(PlacedEvents) /\ Push(AlarmEvents(e))
      BY <2>7, DispatchAlarmPushes
    <3>2. \A g \in Range(AlarmEvents(e)) : IsPacket(g) => OnItsWay(g)
      BY <2>2, <2>7, <3>1, DispatchSends
    <3>. QED
      BY <2>4, <3>1, <3>2
  <2>. QED
    BY <2>1, <2>3, <2>5, <2>6, <2>7
<1>8. CASE NoMoreEvents
  <2>1. UNCHANGED event_q /\ pc = "run" /\ pc' = "ended" /\ Next
    BY <1>8 DEF NoMoreEvents, queueVars, Next
  <2>. QED
    BY <1>4, <2>1
<1>9. CASE PopEvent
  <2>1. pc = "pop" /\ Pop /\ pc' \in {"ended", "run"} /\ Next
    BY <1>9 DEF PopEvent, Next
  <2>2. DOMAIN event_q' \subseteq DOMAIN event_q
    BY <1>0, <2>1, PopHeap
  <2>. QED
    BY <1>4, <2>1, <2>2
<1>10. CASE Stopped
  BY <1>1, <1>10 DEF Stopped
<1>. QED
  BY <1>1, <1>3, <1>5, <1>6, <1>7, <1>8, <1>9, <1>10 DEF Next

\* The alarm of a kind that is still to come.
LEMMA PendingTimes ==
  ASSUME SimInv, ClockInv, AlarmInv, pc \in {"run", "pop"}, NEW n \in node_table, NEW data \in {"e", "p", "u"}
  PROVE  \E a \in DOMAIN event_q : /\ Pending(n, data) = {a} /\ a.time \in Nat
                                   /\ global_time <= a.time /\ a.time <= global_time + Period(data)
<1>1. PICK a \in DOMAIN event_q : Due(n, data) \ Handled = {a} /\ a.time <= global_time + Period(data)
  BY DEF AlarmInv
<1>2. a.time \in Nat /\ global_time <= a.time
  BY EventFields, TimeIsNat DEF SimInv, QueueInv, Placed, ClockInv
<1>. QED
  BY <1>1, <1>2 DEF Pending

\* The same after a step.
LEMMA PendingTimesNext ==
  ASSUME SimInv', ClockInv', AlarmInv', pc' \in {"run", "pop"}, NEW n \in node_table', NEW data \in {"e", "p", "u"}
  PROVE  \E a \in DOMAIN event_q' : /\ Pending(n, data)' = {a} /\ a.time \in Nat
                                    /\ global_time' <= a.time /\ a.time <= global_time' + Period(data)
<1>1. PICK a \in DOMAIN event_q' : (Due(n, data) \ Handled)' = {a} /\ a.time <= global_time' + Period(data)
  BY DEF AlarmInv
<1>2. a.time \in Nat /\ global_time' <= a.time
  BY EventFields, TimeIsNat DEF SimInv, QueueInv, Placed, ClockInv
<1>. QED
  BY <1>1, <1>2 DEF Pending

\* What the dispatch of an event leaves in place.
LEMMA DispatchFacts ==
  ASSUME SimInv, HeapInv, ClockInv, ClockInv', NEW e, Taken(e), pc' = "pop"
  PROVE  /\ pc = "run" /\ e = top /\ e \in DOMAIN event_q /\ e \in Event /\ Placed(e) /\ top' = e
         /\ Handled = {} /\ Handled' = {e}
         /\ global_time' = e.time /\ e.time \in Nat /\ global_time \in Nat /\ global_time <= e.time
<1>1. /\ pc = "run" /\ e = top /\ e \in Event /\ Placed(e) /\ global_time' = e.time /\ curr_event' = e
      /\ e.time \in Time /\ e # NoEvent
  BY TopPlaced DEF Taken
<1>2. e \in DOMAIN event_q
  BY <1>1 DEF HeapInv
<1>3. top' = e
  BY <1>1 DEF ClockInv
<1>4. global_time <= e.time
  BY <1>1, <1>2 DEF ClockInv
<1>5. global_time \in Nat /\ e.time \in Nat
  BY <1>1, TimeIsNat DEF SimInv, QueueInv
<1>. QED
  BY <1>1, <1>2, <1>3, <1>4, <1>5 DEF Handled

\* An event that is no alarm, and that pushes none, leaves the alarms as they are.
LEMMA PendingStays ==
  ASSUME NEW e, e.kind # "alarm", NEW new, \A f \in new : f.kind # "alarm",
         DOMAIN event_q' = DOMAIN event_q \cup new, Handled = {}, Handled' = {e}
  PROVE  \A n, data : Pending(n, data)' = Pending(n, data)
BY DEF Pending, Due

\* A packet under way stays so, or another takes its place.
LEMMA WaitingStays ==
  ASSUME SimInv, Next, pc \in {"run", "pop"}, NEW n, NEW p,
         \A e \in DOMAIN event_q \ Handled : IsPacket(e) /\ ReturnsTo(e, n, p) =>
           \E f \in (DOMAIN event_q \ Handled)' : IsPacket(f) /\ ReturnsTo(f, n, p) /\ f.stamp = e.stamp
  PROVE  \A s : Waiting(n, p, s) => Waiting(n, p, s)'
<1>1. \A f : ReturnsTo(f, n, p)' <=> ReturnsTo(f, n, p)
  BY NetworkStays DEF ReturnsTo
<1>. QED
  BY <1>1 DEF Waiting, IsPacket

\* A port that nothing happens to, or that is disconnected.
LEMMA PortFrame ==
  ASSUME SimInv, SimInv', Next, pc \in {"run", "pop"}, NEW n \in node_table, NEW p \in PortsOf(n),
         PortWatched(n, p), global_time <= global_time',
         ports'[n][p].updated = ports[n][p].updated, ports'[n][p].to = ports[n][p].to,
         ports'[n][p].connected => ports[n][p].connected,
         Pending(n, "p")' \subseteq Pending(n, "p"),
         \/ Pending(n, "e")' \subseteq Pending(n, "e")
         \/ ports'[n][p].connected /\ protocol_type = "DV" =>
              \A a \in Pending(n, "e")' : ports[n][p].updated >= a.time - 16,
         <<n, p>> \notin silent' => /\ <<n, p>> \notin silent
                                    /\ \A s : Waiting(n, p, s) => Waiting(n, p, s)'
  PROVE  PortWatched(n, p)'
<1>1. /\ UNCHANGED <<link_vector, protocol_type>>
      /\ \A k, l : LinkPort(k, l)' = LinkPort(k, l)
      /\ \A k : \A l \in DOMAIN links : Recipient(k, l)' = Recipient(k, l)
  BY NetworkStays
<1>2. link_vector[n][p] \in DOMAIN links
  <2>1. n \in NodeIds /\ link_vector[n] \in Seq(Nat)
    BY DEF SimInv, TablesInv
  <2>2. link_vector[n][p] \in Range(link_vector[n])
    BY <2>1 DEF PortsOf, Range
  <2>. QED
    BY <2>1, <2>2 DEF SimInv, TablesInv
<1>. DEFINE port == ports[n][p]
            m == Recipient(n, link_vector[n][p])
            k == LinkPort(n, link_vector[n][p])
<1>3. m' = m /\ k' = k
  BY <1>1, <1>2
<1>4. port.updated <= global_time'
  <2>1. port.updated \in Nat
    <3>1. port \in PortRec
      BY DEF SimInv, PortsInv, TablesInv
    <3>. QED
      BY <3>1, TimeIsNat DEF PortRec
  <2>2. global_time \in Nat /\ global_time' \in Nat
    BY TimeIsNat DEF SimInv, QueueInv
  <2>3. port.updated <= global_time
    BY DEF PortWatched
  <2>. HIDE DEF port
  <2>. QED
    BY <2>1, <2>2, <2>3
<1>5. port.connected => port.to = m /\ k = p
  BY DEF PortWatched
<1>6. port.connected /\ <<n, p>> \notin silent' =>
        \A a \in Pending(n, "p")' :
            /\ port.updated >= a.time - 20
            /\ port.updated >= a.time - 10 \/ Waiting(n, p, a.time - 10)'
  BY DEF PortWatched
<1>7. ports'[n][p].connected /\ protocol_type = "DV" =>
        \A a \in Pending(n, "e")' : port.updated >= a.time - 16
  BY DEF PortWatched
<1>. QED
  BY <1>1, <1>3, <1>4, <1>5, <1>6, <1>7 DEF PortWatched

\* A link that nothing happens to.
LEMMA LinkFrame ==
  ASSUME SimInv, Next, pc \in {"run", "pop"}, NEW n \in node_table, NEW l \in Range(link_vector[n]),
         LinkWatched(n, l), links'[l].alive => links[l].alive, clean'[l] = clean[l],
         Pending(n, "p")' \subseteq Pending(n, "p"),
         \A x : Linked(n, Recipient(n, l), x) => Linked(n, Recipient(n, l), x)',
         \A s : Waiting(n, LinkPort(n, l), s) => Waiting(n, LinkPort(n, l), s)'
  PROVE  LinkWatched(n, l)'
<1>1. l \in DOMAIN links
  BY DEF SimInv, TablesInv
<1>2. Recipient(n, l)' = Recipient(n, l) /\ LinkPort(n, l)' = LinkPort(n, l)
  BY <1>1, NetworkStays
<1>. DEFINE m == Recipient(n, l)
            k == LinkPort(n, l)
<1>3. m' = m /\ k' = k
  BY <1>2
<1>4. links[l].alive =>
        \A a \in Pending(n, "p") :
          /\ a.time - 10 > clean[l] => Linked(n, m, a.time - 10) \/ Waiting(n, k, a.time - 10)
          /\ a.time - 20 > clean[l] => Linked(n, m, a.time - 20)
  BY DEF LinkWatched
<1>5. /\ \A x : Linked(n, m, x) => Linked(n, m, x)'
      /\ \A s : Waiting(n, k, s) => Waiting(n, k, s)'
  OBVIOUS
<1>6. links'[l].alive =>
        \A a \in Pending(n, "p")' :
          /\ a.time - 10 > clean'[l] => Linked(n, m, a.time - 10)' \/ Waiting(n, k, a.time - 10)'
          /\ a.time - 20 > clean'[l] => Linked(n, m, a.time - 20)'
  BY <1>4, <1>5
<1>. QED
  BY <1>3, <1>6 DEF LinkWatched

\* It is enough to look at each port and each link.
LEMMA WatchParts ==
  ASSUME SimInv, Next, pc \in {"run", "pop"}, pc' \in {"run", "pop"}, clean' \in [DOMAIN links -> Time],
         \A n \in node_table : /\ \A p \in PortsOf(n) : PortWatched(n, p)'
                               /\ \A l \in Range(link_vector[n]) : LinkWatched(n, l)'
  PROVE  WatchInv'
<1>1. UNCHANGED <<node_table, link_vector>> /\ DOMAIN links' = DOMAIN links /\ \A n : PortsOf(n)' = PortsOf(n)
  BY NetworkStays
<1>. QED
  BY <1>1 DEF WatchInv

\* What a handler that leaves ports and links alone does: a packet that it takes
\* goes on, or has no port that waits for it.
LEMMA WatchStays ==
  ASSUME SimInv, SimInv', Next, WatchInv, pc \in {"run", "pop"}, pc' \in {"run", "pop"},
         UNCHANGED <<ports, silent, clean, links>>, global_time <= global_time',
         \A n \in node_table : \A data \in {"e", "p"} : Pending(n, data)' \subseteq Pending(n, data),
         \A n, p, s : Waiting(n, p, s) => Waiting(n, p, s)'
  PROVE  WatchInv'
<1>1. clean' \in [DOMAIN links -> Time]
  BY DEF WatchInv
<1>2. ASSUME NEW n \in node_table, NEW p \in PortsOf(n)
      PROVE  PortWatched(n, p)'
  <2>1. PortWatched(n, p)
    BY DEF WatchInv
  <2>. QED
    BY <2>1, PortFrame
<1>3. ASSUME NEW n \in node_table, NEW l \in Range(link_vector[n])
      PROVE  LinkWatched(n, l)'
  <2>1. LinkWatched(n, l)
    BY DEF WatchInv
  <2>2. \A x : Linked(n, Recipient(n, l), x) => Linked(n, Recipient(n, l), x)'
    <3>1. l \in DOMAIN links
      BY DEF SimInv, TablesInv
    <3>2. PortsOf(n)' = PortsOf(n) /\ Recipient(n, l)' = Recipient(n, l)
      BY <3>1, NetworkStays
    <3>. QED
      BY <3>2 DEF Linked
  <2>3. clean'[l] = clean[l] /\ (links'[l].alive => links[l].alive) /\ Pending(n, "p")' \subseteq Pending(n, "p")
    OBVIOUS
  <2>4. \A s : Waiting(n, LinkPort(n, l), s) => Waiting(n, LinkPort(n, l), s)'
    <3>. DEFINE k == LinkPort(n, l)
    <3>1. k' = k
      BY NetworkStays
    <3>2. \A s : Waiting(n, k, s) => Waiting(n, k, s)'
      BY <3>1
    <3>. QED
      BY <3>2
  <2>. QED
    BY <2>1, <2>2, <2>3, <2>4, LinkFrame
<1>. QED
  BY <1>1, <1>2, <1>3, WatchParts

\* pop() takes away what has been handled.
LEMMA WatchPop ==
  ASSUME SimInv, SimInv', HeapInv, ClockInv, AlarmInv, WatchInv, PopEvent
  PROVE  WatchInv'
<1>0. \A e \in DOMAIN event_q : e \in Event
  BY DEF SimInv, QueueInv, Placed
<1>1. /\ pc = "pop" /\ Pop /\ pc' \in {"ended", "run"} /\ Next
      /\ UNCHANGED <<global_time, ports, silent, clean, links>>
  BY DEF PopEvent, Next, tableVars, routerVars
<1>2. /\ DOMAIN event_q' \subseteq DOMAIN event_q
      /\ \A e \in DOMAIN event_q : e # top => e \in DOMAIN event_q'
      /\ top \in DOMAIN event_q /\ event_q[top] = 1 => top \notin DOMAIN event_q'
  BY <1>0, <1>1, PopHeap
<1>3. CASE pc' = "ended"
  BY <1>3 DEF WatchInv
<1>4. CASE pc' = "run"
  <2>1. Handled = {top} /\ Handled' = {} /\ top \in DOMAIN event_q
    BY <1>1, <1>4 DEF Handled, ClockInv, HeapInv
  <2>2. top.kind = "alarm" => top \notin DOMAIN event_q'
    BY <1>1, <1>2, <2>1 DEF AlarmInv
  <2>3. \A n, data : Pending(n, data)' \subseteq Pending(n, data)
    BY <1>2, <2>1, <2>2 DEF Pending, Due
  <2>4. ASSUME NEW n, NEW p
        PROVE  \A s : Waiting(n, p, s) => Waiting(n, p, s)'
    <3>1. \A e \in DOMAIN event_q \ Handled : e \in (DOMAIN event_q \ Handled)'
      BY <1>2, <2>1
    <3>. QED
      BY <1>1, <3>1, WaitingStays
  <2>5. global_time <= global_time'
    BY <1>1, TimeIsNat DEF SimInv, QueueInv
  <2>. QED
    BY <1>1, <1>4, <2>3, <2>4, <2>5, WatchStays
<1>. QED
  BY <1>1, <1>3, <1>4

\* At the start no PING is older than its alarm.
LEMMA WatchBoot ==
  ASSUME SimInv, ClockInv, SimInv', ClockInv', AlarmInv', InitRouting
  PROVE  WatchInv'
<1>1. /\ pc = "boot" /\ pc' = "run" /\ UNCHANGED <<global_time, node_table, links, link_vector>> /\ Next
      /\ ports' = [n \in NodeIds |-> [p \in PortsOf(n) |-> Port(0, FALSE, 0)]]
      /\ clean' = [l \in DOMAIN links |-> global_time]
  BY InitRoutingPushes DEF InitRouting, Next, tableVars
<1>2. global_time = 0
  BY <1>1 DEF ClockInv
<1>3. node_table \subseteq NodeIds /\ \A n \in NodeIds : Range(link_vector[n]) \subseteq DOMAIN links
  BY DEF SimInv, TablesInv
<1>4. ASSUME NEW n \in node_table, NEW p \in PortsOf(n)'
      PROVE  PortWatched(n, p)'
  <2>1. ports'[n][p] = Port(0, FALSE, 0)
    BY <1>1, <1>3 DEF PortsOf
  <2>2. ports'[n][p].updated = 0 /\ ~ ports'[n][p].connected
    BY <2>1 DEF Port
  <2>3. global_time' = 0
    BY <1>1, <1>2
  <2>4. ports'[n][p].updated <= global_time'
    BY <2>2, <2>3
  <2>. QED
    BY <2>2, <2>4 DEF PortWatched
<1>5. ASSUME NEW n \in node_table, NEW l \in Range(link_vector'[n])
      PROVE  LinkWatched(n, l)'
  <2>1. PICK a : Pending(n, "p")' = {a} /\ a.time \in Nat /\ a.time <= global_time' + Period("p")
    BY <1>1, PendingTimesNext
  <2>2. clean'[l] = 0
    BY <1>1, <1>2, <1>3
  <2>3. Period("p") = 10
    BY DEF Period
  <2>4. ~ (a.time - 10 > clean'[l]) /\ ~ (a.time - 20 > clean'[l])
    BY <1>1, <1>2, <2>1, <2>2, <2>3
  <2>. QED
    BY <2>1, <2>4 DEF LinkWatched
<1>6. clean' \in [DOMAIN links' -> Time]
  <2>1. global_time \in Time
    BY DEF SimInv, QueueInv
  <2>. QED
    BY <1>1, <2>1
<1>. QED
  BY <1>1, <1>4, <1>5, <1>6 DEF WatchInv

\* A packet, its two nodes, and the port that it comes back to.
LEMMA PacketFields ==
  ASSUME SimInv, EndsInv, PacketInv, NEW e \in DOMAIN event_q, IsPacket(e)
  PROVE  /\ e \in PacketEvent /\ Placed(e) /\ OnItsWay(e) /\ e.stamp \in Nat /\ e.time \in Nat
         /\ e.from \in node_table /\ e.node \in node_table /\ e.from \in NodeIds /\ e.node \in NodeIds
         /\ e.link \in DOMAIN links /\ e.link \in Range(link_vector[e.from]) /\ e.link \in Range(link_vector[e.node])
         /\ e.node = Recipient(e.from, e.link) /\ e.from = Recipient(e.node, e.link)
         /\ e.port = LinkPort(e.node, e.link) /\ e.port \in PortsOf(e.node)
         /\ link_vector[e.node][e.port] = e.link
<1>1. Placed(e) /\ e \in PacketEvent /\ OnItsWay(e)
  BY EventFields DEF SimInv, QueueInv, PacketInv, IsPacket, Placed
<1>2. e.stamp \in Nat /\ e.time \in Nat
  BY <1>1, TimeIsNat DEF PacketEvent
<1>3. /\ e.from \in node_table /\ e.from \in NodeIds /\ e.link \in Range(link_vector[e.from])
      /\ e.node = Recipient(e.from, e.link) /\ e.port = LinkPort(e.node, e.link)
  BY <1>1 DEF OnItsWay, SimInv, TablesInv
<1>4. /\ e.link \in DOMAIN links /\ e.node \in node_table /\ e.link \in Range(link_vector[e.node])
      /\ Recipient(e.node, e.link) = e.from
  BY <1>3, TwoEnds
<1>5. e.node \in NodeIds
  BY <1>4 DEF SimInv, TablesInv
<1>6. e.port \in PortsOf(e.node) /\ link_vector[e.node][e.port] = e.link
  BY <1>3, <1>4, <1>5, PortOfLink
<1>. QED
  BY <1>1, <1>2, <1>3, <1>4, <1>5, <1>6

\* The port that a packet, or its answer, comes back to is at its own link.
LEMMA ReturnsHome ==
  ASSUME SimInv, EndsInv, PacketInv, NEW e \in DOMAIN event_q, IsPacket(e), NEW n, NEW p, ReturnsTo(e, n, p)
  PROVE  /\ n \in NodeIds /\ e.link \in Range(link_vector[n])
         /\ p = LinkPort(n, e.link) /\ link_vector[n][p] = e.link
<1>1. CASE e.type = "PING"
  <2>1. n = e.from /\ p = LinkPort(n, e.link)
    BY <1>1 DEF ReturnsTo
  <2>2. n \in NodeIds /\ e.link \in Range(link_vector[n])
    BY <2>1, PacketFields
  <2>. QED
    BY <2>1, <2>2, PortOfLink
<1>2. CASE e.type # "PING"
  BY <1>2, PacketFields DEF ReturnsTo
<1>. QED
  BY <1>1, <1>2

\* DATA, a packet that enters its link, and a PING that is answered.
LEMMA WatchXmit ==
  ASSUME SimInv, SimInv', HeapInv, ClockInv, ClockInv', AlarmInv, EndsInv, PacketInv, WatchInv,
         NEW e, DispatchXmit(e)
  PROVE  WatchInv'
<1>1. /\ Taken(e) /\ pc' = "pop" /\ e.kind = "xmit" /\ UNCHANGED <<event_q, ports, silent, clean, links>>
  BY DEF DispatchXmit, tableVars, routerVars
<1>2. /\ pc = "run" /\ e \in DOMAIN event_q /\ Handled = {} /\ Handled' = {e} /\ global_time <= global_time'
      /\ e = top
  BY <1>1, DispatchFacts
<1>3. Next
  BY <1>2 DEF Next, Dispatch
<1>4. \A n, data : Pending(n, data)' = Pending(n, data)
  BY <1>1, <1>2, PendingStays
<1>5. \A n, p : \A s : Waiting(n, p, s) => Waiting(n, p, s)'
  <2>1. \A f \in DOMAIN event_q \ Handled : IsPacket(f) => f \in (DOMAIN event_q \ Handled)'
    BY <1>1, <1>2 DEF IsPacket
  <2>. QED
    BY <1>2, <1>3, <2>1, WaitingStays
<1>. QED
  BY <1>1, <1>2, <1>3, <1>4, <1>5, WatchStays

\* The packet that takes the place of e.
Replaces(f, e) ==
  /\ IsPacket(f) /\ f # e /\ f.stamp = e.stamp
  /\ \A n, p : ReturnsTo(e, n, p) => ReturnsTo(f, n, p)

\* A packet gives way to the next one of the same PING.
LEMMA WatchPassed ==
  ASSUME SimInv, SimInv', HeapInv, ClockInv, ClockInv', AlarmInv, WatchInv,
         NEW e, Taken(e), Next, pc' = "pop", IsPacket(e), UNCHANGED <<ports, silent, clean, links>>,
         NEW f, <<f>> \in Seq(PlacedEvents), Push(<<f>>), Replaces(f, e)
  PROVE  WatchInv'
<1>1. /\ pc = "run" /\ e \in DOMAIN event_q /\ Handled = {} /\ Handled' = {e} /\ global_time <= global_time'
  BY DispatchFacts
<1>2. DOMAIN event_q' = DOMAIN event_q \cup {f}
  <2>1. Range(<<f>>) = {f}
    BY DEF Range
  <2>2. \A g \in DOMAIN event_q : g \in Event
    BY DEF SimInv, QueueInv, Placed
  <2>3. <<f>> \in Seq(Event)
    BY DEF PlacedEvents
  <2>. QED
    BY <2>1, <2>2, <2>3, PushHeap
<1>3. e.kind # "alarm" /\ f.kind # "alarm"
  BY DEF Replaces, IsPacket
<1>4. \A n, data : Pending(n, data)' = Pending(n, data)
  BY <1>1, <1>2, <1>3, PendingStays
<1>5. ASSUME NEW n, NEW p, NEW g \in DOMAIN event_q \ Handled, IsPacket(g), ReturnsTo(g, n, p)
      PROVE  \E h \in (DOMAIN event_q \ Handled)' : IsPacket(h) /\ ReturnsTo(h, n, p) /\ h.stamp = g.stamp
  <2>1. CASE g = e
    <3>1. f \in (DOMAIN event_q \ Handled)'
      BY <1>1, <1>2 DEF Replaces
    <3>. QED
      BY <1>5, <2>1, <3>1 DEF Replaces
  <2>2. CASE g # e
    <3>1. g \in (DOMAIN event_q \ Handled)'
      BY <1>1, <1>2, <1>5, <2>2
    <3>. QED
      BY <1>5, <3>1
  <2>. QED
    BY <2>1, <2>2
<1>6. \A n, p : \A s : Waiting(n, p, s) => Waiting(n, p, s)'
  BY <1>1, <1>5, WaitingStays
<1>. QED
  BY <1>1, <1>4, <1>6, WatchStays

\* It does so when it enters a link.
LEMMA WatchOnLink ==
  ASSUME SimInv, SimInv', HeapInv, ClockInv, ClockInv', AlarmInv, EndsInv, PacketInv, WatchInv,
         NEW e, DispatchOnLink(e)
  PROVE  WatchInv'
<1>. DEFINE f == [e EXCEPT !.kind = "recv", !.time = After(e.time, links[e.link].delay)]
<1>1. /\ Taken(e) /\ pc' = "pop" /\ e.kind = "onlink" /\ Push(<<f>>)
      /\ UNCHANGED <<ports, silent, clean, links>>
  BY DEF DispatchOnLink, tableVars, routerVars
<1>2. e \in DOMAIN event_q /\ Placed(e) /\ IsPacket(e) /\ e = top
  BY <1>1, DispatchFacts DEF IsPacket
<1>3. <<f>> \in Seq(PlacedEvents)
  BY <1>1, <1>2, OnLinkPlaced
<1>4. Replaces(f, e)
  <2>1. e \in PacketEvent
    BY <1>2, PacketFields
  <2>2. /\ f.kind = "recv" /\ f.stamp = e.stamp /\ f.type = e.type /\ f.from = e.from /\ f.node = e.node
        /\ f.port = e.port /\ f.link = e.link
    BY <2>1 DEF PacketEvent
  <2>. HIDE DEF f
  <2>3. \A n, p : ReturnsTo(e, n, p) => ReturnsTo(f, n, p)
    BY <2>2 DEF ReturnsTo
  <2>. QED
    BY <1>1, <2>2, <2>3 DEF Replaces, IsPacket
<1>5. Next
  BY <1>2 DEF Next, Dispatch
<1>. HIDE DEF f
<1>. QED
  BY <1>1, <1>2, <1>3, <1>4, <1>5, WatchPassed

\* It does so when a PING is answered.
LEMMA WatchPing ==
  ASSUME SimInv, SimInv', HeapInv, ClockInv, ClockInv', AlarmInv, EndsInv, PacketInv, WatchInv,
         NEW e, DispatchPing(e)
  PROVE  WatchInv'
<1>. DEFINE f == Send(e.node, e.port, "PONG", e.stamp, e.time)
<1>1. /\ Taken(e) /\ e.kind = "recv" /\ e.type = "PING" /\ Emit(<<f>>, "pop")
      /\ UNCHANGED <<ports, silent, clean, links>>
  BY DEF DispatchPing, tableVars, routerVars
<1>2. e \in DOMAIN event_q /\ Placed(e) /\ e = top
  BY <1>1, TopPlaced DEF HeapInv, Taken
<1>3. <<f>> \in Seq(PlacedEvents) /\ f.port # 0
  BY <1>1, <1>2, PongPlaced
<1>4. Push(<<f>>) /\ pc' = "pop"
  <2>1. \A g \in Range(<<f>>) : g.port # 0
    BY <1>3 DEF Range
  <2>. QED
    BY <1>1, <1>3, <2>1, EmitPushes
<1>5. IsPacket(e)
  BY <1>1 DEF IsPacket
<1>6. Replaces(f, e)
  <2>1. /\ f.kind = "onlink" /\ f.type = "PONG" /\ f.stamp = e.stamp
        /\ f.link = link_vector[e.node][e.port] /\ f.node = Recipient(e.node, link_vector[e.node][e.port])
        /\ f.port = LinkPort(f.node, f.link)
    BY SentFields
  <2>. HIDE DEF f
  <2>2. link_vector[e.node][e.port] = e.link /\ Recipient(e.node, e.link) = e.from
    BY <1>2, <1>5, PacketFields
  <2>3. \A n, p : ReturnsTo(e, n, p) => ReturnsTo(f, n, p)
    BY <1>1, <2>1, <2>2 DEF ReturnsTo
  <2>. QED
    BY <1>1, <2>1, <2>3 DEF Replaces, IsPacket
<1>7. Next
  BY <1>2 DEF Next, Dispatch
<1>. HIDE DEF f
<1>. QED
  BY <1>1, <1>2, <1>3, <1>4, <1>5, <1>6, <1>7, WatchPassed

\* A link that has just changed, or lost a packet, owes nothing yet.
LEMMA LinkReset ==
  ASSUME SimInv', ClockInv', AlarmInv', pc' = "pop", NEW n \in node_table', NEW l, clean'[l] = global_time'
  PROVE  LinkWatched(n, l)'
<1>1. PICK a : Pending(n, "p")' = {a} /\ a.time \in Nat /\ a.time <= global_time' + Period("p")
  BY PendingTimesNext
<1>2. Period("p") = 10
  BY DEF Period
<1>3. global_time' \in Nat
  BY TimeIsNat DEF SimInv, QueueInv
<1>4. ~ (a.time - 10 > clean'[l]) /\ ~ (a.time - 20 > clean'[l])
  BY <1>1, <1>2, <1>3
<1>. QED
  BY <1>1, <1>4 DEF LinkWatched

\* An event of a link starts the watch of that link again.
LEMMA WatchLink ==
  ASSUME SimInv, SimInv', HeapInv, ClockInv, ClockInv', AlarmInv, AlarmInv', WatchInv, NEW e, DispatchLink(e)
  PROVE  WatchInv'
<1>1. /\ Taken(e) /\ pc' = "pop" /\ e.kind \in LinkEvents /\ clean' = [clean EXCEPT ![e.link] = e.time]
      /\ UNCHANGED <<event_q, ports, silent>>
  BY DEF DispatchLink
<1>2. /\ pc = "run" /\ e \in DOMAIN event_q /\ Handled = {} /\ Handled' = {e} /\ e = top
      /\ global_time' = e.time /\ global_time <= global_time'
  BY <1>1, DispatchFacts
<1>3. Next
  BY <1>2 DEF Next, Dispatch
<1>4. e.kind # "alarm" /\ ~ IsPacket(e)
  BY <1>1 DEF IsPacket, LinkEvents
<1>5. \A n, data : Pending(n, data)' = Pending(n, data)
  BY <1>1, <1>2, <1>4, PendingStays
<1>6. \A n, p : \A s : Waiting(n, p, s) => Waiting(n, p, s)'
  <2>1. \A f \in DOMAIN event_q \ Handled : IsPacket(f) => f \in (DOMAIN event_q \ Handled)'
    BY <1>1, <1>2, <1>4
  <2>. QED
    BY <1>2, <1>3, <2>1, WaitingStays
<1>7. /\ e.link \in DOMAIN links /\ \A k \in DOMAIN links : k # e.link => links'[k] = links[k]
      /\ clean \in [DOMAIN links -> Time] /\ node_table' = node_table
  BY <1>2, <1>3, LinkChanged, NetworkStays DEF WatchInv
<1>8. ASSUME NEW n \in node_table, NEW p \in PortsOf(n)
      PROVE  PortWatched(n, p)'
  <2>1. PortWatched(n, p)
    BY <1>2 DEF WatchInv
  <2>. QED
    BY <1>1, <1>2, <1>3, <1>5, <1>6, <2>1, PortFrame
<1>9. ASSUME NEW n \in node_table, NEW l \in Range(link_vector[n])
      PROVE  LinkWatched(n, l)'
  <2>1. CASE l = e.link
    <3>1. clean'[l] = global_time'
      BY <1>1, <1>2, <1>7, <2>1
    <3>. QED
      BY <1>1, <1>7, <3>1, LinkReset
  <2>2. CASE l # e.link
    <3>1. LinkWatched(n, l)
      BY <1>2 DEF WatchInv
    <3>2. l \in DOMAIN links
      BY DEF SimInv, TablesInv
    <3>3. clean'[l] = clean[l] /\ (links'[l].alive => links[l].alive) /\ Pending(n, "p")' \subseteq Pending(n, "p")
      BY <1>1, <1>5, <1>7, <2>2, <3>2
    <3>4. \A x : Linked(n, Recipient(n, l), x) => Linked(n, Recipient(n, l), x)'
      <4>1. PortsOf(n)' = PortsOf(n) /\ Recipient(n, l)' = Recipient(n, l)
        BY <1>2, <1>3, <3>2, NetworkStays
      <4>. QED
        BY <1>1, <4>1 DEF Linked
    <3>5. \A s : Waiting(n, LinkPort(n, l), s) => Waiting(n, LinkPort(n, l), s)'
      <4>. DEFINE k == LinkPort(n, l)
      <4>1. k' = k
        BY <1>2, <1>3, NetworkStays
      <4>2. \A s : Waiting(n, k, s) => Waiting(n, k, s)'
        BY <1>6, <4>1
      <4>. QED
        BY <4>2
    <3>. QED
      BY <1>2, <1>3, <3>1, <3>3, <3>4, <3>5, LinkFrame
  <2>. QED
    BY <2>1, <2>2
<1>10. clean' \in [DOMAIN links -> Time]
  <2>1. e.time \in Time
    BY <1>1, TopPlaced
  <2>. QED
    BY <1>1, <1>7, <2>1
<1>. QED
  BY <1>1, <1>2, <1>3, <1>8, <1>9, <1>10, WatchParts

\* The loss of a packet silences the port that it was to come back to.
LEMMA WatchLost ==
  ASSUME SimInv, SimInv', HeapInv, ClockInv, ClockInv', AlarmInv, AlarmInv', EndsInv, PacketInv, WatchInv,
         NEW e, DispatchLost(e)
  PROVE  WatchInv'
<1>1. /\ Taken(e) /\ pc' = "pop" /\ e.kind = "onlink" /\ clean' = [clean EXCEPT ![e.link] = e.time]
      /\ UNCHANGED <<event_q, ports, links>>
      /\ silent' = silent \cup
           {IF e.type = "PING" THEN <<e.from, LinkPort(e.from, e.link)>> ELSE <<e.node, e.port>>}
  BY DEF DispatchLost, tableVars
<1>2. /\ pc = "run" /\ e \in DOMAIN event_q /\ Handled = {} /\ Handled' = {e} /\ e = top
      /\ global_time' = e.time /\ global_time <= global_time'
  BY <1>1, DispatchFacts
<1>3. Next
  BY <1>2 DEF Next, Dispatch
<1>4. e.kind # "alarm" /\ IsPacket(e)
  BY <1>1 DEF IsPacket
<1>5. \A n, data : Pending(n, data)' = Pending(n, data)
  BY <1>1, <1>2, <1>4, PendingStays
<1>6. ASSUME NEW n, NEW p, ~ ReturnsTo(e, n, p)
      PROVE  \A s : Waiting(n, p, s) => Waiting(n, p, s)'
  <2>1. \A f \in DOMAIN event_q \ Handled : IsPacket(f) /\ ReturnsTo(f, n, p) => f \in (DOMAIN event_q \ Handled)'
    BY <1>1, <1>2, <1>6
  <2>. QED
    BY <1>2, <1>3, <2>1, WaitingStays
<1>7. /\ e.link \in DOMAIN links /\ clean \in [DOMAIN links -> Time] /\ node_table' = node_table
  BY <1>2, <1>3, <1>4, PacketFields, NetworkStays DEF WatchInv
<1>8. ASSUME NEW n \in node_table, NEW p \in PortsOf(n)
      PROVE  PortWatched(n, p)'
  <2>1. PortWatched(n, p)
    BY <1>2 DEF WatchInv
  <2>2. ReturnsTo(e, n, p) => <<n, p>> \in silent'
    BY <1>1 DEF ReturnsTo
  <2>3. <<n, p>> \notin silent' => <<n, p>> \notin silent /\ \A s : Waiting(n, p, s) => Waiting(n, p, s)'
    BY <1>1, <1>6, <2>2
  <2>. QED
    BY <1>1, <1>2, <1>3, <1>5, <2>1, <2>3, PortFrame
<1>9. ASSUME NEW n \in node_table, NEW l \in Range(link_vector[n])
      PROVE  LinkWatched(n, l)'
  <2>1. CASE l = e.link
    <3>1. clean'[l] = global_time'
      BY <1>1, <1>2, <1>7, <2>1
    <3>. QED
      BY <1>1, <1>7, <3>1, LinkReset
  <2>2. CASE l # e.link
    <3>1. LinkWatched(n, l)
      BY <1>2 DEF WatchInv
    <3>2. l \in DOMAIN links /\ n \in NodeIds
      BY DEF SimInv, TablesInv
    <3>3. clean'[l] = clean[l] /\ (links'[l].alive => links[l].alive) /\ Pending(n, "p")' \subseteq Pending(n, "p")
      BY <1>1, <1>5, <1>7, <2>2, <3>2
    <3>4. \A x : Linked(n, Recipient(n, l), x) => Linked(n, Recipient(n, l), x)'
      <4>1. PortsOf(n)' = PortsOf(n) /\ Recipient(n, l)' = Recipient(n, l)
        BY <1>2, <1>3, <3>2, NetworkStays
      <4>. QED
        BY <1>1, <4>1 DEF Linked
    <3>5. \A s : Waiting(n, LinkPort(n, l), s) => Waiting(n, LinkPort(n, l), s)'
      <4>. DEFINE k == LinkPort(n, l)
      <4>1. k' = k
        BY <1>2, <1>3, NetworkStays
      <4>2. ~ ReturnsTo(e, n, k)
        BY <1>2, <1>4, <2>2, <3>2, ReturnsHome, PortOfLink
      <4>. HIDE DEF k
      <4>3. \A s : Waiting(n, k, s) => Waiting(n, k, s)'
        BY <1>6, <4>1, <4>2
      <4>. QED
        BY <4>1, <4>3 DEF k
    <3>. QED
      BY <1>2, <1>3, <3>1, <3>3, <3>4, <3>5, LinkFrame
  <2>. QED
    BY <2>1, <2>2
<1>10. clean' \in [DOMAIN links -> Time]
  <2>1. e.time \in Time
    BY <1>1, TopPlaced
  <2>. QED
    BY <1>1, <1>7, <2>1
<1>. QED
  BY <1>1, <1>2, <1>3, <1>8, <1>9, <1>10, WatchParts

\* What a PONG does to the ports of the node where it arrives.
LEMMA PongPorts ==
  ASSUME SimInv, NEW e, DispatchPong(e)
  PROVE  /\ \A k \in NodeIds : k # e.node => ports'[k] = ports[k]
         /\ ports'[e.node][e.port] = Port(e.from, TRUE, e.time)
         /\ \A p \in PortsOf(e.node) : p # e.port =>
              /\ ports'[e.node][p].updated = ports[e.node][p].updated
              /\ ports'[e.node][p].to = ports[e.node][p].to
              /\ ports'[e.node][p].connected => ports[e.node][p].connected
              /\ ports[e.node][p].to # e.from => ports'[e.node][p] = ports[e.node][p]
<1>1. Taken(e) /\ e.kind = "recv"
  BY DEF DispatchPong
<1>2. /\ pc = "run" /\ e.node \in NodeIds /\ e.port \in PortsOf(e.node) /\ DOMAIN ports = NodeIds
      /\ DOMAIN ports[e.node] = PortsOf(e.node)
  BY <1>1, TopPlaced DEF Placed, SimInv, TablesInv, PortsInv
<1>. DEFINE n == e.node
            new == [p \in PortsOf(n) |->
                      IF p = e.port THEN Port(e.from, TRUE, e.time)
                      ELSE IF ports[n][p].to = e.from THEN [ports[n][p] EXCEPT !.connected = FALSE]
                      ELSE ports[n][p]]
<1>3. ports' = [ports EXCEPT ![n] = new]
  BY DEF DispatchPong
<1>4. new[e.port] = Port(e.from, TRUE, e.time)
  BY <1>2
<1>5. ASSUME NEW p \in PortsOf(n), p # e.port
      PROVE  /\ new[p].updated = ports[n][p].updated /\ new[p].to = ports[n][p].to
             /\ new[p].connected => ports[n][p].connected
             /\ ports[n][p].to # e.from => new[p] = ports[n][p]
  <2>1. ports[n][p] \in PortRec
    BY <1>2 DEF SimInv, PortsInv
  <2>2. CASE ports[n][p].to = e.from
    <3>1. new[p] = [ports[n][p] EXCEPT !.connected = FALSE]
      BY <1>5, <2>2
    <3>. HIDE DEF new
    <3>. QED
      BY <2>1, <2>2, <3>1 DEF PortRec
  <2>3. CASE ports[n][p].to # e.from
    <3>1. new[p] = ports[n][p]
      BY <1>5, <2>3
    <3>. QED
      BY <3>1
  <2>. QED
    BY <2>2, <2>3
<1>. HIDE DEF new
<1>6. ports'[n] = new /\ \A k \in NodeIds : k # n => ports'[k] = ports[k]
  BY <1>2, <1>3
<1>. QED
  BY <1>4, <1>5, <1>6

\* A PONG connects its port, and whoever waited for it is connected.
LEMMA WatchPong ==
  ASSUME SimInv, SimInv', HeapInv, ClockInv, ClockInv', AlarmInv, AlarmInv', EndsInv, PacketInv, WatchInv,
         NEW e, DispatchPong(e)
  PROVE  WatchInv'
<1>1. /\ Taken(e) /\ pc' = "pop" /\ e.kind = "recv" /\ e.type = "PONG"
      /\ UNCHANGED <<event_q, links, clean>> /\ silent' = silent \ {<<e.node, e.port>>}
  BY DEF DispatchPong, tableVars
<1>2. /\ pc = "run" /\ e \in DOMAIN event_q /\ Handled = {} /\ Handled' = {e} /\ e = top
      /\ global_time' = e.time /\ global_time <= global_time' /\ e.time \in Nat
  BY <1>1, DispatchFacts
<1>3. Next
  BY <1>2 DEF Next, Dispatch
<1>4. e.kind # "alarm" /\ IsPacket(e)
  BY <1>1 DEF IsPacket
<1>5. \A n, data : Pending(n, data)' = Pending(n, data)
  BY <1>1, <1>2, <1>4, PendingStays
<1>6. ASSUME NEW n, NEW p, ~ (n = e.node /\ p = e.port)
      PROVE  \A s : Waiting(n, p, s) => Waiting(n, p, s)'
  <2>1. ~ ReturnsTo(e, n, p)
    BY <1>1, <1>6 DEF ReturnsTo
  <2>2. \A f \in DOMAIN event_q \ Handled : IsPacket(f) /\ ReturnsTo(f, n, p) => f \in (DOMAIN event_q \ Handled)'
    BY <1>1, <1>2, <2>1
  <2>. QED
    BY <1>2, <1>3, <2>2, WaitingStays
<1>7. /\ clean \in [DOMAIN links -> Time] /\ node_table' = node_table /\ node_table \subseteq NodeIds
      /\ \A n : PortsOf(n)' = PortsOf(n)
      /\ \A k, l : LinkPort(k, l)' = LinkPort(k, l)
      /\ \A k : \A l \in DOMAIN links : Recipient(k, l)' = Recipient(k, l)
      /\ UNCHANGED <<link_vector, protocol_type>>
  BY <1>2, <1>3, NetworkStays DEF WatchInv, SimInv, TablesInv
<1>8. /\ e.node \in NodeIds /\ e.node \in node_table /\ e.link \in DOMAIN links /\ e.port \in PortsOf(e.node)
      /\ link_vector[e.node][e.port] = e.link /\ e.port = LinkPort(e.node, e.link)
      /\ e.from = Recipient(e.node, e.link)
  BY <1>2, <1>4, PacketFields
<1>9. /\ ports'[e.node][e.port].to = e.from /\ ports'[e.node][e.port].connected
      /\ ports'[e.node][e.port].updated = e.time
  <2>1. ports'[e.node][e.port] = Port(e.from, TRUE, e.time)
    BY PongPorts
  <2>. QED
    BY <2>1 DEF Port
<1>10. ASSUME NEW n \in node_table
       PROVE  /\ \A a \in Pending(n, "p")' : a.time \in Nat /\ a.time - 10 <= e.time
              /\ \A a \in Pending(n, "e")' : a.time \in Nat /\ a.time - 1 <= e.time
  <2>1. PICK a : Pending(n, "p")' = {a} /\ a.time \in Nat /\ a.time <= e.time + Period("p")
    BY <1>1, <1>2, <1>7, PendingTimesNext
  <2>2. PICK b : Pending(n, "e")' = {b} /\ b.time \in Nat /\ b.time <= e.time + Period("e")
    BY <1>1, <1>2, <1>7, PendingTimesNext
  <2>3. Period("p") = 10 /\ Period("e") = 1
    BY DEF Period
  <2>4. a.time - 10 <= e.time /\ b.time - 1 <= e.time
    BY <1>2, <2>1, <2>2, <2>3
  <2>. QED
    BY <2>1, <2>2, <2>4
<1>11. ASSUME NEW n \in node_table, NEW p \in PortsOf(n)
       PROVE  PortWatched(n, p)'
  <2>1. PortWatched(n, p)
    BY <1>2 DEF WatchInv
  <2>2. CASE n = e.node /\ p = e.port
    <3>. DEFINE port == ports'[n][p]
                m == Recipient(n, link_vector[n][p])
                k == LinkPort(n, link_vector[n][p])
    <3>1. m' = m /\ k' = k
      BY <1>7, <1>8, <2>2
    <3>2. port.to = m /\ k = p /\ port.updated = e.time
      BY <1>8, <1>9, <2>2
    <3>3. port.updated <= global_time'
      BY <1>2, <3>2
    <3>4. \A a \in Pending(n, "p")' : port.updated >= a.time - 20 /\ port.updated >= a.time - 10
      <4>1. \A x, y \in Nat : x - 10 <= y => y >= x - 20 /\ y >= x - 10
        OBVIOUS
      <4>. QED
        BY <1>2, <1>10, <3>2, <4>1
    <3>5. \A a \in Pending(n, "e")' : port.updated >= a.time - 16
      <4>1. \A x, y \in Nat : x - 1 <= y => y >= x - 16
        OBVIOUS
      <4>. QED
        BY <1>2, <1>10, <3>2, <4>1
    <3>. QED
      BY <3>1, <3>2, <3>3, <3>4, <3>5 DEF PortWatched
  <2>3. CASE ~ (n = e.node /\ p = e.port)
    <3>1. /\ ports'[n][p].updated = ports[n][p].updated /\ ports'[n][p].to = ports[n][p].to
          /\ ports'[n][p].connected => ports[n][p].connected
      <4>1. CASE n # e.node
        <5>1. n \in NodeIds
          BY <1>7
        <5>2. ports'[n] = ports[n]
          BY <4>1, <5>1, PongPorts
        <5>. QED
          BY <5>2
      <4>2. CASE n = e.node /\ p # e.port
        <5>1. /\ ports'[e.node][p].updated = ports[e.node][p].updated
              /\ ports'[e.node][p].to = ports[e.node][p].to
              /\ ports'[e.node][p].connected => ports[e.node][p].connected
          BY <4>2, PongPorts
        <5>. QED
          BY <4>2, <5>1
      <4>. QED
        BY <2>3, <4>1, <4>2
    <3>2. <<n, p>> \notin silent' => <<n, p>> \notin silent /\ \A s : Waiting(n, p, s) => Waiting(n, p, s)'
      BY <1>1, <1>6, <2>3
    <3>. QED
      BY <1>2, <1>3, <1>5, <2>1, <3>1, <3>2, PortFrame
  <2>. QED
    BY <2>2, <2>3
<1>12. ASSUME NEW n \in node_table, NEW l \in Range(link_vector[n])
       PROVE  LinkWatched(n, l)'
  <2>1. LinkWatched(n, l)
    BY <1>2 DEF WatchInv
  <2>2. l \in DOMAIN links /\ n \in NodeIds
    BY DEF SimInv, TablesInv
  <2>. DEFINE m == Recipient(n, l)
              k == LinkPort(n, l)
  <2>3. m' = m /\ k' = k /\ PortsOf(n)' = PortsOf(n)
    BY <1>7, <2>2
  <2>4. CASE n = e.node /\ m = e.from
    <3>1. \A x : x <= e.time => Linked(n, m, x)'
      <4>1. /\ e.port \in PortsOf(n)' /\ ports'[n][e.port].connected /\ ports'[n][e.port].to = m
            /\ ports'[n][e.port].updated = e.time
        BY <1>8, <1>9, <2>3, <2>4
      <4>. HIDE DEF m
      <4>2. ASSUME NEW x, x <= e.time
            PROVE  ports'[n][e.port].updated >= x
        BY <4>1, <4>2
      <4>. QED
        BY <2>3, <4>1, <4>2 DEF Linked
    <3>. HIDE DEF m, k
    <3>2. \A a \in Pending(n, "p")' : Linked(n, m, a.time - 10)' /\ Linked(n, m, a.time - 20)'
      <4>1. \A x, y \in Nat : x - 10 <= y => x - 20 <= y
        OBVIOUS
      <4>. QED
        BY <1>2, <1>10, <3>1, <4>1
    <3>. QED
      BY <2>3, <3>2 DEF LinkWatched, m, k
  <2>5. CASE ~ (n = e.node /\ m = e.from)
    <3>1. \A x : Linked(n, m, x) => Linked(n, m, x)'
      <4>. HIDE DEF m
      <4>1. ASSUME NEW q \in PortsOf(n), ports[n][q].connected, ports[n][q].to = m
            PROVE  ports'[n][q] = ports[n][q]
        <5>1. CASE n # e.node
          BY <2>2, <5>1, PongPorts
        <5>2. CASE n = e.node /\ q = e.port
          <6>1. PortWatched(n, q)
            BY <1>2 DEF WatchInv
          <6>2. ports[n][q].to = Recipient(n, link_vector[n][q])
            BY <4>1, <6>1 DEF PortWatched
          <6>. QED
            BY <1>8, <2>5, <4>1, <5>2, <6>2
        <5>3. CASE n = e.node /\ q # e.port
          BY <2>5, <4>1, <5>3, PongPorts
        <5>. QED
          BY <5>1, <5>2, <5>3
      <4>. QED
        BY <2>3, <4>1 DEF Linked
    <3>2. \A s : Waiting(n, k, s) => Waiting(n, k, s)'
      <4>1. ~ (n = e.node /\ k = e.port)
        <5>1. link_vector[n][k] = l
          BY <2>2, PortOfLink
        <5>. QED
          BY <1>8, <2>5, <5>1
      <4>. HIDE DEF k
      <4>. QED
        BY <1>6, <2>3, <4>1
    <3>3. clean'[l] = clean[l] /\ (links'[l].alive => links[l].alive) /\ Pending(n, "p")' \subseteq Pending(n, "p")
      BY <1>1, <1>5
    <3>. QED
      BY <1>2, <1>3, <2>1, <3>1, <3>2, <3>3, LinkFrame
  <2>. QED
    BY <2>4, <2>5
<1>13. clean' \in [DOMAIN links -> Time]
  BY <1>1, <1>7
<1>. QED
  BY <1>1, <1>2, <1>3, <1>11, <1>12, <1>13, WatchParts

\* The age of what is not in the future.
LEMMA AgeIs ==
  ASSUME NEW t \in Nat, NEW s \in Nat, s <= t, t < TIME_MOD
  PROVE  Age(t, s) = t - s
<1>1. TIME_MOD \in Nat \ {0}
  BY ClockAssumption
<1>2. \A m \in Nat \ {0} : \A x \in Nat : x < m => x % m = x
  OBVIOUS
<1>3. t - s \in Nat /\ t - s < TIME_MOD
  BY <1>1
<1>. QED
  BY <1>1, <1>2, <1>3 DEF Age

\* A packet under way is at most as old as a round trip takes.
LEMMA WaitingIsNew ==
  ASSUME SimInv, EndsInv, PacketInv, NEW n, NEW p, NEW s, Waiting(n, p, s),
         NEW t \in Nat, \A f \in DOMAIN event_q : t <= f.time
  PROVE  s \in Nat /\ t <= s + 4
<1>1. PICK f \in DOMAIN event_q : IsPacket(f) /\ f.stamp = s
  BY DEF Waiting
<1>2. f.stamp \in Nat /\ f.time \in Nat /\ OnItsWay(f)
  BY <1>1, PacketFields
<1>3. Hops(f) \in {0, 1, 2}
  BY DEF Hops
<1>4. f.time <= f.stamp + Hops(f) * 2
  BY <1>2 DEF OnItsWay, MaxDelay
<1>5. f.time <= f.stamp + 4
  BY <1>2, <1>3, <1>4
<1>. QED
  BY <1>1, <1>2, <1>5

\* An alarm gives way to the next one of its kind, and no packet gets lost.
LEMMA AlarmPending ==
  ASSUME SimInv, HeapInv, ClockInv, AlarmInv, ClockFits', ClockInv', NEW e, DispatchAlarm(e)
  PROVE  /\ e.node \in node_table /\ e.data \in {"e", "p", "u"}
         /\ \A f \in DOMAIN event_q : e.time <= f.time
         /\ Handled = {} /\ Handled' = {e} /\ e \notin Range(AlarmEvents(e))
         /\ DOMAIN event_q' = DOMAIN event_q \cup Range(AlarmEvents(e))
         /\ Pending(e.node, e.data) = {e}
         /\ \A a \in Pending(e.node, e.data)' : a.time = e.time + Period(e.data)
         /\ \A n, data : ~ (n = e.node /\ data = e.data) => Pending(n, data)' = Pending(n, data)
<1>1. /\ Taken(e) /\ e.kind = "alarm" /\ Placed(e) /\ pc' = "pop"
      /\ AlarmEvents(e) \in Seq(PlacedEvents) /\ Push(AlarmEvents(e))
  BY DispatchAlarmPushes
<1>2. /\ pc = "run" /\ e = top /\ e \in DOMAIN event_q /\ Handled = {} /\ Handled' = {e}
      /\ global_time' = e.time /\ e.time \in Nat /\ e.time \in Time
  BY <1>1, DispatchFacts, TopPlaced
<1>3. e.node \in node_table /\ e.data \in {"e", "p", "u"} /\ node_table \subseteq NodeIds
  BY <1>1, EventFields DEF Placed, AlarmEvent, SimInv, TablesInv
<1>. DEFINE b == NextAlarm(e.node, e.data, e.time)
            new == Range(AlarmEvents(e))
<1>4. DOMAIN event_q' = DOMAIN event_q \cup new
  <2>1. \A f \in DOMAIN event_q : f \in Event
    BY DEF SimInv, QueueInv, Placed
  <2>2. AlarmEvents(e) \in Seq(Event)
    BY <1>1 DEF PlacedEvents
  <2>. QED
    BY <1>1, <2>1, <2>2, PushHeap
<1>5. /\ b.kind = "alarm" /\ b.node = e.node /\ b.data = e.data
      /\ b.time = e.time + Period(e.data) /\ Period(e.data) \in 1 .. 30
  <2>1. e.time + 30 < TIME_MOD
    BY <1>2 DEF ClockFits
  <2>. QED
    BY <1>2, <1>3, <2>1, NextAlarmPlaced, NextAlarmTime
<1>6. \A f \in new : f.kind = "onlink" \/ f = b
  BY <1>1, AlarmEventsPlaced
<1>. HIDE DEF b, new
<1>7. b # e /\ e \notin new
  <2>1. b.time # e.time
    BY <1>2, <1>5
  <2>2. b # e
    BY <2>1
  <2>. QED
    BY <1>1, <1>6, <2>2
<1>8. Pending(e.node, e.data) = {e}
  <2>1. e \in Due(e.node, e.data)
    BY <1>1, <1>2 DEF Due
  <2>2. PICK a \in DOMAIN event_q : Due(e.node, e.data) \ Handled = {a}
    BY <1>2, <1>3 DEF AlarmInv
  <2>. QED
    BY <1>2, <2>1, <2>2 DEF Pending
<1>9. \A n, data : Due(n, data)' \subseteq Due(n, data) \cup (IF n = e.node /\ data = e.data THEN {b} ELSE {})
  BY <1>4, <1>5, <1>6 DEF Due
<1>10. \A a \in Pending(e.node, e.data)' : a = b
  BY <1>2, <1>8, <1>9 DEF Pending
<1>11. ASSUME NEW n, NEW data, ~ (n = e.node /\ data = e.data)
       PROVE  Pending(n, data)' = Pending(n, data)
  <2>1. Due(n, data)' \subseteq Due(n, data)
    BY <1>9, <1>11
  <2>2. Due(n, data) \subseteq Due(n, data)'
    BY <1>4 DEF Due
  <2>3. e \notin Due(n, data)
    BY <1>11 DEF Due
  <2>. QED
    BY <1>2, <2>1, <2>2, <2>3 DEF Pending
<1>12. \A f \in DOMAIN event_q : e.time <= f.time
  BY <1>2 DEF HeapInv
<1>13. \A a \in Pending(e.node, e.data)' : a.time = e.time + Period(e.data)
  BY <1>5, <1>10
<1>. QED
  BY <1>2, <1>3, <1>4, <1>7, <1>8, <1>11, <1>12, <1>13 DEF new

\* The PING that a node sends on a port.
LEMMA PingWaits ==
  ASSUME SimInv, HeapInv, ClockInv, AlarmInv, ClockFits', ClockInv', NEW e, DispatchAlarm(e), e.data = "p",
         NEW p \in PortsOf(e.node), LinkPort(e.node, link_vector[e.node][p]) = p
  PROVE  Waiting(e.node, p, e.time)'
<1>0. PICK f : f = Send(e.node, p, "PING", e.time, e.time)
  OBVIOUS
<1>1. f.kind = "onlink" /\ f.type = "PING" /\ f.from = e.node /\ f.stamp = e.time /\ f.link = link_vector[e.node][p]
  BY <1>0, SentFields
<1>2. f \in Range(AlarmEvents(e))
  <2>. DEFINE s == Pings(e.node, e.time)
              t == <<NextAlarm(e.node, e.data, e.time)>>
  <2>1. AlarmEvents(e) = s \o t
    BY DEF AlarmEvents
  <2>2. /\ s \in Seq(PlacedEvents) /\ t \in Seq(PlacedEvents)
    <3>1. /\ Placed(e) /\ e.kind = "alarm" /\ e.time \in Time
      BY DispatchAlarmPushes, TopPlaced
    <3>2. e.node \in node_table /\ node_table \subseteq NodeIds
      BY <3>1 DEF Placed, SimInv, TablesInv
    <3>3. s \in Seq(PlacedEvents)
      BY <3>1, <3>2, PingsPlaced DEF SimInv
    <3>4. Placed(NextAlarm(e.node, e.data, e.time))
      BY <3>1, <3>2, NextAlarmPlaced
    <3>. QED
      BY <3>3, <3>4 DEF PlacedEvents, Placed
  <2>3. f \in Range(s)
    <3>1. DOMAIN s = PortsOf(e.node) /\ s[p] = f
      BY <1>0 DEF Pings
    <3>. QED
      BY <3>1 DEF Range
  <2>. HIDE DEF s, t
  <2>. QED
    BY <2>1, <2>2, <2>3, Joined
<1>3. f \in (DOMAIN event_q \ Handled)'
  BY <1>2, AlarmPending
<1>4. ReturnsTo(f, e.node, p)'
  <2>1. Next /\ pc = "run"
    BY DispatchAlarmPushes, TopPlaced DEF Next, Dispatch
  <2>2. LinkPort(e.node, f.link)' = LinkPort(e.node, f.link)
    BY <2>1, NetworkStays
  <2>. QED
    BY <1>1, <2>2 DEF ReturnsTo
<1>. QED
  BY <1>1, <1>3, <1>4 DEF Waiting, IsPacket

\* What all alarms have in common.
LEMMA AlarmFacts ==
  ASSUME SimInv, HeapInv, ClockInv, AlarmInv, ClockFits', ClockInv', NEW e, DispatchAlarm(e)
  PROVE  /\ pc = "run" /\ pc' = "pop" /\ Next /\ UNCHANGED <<silent, clean, links>>
         /\ global_time' = e.time /\ e.time \in Nat /\ e.time < TIME_MOD /\ global_time <= global_time'
         /\ \A n, p : \A s : Waiting(n, p, s) => Waiting(n, p, s)'
         /\ \A n, data : n # e.node => Pending(n, data)' = Pending(n, data)
<1>1. Taken(e) /\ e.kind = "alarm" /\ pc' = "pop" /\ UNCHANGED <<silent, clean, links>>
  BY DispatchAlarmPushes DEF DispatchAlarm, tableVars
<1>2. /\ pc = "run" /\ e = top /\ Handled = {} /\ Handled' = {e}
      /\ global_time' = e.time /\ e.time \in Nat /\ global_time <= global_time'
  BY <1>1, DispatchFacts
<1>3. e.time < TIME_MOD
  BY <1>1, TopPlaced, ClockAssumption DEF Time
<1>4. Next
  BY <1>2 DEF Next, Dispatch
<1>5. \A n, p : \A s : Waiting(n, p, s) => Waiting(n, p, s)'
  <2>1. DOMAIN event_q \subseteq DOMAIN event_q'
    BY AlarmPending
  <2>2. \A f \in DOMAIN event_q \ Handled : IsPacket(f) => f \in (DOMAIN event_q \ Handled)'
    BY <1>1, <1>2, <2>1 DEF IsPacket
  <2>. QED
    BY <1>2, <1>4, <2>2, WaitingStays
<1>6. \A n, data : n # e.node => Pending(n, data)' = Pending(n, data)
  <2>1. \A n, data : ~ (n = e.node /\ data = e.data) => Pending(n, data)' = Pending(n, data)
    BY AlarmPending
  <2>. QED
    BY <2>1
<1>. QED
  BY <1>1, <1>2, <1>3, <1>4, <1>5, <1>6

\* The alarm for updates does nothing here.
LEMMA WatchUpdateAlarm ==
  ASSUME SimInv, SimInv', HeapInv, ClockInv, ClockInv', ClockFits', AlarmInv, WatchInv,
         NEW e, DispatchAlarm(e), e.data = "u"
  PROVE  WatchInv'
<1>1. UNCHANGED ports
  BY DEF DispatchAlarm
<1>2. \A n : \A data \in {"e", "p"} : Pending(n, data)' = Pending(n, data)
  <2>1. \A data \in {"e", "p"} : data # e.data
    OBVIOUS
  <2>. QED
    BY <2>1, AlarmPending
<1>. QED
  BY <1>1, <1>2, AlarmFacts, WatchStays

\* Who is linked since x has been so since any time before.
LEMMA LinkedBefore ==
  ASSUME SimInv, pc \in {"run", "pop"}, NEW n \in node_table, NEW m, NEW x \in Int, NEW y \in Int, y <= x, Linked(n, m, x)
  PROVE  Linked(n, m, y)
<1>1. PICK q \in PortsOf(n) : ports[n][q].connected /\ ports[n][q].to = m /\ ports[n][q].updated >= x
  BY DEF Linked
<1>2. ports[n][q].updated \in Nat
  <2>1. ports[n][q] \in PortRec
    BY DEF SimInv, PortsInv, TablesInv
  <2>. QED
    BY <2>1, TimeIsNat DEF PortRec
<1>3. ports[n][q].updated >= y
  BY <1>1, <1>2
<1>. QED
  BY <1>1, <1>3 DEF Linked

\* What the node of an alarm had waited for until then.
LEMMA WatchUntil ==
  ASSUME SimInv, ClockInv, AlarmInv, EndsInv, PacketInv, WatchInv, pc = "run",
         NEW n \in node_table, NEW now \in Nat, \A f \in DOMAIN event_q : now <= f.time
  PROVE  /\ \A p \in PortsOf(n) : ports[n][p].connected /\ <<n, p>> \notin silent =>
              /\ ports[n][p].updated >= now - 14
              /\ \A a \in Pending(n, "p") : a.time = now => ports[n][p].updated >= now - 10
         /\ \A l \in Range(link_vector[n]) : links[l].alive /\ now - 14 > clean[l] =>
              Linked(n, Recipient(n, l), now - 14)
         /\ \A l \in Range(link_vector[n]) : links[l].alive =>
              \A a \in Pending(n, "p") : a.time = now /\ now - 10 > clean[l] =>
                Linked(n, Recipient(n, l), now - 10)
<1>1. PICK a \in DOMAIN event_q : Pending(n, "p") = {a} /\ a.time \in Nat
  BY PendingTimes
<1>2. now <= a.time
  BY <1>1
<1>3. \A p, s : Waiting(n, p, s) => s \in Nat /\ now <= s + 4
  BY WaitingIsNew
<1>4. ASSUME NEW p \in PortsOf(n), ports[n][p].connected, <<n, p>> \notin silent
      PROVE  /\ ports[n][p].updated >= now - 14
             /\ a.time = now => ports[n][p].updated >= now - 10
  <2>. DEFINE u == ports[n][p].updated
  <2>1. u >= a.time - 20 /\ (u >= a.time - 10 \/ Waiting(n, p, a.time - 10))
    <3>1. PortWatched(n, p)
      BY DEF WatchInv
    <3>. QED
      BY <1>1, <1>4, <3>1 DEF PortWatched
  <2>2. u \in Nat
    <3>1. ports[n][p] \in PortRec
      BY DEF SimInv, PortsInv, TablesInv
    <3>. QED
      BY <3>1, TimeIsNat DEF PortRec
  <2>. HIDE DEF u
  <2>3. u >= a.time - 10 \/ now <= a.time - 10 + 4
    BY <1>3, <2>1
  <2>4. u >= now - 14 /\ (a.time = now => u >= now - 10)
    BY <1>1, <1>2, <2>1, <2>2, <2>3
  <2>. QED
    BY <2>4 DEF u
<1>5. ASSUME NEW l \in Range(link_vector[n]), links[l].alive
      PROVE  /\ now - 14 > clean[l] => Linked(n, Recipient(n, l), now - 14)
             /\ a.time = now /\ now - 10 > clean[l] => Linked(n, Recipient(n, l), now - 10)
  <2>. DEFINE m == Recipient(n, l)
              k == LinkPort(n, l)
              c == clean[l]
  <2>0. c \in Nat
    BY TimeIsNat DEF WatchInv, SimInv, TablesInv
  <2>. HIDE DEF m, k, c
  <2>1. /\ a.time - 10 > c => Linked(n, m, a.time - 10) \/ Waiting(n, k, a.time - 10)
        /\ a.time - 20 > c => Linked(n, m, a.time - 20)
    <3>1. LinkWatched(n, l)
      BY DEF WatchInv
    <3>. QED
      BY <1>1, <1>5, <3>1 DEF LinkWatched, m, k, c
  <2>2. Waiting(n, k, a.time - 10) => now <= a.time - 10 + 4
    BY <1>3
  <2>3. ASSUME now - 14 > c
        PROVE  Linked(n, m, now - 14)
    <3>1. CASE Linked(n, m, a.time - 10)
      <4>1. now - 14 <= a.time - 10 /\ a.time - 10 \in Int /\ now - 14 \in Int
        BY <1>1, <1>2
      <4>. QED
        BY <3>1, <4>1, LinkedBefore
    <3>2. CASE Waiting(n, k, a.time - 10)
      <4>1. now - 14 <= a.time - 20 /\ a.time - 20 \in Int /\ now - 14 \in Int
        BY <1>1, <2>2, <3>2
      <4>2. a.time - 20 > c
        BY <1>1, <2>0, <2>3, <4>1
      <4>. QED
        BY <2>1, <4>1, <4>2, LinkedBefore
    <3>3. a.time - 10 > c
      BY <1>1, <1>2, <2>0, <2>3
    <3>. QED
      BY <2>1, <3>1, <3>2, <3>3
  <2>4. ASSUME a.time = now, now - 10 > c
        PROVE  Linked(n, m, now - 10)
    <3>1. ~ Waiting(n, k, a.time - 10)
      BY <2>2, <2>4
    <3>. QED
      BY <2>1, <2>4, <3>1
  <2>. QED
    BY <2>3, <2>4 DEF m, c
<1>. QED
  BY <1>1, <1>4, <1>5

\* The nodes that the alarm is not for.
LEMMA WatchElsewhere ==
  ASSUME SimInv, SimInv', HeapInv, ClockInv, ClockInv', ClockFits', AlarmInv, WatchInv,
         NEW e, DispatchAlarm(e), NEW n \in node_table, n # e.node, ports'[n] = ports[n]
  PROVE  /\ \A p \in PortsOf(n) : PortWatched(n, p)'
         /\ \A l \in Range(link_vector[n]) : LinkWatched(n, l)'
<1>1. /\ pc = "run" /\ Next /\ UNCHANGED <<silent, clean, links>> /\ global_time <= global_time'
      /\ \A k, p : \A s : Waiting(k, p, s) => Waiting(k, p, s)'
      /\ \A data : Pending(n, data)' = Pending(n, data)
  BY AlarmFacts
<1>2. ASSUME NEW p \in PortsOf(n)
      PROVE  PortWatched(n, p)'
  <2>1. PortWatched(n, p)
    BY <1>1 DEF WatchInv
  <2>2. /\ Pending(n, "p")' \subseteq Pending(n, "p") /\ Pending(n, "e")' \subseteq Pending(n, "e")
        /\ \A s : Waiting(n, p, s) => Waiting(n, p, s)'
    BY <1>1
  <2>. QED
    BY <1>1, <2>1, <2>2, PortFrame
<1>3. ASSUME NEW l \in Range(link_vector[n])
      PROVE  LinkWatched(n, l)'
  <2>. DEFINE m == Recipient(n, l)
              k == LinkPort(n, l)
  <2>1. LinkWatched(n, l)
    BY <1>1 DEF WatchInv
  <2>2. l \in DOMAIN links
    BY DEF SimInv, TablesInv
  <2>3. m' = m /\ k' = k /\ PortsOf(n)' = PortsOf(n)
    BY <1>1, <2>2, NetworkStays
  <2>4. \A x : Linked(n, m, x) => Linked(n, m, x)'
    BY <2>3 DEF Linked
  <2>. HIDE DEF k
  <2>5. \A s : Waiting(n, k, s) => Waiting(n, k, s)'
    BY <1>1, <2>3
  <2>6. /\ clean'[l] = clean[l] /\ (links'[l].alive => links[l].alive)
        /\ Pending(n, "p")' \subseteq Pending(n, "p")
    BY <1>1
  <2>. QED
    BY <1>1, <2>1, <2>4, <2>5, <2>6, LinkFrame DEF k
<1>. QED
  BY <1>2, <1>3

\* The alarm for PINGs: what was sent 10 s ago has been answered.
LEMMA WatchPingAlarm ==
  ASSUME SimInv, SimInv', HeapInv, ClockInv, ClockInv', ClockFits', AlarmInv, EndsInv, PacketInv, WatchInv,
         NEW e, DispatchAlarm(e), e.data = "p"
  PROVE  WatchInv'
<1>1. /\ pc = "run" /\ pc' = "pop" /\ Next /\ UNCHANGED <<silent, clean, links>>
      /\ global_time' = e.time /\ e.time \in Nat /\ global_time <= global_time'
  BY AlarmFacts
<1>2. /\ e.node \in node_table /\ \A f \in DOMAIN event_q : e.time <= f.time
      /\ Pending(e.node, "p") = {e} /\ \A a \in Pending(e.node, "p")' : a.time = e.time + Period("p")
      /\ Pending(e.node, "e")' = Pending(e.node, "e")
  <2>1. /\ e.node \in node_table /\ \A f \in DOMAIN event_q : e.time <= f.time
        /\ Pending(e.node, e.data) = {e} /\ \A a \in Pending(e.node, e.data)' : a.time = e.time + Period(e.data)
        /\ \A n, data : ~ (n = e.node /\ data = e.data) => Pending(n, data)' = Pending(n, data)
    BY AlarmPending
  <2>2. "e" # e.data
    OBVIOUS
  <2>. QED
    BY <2>1, <2>2
<1>3. \A a \in Pending(e.node, "p")' : a.time - 10 = e.time /\ a.time - 20 = e.time - 10
  <2>1. Period("p") = 10
    BY DEF Period
  <2>. QED
    BY <1>1, <1>2, <2>1
<1>4. UNCHANGED ports
  BY DEF DispatchAlarm
<1>5. /\ clean \in [DOMAIN links -> Time] /\ UNCHANGED <<node_table, link_vector, protocol_type>>
      /\ \A n : PortsOf(n)' = PortsOf(n)
      /\ \A n, l : LinkPort(n, l)' = LinkPort(n, l)
      /\ \A n : \A l \in DOMAIN links : Recipient(n, l)' = Recipient(n, l)
  BY <1>1, NetworkStays DEF WatchInv
<1>. DEFINE n == e.node
<1>6. ASSUME NEW p \in PortsOf(n)
      PROVE  PortWatched(n, p)'
  <2>. DEFINE port == ports[n][p]
              m == Recipient(n, link_vector[n][p])
              k == LinkPort(n, link_vector[n][p])
  <2>1. PortWatched(n, p)
    BY <1>1, <1>2 DEF WatchInv
  <2>2. port' = port /\ m' = m /\ k' = k
    <3>1. link_vector[n][p] \in DOMAIN links
      <4>1. n \in NodeIds /\ link_vector[n] \in Seq(Nat)
        BY <1>2 DEF SimInv, TablesInv
      <4>2. link_vector[n][p] \in Range(link_vector[n])
        BY <4>1 DEF PortsOf, Range
      <4>. QED
        BY <4>1, <4>2 DEF SimInv, TablesInv
    <3>. QED
      BY <1>4, <1>5, <3>1
  <2>3. port.updated <= global_time'
    <3>1. port.updated <= global_time
      BY <2>1 DEF PortWatched
    <3>2. port \in PortRec
      BY <1>1, <1>2 DEF SimInv, PortsInv, TablesInv
    <3>3. port.updated \in Nat /\ global_time \in Nat
      BY <3>2, TimeIsNat DEF PortRec, SimInv, QueueInv
    <3>. HIDE DEF port
    <3>. QED
      BY <1>1, <3>1, <3>3
  <2>4. port.connected => port.to = m /\ k = p
    BY <2>1 DEF PortWatched
  <2>5. port.connected /\ <<n, p>> \notin silent =>
          \A a \in Pending(n, "p")' : port.updated >= a.time - 20 /\ Waiting(n, p, a.time - 10)'
    <3>1. k = p => Waiting(n, p, e.time)'
      BY PingWaits
    <3>2. port.connected /\ <<n, p>> \notin silent => port.updated >= e.time - 10
      BY <1>1, <1>2, WatchUntil
    <3>. QED
      BY <1>3, <2>4, <3>1, <3>2
  <2>6. port.connected /\ protocol_type = "DV" => \A a \in Pending(n, "e")' : port.updated >= a.time - 16
    BY <1>2, <2>1 DEF PortWatched
  <2>. QED
    BY <1>1, <1>5, <2>2, <2>3, <2>4, <2>5, <2>6 DEF PortWatched
<1>7. ASSUME NEW l \in Range(link_vector[n])
      PROVE  LinkWatched(n, l)'
  <2>. DEFINE m == Recipient(n, l)
              k == LinkPort(n, l)
  <2>1. l \in DOMAIN links /\ n \in NodeIds
    BY <1>2 DEF SimInv, TablesInv
  <2>2. m' = m /\ k' = k
    BY <1>5, <2>1
  <2>3. Waiting(n, k, e.time)'
    <3>1. k \in PortsOf(n) /\ link_vector[n][k] = l
      BY <2>1, PortOfLink
    <3>2. LinkPort(n, link_vector[n][k]) = k
      BY <3>1
    <3>. HIDE DEF k
    <3>3. PICK p : p = k
      OBVIOUS
    <3>4. Waiting(n, p, e.time)'
      BY <3>1, <3>2, <3>3, PingWaits
    <3>. QED
      BY <2>2, <3>3, <3>4
  <2>4. links[l].alive /\ e.time - 10 > clean[l] => Linked(n, m, e.time - 10)
    BY <1>1, <1>2, WatchUntil
  <2>5. Linked(n, m, e.time - 10) => Linked(n, m, e.time - 10)'
    BY <1>4, <1>5, <2>2 DEF Linked
  <2>. HIDE DEF m, k
  <2>. QED
    BY <1>1, <1>3, <2>2, <2>3, <2>4, <2>5 DEF LinkWatched, m, k
<1>8. ASSUME NEW i \in node_table
      PROVE  /\ \A p \in PortsOf(i) : PortWatched(i, p)'
             /\ \A l \in Range(link_vector[i]) : LinkWatched(i, l)'
  BY <1>4, <1>6, <1>7, WatchElsewhere
<1>. QED
  BY <1>1, <1>5, <1>8, WatchParts

\* What the alarm that looks for dead ports does to the ports of its node.
LEMMA ExpiryPorts ==
  ASSUME SimInv, HeapInv, ClockInv, ClockInv', ClockFits', AlarmInv, WatchInv,
         NEW e, DispatchAlarm(e), e.data = "e", NEW p \in PortsOf(e.node)
  PROVE  /\ ports'[e.node][p].updated = ports[e.node][p].updated /\ ports'[e.node][p].to = ports[e.node][p].to
         /\ ports'[e.node][p].connected => ports[e.node][p].connected
         /\ ports'[e.node][p].connected /\ protocol_type = "DV" => ports[e.node][p].updated >= e.time - 15
         /\ ports[e.node][p].connected /\ ports[e.node][p].updated >= e.time - 15 => ports'[e.node][p].connected
<1>1. /\ pc = "run" /\ global_time' = e.time /\ e.time \in Nat /\ e.time < TIME_MOD /\ global_time <= global_time'
  BY AlarmFacts
<1>2. e.node \in node_table
  BY AlarmPending
<1>. DEFINE n == e.node
            port == ports[n][p]
<1>3. port \in PortRec /\ n \in NodeIds /\ DOMAIN ports = NodeIds
  BY <1>1, <1>2 DEF SimInv, PortsInv, TablesInv
<1>4. port.updated <= e.time /\ port.updated \in Nat
  <2>1. port.updated <= global_time
    <3>1. PortWatched(n, p)
      BY <1>1, <1>2 DEF WatchInv
    <3>. QED
      BY <3>1 DEF PortWatched
  <2>2. port.updated \in Nat /\ global_time \in Nat
    BY <1>3, TimeIsNat DEF PortRec, SimInv, QueueInv
  <2>. HIDE DEF port
  <2>. QED
    BY <1>1, <2>1, <2>2
<1>5. CASE protocol_type = "DV"
  <2>1. ports' = [ports EXCEPT ![n] = [q \in PortsOf(n) |-> Refreshed(ports[n][q], e.time)]]
    BY <1>5 DEF DispatchAlarm
  <2>2. ports'[n][p] = Refreshed(port, e.time)
    BY <1>3, <2>1
  <2>. HIDE DEF port, n
  <2>3. /\ Refreshed(port, e.time).updated = port.updated /\ Refreshed(port, e.time).to = port.to
        /\ Refreshed(port, e.time).connected = (port.connected /\ ~ Expired(port, e.time))
    BY <1>3 DEF Refreshed, PortRec
  <2>4. Age(e.time, port.updated) = e.time - port.updated
    BY <1>1, <1>4, AgeIs
  <2>5. port.connected => (Expired(port, e.time) <=> ~ (port.updated >= e.time - 15))
    <3>. DEFINE u == port.updated
    <3>1. u \in Nat /\ Age(e.time, u) = e.time - u
      BY <1>4, <2>4
    <3>. HIDE DEF u
    <3>2. Age(e.time, u) > 15 <=> ~ (u >= e.time - 15)
      BY <1>1, <3>1
    <3>. QED
      BY <3>2 DEF Expired, DeadAfter, u
  <2>6. /\ Refreshed(port, e.time).connected => port.connected /\ port.updated >= e.time - 15
        /\ port.connected /\ port.updated >= e.time - 15 => Refreshed(port, e.time).connected
    BY <2>3, <2>5
  <2>. QED
    BY <2>2, <2>3, <2>6 DEF port, n
<1>6. CASE protocol_type # "DV"
  <2>1. ports' = ports
    BY <1>6 DEF DispatchAlarm
  <2>. QED
    BY <1>6, <2>1
<1>. QED
  BY <1>5, <1>6

\* A port that is as young as that stays connected.
LEMMA ExpiryLinks ==
  ASSUME SimInv, HeapInv, ClockInv, ClockInv', ClockFits', AlarmInv, WatchInv,
         NEW e, DispatchAlarm(e), e.data = "e", NEW m, NEW x \in Int, x >= e.time - 15, Linked(e.node, m, x)
  PROVE  \E q \in PortsOf(e.node) : /\ ports'[e.node][q].connected /\ ports'[e.node][q].to = m
                                    /\ ports'[e.node][q].updated >= x
<1>1. PICK q \in PortsOf(e.node) : /\ ports[e.node][q].connected /\ ports[e.node][q].to = m
                                   /\ ports[e.node][q].updated >= x
  BY DEF Linked
<1>2. ports[e.node][q].updated \in Nat
  <2>1. pc = "run" /\ e.node \in node_table
    BY AlarmFacts, AlarmPending
  <2>2. ports[e.node][q] \in PortRec
    BY <2>1 DEF SimInv, PortsInv, TablesInv
  <2>. QED
    BY <2>2, TimeIsNat DEF PortRec
<1>3. ports[e.node][q].updated >= e.time - 15
  <2>1. e.time \in Nat
    BY AlarmFacts
  <2>2. \A u \in Nat : u >= x => u >= e.time - 15
    BY <2>1
  <2>. QED
    BY <1>1, <1>2, <2>2
<1>. QED
  BY <1>1, <1>3, ExpiryPorts

\* The alarm that looks for dead ports: what is on its way is not that old.
LEMMA WatchExpiryAlarm ==
  ASSUME SimInv, SimInv', HeapInv, ClockInv, ClockInv', ClockFits', AlarmInv, EndsInv, PacketInv, WatchInv,
         NEW e, DispatchAlarm(e), e.data = "e"
  PROVE  WatchInv'
<1>1. /\ pc = "run" /\ pc' = "pop" /\ Next /\ UNCHANGED <<silent, clean, links>>
      /\ global_time' = e.time /\ e.time \in Nat /\ global_time <= global_time'
      /\ \A n, p : \A s : Waiting(n, p, s) => Waiting(n, p, s)'
  BY AlarmFacts
<1>2. /\ e.node \in node_table /\ \A f \in DOMAIN event_q : e.time <= f.time
      /\ \A a \in Pending(e.node, "e")' : a.time = e.time + Period("e")
      /\ Pending(e.node, "p")' = Pending(e.node, "p")
  <2>1. /\ e.node \in node_table /\ \A f \in DOMAIN event_q : e.time <= f.time
        /\ \A a \in Pending(e.node, e.data)' : a.time = e.time + Period(e.data)
        /\ \A n, data : ~ (n = e.node /\ data = e.data) => Pending(n, data)' = Pending(n, data)
    BY AlarmPending
  <2>2. "p" # e.data
    OBVIOUS
  <2>. QED
    BY <2>1, <2>2
<1>3. \A a \in Pending(e.node, "e")' : a.time - 16 = e.time - 15
  <2>1. Period("e") = 1
    BY DEF Period
  <2>. QED
    BY <1>1, <1>2, <2>1
<1>5. /\ clean \in [DOMAIN links -> Time] /\ UNCHANGED <<node_table, link_vector, protocol_type>>
      /\ \A n : PortsOf(n)' = PortsOf(n)
      /\ \A n, l : LinkPort(n, l)' = LinkPort(n, l)
      /\ \A n : \A l \in DOMAIN links : Recipient(n, l)' = Recipient(n, l)
  BY <1>1, NetworkStays DEF WatchInv
<1>. DEFINE n == e.node
<1>6. ASSUME NEW p \in PortsOf(n)
      PROVE  PortWatched(n, p)'
  <2>1. PortWatched(n, p)
    BY <1>1, <1>2 DEF WatchInv
  <2>2. /\ ports'[n][p].updated = ports[n][p].updated /\ ports'[n][p].to = ports[n][p].to
        /\ ports'[n][p].connected => ports[n][p].connected
        /\ ports'[n][p].connected /\ protocol_type = "DV" => ports[n][p].updated >= e.time - 15
    BY ExpiryPorts
  <2>3. ports'[n][p].connected /\ protocol_type = "DV" =>
          \A a \in Pending(n, "e")' : ports[n][p].updated >= a.time - 16
    BY <1>3, <2>2
  <2>4. Pending(n, "p")' \subseteq Pending(n, "p") /\ \A s : Waiting(n, p, s) => Waiting(n, p, s)'
    BY <1>1, <1>2
  <2>5. n \in node_table
    BY <1>2
  <2>. HIDE DEF n
  <2>. QED
    BY <1>1, <2>1, <2>2, <2>3, <2>4, <2>5, PortFrame
<1>7. ASSUME NEW l \in Range(link_vector[n])
      PROVE  LinkWatched(n, l)'
  <2>. DEFINE m == Recipient(n, l)
              k == LinkPort(n, l)
              c == clean[l]
  <2>1. l \in DOMAIN links /\ n \in NodeIds
    BY <1>2 DEF SimInv, TablesInv
  <2>2. m' = m /\ k' = k
    BY <1>5, <2>1
  <2>0. c \in Nat
    BY <1>5, <2>1, TimeIsNat
  <2>3. PICK a \in DOMAIN event_q : Pending(n, "p") = {a} /\ a.time \in Nat
    BY <1>1, <1>2, PendingTimes
  <2>4. e.time <= a.time
    BY <1>2
  <2>5. links[l].alive =>
          /\ a.time - 10 > c => Linked(n, m, a.time - 10) \/ Waiting(n, k, a.time - 10)
          /\ a.time - 20 > c => Linked(n, m, a.time - 20)
          /\ e.time - 14 > c => Linked(n, m, e.time - 14)
    <3>1. LinkWatched(n, l)
      BY <1>1, <1>2 DEF WatchInv
    <3>2. links[l].alive /\ e.time - 14 > c => Linked(n, m, e.time - 14)
      BY <1>1, <1>2, WatchUntil
    <3>. QED
      BY <2>3, <3>1, <3>2 DEF LinkWatched
  <2>6. ASSUME NEW x \in Int, x >= e.time - 15, Linked(n, m, x)
        PROVE  \A y \in Int : y <= x => Linked(n, m, y)'
    <3>1. PICK mm : mm = m
      OBVIOUS
    <3>2. PICK q \in PortsOf(n) : /\ ports'[n][q].connected /\ ports'[n][q].to = mm /\ ports'[n][q].updated >= x
      BY <2>6, <3>1, ExpiryLinks
    <3>3. ports'[n][q].updated \in Nat
      <4>1. n \in node_table' /\ q \in PortsOf(n)' /\ pc' = "pop"
        BY <1>1, <1>2, <1>5
      <4>2. ports'[n][q] \in PortRec
        BY <4>1 DEF SimInv, PortsInv, TablesInv
      <4>. QED
        BY <4>2, TimeIsNat DEF PortRec
    <3>4. \A y \in Int : y <= x => ports'[n][q].updated >= y
      <4>1. \A u \in Nat : \A y \in Int : u >= x /\ y <= x => u >= y
        BY <2>6
      <4>. QED
        BY <3>2, <3>3, <4>1
    <3>5. q \in PortsOf(n)'
      BY <1>5
    <3>6. \A y \in Int : y <= x => Linked(n, mm, y)'
      BY <3>2, <3>4, <3>5 DEF Linked
    <3>. QED
      BY <2>2, <3>1, <3>6
  <2>. DEFINE ten == a.time - 10
              twenty == a.time - 20
              now == e.time
  <2>7. /\ ten \in Int /\ twenty \in Int /\ now - 14 \in Int /\ now - 14 >= now - 15
        /\ ten >= now - 15 /\ twenty <= ten /\ twenty <= twenty
        /\ (now <= ten + 4 => twenty >= now - 15 /\ now - 14 <= twenty + 10)
        /\ now - 14 <= ten /\ (twenty > c => ten > c)
    BY <1>1, <2>0, <2>3, <2>4
  <2>9. Waiting(n, k, ten) => now <= ten + 4
    BY <1>1, <1>2, WaitingIsNew
  <2>10. Waiting(n, k, ten) => Waiting(n, k, ten)'
    <3>1. PICK kk : kk = k
      OBVIOUS
    <3>2. PICK t : t = ten
      OBVIOUS
    <3>3. Waiting(n, kk, t) => Waiting(n, kk, t)'
      BY <1>1
    <3>. QED
      BY <2>2, <3>1, <3>2, <3>3
  <2>11. links[l].alive /\ ten > c => Linked(n, m, ten)' \/ Waiting(n, k, ten)'
    <3>1. Linked(n, m, ten) => Linked(n, m, ten)'
      BY <2>6, <2>7
    <3>. QED
      BY <2>3, <2>5, <2>10, <3>1
  <2>12. links[l].alive /\ twenty > c => Linked(n, m, twenty)'
    <3>1. Linked(n, m, ten) => Linked(n, m, twenty)'
      BY <2>6, <2>7
    <3>2. twenty >= now - 15 /\ Linked(n, m, twenty) => Linked(n, m, twenty)'
      BY <2>6, <2>7
    <3>. QED
      BY <2>3, <2>5, <2>7, <2>9, <3>1, <3>2
  <2>13. links'[l].alive => links[l].alive /\ clean'[l] = c
    BY <1>1
  <2>14. \A b \in Pending(n, "p")' : b = a
    BY <1>2, <2>3
  <2>. HIDE DEF m, k, c
  <2>. QED
    BY <2>2, <2>11, <2>12, <2>13, <2>14 DEF LinkWatched, m, k
<1>8. ASSUME NEW i \in node_table
      PROVE  /\ \A p \in PortsOf(i) : PortWatched(i, p)'
             /\ \A l \in Range(link_vector[i]) : LinkWatched(i, l)'
  <2>1. CASE i = n
    BY <1>6, <1>7, <2>1
  <2>2. CASE i # n
    <3>1. ports'[i] = ports[i]
      <4>1. i \in DOMAIN ports /\ n \in DOMAIN ports
        BY <1>1, <1>2 DEF SimInv, PortsInv, TablesInv
      <4>. QED
        BY <2>2, <4>1 DEF DispatchAlarm
    <3>. QED
      BY <2>2, <3>1, WatchElsewhere
  <2>. QED
    BY <2>1, <2>2
<1>. QED
  BY <1>1, <1>5, <1>8, WatchParts

\* Of what the ports and the links are watched for, nothing gets lost in a step.
LEMMA WatchNext ==
  ASSUME SimInv, HeapInv, ClockInv, AlarmInv, EndsInv, PacketInv, WatchInv, ClockFits',
         SimInv', HeapInv', ClockInv', AlarmInv', [Next]_vars
  PROVE  WatchInv'
<1>1. CASE UNCHANGED vars
  <2>1. UNCHANGED <<pc, global_time, event_q, top, node_table, links, link_vector, protocol_type, ports, silent, clean>>
    BY <1>1 DEF vars, queueVars, tableVars, routerVars
  <2>2. /\ Handled' = Handled
        /\ \A n, data : Pending(n, data)' = Pending(n, data)
        /\ \A n, l : LinkPort(n, l)' = LinkPort(n, l) /\ Recipient(n, l)' = Recipient(n, l)
        /\ \A n : PortsOf(n)' = PortsOf(n)
    BY <2>1 DEF Handled, Pending, Due, LinkPort, SelectInSeq, Recipient, PortsOf
  <2>3. /\ \A n, m, x : Linked(n, m, x)' = Linked(n, m, x)
        /\ \A f, n, p : ReturnsTo(f, n, p)' = ReturnsTo(f, n, p)
    BY <2>1, <2>2 DEF Linked, ReturnsTo
  <2>4. \A n, p, s : Waiting(n, p, s)' = Waiting(n, p, s)
    BY <2>1, <2>2, <2>3 DEF Waiting
  <2>5. /\ \A n, p : PortWatched(n, p) => PortWatched(n, p)'
        /\ \A n, l : LinkWatched(n, l) => LinkWatched(n, l)'
    BY <2>1, <2>2, <2>3, <2>4 DEF PortWatched, LinkWatched
  <2>. QED
    BY <2>1, <2>2, <2>5 DEF WatchInv
<1>2. ASSUME pc' \notin {"init", "boot", "run", "pop"}
      PROVE  WatchInv'
  BY <1>2 DEF WatchInv
<1>3. CASE Reading
  <2>1. pc = "init" /\ pc' \in {"init", "boot", "spin", "crashed", "refused"} /\ UNCHANGED ports
    <3>1. CASE EndOfFile
      BY <1>3, <3>1 DEF Reading, EndOfFile, routerVars
    <3>2. CASE ReadLine
      <4>1. pc = "init" /\ Head(lines) \in FileLine
        BY <3>2 DEF ReadLine, SimInv, ReadInv
      <4>2. CASE ReadEvent(Head(lines))
        BY <1>3, <4>1, <4>2, ReadEventPushes DEF Reading, routerVars
      <4>3. CASE ~ ReadEvent(Head(lines))
        BY <1>3, <3>2, <4>1, <4>3 DEF Reading, routerVars, ReadLine, ReadBlank, ReadHeader, ReadNoHeader,
             ReadNodes, ReadLink, ReadWrong
      <4>. QED
        BY <4>2, <4>3
    <3>. QED
      BY <1>3, <3>1, <3>2 DEF Reading
  <2>. QED
    BY <2>1 DEF WatchInv
<1>4. CASE InitRouting
  BY <1>4, WatchBoot
<1>5. CASE InitNull
  BY <1>2, <1>5 DEF InitNull
<1>6. CASE Dispatch
  <2>1. PICK e : \/ DispatchNull(e) \/ DispatchLink(e) \/ DispatchXmit(e) \/ DispatchOnLink(e)
                 \/ DispatchLost(e) \/ DispatchPing(e) \/ DispatchPong(e) \/ DispatchAlarm(e)
    BY <1>6 DEF Dispatch
  <2>2. CASE DispatchNull(e)
    BY <1>2, <2>2 DEF DispatchNull
  <2>3. CASE DispatchAlarm(e)
    <3>1. e.data \in {"e", "p", "u"}
      BY <2>3, AlarmPending
    <3>. QED
      BY <2>3, <3>1, WatchExpiryAlarm, WatchPingAlarm, WatchUpdateAlarm
  <2>4. CASE DispatchLink(e)
    BY <2>4, WatchLink
  <2>5. CASE DispatchXmit(e)
    BY <2>5, WatchXmit
  <2>6. CASE DispatchOnLink(e)
    BY <2>6, WatchOnLink
  <2>7. CASE DispatchLost(e)
    BY <2>7, WatchLost
  <2>8. CASE DispatchPing(e)
    BY <2>8, WatchPing
  <2>9. CASE DispatchPong(e)
    BY <2>9, WatchPong
  <2>. QED
    BY <2>1, <2>2, <2>3, <2>4, <2>5, <2>6, <2>7, <2>8, <2>9
<1>7. CASE NoMoreEvents
  BY <1>2, <1>7 DEF NoMoreEvents
<1>8. CASE PopEvent
  BY <1>8, WatchPop
<1>9. CASE Stopped
  BY <1>1, <1>9 DEF Stopped
<1>. QED
  BY <1>1, <1>3, <1>4, <1>5, <1>6, <1>7, <1>8, <1>9 DEF Next

TimedInv == HeapInv /\ ClockInv /\ AlarmInv /\ EndsInv /\ PacketInv /\ WatchInv

\* What depends on time holds at the start, if the clock starts at 0.
LEMMA TimedInit ==
  ASSUME Boot = {0}
  PROVE  Init => TimedInv
<1>. SUFFICES ASSUME Init PROVE TimedInv
  OBVIOUS
<1>1. /\ DOMAIN event_q = {} /\ event_q = [e \in {} |-> 1] /\ top = NoEvent /\ global_time = 0 /\ pc = "init"
      /\ link_vector = [n \in NodeIds |-> <<>>] /\ ports = [n \in NodeIds |-> <<>>]
  BY DEF Init, QueueInit, FileInit, SimInit, EmptyBag, SetToBag
<1>2. HeapInv /\ ClockInv /\ AlarmInv /\ PacketInv
  BY <1>1 DEF HeapInv, ClockInv, AlarmInv, PacketInv
<1>3. EndsInv
  BY <1>1 DEF EndsInv, Range
<1>4. WatchInv
  BY <1>1 DEF WatchInv
<1>. QED
  BY <1>2, <1>3, <1>4 DEF TimedInv

\* Every step keeps it.
LEMMA TimedNext == SimInv /\ SimInv' /\ TimedInv /\ ClockFits' /\ DelaysFit /\ [Next]_vars => TimedInv'
<1>. SUFFICES ASSUME SimInv, SimInv', TimedInv, ClockFits', DelaysFit, [Next]_vars
     PROVE  TimedInv'
  OBVIOUS
<1>1. HeapInv /\ ClockInv /\ AlarmInv /\ EndsInv /\ PacketInv /\ WatchInv
  BY DEF TimedInv
<1>2. HeapInv' /\ ClockInv'
  BY <1>1, HeapNext
<1>3. AlarmInv'
  BY <1>1, <1>2, AlarmNext
<1>4. EndsInv' /\ PacketInv'
  BY <1>1, EndsNext, PacketNext
<1>5. WatchInv'
  BY <1>1, <1>2, <1>3, WatchNext
<1>. QED
  BY <1>2, <1>3, <1>4, <1>5 DEF TimedInv

\* A port is declared dead only if a PING or a PONG of it was lost since its
\* last PONG: refreshDV, with the PINGs of the alarm every 10 s, on links whose
\* delay, however it changes, is at most MaxDelay.
THEOREM ExpiryAfterLoss ==
  ASSUME Boot = {0}
  PROVE  Spec /\ []ClockFits /\ []DelaysFit => ExpiryNeedsLoss
<1>1. Init => TimedInv
  BY TimedInit
<1>2. SimInv /\ SimInv' /\ TimedInv /\ TimedInv' /\ ClockFits' /\ [Next]_vars =>
        [\A n \in NodeIds : \A p \in DOMAIN ports[n] :
           top.kind = "alarm" /\ ports[n][p].connected /\ ~ ports[n][p].connected'
             => <<n, p>> \in silent]_vars
  <2>. SUFFICES ASSUME SimInv, SimInv', TimedInv, TimedInv', ClockFits', [Next]_vars,
                       NEW n \in NodeIds, NEW p \in DOMAIN ports[n],
                       top.kind = "alarm", ports[n][p].connected, ~ ports[n][p].connected'
                PROVE  UNCHANGED vars \/ <<n, p>> \in silent
    OBVIOUS
  <2>1. ports' # ports
    OBVIOUS
  <2>2. ~ InitRouting
    BY DEF InitRouting, TimedInv, WatchInv
  <2>3. PICK e \in {top} : DispatchPong(e) \/ DispatchAlarm(e) \/ UNCHANGED vars
    BY <2>1, <2>2 DEF Next, Reading, InitNull, NoMoreEvents, PopEvent, Stopped, Dispatch, DispatchNull,
         DispatchLink, DispatchXmit, DispatchOnLink, DispatchLost, DispatchPing, routerVars
  <2>4. CASE DispatchAlarm(e)
    <3>1. /\ pc = "run" /\ global_time' = e.time /\ e.time \in Nat
          /\ e.node \in node_table /\ \A f \in DOMAIN event_q : e.time <= f.time
      BY <2>4, AlarmFacts, AlarmPending DEF TimedInv
    <3>2. e.data = "e"
      BY <2>1, <2>4 DEF DispatchAlarm
    <3>3. n = e.node
      <4>1. e.node \in DOMAIN ports /\ n \in DOMAIN ports
        BY <3>1 DEF SimInv, PortsInv, TablesInv
      <4>. QED
        BY <2>4, <4>1 DEF DispatchAlarm
    <3>4. p \in PortsOf(n)
      BY <3>1 DEF SimInv, PortsInv
    <3>5. ASSUME <<n, p>> \notin silent
          PROVE  ports'[n][p].connected
      <4>1. ports[n][p].updated >= e.time - 14
        BY <3>1, <3>3, <3>4, <3>5, WatchUntil DEF TimedInv
      <4>2. ports[n][p].updated \in Nat
        <5>1. ports[n][p] \in PortRec
          BY DEF SimInv, PortsInv
        <5>. QED
          BY <5>1, TimeIsNat DEF PortRec
      <4>3. ports[n][p].updated >= e.time - 15
        BY <3>1, <4>1, <4>2
      <4>. QED
        BY <2>4, <3>2, <3>3, <3>4, <4>3, ExpiryPorts DEF TimedInv
    <3>. QED
      BY <3>5
  <2>5. CASE DispatchPong(e)
    BY <2>3, <2>5 DEF DispatchPong
  <2>. QED
    BY <2>3, <2>4, <2>5
<1>3. SimInv /\ SimInv' /\ TimedInv /\ ClockFits' /\ DelaysFit /\ [Next]_vars => TimedInv'
  BY TimedNext
<1>. QED
  BY <1>1, <1>2, <1>3, Always, PTL DEF Spec, ExpiryNeedsLoss

\* The ports follow the links, with the alarms of handle_alarm, the PINGs and
\* PONGs of recv and the 15 s of refreshDV: a port without a PONG is dead within
\* 16 s, and a link that has worked for 10 s and a round trip has connected its
\* two ends.
THEOREM PortsFollow ==
  ASSUME Boot = {0}
  PROVE  Spec /\ []ClockFits /\ []DelaysFit => []PortsFollowLinks
<1>1. Init => TimedInv
  BY TimedInit
<1>2. SimInv /\ SimInv' /\ TimedInv /\ ClockFits' /\ DelaysFit /\ [Next]_vars => TimedInv'
  BY TimedNext
<1>3. SimInv /\ TimedInv => PortsFollowLinks
  <2>. SUFFICES ASSUME SimInv, TimedInv, pc = "run", NEW n \in node_table, NEW p \in PortsOf(n)
       PROVE  LET l == link_vector[n][p]
              IN /\ protocol_type = "DV" /\ ports[n][p].connected =>
                      Age(global_time, ports[n][p].updated) <= 16
                 /\ links[l].alive /\ global_time > clean[l] + 10 + 2 * MaxDelay =>
                      \E q \in PortsOf(n) : ports[n][q].connected /\ ports[n][q].to = Recipient(n, l)
    BY DEF PortsFollowLinks
  <2>1. HeapInv /\ ClockInv /\ AlarmInv /\ EndsInv /\ PacketInv /\ WatchInv
    BY DEF TimedInv
  <2>. DEFINE l == link_vector[n][p]
              u == ports[n][p].updated
              c == clean[l]
              now == global_time
  <2>2. now \in Nat /\ now < TIME_MOD
    BY TimeIsNat, ClockAssumption DEF SimInv, QueueInv, Time
  <2>3. u \in Nat
    <3>1. ports[n][p] \in PortRec
      BY DEF SimInv, PortsInv, TablesInv
    <3>. QED
      BY <3>1, TimeIsNat DEF PortRec
  <2>4. l \in Range(link_vector[n]) /\ l \in DOMAIN links
    <3>1. n \in NodeIds /\ link_vector[n] \in Seq(Nat)
      BY DEF SimInv, TablesInv
    <3>2. l \in Range(link_vector[n])
      BY <3>1 DEF PortsOf, Range
    <3>. QED
      BY <3>1, <3>2 DEF SimInv, TablesInv
  <2>5. c \in Nat
    BY <2>1, <2>4, TimeIsNat DEF WatchInv
  <2>6. ASSUME protocol_type = "DV", ports[n][p].connected
        PROVE  Age(now, u) <= 16
    <3>1. PICK a \in DOMAIN event_q : Pending(n, "e") = {a} /\ a.time \in Nat /\ now <= a.time
      BY <2>1, PendingTimes
    <3>2. u <= now /\ u >= a.time - 16
      <4>1. PortWatched(n, p)
        BY <2>1 DEF WatchInv
      <4>. QED
        BY <2>6, <3>1, <4>1 DEF PortWatched
    <3>. HIDE DEF u, now
    <3>3. Age(now, u) = now - u
      BY <2>2, <2>3, <3>2, AgeIs
    <3>. QED
      BY <2>2, <2>3, <3>1, <3>2, <3>3
  <2>7. ASSUME links[l].alive, now > c + 10 + 2 * MaxDelay
        PROVE  \E q \in PortsOf(n) : ports[n][q].connected /\ ports[n][q].to = Recipient(n, l)
    <3>1. now - 14 > c
      <4>. HIDE DEF c, now
      <4>1. now > c + 10 + 2 * 2
        BY <2>7 DEF MaxDelay
      <4>. QED
        BY <2>2, <2>5, <4>1
    <3>2. \A f \in DOMAIN event_q : now <= f.time
      BY <2>1 DEF ClockInv
    <3>3. Linked(n, Recipient(n, l), now - 14)
      BY <2>1, <2>2, <2>4, <2>7, <3>1, <3>2, WatchUntil
    <3>. QED
      BY <3>3 DEF Linked
  <2>. QED
    BY <2>6, <2>7
<1>. QED
  BY <1>1, <1>2, <1>3, Always, PTL DEF Spec
=============================================================================
