--------------------------- MODULE AckPathProofs ---------------------------
(***************************************************************************)
(* The 32-bit clock keeps the acknowledgements in order, for every file,   *)
(* window, length of the transfer and path, as long as the transfer begins *)
(* and ends in one cycle of the clock.                                     *)
(***************************************************************************)
EXTENDS AckPath, SeqSpaceProofs, FiniteSetTheorems, SequenceTheorems

\* An acknowledgement that was stamped at some time of the transfer.
Genuine(a, until) ==
  \E t \in START .. until : a.sec = t \div MILLION /\ a.usec = t % MILLION

\* The numbers are numbers.
CountInv ==
  /\ now \in START .. END
  /\ arrived \in Nat /\ sent \in Nat
  /\ heard \in [count : Nat, last : Ack]
  /\ net \in Seq(Ack)

\* What is under way, and what was taken last, was stamped by recvfile; of the
\* latter sendfile keeps the stamp.
StampInv ==
  /\ \A j \in 1 .. Len(net) : Genuine(net[j], now)
  /\ heard.count > 0 => Genuine(heard.last, now) /\ last_ack_time = Stamp(heard.last)

AckInv == CountInv /\ StampInv

-----------------------------------------------------------------------------
(* Arithmetic of the clock. *)

LEMMA DivRem ==
  ASSUME NEW x \in Nat, NEW w \in Nat \ {0}
  PROVE  /\ x = w * (x \div w) + (x % w)
         /\ x \div w \in Nat /\ x % w \in 0 .. w - 1
BY Z3

LEMMA SameCycle ==
  ASSUME NEW t \in Nat, START <= t, t <= END
  PROVE  t \div WORD = START \div WORD
BY ClockAssumption, Z3

LEMMA OrderInCycle ==
  ASSUME NEW x \in Nat, NEW y \in Nat, NEW w \in Nat \ {0},
         x \div w = y \div w
  PROVE  ((x % w) < (y % w)) <=> (x < y)
BY Z3

\* The two words of a genuine acknowledgement give the time back.
LEMMA SentInTransfer ==
  ASSUME NEW a, Genuine(a, now), now \in START .. END
  PROVE  /\ SentAt(a) \in START .. now
         /\ SentAt(a) \in Nat
         /\ SentAt(a) \div WORD = START \div WORD
<1>1. PICK t \in START .. now : a.sec = t \div MILLION /\ a.usec = t % MILLION
  BY DEF Genuine
<1>2. t \in Nat /\ now \in Nat /\ START <= t /\ t <= now /\ now <= END
  BY ClockAssumption
<1>3. t = MILLION * (t \div MILLION) + (t % MILLION)
  BY <1>2, DivRem, ClockAssumption
<1>4. SentAt(a) = t
  BY <1>1, <1>3 DEF SentAt
<1>5. t \div WORD = START \div WORD
  <2>1. t <= END
    BY <1>2, ClockAssumption
  <2>. QED
    BY <1>2, <2>1, SameCycle
<1>. QED
  BY <1>2, <1>4, <1>5

\* A genuine acknowledgement that is newer by its stamp was sent later.
LEMMA NewerIsLater ==
  ASSUME AckInv, NEW a, Genuine(a, now), Newer(a), heard.count > 0
  PROVE  SentAt(a) > SentAt(heard.last)
<1>1. now \in START .. END /\ Genuine(heard.last, now) /\ last_ack_time = Stamp(heard.last)
  BY DEF AckInv, CountInv, StampInv
<1>2. /\ SentAt(a) \in Nat /\ SentAt(heard.last) \in Nat
      /\ SentAt(a) \div WORD = SentAt(heard.last) \div WORD
  BY <1>1, SentInTransfer
<1>3. (SentAt(heard.last) % WORD) < (SentAt(a) % WORD)
  <2>1. /\ SentAt(a) % WORD \in Nat /\ SentAt(heard.last) % WORD \in Nat
    BY <1>2, ClockAssumption
  <2>. QED
    BY <1>1, <2>1 DEF Newer, Stamp
<1>4. SentAt(heard.last) < SentAt(a)
  BY <1>2, <1>3, OrderInCycle, ClockAssumption, Zenon
<1>. QED
  BY <1>2, <1>4

-----------------------------------------------------------------------------
(* The invariant. *)

\* What was stamped stays so as time goes on.
LEMMA StillGenuine ==
  ASSUME NEW a, Genuine(a, now), now \in Nat, now' \in Nat, now <= now'
  PROVE  Genuine(a, now')
<1>1. PICK t \in START .. now : a.sec = t \div MILLION /\ a.usec = t % MILLION
  BY DEF Genuine
<1>2. t \in START .. now'
  BY <1>1, ClockAssumption
<1>. QED
  BY <1>1, <1>2 DEF Genuine

\* recvfile's acknowledgement is stamped with the time of day.
LEMMA NewAck ==
  ASSUME CountInv, NEW n \in Nat
  PROVE  AckOf(n, now) \in Ack /\ Genuine(AckOf(n, now), now)
<1>1. now \in Nat /\ now \in START .. now
  BY ClockAssumption DEF CountInv
<1>2. now \div MILLION \in Nat /\ now % MILLION \in Nat
  BY <1>1, DivRem, ClockAssumption
<1>3. Mod((n % SEQ_LEN) - 1, SEQ_LEN) \in SeqNum
  <2>1. n % SEQ_LEN \in SeqNum
    BY ModRange
  <2>2. (n % SEQ_LEN) - 1 \in -1 .. 2 * SEQ_LEN - 1
    BY <2>1, WindowAssumption DEF SeqNum
  <2>3. Mod((n % SEQ_LEN) - 1, SEQ_LEN) = ((n % SEQ_LEN) - 1 + SEQ_LEN) % SEQ_LEN
    BY <2>2, ModIsRemainder
  <2>4. (n % SEQ_LEN) - 1 + SEQ_LEN \in Int
    BY <2>1, WindowAssumption DEF SeqNum
  <2>. QED
    BY <2>3, <2>4, ModRange
<1>. QED
  BY <1>1, <1>2, <1>3 DEF AckOf, Ack, Genuine

LEMMA RemovedAt ==
  ASSUME NEW S, NEW s \in Seq(S), NEW j \in 1 .. Len(s)
  PROVE  /\ RemoveAt(s, j) \in Seq(S)
         /\ Len(RemoveAt(s, j)) = Len(s) - 1
         /\ \A k \in 1 .. Len(s) - 1 :
              RemoveAt(s, j)[k] = s[IF k < j THEN k ELSE k + 1]
<1>. DEFINE a == SubSeq(s, 1, j - 1)
            b == SubSeq(s, j + 1, Len(s))
<1>1. /\ a \in Seq(S) /\ Len(a) = j - 1
      /\ \A k \in 1 .. j - 1 : a[k] = s[k]
  OBVIOUS
<1>2. /\ b \in Seq(S) /\ Len(b) = Len(s) - j
      /\ \A k \in 1 .. Len(s) - j : b[k] = s[j + k]
  OBVIOUS
<1>3. RemoveAt(s, j) = a \o b
  BY DEF RemoveAt
<1>. HIDE DEF a, b
<1>4. /\ a \o b \in Seq(S) /\ Len(a \o b) = Len(s) - 1
      /\ \A k \in 1 .. Len(s) - 1 :
           (a \o b)[k] = IF k <= j - 1 THEN a[k] ELSE b[k - (j - 1)]
  <2>1. /\ a \o b \in Seq(S) /\ Len(a \o b) = Len(a) + Len(b)
        /\ \A k \in 1 .. Len(a) + Len(b) :
             (a \o b)[k] = IF k <= Len(a) THEN a[k] ELSE b[k - Len(a)]
    BY <1>1, <1>2, ConcatProperties
  <2>2. Len(a) + Len(b) = Len(s) - 1
    BY <1>1, <1>2
  <2>. QED
    BY <1>1, <2>1, <2>2
<1>5. ASSUME NEW k \in 1 .. Len(s) - 1
      PROVE  (a \o b)[k] = s[IF k < j THEN k ELSE k + 1]
  <2>1. CASE k <= j - 1
    BY <1>1, <1>4, <2>1
  <2>2. CASE ~ (k <= j - 1)
    <3>1. k - (j - 1) \in 1 .. Len(s) - j /\ ~ (k < j)
      BY <2>2
    <3>2. (a \o b)[k] = b[k - (j - 1)] /\ j + (k - (j - 1)) = k + 1
      BY <1>4, <2>2
    <3>3. b[k - (j - 1)] = s[k + 1]
      BY <1>2, <3>1, <3>2
    <3>. QED
      BY <3>1, <3>2, <3>3
  <2>. QED
    BY <2>1, <2>2
<1>. QED
  BY <1>3, <1>4, <1>5

LEMMA RemovedOne ==
  ASSUME NEW S, NEW s \in Seq(S), NEW j \in 1 .. Len(s)
  PROVE  /\ RemoveAt(s, j) \in Seq(S)
         /\ \A k \in 1 .. Len(RemoveAt(s, j)) :
              \E i \in 1 .. Len(s) : RemoveAt(s, j)[k] = s[i]
<1>. DEFINE r == RemoveAt(s, j)
<1>1. /\ r \in Seq(S) /\ Len(r) = Len(s) - 1
      /\ \A k \in 1 .. Len(s) - 1 : r[k] = s[IF k < j THEN k ELSE k + 1]
  BY RemovedAt
<1>. HIDE DEF r
<1>2. \A k \in 1 .. Len(s) - 1 : (IF k < j THEN k ELSE k + 1) \in 1 .. Len(s)
  OBVIOUS
<1>3. \A k \in 1 .. Len(r) : \E i \in 1 .. Len(s) : r[k] = s[i]
  BY <1>1, <1>2
<1>. QED
  BY <1>1, <1>3 DEF r

LEMMA InitAck == Init => AckInv
<1>. SUFFICES ASSUME Init PROVE AckInv
  OBVIOUS
<1>1. now \in START .. END
  <2>1. START <= END
    BY ClockAssumption DEF Init
  <2>. QED
    BY <2>1, ClockAssumption DEF Init
<1>2. NoAck \in Ack
  BY WindowAssumption DEF NoAck, Ack, SeqNum
<1>. QED
  BY <1>1, <1>2 DEF Init, AckInv, CountInv, StampInv

LEMMA StepAck == AckInv /\ [Next]_vars => AckInv'
<1>. SUFFICES ASSUME AckInv, [Next]_vars PROVE AckInv'
  OBVIOUS
<1>. USE DEF AckInv
<1>0. now \in Nat
  BY ClockAssumption DEF CountInv
<1>1. CASE Tick
  <2>1. now' \in START .. END /\ now' \in Nat /\ now <= now'
    BY <1>0, <1>1, ClockAssumption DEF Tick, CountInv
  <2>2. \A a : Genuine(a, now) => Genuine(a, now')
    BY <1>0, <2>1, StillGenuine
  <2>3. CountInv'
    BY <1>1, <2>1 DEF Tick, CountInv
  <2>4. StampInv'
    BY <1>1, <2>2 DEF Tick, StampInv, Stamp, SentAt
  <2>. QED
    BY <2>3, <2>4
<1>2. CASE Acknowledge
  <2>. USE <1>2 DEF Acknowledge
  <2>1. PICK n \in arrived .. sent :
          /\ arrived' = n
          /\ net' = Append(net, AckOf(n, now)) \/ net' = net
    OBVIOUS
  <2>2. n \in Nat
    BY DEF CountInv
  <2>3. AckOf(n, now) \in Ack /\ Genuine(AckOf(n, now), now)
    BY <2>2, NewAck
  <2>4. /\ net' \in Seq(Ack)
        /\ \A j \in 1 .. Len(net') :
             net'[j] = AckOf(n, now) \/ (j \in 1 .. Len(net) /\ net'[j] = net[j])
    <3>1. net \in Seq(Ack)
      BY DEF CountInv
    <3>. DEFINE a == AckOf(n, now)
    <3>2. a \in Ack /\ (net' = Append(net, a) \/ net' = net)
      BY <2>1, <2>3
    <3>. HIDE DEF a
    <3>3. /\ net' \in Seq(Ack)
          /\ \A j \in 1 .. Len(net') :
               net'[j] = a \/ (j \in 1 .. Len(net) /\ net'[j] = net[j])
      BY <3>1, <3>2
    <3>. QED
      BY <3>3 DEF a
  <2>5. \A j \in 1 .. Len(net') : Genuine(net'[j], now)
    BY <2>3, <2>4 DEF StampInv
  <2>6. CountInv'
    BY <2>1, <2>2, <2>4 DEF CountInv
  <2>7. StampInv'
    BY <2>5 DEF StampInv, Genuine, Stamp, SentAt
  <2>. QED
    BY <2>6, <2>7
<1>3. CASE SendPacket
  <2>1. /\ sent' = sent + 1
        /\ UNCHANGED <<now, last_ack_time, arrived, net, heard>>
    BY <1>3 DEF SendPacket
  <2>. QED
    BY <2>1 DEF CountInv, StampInv, Genuine, Stamp, SentAt
<1>4. ASSUME NEW j \in 1 .. Len(net), Lost(j) \/ HearDamaged(j)
      PROVE  AckInv'
  <2>1. /\ net' = RemoveAt(net, j)
        /\ UNCHANGED <<now, last_ack_time, sent, arrived, heard>>
    BY <1>4 DEF Lost, HearDamaged
  <2>2. /\ net' \in Seq(Ack)
        /\ \A k \in 1 .. Len(net') : \E i \in 1 .. Len(net) : net'[k] = net[i]
    BY <2>1, RemovedOne DEF CountInv
  <2>3. CountInv'
    BY <2>1, <2>2 DEF CountInv
  <2>4. \A k \in 1 .. Len(net') : Genuine(net'[k], now)
    BY <2>2 DEF StampInv
  <2>5. StampInv'
    BY <2>1, <2>4 DEF StampInv, Genuine, Stamp, SentAt
  <2>. QED
    BY <2>3, <2>5
<1>5. ASSUME NEW j \in 1 .. Len(net), HearHello(j) \/ HearAck(j)
      PROVE  AckInv'
  <2>1. /\ last_ack_time' = Stamp(net[j])
        /\ heard' = [count |-> heard.count + 1, last |-> net[j]]
        /\ net' = net \/ net' = RemoveAt(net, j)
        /\ UNCHANGED <<now, sent, arrived>>
    BY <1>5 DEF HearHello, HearAck, Taken
  <2>2. /\ net' \in Seq(Ack)
        /\ \A k \in 1 .. Len(net') : \E i \in 1 .. Len(net) : net'[k] = net[i]
    BY <2>1, RemovedOne DEF CountInv
  <2>3. net[j] \in Ack /\ Genuine(net[j], now)
    BY DEF CountInv, StampInv
  <2>4. \A a : Genuine(a, now) => Genuine(a, now')
    BY <2>1 DEF Genuine
  <2>5. CountInv'
    BY <2>1, <2>2, <2>3 DEF CountInv
  <2>6. \A k \in 1 .. Len(net') : Genuine(net'[k], now')
    BY <2>2, <2>4 DEF StampInv
  <2>7. Genuine(heard'.last, now') /\ last_ack_time' = Stamp(heard'.last)
    BY <2>1, <2>3, <2>4 DEF Stamp, SentAt
  <2>. QED
    BY <2>5, <2>6, <2>7 DEF StampInv, Stamp, SentAt
<1>6. CASE UNCHANGED vars
  BY <1>6 DEF vars, CountInv, StampInv, Genuine, Stamp, SentAt
<1>. QED
  BY <1>1, <1>2, <1>3, <1>4, <1>5, <1>6 DEF Next

\* Whatever the path does, the clock and the acknowledgements stay in step.
THEOREM StampsGenuine == Spec => []AckInv
<1>. QED
  BY InitAck, StepAck, PTL DEF Spec

\* What sendfile takes, it takes in the order in which recvfile sent it
\* (sendfile.c:164), for every file and window and for transfers of any length
\* within a cycle of the clock.
THEOREM AcksInOrder == Spec => InOrder
<1>1. ASSUME AckInv, [Next]_vars
      PROVE  [heard' # heard /\ heard.count > 0
                => SentAt(heard'.last) > SentAt(heard.last)]_vars
  <2>. SUFFICES ASSUME Next, heard' # heard, heard.count > 0
                PROVE  SentAt(heard'.last) > SentAt(heard.last)
    BY <1>1
  <2>1. PICK j \in 1 .. Len(net) : HearHello(j) \/ HearAck(j)
    BY DEF Next, Tick, Acknowledge, SendPacket, Lost, HearDamaged
  <2>2. Newer(net[j]) /\ heard'.last = net[j]
    BY <2>1 DEF HearHello, HearAck, Taken
  <2>3. Genuine(net[j], now)
    BY <1>1 DEF AckInv, StampInv
  <2>. QED
    BY <1>1, <2>2, <2>3, NewerIsLater
<1>. QED
  BY <1>1, StampsGenuine, PTL DEF Spec, InOrder

-----------------------------------------------------------------------------
(* The window: every acknowledgement says how many packets recvfile had when *)
(* it was sent, its level, and sendfile never takes one for another.         *)

\* recvfile's number for n packets.
NumOf(n) == Mod((n % SEQ_LEN) - 1, SEQ_LEN)

\* The number of a level above what is acknowledged.
LEMMA NumAt ==
  ASSUME NEW b \in Nat, NEW e \in 0 .. WINDOW_LEN
  PROVE  /\ b % SEQ_LEN \in SeqNum
         /\ e >= 1 => NumOf(b + e) = ((b % SEQ_LEN) + (e - 1)) % SEQ_LEN
         /\ e = 0 => NumOf(b + e) = ((b % SEQ_LEN) + (SEQ_LEN - 1)) % SEQ_LEN
<1>. DEFINE m == (b + e) % SEQ_LEN
            la == b % SEQ_LEN
            f == e - 1
            g == SEQ_LEN - 1
<1>1. b \in Int /\ e \in Int /\ b + e \in Int /\ SEQ_LEN \in Int /\ f \in Int /\ g \in Int
      /\ (b + e) + g = (b + f) + SEQ_LEN /\ b + f \in Int
  BY WindowAssumption
<1>2. m \in SeqNum /\ la \in SeqNum
  BY <1>1, ModRange
<1>3. NumOf(b + e) = Mod(m - 1, SEQ_LEN)
  BY DEF NumOf
<1>4. la + f \in Int /\ (la + f) % SEQ_LEN = (b + f) % SEQ_LEN
  <2>1. \A x \in SeqNum : x + f \in Int
    BY <1>1 DEF SeqNum
  <2>2. (la + f) % SEQ_LEN = (b + f) % SEQ_LEN
    BY <1>1, ModAdd
  <2>. QED
    BY <1>2, <2>1, <2>2
<1>5. (m + g) % SEQ_LEN = ((b + e) + g) % SEQ_LEN
  BY <1>1, ModAdd
<1>6. ((b + f) + SEQ_LEN) % SEQ_LEN = (b + f) % SEQ_LEN
  BY <1>1, ModPeriod
<1>. HIDE DEF m, la
<1>7. Mod(m - 1, SEQ_LEN) = (m + g) % SEQ_LEN
  <2>1. m - 1 \in -1 .. 2 * SEQ_LEN - 1 /\ (m - 1) + SEQ_LEN = m + g
    BY <1>2, WindowAssumption DEF SeqNum
  <2>. QED
    BY <2>1, ModIsRemainder
<1>8. NumOf(b + e) = (la + f) % SEQ_LEN
  BY <1>1, <1>3, <1>4, <1>5, <1>6, <1>7
<1>9. ASSUME e = 0 PROVE (la + f) % SEQ_LEN = (la + g) % SEQ_LEN
  <2>1. (la + f) + SEQ_LEN = la + g
    BY <1>2, <1>9, WindowAssumption DEF SeqNum
  <2>. QED
    BY <1>4, <2>1, ModPeriod
<1>. QED
  BY <1>2, <1>8, <1>9 DEF m, la

\* sendfile counts the packets right: from the number of any level of its
\* window it makes that level.
LEMMA AckedByIsLevel ==
  ASSUME acked \in Nat, NEW e \in 0 .. WINDOW_LEN, NEW a, a.ack = NumOf(acked + e)
  PROVE  AckedBy(a) = e
<1>. DEFINE la == acked % SEQ_LEN
            h == WINDOW_LEN - 1
            f == e - 1
            g == SEQ_LEN - 1
<1>1. /\ la \in SeqNum
      /\ e >= 1 => a.ack = (la + f) % SEQ_LEN
      /\ e = 0 => a.ack = (la + g) % SEQ_LEN
  BY NumAt
<1>. HIDE DEF la
<1>2. /\ h \in SeqNum /\ g \in SeqNum /\ g > h
      /\ e >= 1 => f \in SeqNum /\ f <= h
  BY WindowAssumption DEF SeqNum
<1>3. WindowHigh(la) = (la + h) % SEQ_LEN
  <2>1. la + WINDOW_LEN - 1 = la + h
    BY <1>1, WindowAssumption DEF SeqNum
  <2>. QED
    BY <2>1 DEF WindowHigh
<1>. DEFINE seen == {i \in la .. la + WINDOW_LEN - 1 : Between(la, a.ack, i % SEQ_LEN)}
<1>4. AckedBy(a) = IF Between(la, WindowHigh(la), a.ack) THEN Cardinality(seen) ELSE 0
  BY DEF AckedBy, la
<1>5. CASE e = 0
  <2>. HIDE DEF g, h
  <2>1. Between(la, (la + h) % SEQ_LEN, (la + g) % SEQ_LEN) <=> g <= h
    BY <1>1, <1>2, BetweenOffset
  <2>2. ~ (g <= h)
    BY <1>2 DEF SeqNum
  <2>. QED
    BY <1>1, <1>3, <1>4, <1>5, <2>1, <2>2
<1>6. CASE e >= 1
  <2>. HIDE DEF f, h, g
  <2>1. Between(la, WindowHigh(la), a.ack)
    <3>1. Between(la, (la + h) % SEQ_LEN, (la + f) % SEQ_LEN) <=> f <= h
      BY <1>1, <1>2, <1>6, BetweenOffset
    <3>. QED
      BY <1>1, <1>2, <1>3, <1>6, <3>1
  <2>2. ASSUME NEW i \in la .. la + WINDOW_LEN - 1
        PROVE  Between(la, a.ack, i % SEQ_LEN) <=> i <= la + f
    <3>. DEFINE x == i - la
    <3>1. i \in Int /\ x \in SeqNum /\ i = la + x
      BY <1>1, <2>2, WindowAssumption DEF SeqNum
    <3>2. x <= f <=> i <= la + f
      BY <1>1, <1>2, <1>6, <3>1, WindowAssumption DEF SeqNum
    <3>. HIDE DEF x
    <3>3. Between(la, (la + f) % SEQ_LEN, (la + x) % SEQ_LEN) <=> x <= f
      BY <1>1, <1>2, <1>6, <3>1, BetweenOffset
    <3>. QED
      BY <1>1, <1>6, <3>1, <3>2, <3>3
  <2>3. seen = la .. la + f
    <3>1. \A i \in Int : i \in la .. la + WINDOW_LEN - 1 /\ i <= la + f
                           <=> i \in la .. la + f
      BY <1>1, <1>2, <1>6, WindowAssumption DEF SeqNum, h
    <3>. QED
      BY <2>2, <3>1
  <2>4. Cardinality(la .. la + f) = e
    <3>1. la \in Int /\ la + f \in Int /\ ~ (la > la + f) /\ (la + f) - la + 1 = e
      BY <1>1, <1>2, <1>6, WindowAssumption DEF SeqNum, f
    <3>. QED
      BY <3>1, FS_Interval
  <2>. QED
    BY <1>4, <2>1, <2>3, <2>4
<1>. QED
  BY <1>5, <1>6

\* The levels of the acknowledgements in flight: none is above what arrived,
\* one that is newer than the last is not below what is acknowledged, and one
\* that was sent later is not below one that was sent earlier.
Levels(level) ==
  /\ level \in [1 .. Len(net) -> Nat]
  /\ \A j \in 1 .. Len(net) : level[j] <= arrived /\ net[j].ack = NumOf(level[j])
  /\ \A j \in 1 .. Len(net) : Newer(net[j]) => acked <= level[j]
  /\ \A j, k \in 1 .. Len(net) : SentAt(net[j]) < SentAt(net[k]) => level[j] <= level[k]

\* The counters of both sides.
WindowInv ==
  /\ acked \in Nat /\ arrived \in Nat /\ sent \in Nat
  /\ acked <= arrived /\ arrived <= sent /\ sent <= acked + WINDOW_LEN
  /\ s_pc \in {"hello", "data", "misled"}
  /\ s_pc = "hello" => sent = 0
  /\ last_ack_time \in Nat /\ last_ack_time < WORD
  /\ \E level : Levels(level)

\* In one cycle of the clock the stamps have the order of the times.
LEMMA StampOrder ==
  ASSUME CountInv, NEW a, NEW b, Genuine(a, now), Genuine(b, now)
  PROVE  /\ (Stamp(a) < Stamp(b)) <=> (SentAt(a) < SentAt(b))
         /\ Stamp(a) \in Nat /\ Stamp(a) < WORD
         /\ SentAt(a) \in Nat /\ SentAt(b) \in Nat /\ SentAt(a) <= now
<1>1. /\ SentAt(a) \in START .. now /\ SentAt(a) \in Nat /\ SentAt(b) \in Nat
      /\ SentAt(a) \div WORD = SentAt(b) \div WORD
  BY SentInTransfer DEF CountInv
<1>2. ((SentAt(a) % WORD) < (SentAt(b) % WORD)) <=> (SentAt(a) < SentAt(b))
  BY <1>1, OrderInCycle, ClockAssumption, Zenon
<1>3. SentAt(a) % WORD \in 0 .. WORD - 1
  BY <1>1, DivRem, ClockAssumption
<1>4. SentAt(a) <= now
  BY <1>1, ClockAssumption DEF CountInv
<1>. QED
  BY <1>1, <1>2, <1>3, <1>4, ClockAssumption DEF Stamp

\* Some of the acknowledgements keep their levels.
LEMMA SomeKeepLevels ==
  ASSUME NEW level, Levels(level),
         NEW p \in [1 .. Len(net') -> 1 .. Len(net)],
         \A k \in 1 .. Len(net') : net'[k] = net[p[k]],
         arrived' = arrived,
         \A k \in 1 .. Len(net) : Stamp(net[k]) > last_ack_time' => acked' <= level[k]
  PROVE  (\E l : Levels(l))'
<1>1. PICK l \in [1 .. Len(net') -> Nat] : \A k \in 1 .. Len(net') : l[k] = level[p[k]]
  <2>. DEFINE m == [k \in 1 .. Len(net') |-> level[p[k]]]
  <2>1. m \in [1 .. Len(net') -> Nat] /\ \A k \in 1 .. Len(net') : m[k] = level[p[k]]
    BY DEF Levels
  <2>. QED
    BY <2>1
<1>2. \A k \in 1 .. Len(net') : l[k] <= arrived' /\ net'[k].ack = NumOf(l[k])
  BY <1>1 DEF Levels
<1>3. \A k \in 1 .. Len(net') : Stamp(net'[k]) > last_ack_time' => acked' <= l[k]
  BY <1>1
<1>4. ASSUME NEW j \in 1 .. Len(net'), NEW k \in 1 .. Len(net'),
             SentAt(net'[j]) < SentAt(net'[k])
      PROVE  l[j] <= l[k]
  <2>1. p[j] \in 1 .. Len(net) /\ p[k] \in 1 .. Len(net)
    OBVIOUS
  <2>2. SentAt(net[p[j]]) < SentAt(net[p[k]])
    BY <1>4
  <2>3. level[p[j]] <= level[p[k]]
    BY <2>1, <2>2 DEF Levels
  <2>. QED
    BY <1>1, <2>3
<1>5. Levels(l)'
  BY <1>1, <1>2, <1>3, <1>4 DEF Levels, Newer, Stamp, SentAt, NumOf
<1>. QED
  BY <1>5

\* Where the acknowledgements of the path come from when one is taken out.
LEMMA Places ==
  ASSUME CountInv, NEW j \in 1 .. Len(net), net' \in {net, RemoveAt(net, j)}
  PROVE  \E p \in [1 .. Len(net') -> 1 .. Len(net)] :
           \A k \in 1 .. Len(net') : net'[k] = net[p[k]]
<1>0. net \in Seq(Ack)
  BY DEF CountInv
<1>1. CASE net' = net
  <2>. DEFINE p == [k \in 1 .. Len(net) |-> k]
  <2>1. p \in [1 .. Len(net') -> 1 .. Len(net)] /\ \A k \in 1 .. Len(net') : net'[k] = net[p[k]]
    BY <1>1
  <2>. QED
    BY <2>1
<1>2. CASE net' = RemoveAt(net, j)
  <2>. DEFINE p == [k \in 1 .. Len(net) - 1 |-> IF k < j THEN k ELSE k + 1]
  <2>1. /\ Len(net') = Len(net) - 1
        /\ \A k \in 1 .. Len(net) - 1 : net'[k] = net[IF k < j THEN k ELSE k + 1]
    BY <1>0, <1>2, RemovedAt
  <2>2. \A k \in 1 .. Len(net) - 1 : (IF k < j THEN k ELSE k + 1) \in 1 .. Len(net)
    BY <1>0
  <2>3. p \in [1 .. Len(net') -> 1 .. Len(net)] /\ \A k \in 1 .. Len(net') : net'[k] = net[p[k]]
    BY <2>1, <2>2
  <2>. QED
    BY <2>3
<1>. QED
  BY <1>1, <1>2

\* sendfile takes the j-th: what is newer from then on was sent later.
LEMMA TakenKeepsLevels ==
  ASSUME AckInv, NEW level, Levels(level), NEW j \in 1 .. Len(net), Taken(j),
         arrived' = arrived, acked' <= level[j], acked' \in Nat
  PROVE  /\ (\E l : Levels(l))'
         /\ last_ack_time' \in Nat /\ last_ack_time' < WORD
<1>1. /\ last_ack_time' = Stamp(net[j])
      /\ net' \in {net, RemoveAt(net, j)}
  BY DEF Taken
<1>2. \A k \in 1 .. Len(net) : Genuine(net[k], now)
  BY DEF AckInv, StampInv
<1>3. /\ Stamp(net[j]) \in Nat /\ Stamp(net[j]) < WORD
      /\ \A k \in 1 .. Len(net) :
           (Stamp(net[j]) < Stamp(net[k])) => (SentAt(net[j]) < SentAt(net[k]))
  BY <1>2, StampOrder DEF AckInv
<1>4. \A k \in 1 .. Len(net) : Stamp(net[k]) \in Nat
  BY <1>2, StampOrder DEF AckInv
<1>5. ASSUME NEW k \in 1 .. Len(net), Stamp(net[k]) > last_ack_time'
      PROVE  acked' <= level[k]
  <2>1. SentAt(net[j]) < SentAt(net[k])
    BY <1>1, <1>3, <1>4, <1>5
  <2>2. level[j] <= level[k] /\ level[j] \in Nat /\ level[k] \in Nat
    BY <2>1 DEF Levels
  <2>. QED
    BY <2>2
<1>6. PICK p \in [1 .. Len(net') -> 1 .. Len(net)] :
        \A k \in 1 .. Len(net') : net'[k] = net[p[k]]
  BY <1>1, Places DEF AckInv
<1>. QED
  BY <1>1, <1>3, <1>5, <1>6, SomeKeepLevels

\* recvfile's acknowledgement has the highest level of all.
LEMMA NewLevel ==
  ASSUME AckInv, WindowInv, Acknowledge
  PROVE  (\E l : Levels(l))' /\ arrived' \in arrived .. sent
<1>1. PICK n \in arrived .. sent :
        /\ arrived' = n
        /\ net' = Append(net, AckOf(n, now)) \/ net' = net
  BY DEF Acknowledge
<1>2. /\ arrived \in Nat /\ acked \in Nat /\ n \in Nat /\ arrived <= n /\ acked <= n
      /\ net \in Seq(Ack) /\ Len(net) \in Nat
      /\ acked' = acked /\ last_ack_time' = last_ack_time
  BY <1>1 DEF WindowInv, AckInv, CountInv, Acknowledge
<1>3. PICK level : Levels(level)
  BY DEF WindowInv
<1>4. /\ level \in [1 .. Len(net) -> Nat]
      /\ \A j \in 1 .. Len(net) : level[j] <= n /\ net[j].ack = NumOf(level[j])
      /\ \A j \in 1 .. Len(net) : Newer(net[j]) => acked <= level[j]
      /\ \A j, k \in 1 .. Len(net) : SentAt(net[j]) < SentAt(net[k]) => level[j] <= level[k]
  BY <1>2, <1>3 DEF Levels
<1>5. CASE net' = net
  <2>1. Levels(level)'
    BY <1>1, <1>2, <1>4, <1>5 DEF Levels, Newer, Stamp, SentAt, NumOf
  <2>. QED
    BY <1>1, <2>1
<1>6. CASE net' = Append(net, AckOf(n, now))
  <2>. DEFINE N == Len(net) + 1
              a == AckOf(n, now)
  <2>1. a \in Ack /\ Genuine(a, now) /\ a.ack = NumOf(n)
    <3>1. a \in Ack /\ Genuine(a, now)
      BY <1>2, NewAck DEF AckInv
    <3>. QED
      BY <3>1 DEF AckOf, NumOf
  <2>. HIDE DEF a
  <2>2. /\ Len(net') = N /\ net'[N] = a /\ N \in 1 .. N
        /\ \A j \in 1 .. N : j # N => j \in 1 .. Len(net) /\ net'[j] = net[j]
    BY <1>2, <1>6, <2>1 DEF a
  <2>3. PICK l \in [1 .. N -> Nat] :
          l[N] = n /\ \A j \in 1 .. N : j # N => l[j] = level[j]
    <3>. DEFINE m == [j \in 1 .. N |-> IF j = N THEN n ELSE level[j]]
    <3>1. m \in [1 .. N -> Nat]
      BY <1>2, <1>4, <2>2
    <3>2. m[N] = n /\ \A j \in 1 .. N : j # N => m[j] = level[j]
      BY <2>2
    <3>. QED
      BY <3>1, <3>2
  <2>4. /\ SentAt(a) = now
        /\ \A j \in 1 .. Len(net) : SentAt(net[j]) \in Nat /\ SentAt(net[j]) <= now
    <3>1. \A j \in 1 .. Len(net) : Genuine(net[j], now)
      BY DEF AckInv, StampInv
    <3>2. now = MILLION * (now \div MILLION) + (now % MILLION)
      <4>1. now \in Nat /\ MILLION \in Nat \ {0}
        BY ClockAssumption DEF AckInv, CountInv
      <4>. QED
        BY <4>1, DivRem, Zenon
    <3>3. SentAt(a) = now
      BY <3>2 DEF SentAt, AckOf, a
    <3>. QED
      BY <3>1, <3>3, StampOrder DEF AckInv
  <2>. HIDE DEF N
  <2>5. \A j \in 1 .. N : l[j] <= n /\ net'[j].ack = NumOf(l[j])
    BY <1>2, <1>4, <2>1, <2>2, <2>3
  <2>6. \A j \in 1 .. N : Newer(net'[j]) => acked <= l[j]
    BY <1>2, <1>4, <2>2, <2>3
  <2>7. ASSUME NEW j \in 1 .. N, NEW k \in 1 .. N, SentAt(net'[j]) < SentAt(net'[k])
        PROVE  l[j] <= l[k]
    <3>1. CASE k = N
      BY <1>2, <2>3, <2>5, <3>1
    <3>2. CASE k # N /\ j # N
      <4>1. SentAt(net[j]) < SentAt(net[k]) /\ j \in 1 .. Len(net) /\ k \in 1 .. Len(net)
        BY <2>2, <2>7, <3>2
      <4>2. level[j] <= level[k]
        BY <1>4, <4>1
      <4>. QED
        BY <2>3, <3>2, <4>2
    <3>3. CASE k # N /\ j = N
      <4>1. k \in 1 .. Len(net) /\ now < SentAt(net[k])
        BY <2>2, <2>4, <2>7, <3>3
      <4>2. SentAt(net[k]) \in Nat /\ SentAt(net[k]) <= now /\ now \in Nat
        BY <2>4, <4>1, ClockAssumption DEF AckInv, CountInv
      <4>. QED
        BY <4>1, <4>2
    <3>. QED
      BY <3>1, <3>2, <3>3
  <2>8. Levels(l)'
    BY <1>1, <1>2, <2>2, <2>3, <2>5, <2>6, <2>7 DEF Levels, Newer, Stamp, SentAt, NumOf
  <2>. QED
    BY <1>1, <2>8
<1>. QED
  BY <1>1, <1>5, <1>6

\* Nothing that levels speak of changes, or more arrives.
LEMMA FrameLevels ==
  ASSUME WindowInv, UNCHANGED <<net, arrived, acked, last_ack_time>>
  PROVE  (\E l : Levels(l))'
<1>1. PICK level : Levels(level)
  BY DEF WindowInv
<1>2. Levels(level)'
  BY <1>1 DEF Levels, Newer, Stamp, SentAt, NumOf
<1>. QED
  BY <1>2

\* The acknowledgement that sendfile takes in the data phase has a level, and
\* the window moves up to it.
LEMMA HeardLevel ==
  ASSUME WindowInv, NEW level, Levels(level), NEW j \in 1 .. Len(net), Newer(net[j])
  PROVE  /\ level[j] \in acked .. arrived
         /\ acked + AckedBy(net[j]) = level[j]
         /\ AckedBy(net[j]) \in Nat
<1>1. /\ acked \in Nat /\ arrived \in Nat /\ arrived <= acked + WINDOW_LEN /\ WINDOW_LEN \in Nat
      /\ level[j] \in Nat /\ acked <= level[j] /\ level[j] <= arrived
      /\ net[j].ack = NumOf(level[j])
  BY WindowAssumption DEF WindowInv, Levels
<1>2. PICK e \in 0 .. WINDOW_LEN : level[j] = acked + e
  <2>1. level[j] - acked \in 0 .. WINDOW_LEN /\ level[j] = acked + (level[j] - acked)
    BY <1>1
  <2>. QED
    BY <2>1
<1>3. AckedBy(net[j]) = e
  BY <1>1, <1>2, AckedByIsLevel
<1>. QED
  BY <1>1, <1>2, <1>3

LEMMA Slide ==
  \A a, b, s, w \in Nat : a <= b /\ s <= a + w => s <= b + w
OBVIOUS

LEMMA InitWindow == Init => WindowInv
<1>. SUFFICES ASSUME Init PROVE WindowInv
  OBVIOUS
<1>1. Len(net) = 0
  BY DEF Init
<1>2. Levels([j \in 1 .. Len(net) |-> 0])
  BY <1>1 DEF Levels
<1>. QED
  BY <1>2, WindowAssumption, ClockAssumption DEF Init, WindowInv

LEMMA StepWindow == AckInv /\ WindowInv /\ [Next]_vars => WindowInv'
<1>. SUFFICES ASSUME AckInv, WindowInv, [Next]_vars PROVE WindowInv'
  OBVIOUS
<1>0. /\ acked \in Nat /\ arrived \in Nat /\ sent \in Nat /\ WINDOW_LEN \in Nat
      /\ acked <= arrived /\ arrived <= sent /\ sent <= acked + WINDOW_LEN
      /\ s_pc \in {"hello", "data", "misled"}
      /\ s_pc = "hello" => sent = 0
      /\ last_ack_time \in Nat /\ last_ack_time < WORD
  BY WindowAssumption DEF WindowInv
<1>1. CASE Tick \/ UNCHANGED vars
  <2>1. UNCHANGED <<s_pc, sent, net, arrived, acked, last_ack_time>>
    BY <1>1 DEF Tick, vars
  <2>. QED
    BY <1>0, <2>1, FrameLevels DEF WindowInv
<1>2. CASE Acknowledge
  <2>1. (\E l : Levels(l))' /\ arrived' \in arrived .. sent
    BY <1>2, NewLevel
  <2>2. UNCHANGED <<s_pc, sent, acked, last_ack_time>>
    BY <1>2 DEF Acknowledge
  <2>3. arrived' \in Nat /\ arrived <= arrived' /\ arrived' <= sent
    BY <1>0, <2>1
  <2>. QED
    BY <1>0, <2>1, <2>2, <2>3 DEF WindowInv
<1>3. CASE SendPacket
  <2>1. /\ s_pc = "data" /\ sent' = sent + 1 /\ sent < acked + WINDOW_LEN
        /\ UNCHANGED <<s_pc, net, arrived, acked, last_ack_time>>
    BY <1>3 DEF SendPacket
  <2>2. sent' \in Nat /\ arrived <= sent' /\ sent' <= acked + WINDOW_LEN
    BY <1>0, <2>1
  <2>. QED
    BY <1>0, <2>1, <2>2, FrameLevels DEF WindowInv
<1>4. ASSUME NEW j \in 1 .. Len(net), Lost(j) \/ HearDamaged(j)
      PROVE  WindowInv'
  <2>1. /\ net' = RemoveAt(net, j)
        /\ UNCHANGED <<last_ack_time, acked, sent, arrived>>
        /\ s_pc' = s_pc \/ s_pc' = "misled"
    BY <1>4 DEF Lost, HearDamaged
  <2>2. PICK level : Levels(level)
    BY DEF WindowInv
  <2>3. PICK p \in [1 .. Len(net') -> 1 .. Len(net)] :
          \A k \in 1 .. Len(net') : net'[k] = net[p[k]]
    BY <2>1, Places DEF AckInv
  <2>4. \A k \in 1 .. Len(net) : Stamp(net[k]) > last_ack_time' => acked' <= level[k]
    BY <2>1, <2>2 DEF Levels, Newer
  <2>5. (\E l : Levels(l))'
    BY <2>1, <2>2, <2>3, <2>4, SomeKeepLevels
  <2>. QED
    BY <1>0, <2>1, <2>5 DEF WindowInv
<1>5. ASSUME NEW j \in 1 .. Len(net), HearHello(j)
      PROVE  WindowInv'
  <2>1. /\ s_pc = "hello" /\ s_pc' = "data" /\ Taken(j)
        /\ UNCHANGED <<acked, sent, arrived>>
    BY <1>5 DEF HearHello
  <2>2. PICK level : Levels(level)
    BY DEF WindowInv
  <2>3. level[j] \in Nat /\ acked' = 0
    BY <1>0, <2>1, <2>2 DEF Levels
  <2>4. /\ (\E l : Levels(l))'
        /\ last_ack_time' \in Nat /\ last_ack_time' < WORD
    BY <2>1, <2>2, <2>3, TakenKeepsLevels
  <2>. QED
    BY <1>0, <2>1, <2>4 DEF WindowInv
<1>6. ASSUME NEW j \in 1 .. Len(net), HearAck(j)
      PROVE  WindowInv'
  <2>1. /\ s_pc = "data" /\ Newer(net[j]) /\ Taken(j)
        /\ acked' = acked + AckedBy(net[j])
        /\ UNCHANGED <<s_pc, sent, arrived>>
    BY <1>6 DEF HearAck
  <2>2. PICK level : Levels(level)
    BY DEF WindowInv
  <2>3. level[j] \in acked .. arrived /\ acked' = level[j]
    BY <2>1, <2>2, HeardLevel
  <2>4. /\ acked' \in Nat /\ acked <= acked' /\ acked' <= arrived /\ acked' <= level[j]
    BY <1>0, <2>3
  <2>5. /\ (\E l : Levels(l))'
        /\ last_ack_time' \in Nat /\ last_ack_time' < WORD
    BY <2>1, <2>2, <2>4, TakenKeepsLevels
  <2>6. sent <= acked' + WINDOW_LEN
    <3>1. /\ acked \in Nat /\ acked' \in Nat /\ sent \in Nat /\ WINDOW_LEN \in Nat
          /\ acked <= acked' /\ sent <= acked + WINDOW_LEN
      BY <1>0, <2>4
    <3>. QED
      BY <3>1, Slide
  <2>. QED
    BY <1>0, <2>1, <2>4, <2>5, <2>6 DEF WindowInv
<1>. QED
  BY <1>1, <1>2, <1>3, <1>4, <1>5, <1>6 DEF Next

\* Whatever the path does, the levels are kept.
THEOREM LevelsKept == Spec => [](AckInv /\ WindowInv)
<1>. QED
  BY InitAck, StepAck, InitWindow, StepWindow, PTL DEF Spec

\* What is acknowledged has arrived, what arrived was sent, and no more than a
\* window is outstanding (sendfile.c:164 and :186): an acknowledgement that the
\* path holds back, doubles or brings in another order, and that the comparison
\* of timestamps lets pass, never moves the window beyond what recvfile has.
THEOREM AckTypes == Spec => []TypeOK
<1>1. AckInv /\ WindowInv => TypeOK
  <2>. SUFFICES ASSUME AckInv, WindowInv PROVE TypeOK
    OBVIOUS
  <2>1. /\ acked \in 0 .. arrived /\ arrived \in 0 .. sent
        /\ sent \in acked .. acked + WINDOW_LEN
        /\ last_ack_time \in 0 .. WORD - 1
    BY WindowAssumption, ClockAssumption DEF WindowInv
  <2>. QED
    BY <2>1 DEF TypeOK, AckInv, CountInv, WindowInv
<1>. QED
  BY <1>1, LevelsKept, PTL

-----------------------------------------------------------------------------
(* Induction, without an operator for the formula that is proved: it is a    *)
(* set of numbers.                                                           *)

LEMMA LeastElement ==
  ASSUME NEW T, T \subseteq Nat, T # {}
  PROVE  \E m \in T : \A n \in T : m <= n
<1>. DEFINE U == {0 .. n : n \in T}
<1>1. U \subseteq FiniteSubsetsOf(Nat)
  <2>1. \A n \in Nat : IsFiniteSet(0 .. n) /\ (0 .. n) \subseteq Nat
    BY FS_Interval
  <2>. QED
    BY <2>1 DEF FiniteSubsetsOf
<1>2. U # {}
  OBVIOUS
<1>3. IsWellFoundedOn(StrictSubsetOrdering(Nat), FiniteSubsetsOf(Nat))
  BY FS_StrictSubsetOrderingWellFounded
<1>. HIDE DEF U
<1>4. PICK u \in U : \A v \in U : ~ (<<v, u>> \in StrictSubsetOrdering(Nat))
  BY <1>1, <1>2, <1>3, WFMin, Zenon
<1>5. PICK m \in T : u = 0 .. m
  BY DEF U
<1>6. ASSUME NEW n \in T, n < m
      PROVE  FALSE
  <2>1. m \in Nat /\ n \in Nat
    OBVIOUS
  <2>2. (0 .. n) \in SUBSET (0 .. m) /\ m \in 0 .. m /\ m \notin 0 .. n
    BY <1>6, <2>1
  <2>3. (0 .. n) \in U
    BY DEF U
  <2>4. <<0 .. n, 0 .. m>> \in StrictSubsetOrdering(Nat)
    BY <2>1, <2>2 DEF StrictSubsetOrdering
  <2>. QED
    BY <1>4, <1>5, <2>3, <2>4
<1>. QED
  BY <1>6

LEMMA SetInduction ==
  ASSUME NEW T, 0 \in T, \A n \in Nat : n \in T => n + 1 \in T
  PROVE  Nat \subseteq T
<1>. SUFFICES ASSUME Nat \ T # {} PROVE FALSE
  OBVIOUS
<1>1. PICK m \in Nat \ T : \A n \in Nat \ T : m <= n
  BY LeastElement
<1>2. m - 1 \in Nat /\ m - 1 \in T
  BY <1>1
<1>3. (m - 1) + 1 \in T
  BY <1>2
<1>. QED
  BY <1>1, <1>2, <1>3

-----------------------------------------------------------------------------
(* The linked list: what the recursive function of fix_queue.h computes.     *)

\* One step along the next fields.
Onward(nx, x) == IF x = NULL THEN NULL ELSE nx[x]

\* The nodes that lie up to k steps from r.
IsWalk(at, nx, r, k) == at = [j \in 0 .. k |-> IF j = 0 THEN r ELSE Onward(nx, at[j - 1])]

\* Steps of the module, for any next fields.
Walk(nx, r, k) ==
  LET at[j \in 0 .. k] ==
        IF j = 0 THEN r ELSE LET x == at[j - 1] IN IF x = NULL THEN NULL ELSE nx[x]
  IN at[k]

LEMMA StepsWalk == \A r, k : Steps(r, k) = Walk(next, r, k)
BY DEF Steps, Walk

LEMMA StepsWalkNext == \A k : Steps(root, k)' = Walk(next', root', k)
BY DEF Steps, Walk

\* Such a walk has its nodes one after another.
LEMMA WalkNodes ==
  ASSUME NEW nx, NEW r, NEW k \in Nat, NEW at, IsWalk(at, nx, r, k)
  PROVE  /\ at[0] = r
         /\ \A j \in 0 .. k : j + 1 \in 0 .. k => at[j + 1] = Onward(nx, at[j])
<1>1. \A j \in 0 .. k : at[j] = IF j = 0 THEN r ELSE Onward(nx, at[j - 1])
  BY DEF IsWalk
<1>2. at[0] = r
  BY <1>1
<1>3. ASSUME NEW j \in 0 .. k, j + 1 \in 0 .. k
      PROVE  at[j + 1] = Onward(nx, at[j])
  <2>1. j + 1 # 0 /\ (j + 1) - 1 = j
    OBVIOUS
  <2>2. at[j + 1] = IF j + 1 = 0 THEN r ELSE Onward(nx, at[(j + 1) - 1])
    BY <1>1, <1>3
  <2>. QED
    BY <2>1, <2>2
<1>. QED
  BY <1>2, <1>3

\* Two walks from one node are the same as far as both go.
LEMMA WalkUnique ==
  ASSUME NEW nx, NEW r, NEW k \in Nat, NEW l \in Nat, NEW at, NEW bt,
         IsWalk(at, nx, r, k), IsWalk(bt, nx, r, l), NEW j \in 0 .. k, j <= l
  PROVE  at[j] = bt[j]
<1>. DEFINE T == {i \in Nat : i <= k /\ i <= l => at[i] = bt[i]}
<1>1. 0 \in T
  BY WalkNodes
<1>2. ASSUME NEW n \in Nat, n \in T
      PROVE  n + 1 \in T
  <2>1. ASSUME n + 1 <= k, n + 1 <= l
        PROVE  at[n + 1] = bt[n + 1]
    <3>1. /\ n \in 0 .. k /\ n + 1 \in 0 .. k /\ n \in 0 .. l /\ n + 1 \in 0 .. l
          /\ at[n] = bt[n]
      BY <1>2, <2>1
    <3>2. at[n + 1] = Onward(nx, at[n])
      BY <3>1, WalkNodes
    <3>3. bt[n + 1] = Onward(nx, bt[n])
      BY <3>1, WalkNodes
    <3>. QED
      BY <3>1, <3>2, <3>3
  <2>. QED
    BY <2>1
<1>. HIDE DEF T
<1>3. j \in T
  BY <1>1, <1>2, SetInduction
<1>. QED
  BY <1>3 DEF T

\* There is a walk of any length.
LEMMA WalkExists ==
  ASSUME NEW nx, NEW r, NEW k \in Nat
  PROVE  \E at : IsWalk(at, nx, r, k)
<1>. DEFINE T == {i \in Nat : \E at : IsWalk(at, nx, r, i)}
<1>1. 0 \in T
  <2>. DEFINE at == [j \in 0 .. 0 |-> r]
  <2>1. IsWalk(at, nx, r, 0)
    <3>1. \A j \in 0 .. 0 : j = 0
      OBVIOUS
    <3>. QED
      BY <3>1 DEF IsWalk
  <2>. QED
    BY <2>1
<1>2. ASSUME NEW n \in Nat, n \in T
      PROVE  n + 1 \in T
  <2>1. PICK at : IsWalk(at, nx, r, n)
    BY <1>2
  <2>2. /\ at = [j \in 0 .. n |-> IF j = 0 THEN r ELSE Onward(nx, at[j - 1])]
        /\ \A j \in 0 .. n : at[j] = IF j = 0 THEN r ELSE Onward(nx, at[j - 1])
    BY <2>1 DEF IsWalk
  <2>. DEFINE bt == [j \in 0 .. n + 1 |-> IF j = n + 1 THEN Onward(nx, at[n]) ELSE at[j]]
  <2>3. ASSUME NEW j \in 0 .. n + 1
        PROVE  bt[j] = IF j = 0 THEN r ELSE Onward(nx, bt[j - 1])
    <3>1. CASE j = 0
      <4>1. j # n + 1 /\ j \in 0 .. n
        BY <3>1
      <4>. QED
        BY <2>2, <3>1, <4>1
    <3>2. CASE j # 0 /\ j # n + 1
      <4>1. j \in 0 .. n /\ j - 1 \in 0 .. n /\ j - 1 # n + 1 /\ j - 1 \in 0 .. n + 1
        BY <3>2
      <4>2. bt[j] = at[j] /\ bt[j - 1] = at[j - 1]
        BY <3>2, <4>1
      <4>. QED
        BY <2>2, <3>2, <4>1, <4>2
    <3>3. CASE j = n + 1
      <4>1. j - 1 = n /\ j # 0 /\ n # n + 1 /\ n \in 0 .. n + 1
        BY <3>3
      <4>2. bt[j] = Onward(nx, at[n]) /\ bt[n] = at[n]
        BY <3>3, <4>1
      <4>. QED
        BY <4>1, <4>2
    <3>. QED
      BY <3>1, <3>2, <3>3
  <2>. HIDE DEF bt
  <2>4. bt = [j \in 0 .. n + 1 |-> bt[j]]
    BY DEF bt
  <2>5. IsWalk(bt, nx, r, n + 1)
    BY <2>3, <2>4 DEF IsWalk
  <2>. QED
    BY <2>5
<1>. HIDE DEF T
<1>3. k \in T
  BY <1>1, <1>2, SetInduction
<1>. QED
  BY <1>3 DEF T

\* The recursive function does what it says.
LEMMA WalkStep ==
  ASSUME NEW nx, NEW r, NEW k \in Nat
  PROVE  /\ Walk(nx, r, 0) = r
         /\ Walk(nx, r, k + 1) = Onward(nx, Walk(nx, r, k))
<1>1. ASSUME NEW n \in Nat
      PROVE  \E at : IsWalk(at, nx, r, n) /\ Walk(nx, r, n) = at[n]
  <2>. DEFINE c == CHOOSE at : IsWalk(at, nx, r, n)
  <2>1. IsWalk(c, nx, r, n)
    BY WalkExists
  <2>2. Walk(nx, r, n) = c[n]
    BY DEF Walk, IsWalk, Onward
  <2>. QED
    BY <2>1, <2>2
<1>2. PICK zt : IsWalk(zt, nx, r, 0) /\ Walk(nx, r, 0) = zt[0]
  BY <1>1
<1>3. Walk(nx, r, 0) = r
  BY <1>2, WalkNodes
<1>4. PICK at : IsWalk(at, nx, r, k) /\ Walk(nx, r, k) = at[k]
  BY <1>1
<1>5. k + 1 \in Nat /\ k \in 0 .. k /\ k \in 0 .. k + 1 /\ k + 1 \in 0 .. k + 1 /\ k <= k + 1
  OBVIOUS
<1>6. PICK bt : IsWalk(bt, nx, r, k + 1) /\ Walk(nx, r, k + 1) = bt[k + 1]
  BY <1>1, <1>5
<1>7. at[k] = bt[k]
  BY <1>4, <1>5, <1>6, WalkUnique
<1>8. bt[k + 1] = Onward(nx, bt[k])
  BY <1>5, <1>6, WalkNodes
<1>. QED
  BY <1>3, <1>4, <1>6, <1>7, <1>8

\* Walking on from where a walk ended.
LEMMA WalkOn ==
  ASSUME NEW nx, NEW r, NEW d \in Nat, NEW k \in Nat
  PROVE  Walk(nx, Walk(nx, r, d), k) = Walk(nx, r, d + k)
<1>. DEFINE m == Walk(nx, r, d)
            T == {i \in Nat : Walk(nx, m, i) = Walk(nx, r, d + i)}
<1>1. 0 \in T
  BY WalkStep
<1>2. ASSUME NEW n \in Nat, n \in T
      PROVE  n + 1 \in T
  <2>1. d + n \in Nat /\ d + (n + 1) = (d + n) + 1
    OBVIOUS
  <2>2. Walk(nx, m, n + 1) = Onward(nx, Walk(nx, m, n))
    BY WalkStep
  <2>3. Walk(nx, r, (d + n) + 1) = Onward(nx, Walk(nx, r, d + n))
    BY <2>1, WalkStep
  <2>. QED
    BY <1>2, <2>1, <2>2, <2>3
<1>. HIDE DEF T
<1>3. k \in T
  BY <1>1, <1>2, SetInduction
<1>. QED
  BY <1>3 DEF T

\* Past the end there is nothing.
LEMMA WalkEnds ==
  ASSUME NEW nx, NEW r, NEW n \in Nat, Walk(nx, r, n) = NULL, NEW k \in Nat, n <= k
  PROVE  Walk(nx, r, k) = NULL
<1>. DEFINE T == {i \in Nat : Walk(nx, r, n + i) = NULL}
<1>1. 0 \in T
  OBVIOUS
<1>2. ASSUME NEW i \in Nat, i \in T
      PROVE  i + 1 \in T
  <2>1. n + i \in Nat /\ n + (i + 1) = (n + i) + 1
    OBVIOUS
  <2>2. Walk(nx, r, (n + i) + 1) = Onward(nx, Walk(nx, r, n + i))
    BY <2>1, WalkStep
  <2>. QED
    BY <1>2, <2>1, <2>2 DEF Onward
<1>. HIDE DEF T
<1>3. k - n \in Nat
  OBVIOUS
<1>4. k - n \in T
  BY <1>1, <1>2, <1>3, SetInduction
<1>5. n + (k - n) = k
  OBVIOUS
<1>. QED
  BY <1>4, <1>5 DEF T

\* A walk does not notice changes where it has not been.
LEMMA WalkSame ==
  ASSUME NEW nx, NEW ny, NEW r, NEW k \in Nat,
         \A j \in 0 .. k - 1 : nx[Walk(nx, r, j)] = ny[Walk(nx, r, j)]
  PROVE  Walk(ny, r, k) = Walk(nx, r, k)
<1>. DEFINE T == {i \in Nat : i <= k => Walk(ny, r, i) = Walk(nx, r, i)}
<1>1. 0 \in T
  BY WalkStep
<1>2. ASSUME NEW n \in Nat, n \in T
      PROVE  n + 1 \in T
  <2>1. ASSUME n + 1 <= k
        PROVE  Walk(ny, r, n + 1) = Walk(nx, r, n + 1)
    <3>1. n \in 0 .. k - 1 /\ n <= k
      BY <2>1
    <3>2. Walk(ny, r, n) = Walk(nx, r, n)
      BY <1>2, <3>1
    <3>3. /\ Walk(nx, r, n + 1) = Onward(nx, Walk(nx, r, n))
          /\ Walk(ny, r, n + 1) = Onward(ny, Walk(ny, r, n))
      BY WalkStep
    <3>4. nx[Walk(nx, r, n)] = ny[Walk(nx, r, n)]
      BY <3>1
    <3>. QED
      BY <3>2, <3>3, <3>4 DEF Onward
  <2>. QED
    BY <2>1
<1>. HIDE DEF T
<1>3. k \in T
  BY <1>1, <1>2, SetInduction
<1>. QED
  BY <1>3 DEF T

-----------------------------------------------------------------------------
(* sendfile's queue.                                                         *)

QueueInv ==
  /\ root \in Nodes \cup {NULL}
  /\ next \in [Nodes -> Nodes \cup {NULL}]
  /\ data \in [Nodes -> Nat]
  /\ live \subseteq Nodes
  /\ QueueKept

\* A list of n nodes for the packets behind the b-th, and no node beside it.
IsList(nx, r, d, l, b, n) ==
  /\ n \in Nat
  /\ \A k \in 0 .. n - 1 : Walk(nx, r, k) \in l /\ d[Walk(nx, r, k)] = b + k + 1
  /\ Walk(nx, r, n) = NULL
  /\ l = {Walk(nx, r, k) : k \in 0 .. n - 1}

LEMMA KeptIsList ==
  ASSUME sent - acked \in Nat
  PROVE  QueueKept <=> IsList(next, root, data, live, acked, sent - acked)
BY StepsWalk DEF QueueKept, IsList

LEMMA KeptIsListNext ==
  ASSUME (sent - acked)' \in Nat
  PROVE  QueueKept' <=> IsList(next', root', data', live', acked', (sent - acked)')
BY StepsWalkNext DEF QueueKept, IsList

\* No node is twice in the list.
LEMMA ListInjective ==
  ASSUME NEW nx, NEW r, NEW d, NEW l, NEW b \in Nat, NEW n, IsList(nx, r, d, l, b, n),
         NEW j \in 0 .. n - 1, NEW k \in 0 .. n - 1, Walk(nx, r, j) = Walk(nx, r, k)
  PROVE  j = k
<1>1. d[Walk(nx, r, j)] = b + j + 1 /\ d[Walk(nx, r, k)] = b + k + 1 /\ n \in Nat
  BY DEF IsList
<1>2. b + j + 1 = b + k + 1
  BY <1>1
<1>. QED
  BY <1>1, <1>2

\* How many nodes there are is counted right, if none of them is NULL.
LEMMA ListLength ==
  ASSUME NEW b \in Nat, NEW n, IsList(next, root, data, live, b, n), live \subseteq Nodes
  PROVE  Length(root) = n
<1>. DEFINE N == Cardinality(Nodes)
            f == [k \in 0 .. n - 1 |-> Walk(next, root, k)]
<1>1. n \in Nat /\ N \in Nat
  BY NodesAssumption, FS_CardinalityType DEF IsList
<1>2. Cardinality(0 .. n - 1) = n
  <2>1. 0 \in Int /\ n - 1 \in Int /\ (IF 0 > n - 1 THEN 0 ELSE (n - 1) - 0 + 1) = n
    BY <1>1
  <2>. QED
    BY <2>1, FS_Interval
<1>3. n <= N
  <2>1. f \in [0 .. n - 1 -> Nodes]
    BY DEF IsList
  <2>2. \A j, k \in 0 .. n - 1 : f[j] = f[k] => j = k
    BY ListInjective
  <2>. HIDE DEF f
  <2>3. f \in Injection(0 .. n - 1, Nodes)
    BY <2>1, <2>2 DEF Injection, IsInjective
  <2>4. Cardinality(0 .. n - 1) <= Cardinality(Nodes)
    BY <2>3, NodesAssumption, FS_Injection
  <2>. QED
    BY <1>2, <2>4
<1>4. ASSUME NEW k \in 0 .. N - 1
      PROVE  Steps(root, k) # NULL <=> k \in 0 .. n - 1
  <2>1. Steps(root, k) = Walk(next, root, k) /\ k \in Nat
    BY StepsWalk
  <2>2. CASE k \in 0 .. n - 1
    BY <2>1, <2>2, NodesAssumption DEF IsList
  <2>3. CASE k \notin 0 .. n - 1
    <3>1. n <= k /\ Walk(next, root, n) = NULL
      BY <1>1, <2>1, <2>3 DEF IsList
    <3>2. Walk(next, root, k) = NULL
      BY <1>1, <2>1, <3>1, WalkEnds
    <3>. QED
      BY <2>1, <2>3, <3>2
  <2>. QED
    BY <2>2, <2>3
<1>. HIDE DEF N
<1>5. {k \in 0 .. N - 1 : Steps(root, k) # NULL} = 0 .. n - 1
  BY <1>1, <1>3, <1>4
<1>. QED
  BY <1>2, <1>5 DEF Length, N

\* A node more, behind the last.
LEMMA EnqueueKeepsList ==
  ASSUME QueueInv, NEW b \in Nat, NEW n, IsList(next, root, data, live, b, n),
         NEW x \in Nodes \ live, NEW p \in Nat, p = b + n + 1, Enqueue(x, p)
  PROVE  /\ IsList(next', root', data', live', b, n + 1)
         /\ root' \in Nodes \cup {NULL}
         /\ next' \in [Nodes -> Nodes \cup {NULL}]
         /\ data' \in [Nodes -> Nat]
         /\ live' \subseteq Nodes
<1>1. /\ n \in Nat /\ n + 1 \in Nat /\ x \in Nodes /\ x # NULL
      /\ live' = live \cup {x}
      /\ data' = [data EXCEPT ![x] = p]
      /\ next \in [Nodes -> Nodes \cup {NULL}] /\ data \in [Nodes -> Nat] /\ live \subseteq Nodes
      /\ root \in Nodes \cup {NULL}
  BY NodesAssumption DEF Enqueue, QueueInv, IsList
<1>2. /\ data' \in [Nodes -> Nat] /\ live' \subseteq Nodes /\ data'[x] = p
      /\ \A y \in live : data'[y] = data[y]
  BY <1>1
<1>3. /\ \A k \in 0 .. n - 1 : Walk(next, root, k) \in live /\ data[Walk(next, root, k)] = b + k + 1
      /\ Walk(next, root, n) = NULL
      /\ live = {Walk(next, root, k) : k \in 0 .. n - 1}
  BY DEF IsList
<1>4. /\ root' \in Nodes \cup {NULL}
      /\ next' \in [Nodes -> Nodes \cup {NULL}]
      /\ next'[x] = NULL
      /\ Walk(next', root', n) = x
      /\ \A k \in 0 .. n - 1 : Walk(next', root', k) = Walk(next, root, k)
  <2>1. CASE n = 0
    <3>1. root = NULL
      BY <1>3, <2>1, WalkStep
    <3>2. root' = x /\ next' = [next EXCEPT ![x] = NULL]
      BY <3>1 DEF Enqueue
    <3>3. Walk(next', root', 0) = root'
      BY WalkStep
    <3>. QED
      BY <1>1, <2>1, <3>2, <3>3
  <2>2. CASE n > 0
    <3>. DEFINE z == Walk(next, root, n - 1)
    <3>1. n - 1 \in Nat /\ n - 1 \in 0 .. n - 1 /\ 0 \in 0 .. n - 1 /\ (n - 1) + 1 = n
      BY <1>1, <2>2
    <3>2. root # NULL
      <4>1. Walk(next, root, 0) = root
        BY WalkStep
      <4>. QED
        BY <1>1, <1>3, <3>1, <4>1, NodesAssumption
    <3>3. Length(root) = n
      BY <1>1, ListLength
    <3>4. Steps(root, n - 1) = z
      BY StepsWalk
    <3>5. root' = root /\ next' = [next EXCEPT ![x] = NULL, ![z] = x]
      BY <3>2, <3>3, <3>4 DEF Enqueue
    <3>6. z \in live /\ z \in Nodes /\ z # x /\ z # NULL
      BY <1>1, <1>3, <3>1, NodesAssumption
    <3>7. ASSUME NEW j \in 0 .. n - 2
          PROVE  Walk(next, root, j) # z
      <4>1. j \in 0 .. n - 1 /\ j # n - 1
        BY <1>1
      <4>. QED
        BY <3>1, <4>1, ListInjective
    <3>. HIDE DEF z
    <3>8. /\ next' \in [Nodes -> Nodes \cup {NULL}] /\ next'[x] = NULL /\ next'[z] = x
          /\ \A y \in live : y # z => next'[y] = next[y]
      BY <1>1, <3>5, <3>6
    <3>9. ASSUME NEW k \in 0 .. n - 1
          PROVE  Walk(next', root, k) = Walk(next, root, k)
      <4>1. k \in Nat /\ \A j \in 0 .. k - 1 : j \in 0 .. n - 1 /\ j \in 0 .. n - 2
        BY <1>1
      <4>2. \A j \in 0 .. k - 1 : next[Walk(next, root, j)] = next'[Walk(next, root, j)]
        BY <1>3, <3>7, <3>8, <4>1
      <4>. QED
        BY <4>1, <4>2, WalkSame
    <3>10. Walk(next', root, n) = x
      <4>1. Walk(next', root, (n - 1) + 1) = Onward(next', Walk(next', root, n - 1))
        BY <3>1, WalkStep
      <4>2. Walk(next', root, n - 1) = z
        BY <3>1, <3>9 DEF z
      <4>. QED
        BY <3>1, <3>6, <3>8, <4>1, <4>2 DEF Onward
    <3>. QED
      BY <1>1, <3>5, <3>8, <3>9, <3>10
  <2>. QED
    BY <1>1, <2>1, <2>2
<1>5. Walk(next', root', n + 1) = NULL
  <2>1. Walk(next', root', n + 1) = Onward(next', Walk(next', root', n))
    BY <1>1, WalkStep
  <2>. QED
    BY <1>1, <1>4, <2>1 DEF Onward
<1>6. ASSUME NEW k \in 0 .. (n + 1) - 1
      PROVE  Walk(next', root', k) \in live' /\ data'[Walk(next', root', k)] = b + k + 1
  <2>1. CASE k = n
    BY <1>1, <1>2, <1>4, <2>1
  <2>2. CASE k # n
    <3>1. k \in 0 .. n - 1
      BY <1>1, <2>2
    <3>. QED
      BY <1>1, <1>2, <1>3, <1>4, <3>1
  <2>. QED
    BY <2>1, <2>2
<1>7. live' = {Walk(next', root', k) : k \in 0 .. (n + 1) - 1}
  <2>1. \A k : k \in 0 .. (n + 1) - 1 <=> k \in 0 .. n - 1 \/ k = n
    BY <1>1
  <2>. QED
    BY <1>1, <1>3, <1>4, <2>1
<1>. QED
  BY <1>1, <1>2, <1>4, <1>5, <1>6, <1>7 DEF IsList

\* The first nodes of the list are freed.
LEMMA DequeueKeepsList ==
  ASSUME QueueInv, NEW b \in Nat, NEW n, IsList(next, root, data, live, b, n),
         NEW e \in 0 .. n, Dequeue(e)
  PROVE  /\ IsList(next', root', data', live', b + e, n - e)
         /\ root' \in Nodes \cup {NULL}
         /\ next' \in [Nodes -> Nodes \cup {NULL}]
         /\ data' \in [Nodes -> Nat]
         /\ live' \subseteq Nodes
<1>1. /\ n \in Nat /\ e \in Nat /\ n - e \in Nat /\ e <= n
      /\ root' = Walk(next, root, e)
      /\ live' = live \ {Walk(next, root, k) : k \in 0 .. e - 1}
      /\ next' = next /\ data' = data
  BY StepsWalk DEF Dequeue, IsList
<1>2. /\ \A k \in 0 .. n - 1 : Walk(next, root, k) \in live /\ data[Walk(next, root, k)] = b + k + 1
      /\ Walk(next, root, n) = NULL
      /\ live = {Walk(next, root, k) : k \in 0 .. n - 1}
  BY DEF IsList
<1>3. \A k \in Nat : Walk(next', root', k) = Walk(next, root, e + k)
  BY <1>1, WalkOn
<1>4. ASSUME NEW k \in 0 .. (n - e) - 1
      PROVE  /\ Walk(next', root', k) \in live'
             /\ data'[Walk(next', root', k)] = (b + e) + k + 1
  <2>1. k \in Nat /\ e + k \in 0 .. n - 1 /\ b + (e + k) + 1 = (b + e) + k + 1
    BY <1>1
  <2>2. Walk(next, root, e + k) \notin {Walk(next, root, j) : j \in 0 .. e - 1}
    <3>1. \A j \in 0 .. e - 1 : j \in 0 .. n - 1 /\ j # e + k
      BY <1>1, <2>1
    <3>. QED
      BY <2>1, <3>1, ListInjective
  <2>. QED
    BY <1>1, <1>2, <1>3, <2>1, <2>2
<1>5. Walk(next', root', n - e) = NULL
  BY <1>1, <1>2, <1>3
<1>6. live' \subseteq {Walk(next', root', k) : k \in 0 .. (n - e) - 1}
  <2>. SUFFICES ASSUME NEW y \in live'
                PROVE  \E k \in 0 .. (n - e) - 1 : y = Walk(next', root', k)
    OBVIOUS
  <2>1. PICK j \in 0 .. n - 1 : y = Walk(next, root, j)
    BY <1>1, <1>2
  <2>2. j \notin 0 .. e - 1
    BY <1>1, <2>1
  <2>3. j - e \in 0 .. (n - e) - 1 /\ j - e \in Nat /\ e + (j - e) = j
    BY <1>1, <2>2
  <2>4. y = Walk(next', root', j - e)
    BY <1>3, <2>1, <2>3
  <2>. QED
    BY <2>3, <2>4
<1>7. root' \in Nodes \cup {NULL}
  <2>1. CASE e = n
    BY <1>1, <1>2, <2>1
  <2>2. CASE e # n
    <3>1. e \in 0 .. n - 1
      BY <1>1, <2>2
    <3>. QED
      BY <1>1, <1>2, <3>1 DEF QueueInv
  <2>. QED
    BY <2>1, <2>2
<1>8. live' = {Walk(next', root', k) : k \in 0 .. (n - e) - 1}
  BY <1>4, <1>6
<1>9. IsList(next', root', data', live', b + e, n - e)
  BY <1>1, <1>4, <1>5, <1>8 DEF IsList
<1>. QED
  BY <1>1, <1>7, <1>9 DEF QueueInv

LEMMA InitQueue == Init => QueueInv
<1>. SUFFICES ASSUME Init PROVE QueueInv
  OBVIOUS
<1>1. /\ root = NULL /\ sent = 0 /\ acked = 0 /\ live = {} /\ sent - acked = 0
      /\ next = [x \in Nodes |-> NULL] /\ data = [x \in Nodes |-> 0]
  BY DEF Init, QueueInit
<1>2. Walk(next, root, 0) = NULL
  BY <1>1, WalkStep
<1>3. IsList(next, root, data, live, 0, 0)
  <2>1. 0 .. 0 - 1 = {}
    OBVIOUS
  <2>. QED
    BY <1>1, <1>2, <2>1 DEF IsList
<1>. QED
  BY <1>1, <1>3, KeptIsList DEF QueueInv

LEMMA StepQueue == AckInv /\ WindowInv /\ QueueInv /\ [Next]_vars => QueueInv'
<1>. SUFFICES ASSUME AckInv, WindowInv, QueueInv, [Next]_vars PROVE QueueInv'
  OBVIOUS
<1>. DEFINE n == sent - acked
<1>1. /\ acked \in Nat /\ arrived \in Nat /\ sent \in Nat
      /\ acked <= arrived /\ arrived <= sent /\ n \in Nat
  BY DEF WindowInv
<1>2. IsList(next, root, data, live, acked, n)
  BY <1>1, KeptIsList DEF QueueInv
<1>3. CASE UNCHANGED <<root, next, data, live, acked, sent>>
  <2>1. (sent - acked)' = n
    BY <1>3
  <2>2. IsList(next', root', data', live', acked', (sent - acked)')
    BY <1>2, <1>3, <2>1, Zenon
  <2>3. QueueKept'
    BY <1>1, <2>1, <2>2, KeptIsListNext
  <2>. QED
    BY <1>3, <2>3 DEF QueueInv
<1>4. CASE SendPacket
  <2>1. /\ sent' = sent + 1 /\ acked' = acked
        /\ Steps(root, n) = NULL
    BY <1>2, <1>4, StepsWalk DEF SendPacket, IsList
  <2>2. PICK x \in Nodes \ live : Enqueue(x, sent')
    BY <1>4, <2>1 DEF SendPacket, GetK
  <2>3. sent' \in Nat /\ sent' = acked + n + 1 /\ (sent - acked)' = n + 1 /\ n + 1 \in Nat
    BY <1>1, <2>1
  <2>. HIDE DEF n
  <2>4. /\ IsList(next', root', data', live', acked, n + 1)
        /\ root' \in Nodes \cup {NULL}
        /\ next' \in [Nodes -> Nodes \cup {NULL}]
        /\ data' \in [Nodes -> Nat]
        /\ live' \subseteq Nodes
    BY <1>1, <1>2, <2>2, <2>3, EnqueueKeepsList
  <2>5. QueueKept'
    BY <2>1, <2>3, <2>4, KeptIsListNext
  <2>. QED
    BY <2>4, <2>5 DEF QueueInv
<1>5. ASSUME NEW j \in 1 .. Len(net), HearAck(j)
      PROVE  QueueInv'
  <2>. DEFINE e == AckedBy(net[j])
  <2>1. Newer(net[j]) /\ acked' = acked + e /\ Dequeue(e) /\ sent' = sent
    BY <1>5 DEF HearAck
  <2>2. PICK level : Levels(level)
    BY DEF WindowInv
  <2>3. level[j] \in acked .. arrived /\ acked + e = level[j] /\ e \in Nat
    BY <2>1, <2>2, HeardLevel
  <2>. HIDE DEF e
  <2>4. e \in 0 .. n /\ (sent - acked)' = n - e /\ n - e \in Nat
    BY <1>1, <2>1, <2>3
  <2>. HIDE DEF n
  <2>5. /\ IsList(next', root', data', live', acked + e, n - e)
        /\ root' \in Nodes \cup {NULL}
        /\ next' \in [Nodes -> Nodes \cup {NULL}]
        /\ data' \in [Nodes -> Nat]
        /\ live' \subseteq Nodes
    BY <1>1, <1>2, <2>1, <2>4, DequeueKeepsList
  <2>6. QueueKept'
    BY <2>1, <2>4, <2>5, KeptIsListNext
  <2>. QED
    BY <2>5, <2>6 DEF QueueInv
<1>6. ASSUME NEW j \in 1 .. Len(net), Lost(j) \/ HearHello(j) \/ HearDamaged(j)
      PROVE  UNCHANGED <<root, next, data, live, acked, sent>>
  BY <1>6 DEF Lost, HearHello, HearDamaged, queueVars
<1>7. ASSUME Tick \/ Acknowledge \/ UNCHANGED vars
      PROVE  UNCHANGED <<root, next, data, live, acked, sent>>
  BY <1>7 DEF Tick, Acknowledge, vars, queueVars
<1>. QED
  BY <1>3, <1>4, <1>5, <1>6, <1>7 DEF Next

\* The linked list of fix_queue.h, node by node, is the packets that are not
\* acknowledged, in their order; it has an end, none of its nodes was freed,
\* and no node is left over (sendfile.c:186).
THEOREM ListKept == Spec => []QueueKept
<1>1. QueueInv => QueueKept
  BY DEF QueueInv
<1>. QED
  BY <1>1, InitAck, StepAck, InitWindow, StepWindow, InitQueue, StepQueue, PTL DEF Spec

-----------------------------------------------------------------------------
(* The refinement: what is newer than the last acknowledgement was sent last, *)
(* so that it is the channel's sequence.                                      *)

\* The path's acknowledgements stand in the order of sending.
OrderInv ==
  \A i, j \in 1 .. Len(net) : i < j => SentAt(net[i]) <= SentAt(net[j])

\* Those behind the s-th, and only they, are newer than the time.
FreshFrom(nt, time, s) ==
  /\ s \in 0 .. Len(nt)
  /\ \A j \in 1 .. Len(nt) : Stamp(nt[j]) > time <=> j > s

LastAcks(nt, s) == [k \in 1 .. Len(nt) - s |-> nt[s + k].ack]

LEMMA InitOrder == Init => OrderInv
BY DEF Init, OrderInv

LEMMA StepOrder == AckInv /\ OrderInv /\ [Next]_vars => OrderInv'
<1>. SUFFICES ASSUME AckInv, OrderInv, [Next]_vars PROVE OrderInv'
  OBVIOUS
<1>1. net \in Seq(Ack) /\ now \in Nat /\ \A j \in 1 .. Len(net) : Genuine(net[j], now)
  BY ClockAssumption DEF AckInv, CountInv, StampInv
<1>2. CASE net' = net
  BY <1>2 DEF OrderInv, SentAt
<1>3. CASE Acknowledge
  <2>1. PICK n \in arrived .. sent : net' = Append(net, AckOf(n, now)) \/ net' = net
    BY <1>3 DEF Acknowledge
  <2>. DEFINE a == AckOf(n, now)
  <2>2. SentAt(a) = now
    <3>1. MILLION \in Nat \ {0}
      BY ClockAssumption
    <3>2. now = MILLION * (now \div MILLION) + (now % MILLION)
      BY <1>1, <3>1, DivRem, Zenon
    <3>. QED
      BY <3>2 DEF SentAt, AckOf
  <2>. HIDE DEF a
  <2>3. CASE net' = Append(net, a)
    <3>1. \A j \in 1 .. Len(net) : SentAt(net[j]) <= now
      BY <1>1, StampOrder DEF AckInv
    <3>2. /\ Len(net') = Len(net) + 1 /\ net'[Len(net) + 1] = a
          /\ \A j \in 1 .. Len(net) : net'[j] = net[j]
      BY <1>1, <2>3
    <3>3. ASSUME NEW i \in 1 .. Len(net'), NEW j \in 1 .. Len(net'), i < j
          PROVE  SentAt(net'[i]) <= SentAt(net'[j])
      <4>1. i \in 1 .. Len(net) /\ net'[i] = net[i]
        BY <1>1, <3>2, <3>3
      <4>2. CASE j = Len(net) + 1
        BY <2>2, <3>1, <3>2, <4>1, <4>2
      <4>3. CASE j # Len(net) + 1
        <5>1. j \in 1 .. Len(net) /\ net'[j] = net[j]
          BY <1>1, <3>2, <4>3
        <5>2. SentAt(net[i]) <= SentAt(net[j])
          BY <3>3, <4>1, <5>1 DEF OrderInv
        <5>. QED
          BY <4>1, <5>1, <5>2
      <4>. QED
        BY <4>2, <4>3
    <3>. QED
      BY <3>3 DEF OrderInv, SentAt
  <2>. QED
    BY <1>2, <2>1, <2>3 DEF a
<1>4. ASSUME NEW j \in 1 .. Len(net), net' = RemoveAt(net, j)
      PROVE  OrderInv'
  <2>1. /\ Len(net') = Len(net) - 1
        /\ \A k \in 1 .. Len(net) - 1 : net'[k] = net[IF k < j THEN k ELSE k + 1]
    BY <1>1, <1>4, RemovedAt
  <2>2. ASSUME NEW i \in 1 .. Len(net'), NEW k \in 1 .. Len(net'), i < k
        PROVE  SentAt(net'[i]) <= SentAt(net'[k])
    <3>1. PICK x \in 1 .. Len(net) : x = IF i < j THEN i ELSE i + 1
      BY <1>1, <2>1
    <3>2. PICK y \in 1 .. Len(net) : y = IF k < j THEN k ELSE k + 1
      BY <1>1, <2>1
    <3>3. x < y
      BY <2>2, <3>1, <3>2
    <3>4. net'[i] = net[x] /\ net'[k] = net[y]
      BY <1>1, <2>1, <3>1, <3>2
    <3>. QED
      BY <3>3, <3>4 DEF OrderInv
  <2>. QED
    BY <2>2 DEF OrderInv, SentAt
<1>. QED
  BY <1>2, <1>3, <1>4
  DEF Next, Tick, SendPacket, Lost, HearHello, HearAck, HearDamaged, Taken, vars

\* What is newer stands at the end.
LEMMA FreshAreLast ==
  ASSUME AckInv, OrderInv, NEW time \in Nat
  PROVE  \E s \in Nat : FreshFrom(net, time, s)
<1>. DEFINE F == {j \in 1 .. Len(net) : Stamp(net[j]) > time}
<1>1. Len(net) \in Nat /\ F \subseteq Nat
  BY DEF AckInv, CountInv
<1>2. CASE F = {}
  <2>1. FreshFrom(net, time, Len(net))
    BY <1>1, <1>2 DEF FreshFrom
  <2>. QED
    BY <1>1, <2>1
<1>3. CASE F # {}
  <2>. HIDE DEF F
  <2>1. PICK m \in F : \A j \in F : m <= j
    BY <1>1, <1>3, LeastElement
  <2>2. m \in 1 .. Len(net) /\ Stamp(net[m]) > time
    BY DEF F
  <2>3. ASSUME NEW j \in 1 .. Len(net)
        PROVE  Stamp(net[j]) > time <=> j > m - 1
    <3>1. ASSUME Stamp(net[j]) > time
          PROVE  j > m - 1
      <4>1. j \in F
        BY <3>1 DEF F
      <4>. QED
        BY <1>1, <2>1, <2>2, <4>1
    <3>2. ASSUME j > m - 1
          PROVE  Stamp(net[j]) > time
      <4>1. CASE j = m
        BY <2>2, <4>1
      <4>2. CASE j # m
        <5>1. SentAt(net[m]) <= SentAt(net[j])
          BY <1>1, <2>2, <3>2, <4>2 DEF OrderInv
        <5>2. /\ (Stamp(net[j]) < Stamp(net[m])) <=> (SentAt(net[j]) < SentAt(net[m]))
              /\ SentAt(net[j]) \in Nat /\ SentAt(net[m]) \in Nat
              /\ Stamp(net[j]) \in Nat /\ Stamp(net[m]) \in Nat
          BY <2>2, StampOrder DEF AckInv, StampInv
        <5>3. ~ (SentAt(net[j]) < SentAt(net[m]))
          BY <5>1, <5>2
        <5>4. ~ (Stamp(net[j]) < Stamp(net[m]))
          BY <5>2, <5>3
        <5>. QED
          BY <2>2, <5>2, <5>4
      <4>. QED
        BY <4>1, <4>2
    <3>. QED
      BY <3>1, <3>2
  <2>4. m - 1 \in Nat /\ m - 1 \in 0 .. Len(net)
    BY <1>1, <2>2
  <2>5. FreshFrom(net, time, m - 1)
    BY <2>3, <2>4 DEF FreshFrom
  <2>. QED
    BY <2>4, <2>5
<1>. QED
  BY <1>2, <1>3

\* What the sender may still take is the end of what is under way.
UsableOf(nt, time) ==
  LET fresh == Cardinality({j \in DOMAIN nt : Stamp(nt[j]) > time})
  IN [k \in 1 .. fresh |-> nt[Len(nt) - fresh + k].ack]

LEMMA UsableIsOf == Usable = UsableOf(net, last_ack_time)
BY DEF Usable, UsableOf, Newer

LEMMA UsableIsOfNext == Usable' = UsableOf(net', last_ack_time')
BY DEF Usable, UsableOf, Newer, Stamp, SentAt

LEMMA UsableLast ==
  ASSUME NEW nt \in Seq(Ack), NEW time, NEW s \in Nat, FreshFrom(nt, time, s)
  PROVE  /\ UsableOf(nt, time) = LastAcks(nt, s)
         /\ LastAcks(nt, s) \in Seq(SeqNum)
         /\ Len(LastAcks(nt, s)) = Len(nt) - s
         /\ s <= Len(nt)
         /\ \A k \in 1 .. Len(nt) - s : s + k \in 1 .. Len(nt) /\ LastAcks(nt, s)[k] = nt[s + k].ack
<1>. DEFINE F == {j \in DOMAIN nt : Stamp(nt[j]) > time}
            fresh == Cardinality(F)
<1>1. Len(nt) \in Nat /\ s <= Len(nt) /\ DOMAIN nt = 1 .. Len(nt)
  BY DEF FreshFrom
<1>2. F = s + 1 .. Len(nt)
  BY <1>1 DEF FreshFrom
<1>. HIDE DEF F
<1>3. fresh = Len(nt) - s
  <2>. DEFINE n == Len(nt)
  <2>1. n \in Nat /\ s \in Nat /\ s <= n
    BY <1>1
  <2>. HIDE DEF n
  <2>2. s + 1 \in Int /\ n \in Int
        /\ (s + 1 > n => 0 = n - s) /\ n - (s + 1) + 1 = n - s
    BY <2>1
  <2>3. Cardinality(s + 1 .. n) = IF s + 1 > n THEN 0 ELSE n - (s + 1) + 1
    BY <2>2, FS_Interval
  <2>4. Cardinality(s + 1 .. n) = n - s
    BY <2>2, <2>3
  <2>. QED
    BY <1>2, <2>4 DEF n
<1>4. UsableOf(nt, time) = [k \in 1 .. fresh |-> nt[Len(nt) - fresh + k].ack]
  BY DEF UsableOf, F
<1>. HIDE DEF fresh
<1>5. fresh \in Nat /\ Len(nt) - fresh = s
  BY <1>1, <1>3
<1>6. UsableOf(nt, time) = LastAcks(nt, s)
  BY <1>3, <1>4, <1>5 DEF LastAcks
<1>7. \A k \in 1 .. Len(nt) - s : s + k \in 1 .. Len(nt) /\ nt[s + k].ack \in SeqNum
  <2>1. ASSUME NEW j \in 1 .. Len(nt)
        PROVE  nt[j].ack \in SeqNum
    <3>1. nt[j] \in Ack
      OBVIOUS
    <3>. QED
      BY <3>1 DEF Ack
  <2>. QED
    BY <1>1, <2>1
<1>8. Len(nt) - s \in Nat
  BY <1>1
<1>9. LastAcks(nt, s) \in Seq(SeqNum) /\ Len(LastAcks(nt, s)) = Len(nt) - s
  BY <1>7, <1>8 DEF LastAcks
<1>. QED
  BY <1>1, <1>6, <1>7, <1>9 DEF LastAcks

\* What happened to the end of one sequence, told of the channel's.
Shown == <<Usable, [count |-> heard.count, ack |-> heard.last.ack]>>

\* An acknowledgement is sent; if it has the microsecond of the last one that
\* was taken, it is never usable.
LEMMA AcknowledgeIsSend ==
  ASSUME AckInv, AckInv', WindowInv, OrderInv, Acknowledge
  PROVE  [Channel!Next]_Shown
<1>1. PICK n \in arrived .. sent : net' = Append(net, AckOf(n, now)) \/ net' = net
  BY DEF Acknowledge
<1>2. /\ net \in Seq(Ack) /\ net' \in Seq(Ack) /\ n \in Nat /\ Len(net) \in Nat
      /\ last_ack_time' = last_ack_time /\ heard' = heard /\ last_ack_time \in Nat
      /\ now \in Nat /\ now' = now
  BY <1>1, ClockAssumption DEF AckInv, CountInv, WindowInv, Acknowledge
<1>3. CASE net' = net
  <2>1. Usable' = Usable
    BY <1>2, <1>3, UsableIsOf, UsableIsOfNext
  <2>. QED
    BY <1>2, <2>1 DEF Shown
<1>4. CASE net' = Append(net, AckOf(n, now))
  <2>. DEFINE a == AckOf(n, now)
              t == last_ack_time
  <2>1. a \in Ack /\ Genuine(a, now) /\ a.ack \in SeqNum
    <3>1. a \in Ack /\ Genuine(a, now)
      BY <1>2, NewAck DEF AckInv
    <3>. QED
      BY <3>1 DEF Ack
  <2>2. SentAt(a) = now
    <3>1. MILLION \in Nat \ {0}
      BY ClockAssumption
    <3>2. now = MILLION * (now \div MILLION) + (now % MILLION)
      BY <1>2, <3>1, DivRem, Zenon
    <3>. QED
      BY <3>2 DEF SentAt, AckOf
  <2>. HIDE DEF a, t
  <2>3. /\ Len(net') = Len(net) + 1 /\ net'[Len(net) + 1] = a
        /\ \A j \in 1 .. Len(net) : net'[j] = net[j]
    BY <1>2, <1>4 DEF a
  <2>4. PICK s \in Nat : FreshFrom(net, t, s)
    BY <1>2, FreshAreLast DEF t
  <2>5. /\ UsableOf(net, t) = LastAcks(net, s)
        /\ LastAcks(net, s) \in Seq(SeqNum)
        /\ Len(LastAcks(net, s)) = Len(net) - s
        /\ s <= Len(net)
        /\ \A k \in 1 .. Len(net) - s : s + k \in 1 .. Len(net) /\ LastAcks(net, s)[k] = net[s + k].ack
    BY <1>2, <2>4, UsableLast
  <2>6. CASE Stamp(a) > t
    <3>1. FreshFrom(net', t, s)
      <4>1. \A j \in 1 .. Len(net') : j \in 1 .. Len(net) \/ j = Len(net) + 1
        BY <1>2, <2>3
      <4>2. \A j \in 1 .. Len(net) : Stamp(net'[j]) > t <=> j > s
        BY <2>3, <2>4 DEF FreshFrom
      <4>3. s \in 0 .. Len(net')
        BY <1>2, <2>3, <2>5
      <4>4. Len(net) + 1 > s
        BY <1>2, <2>5
      <4>. QED
        BY <2>3, <2>6, <4>1, <4>2, <4>3, <4>4 DEF FreshFrom
    <3>2. /\ UsableOf(net', t) = LastAcks(net', s)
          /\ LastAcks(net', s) \in Seq(SeqNum)
          /\ Len(LastAcks(net', s)) = Len(net') - s
          /\ \A k \in 1 .. Len(net') - s : LastAcks(net', s)[k] = net'[s + k].ack
      BY <1>2, <3>1, UsableLast
    <3>. DEFINE u == LastAcks(net, s)
                v == LastAcks(net', s)
                w == Append(u, a.ack)
    <3>. HIDE DEF u, v
    <3>3. /\ w \in Seq(SeqNum) /\ Len(w) = Len(u) + 1
          /\ \A i \in 1 .. Len(u) : w[i] = u[i]
          /\ w[Len(u) + 1] = a.ack
      BY <2>1, <2>5, AppendProperties DEF u
    <3>. HIDE DEF w
    <3>4. Len(v) = Len(w) /\ Len(w) = Len(net) - s + 1 /\ Len(u) = Len(net) - s /\ Len(u) \in Nat
      BY <1>2, <2>3, <2>5, <3>2, <3>3 DEF u, v
    <3>5. ASSUME NEW k \in 1 .. Len(v)
          PROVE  v[k] = w[k]
      <4>0. v[k] = net'[s + k].ack
        BY <2>3, <3>2, <3>4 DEF v
      <4>1. CASE k = Len(u) + 1
        <5>1. s + k = Len(net) + 1
          BY <1>2, <3>4, <4>1
        <5>. QED
          BY <2>3, <3>3, <4>0, <4>1, <5>1
      <4>2. CASE k # Len(u) + 1
        <5>1. k \in 1 .. Len(u)
          BY <3>4, <4>2
        <5>2. s + k \in 1 .. Len(net) /\ u[k] = net[s + k].ack
          BY <2>5, <3>4, <5>1 DEF u
        <5>. QED
          BY <2>3, <3>3, <4>0, <5>1, <5>2
      <4>. QED
        BY <4>1, <4>2
    <3>6. v \in Seq(SeqNum)
      BY <3>2 DEF v
    <3>7. v = w
      BY <3>3, <3>4, <3>5, <3>6, SeqEqual
    <3>8. Usable = u /\ Usable' = v
      BY <1>2, <2>5, <3>2, UsableIsOf, UsableIsOfNext DEF t, u, v
    <3>9. Channel!Send(a.ack)
      BY <1>2, <3>7, <3>8 DEF Channel!Send, w
    <3>. QED
      BY <2>1, <3>9 DEF Channel!Next
  <2>7. CASE ~ (Stamp(a) > t)
    <3>1. ASSUME NEW j \in 1 .. Len(net)
          PROVE  ~ (Stamp(net[j]) > t)
      <4>1. Genuine(net[j], now)
        BY DEF AckInv, StampInv
      <4>2. /\ (Stamp(a) < Stamp(net[j])) <=> (SentAt(a) < SentAt(net[j]))
            /\ Stamp(a) \in Nat /\ SentAt(a) \in Nat /\ SentAt(net[j]) \in Nat
        BY <2>1, <4>1, StampOrder DEF AckInv
      <4>3. Stamp(net[j]) \in Nat /\ SentAt(net[j]) <= now
        BY <2>1, <4>1, StampOrder DEF AckInv
      <4>. QED
        BY <1>2, <2>2, <2>7, <4>2, <4>3 DEF t
    <3>2. FreshFrom(net, t, Len(net)) /\ FreshFrom(net', t, Len(net) + 1)
      <4>1. \A j \in 1 .. Len(net') : ~ (Stamp(net'[j]) > t)
        BY <1>2, <2>3, <2>7, <3>1
      <4>. QED
        BY <1>2, <2>3, <3>1, <4>1 DEF FreshFrom
    <3>3. /\ Len(UsableOf(net, t)) = 0 /\ UsableOf(net, t) \in Seq(SeqNum)
      <4>1. Len(net) - Len(net) = 0
        BY <1>2
      <4>. QED
        BY <1>2, <3>2, <4>1, UsableLast
    <3>4. /\ Len(UsableOf(net', t)) = 0 /\ UsableOf(net', t) \in Seq(SeqNum)
      <4>1. Len(net') - (Len(net) + 1) = 0 /\ Len(net) + 1 \in Nat
        BY <1>2, <2>3
      <4>. QED
        BY <1>2, <3>2, <4>1, UsableLast
    <3>5. UsableOf(net', t) = UsableOf(net, t)
      <4>1. 1 .. 0 = {}
        OBVIOUS
      <4>. QED
        BY <3>3, <3>4, <4>1, SeqEqual
    <3>6. Usable' = Usable
      BY <1>2, <3>5, UsableIsOf, UsableIsOfNext DEF t
    <3>. QED
      BY <1>2, <3>6 DEF Shown
  <2>. QED
    BY <2>6, <2>7
<1>. QED
  BY <1>1, <1>3, <1>4

\* An acknowledgement is lost, or too badly damaged: if it was usable, it is
\* no more.
LEMMA RemovedIsLose ==
  ASSUME AckInv, AckInv', WindowInv, OrderInv, NEW j \in 1 .. Len(net), net' = RemoveAt(net, j),
         UNCHANGED <<last_ack_time, heard>>
  PROVE  [Channel!Next]_Shown
<1>. DEFINE t == last_ack_time
<1>1. net \in Seq(Ack) /\ net' \in Seq(Ack) /\ Len(net) \in Nat /\ t \in Nat
  BY DEF AckInv, CountInv, WindowInv
<1>2. /\ Len(net') = Len(net) - 1
      /\ \A k \in 1 .. Len(net) - 1 : net'[k] = net[IF k < j THEN k ELSE k + 1]
  BY <1>1, RemovedAt
<1>. HIDE DEF t
<1>3. PICK s \in Nat : FreshFrom(net, t, s)
  BY <1>1, FreshAreLast
<1>4. /\ UsableOf(net, t) = LastAcks(net, s)
      /\ LastAcks(net, s) \in Seq(SeqNum)
      /\ Len(LastAcks(net, s)) = Len(net) - s
      /\ s <= Len(net)
      /\ \A k \in 1 .. Len(net) - s : s + k \in 1 .. Len(net) /\ LastAcks(net, s)[k] = net[s + k].ack
  BY <1>1, <1>3, UsableLast
<1>5. Usable = LastAcks(net, s) /\ Usable' = UsableOf(net', t)
  BY <1>4, UsableIsOf, UsableIsOfNext DEF t
<1>6. CASE j <= s
  <2>1. s - 1 \in Nat
    BY <1>6
  <2>2. FreshFrom(net', t, s - 1)
    <3>1. ASSUME NEW k \in 1 .. Len(net')
          PROVE  Stamp(net'[k]) > t <=> k > s - 1
      <4>1. PICK i \in 1 .. Len(net) : i = IF k < j THEN k ELSE k + 1
        BY <1>1, <1>2
      <4>2. net'[k] = net[i]
        BY <1>1, <1>2, <4>1
      <4>3. Stamp(net[i]) > t <=> i > s
        BY <1>3 DEF FreshFrom
      <4>4. i > s <=> k > s - 1
        BY <1>6, <4>1
      <4>. QED
        BY <4>2, <4>3, <4>4
    <3>2. s - 1 \in 0 .. Len(net')
      BY <1>1, <1>2, <1>4, <2>1
    <3>. QED
      BY <3>1, <3>2 DEF FreshFrom
  <2>3. /\ UsableOf(net', t) = LastAcks(net', s - 1)
        /\ LastAcks(net', s - 1) \in Seq(SeqNum)
        /\ Len(LastAcks(net', s - 1)) = Len(net') - (s - 1)
        /\ \A k \in 1 .. Len(net') - (s - 1) : LastAcks(net', s - 1)[k] = net'[(s - 1) + k].ack
    BY <1>1, <2>1, <2>2, UsableLast
  <2>4. Len(net') - (s - 1) = Len(net) - s
    BY <1>1, <1>2
  <2>5. ASSUME NEW k \in 1 .. Len(net) - s
        PROVE  LastAcks(net', s - 1)[k] = LastAcks(net, s)[k]
    <3>1. (s - 1) + k \in 1 .. Len(net) - 1 /\ ~ ((s - 1) + k < j) /\ ((s - 1) + k) + 1 = s + k
      BY <1>1, <1>6, <2>1
    <3>2. net'[(s - 1) + k] = net[s + k]
      BY <1>2, <3>1
    <3>. QED
      BY <1>4, <2>3, <2>4, <3>2
  <2>6. LastAcks(net', s - 1) = LastAcks(net, s)
    BY <1>4, <2>3, <2>4, <2>5, SeqEqual
  <2>. QED
    BY <1>5, <2>3, <2>6 DEF Shown
<1>7. CASE j > s
  <2>1. FreshFrom(net', t, s)
    <3>1. ASSUME NEW k \in 1 .. Len(net')
          PROVE  Stamp(net'[k]) > t <=> k > s
      <4>1. PICK i \in 1 .. Len(net) : i = IF k < j THEN k ELSE k + 1
        BY <1>1, <1>2
      <4>2. net'[k] = net[i]
        BY <1>1, <1>2, <4>1
      <4>3. Stamp(net[i]) > t <=> i > s
        BY <1>3 DEF FreshFrom
      <4>4. i > s <=> k > s
        BY <1>7, <4>1
      <4>. QED
        BY <4>2, <4>3, <4>4
    <3>2. s \in 0 .. Len(net')
      BY <1>1, <1>2, <1>7
    <3>. QED
      BY <3>1, <3>2 DEF FreshFrom
  <2>2. /\ UsableOf(net', t) = LastAcks(net', s)
        /\ LastAcks(net', s) \in Seq(SeqNum)
        /\ Len(LastAcks(net', s)) = Len(net') - s
        /\ \A k \in 1 .. Len(net') - s : LastAcks(net', s)[k] = net'[s + k].ack
    BY <1>1, <2>1, UsableLast
  <2>. DEFINE u == LastAcks(net, s)
              v == LastAcks(net', s)
              i == j - s
              w == RemoveAt(u, i)
  <2>3. i \in 1 .. Len(u)
    BY <1>1, <1>4, <1>7
  <2>4. u \in Seq(SeqNum) /\ Len(u) = Len(net) - s /\ v \in Seq(SeqNum) /\ Len(v) = Len(u) - 1
    BY <1>1, <1>2, <1>4, <2>2
  <2>. HIDE DEF u, v
  <2>5. /\ w \in Seq(SeqNum) /\ Len(w) = Len(u) - 1
        /\ \A k \in 1 .. Len(u) - 1 : w[k] = u[IF k < i THEN k ELSE k + 1]
    <3>. HIDE DEF i
    <3>. QED
      BY <2>3, <2>4, RemovedAt
  <2>. HIDE DEF w
  <2>6. ASSUME NEW k \in 1 .. Len(v)
        PROVE  v[k] = w[k]
    <3>1. k \in 1 .. Len(u) - 1 /\ k \in 1 .. Len(net') - s /\ s + k \in 1 .. Len(net) - 1
      BY <1>1, <1>2, <2>4
    <3>2. v[k] = net'[s + k].ack /\ net'[s + k] = net[IF s + k < j THEN s + k ELSE (s + k) + 1]
      BY <1>2, <2>2, <3>1 DEF v
    <3>3. CASE k < i
      <4>1. s + k < j /\ k \in 1 .. Len(net) - s
        BY <1>1, <2>4, <3>1, <3>3
      <4>2. u[k] = net[s + k].ack
        BY <1>4, <4>1 DEF u
      <4>. QED
        BY <2>5, <3>1, <3>2, <3>3, <4>1, <4>2
    <3>4. CASE ~ (k < i)
      <4>1. ~ (s + k < j) /\ k + 1 \in 1 .. Len(net) - s /\ (s + k) + 1 = s + (k + 1)
        BY <1>1, <2>4, <3>1, <3>4
      <4>2. u[k + 1] = net[s + (k + 1)].ack
        BY <1>4, <4>1 DEF u
      <4>. QED
        BY <2>5, <3>1, <3>2, <3>4, <4>1, <4>2
    <3>. QED
      BY <3>3, <3>4
  <2>7. v = w
    BY <2>4, <2>5, <2>6, SeqEqual
  <2>8. Usable = u /\ Usable' = v
    BY <1>5, <2>2 DEF u, v
  <2>9. Channel!Lose(i)
    BY <2>7, <2>8 DEF Channel!Lose, w, RemoveAt
  <2>. QED
    BY <2>3, <2>8, <2>9 DEF Channel!Next
<1>. QED
  BY <1>1, <1>3, <1>6, <1>7

\* sendfile takes one: what was sent in its microsecond or before is worthless
\* from then on.
LEMMA TakenIsTake ==
  ASSUME AckInv, AckInv', WindowInv, WindowInv', OrderInv,
         NEW j \in 1 .. Len(net), Newer(net[j]), Taken(j)
  PROVE  [Channel!Next]_Shown
<1>. DEFINE t == last_ack_time
            z == Stamp(net[j])
<1>1. /\ net \in Seq(Ack) /\ net' \in Seq(Ack) /\ Len(net) \in Nat /\ t \in Nat
      /\ last_ack_time' = z /\ z \in Nat /\ z > t
      /\ net' = net \/ net' = RemoveAt(net, j)
      /\ heard' = [count |-> heard.count + 1, last |-> net[j]]
  BY DEF AckInv, CountInv, WindowInv, Taken, Newer
<1>. HIDE DEF t
<1>2. PICK s \in Nat : FreshFrom(net, t, s)
  BY <1>1, FreshAreLast
<1>3. PICK r \in Nat : FreshFrom(net, z, r)
  BY <1>1, FreshAreLast
<1>4. j > s /\ j <= r
  <2>1. j > s
    BY <1>1, <1>2 DEF FreshFrom
  <2>2. ~ (j > r)
    BY <1>1, <1>3 DEF FreshFrom
  <2>. QED
    BY <1>3, <2>1, <2>2
<1>5. /\ UsableOf(net, t) = LastAcks(net, s)
      /\ LastAcks(net, s) \in Seq(SeqNum)
      /\ Len(LastAcks(net, s)) = Len(net) - s
      /\ s <= Len(net)
      /\ \A k \in 1 .. Len(net) - s : s + k \in 1 .. Len(net) /\ LastAcks(net, s)[k] = net[s + k].ack
  BY <1>1, <1>2, UsableLast
<1>6. /\ UsableOf(net, z) = LastAcks(net, r)
      /\ LastAcks(net, r) \in Seq(SeqNum)
      /\ Len(LastAcks(net, r)) = Len(net) - r
      /\ r <= Len(net)
      /\ \A k \in 1 .. Len(net) - r : r + k \in 1 .. Len(net) /\ LastAcks(net, r)[k] = net[r + k].ack
  BY <1>1, <1>3, UsableLast
<1>7. Usable = LastAcks(net, s) /\ Usable' = UsableOf(net', z)
  BY <1>1, <1>5, UsableIsOf, UsableIsOfNext DEF t
<1>. HIDE DEF z
\* It does not matter whether it comes a second time.
<1>8. Usable' = LastAcks(net, r)
  <2>1. CASE net' = net
    BY <1>6, <1>7, <2>1
  <2>2. CASE net' = RemoveAt(net, j)
    <3>1. /\ Len(net') = Len(net) - 1
          /\ \A k \in 1 .. Len(net) - 1 : net'[k] = net[IF k < j THEN k ELSE k + 1]
      BY <1>1, <2>2, RemovedAt
    <3>2. r - 1 \in Nat
      BY <1>4
    <3>3. FreshFrom(net', z, r - 1)
      <4>1. ASSUME NEW k \in 1 .. Len(net')
            PROVE  Stamp(net'[k]) > z <=> k > r - 1
        <5>1. PICK i \in 1 .. Len(net) : i = IF k < j THEN k ELSE k + 1
          BY <1>1, <3>1
        <5>2. net'[k] = net[i]
          BY <1>1, <3>1, <5>1
        <5>3. Stamp(net[i]) > z <=> i > r
          BY <1>3 DEF FreshFrom
        <5>4. i > r <=> k > r - 1
          <6>1. r \in Nat /\ j \in Nat /\ k \in Nat /\ j <= r
            BY <1>1, <1>4
          <6>2. CASE k < j
            BY <5>1, <6>1, <6>2
          <6>3. CASE ~ (k < j)
            BY <5>1, <6>1, <6>3
          <6>. QED
            BY <6>2, <6>3
        <5>. QED
          BY <5>2, <5>3, <5>4
      <4>2. r - 1 \in 0 .. Len(net')
        BY <1>1, <1>6, <3>1, <3>2
      <4>. QED
        BY <4>1, <4>2 DEF FreshFrom
    <3>4. /\ UsableOf(net', z) = LastAcks(net', r - 1)
          /\ LastAcks(net', r - 1) \in Seq(SeqNum)
          /\ Len(LastAcks(net', r - 1)) = Len(net') - (r - 1)
          /\ \A k \in 1 .. Len(net') - (r - 1) :
               LastAcks(net', r - 1)[k] = net'[(r - 1) + k].ack
      <4>. DEFINE q == r - 1
      <4>1. q \in Nat /\ FreshFrom(net', z, q)
        BY <3>2, <3>3
      <4>. HIDE DEF q
      <4>2. /\ UsableOf(net', z) = LastAcks(net', q)
            /\ LastAcks(net', q) \in Seq(SeqNum)
            /\ Len(LastAcks(net', q)) = Len(net') - q
            /\ \A k \in 1 .. Len(net') - q : LastAcks(net', q)[k] = net'[q + k].ack
        BY <1>1, <4>1, UsableLast
      <4>. QED
        BY <4>2 DEF q
    <3>5. Len(net') - (r - 1) = Len(net) - r
      BY <1>1, <3>1
    <3>6. ASSUME NEW k \in 1 .. Len(net) - r
          PROVE  LastAcks(net', r - 1)[k] = LastAcks(net, r)[k]
      <4>1. (r - 1) + k \in 1 .. Len(net) - 1 /\ ~ ((r - 1) + k < j) /\ ((r - 1) + k) + 1 = r + k
        BY <1>1, <1>4, <3>2
      <4>2. net'[(r - 1) + k] = net[r + k]
        BY <3>1, <4>1
      <4>. QED
        BY <1>6, <3>4, <3>5, <4>2
    <3>7. LastAcks(net', r - 1) = LastAcks(net, r)
      BY <1>6, <3>4, <3>5, <3>6, SeqEqual
    <3>. QED
      BY <1>7, <3>4, <3>7
  <2>. QED
    BY <1>1, <2>1, <2>2
<1>. DEFINE u == LastAcks(net, s)
            v == LastAcks(net, r)
            i == j - s
            m == (r - s) + 1
            w == SubSeq(u, m, Len(u))
<1>9. /\ i \in 1 .. Len(net) - s /\ m \in 2 .. (Len(net) - s) + 1 /\ i < m
      /\ s + i = j /\ Len(net) - s \in Nat
  <2>1. \A x, y, l, p \in Nat :
          p > y /\ p <= x /\ x <= l =>
            /\ p - y \in 1 .. l - y /\ (x - y) + 1 \in 2 .. (l - y) + 1
            /\ p - y < (x - y) + 1 /\ y + (p - y) = p /\ l - y \in Nat
    OBVIOUS
  <2>. DEFINE n == Len(net)
  <2>2. /\ r \in Nat /\ s \in Nat /\ n \in Nat /\ j \in Nat
        /\ j > s /\ j <= r /\ r <= n
    BY <1>1, <1>4, <1>6
  <2>. HIDE DEF n
  <2>3. /\ j - s \in 1 .. n - s /\ (r - s) + 1 \in 2 .. (n - s) + 1
        /\ j - s < (r - s) + 1 /\ s + (j - s) = j /\ n - s \in Nat
    BY <2>1, <2>2
  <2>. QED
    BY <2>3 DEF n
<1>10. u \in Seq(SeqNum) /\ Len(u) = Len(net) - s /\ u[i] = net[j].ack
  BY <1>5, <1>9
<1>11. v \in Seq(SeqNum) /\ Len(v) = Len(net) - r
  BY <1>6
<1>12. \A k \in 1 .. Len(net) - r : v[k] = net[r + k].ack
  BY <1>6
<1>13. \A k \in 1 .. Len(net) - s : u[k] = net[s + k].ack
  BY <1>5
<1>. HIDE DEF u, v
<1>14. /\ w \in Seq(SeqNum)
       /\ Len(w) = Len(net) - r
       /\ \A k \in 1 .. Len(net) - r : w[k] = u[(m + k) - 1]
  <2>. DEFINE n == Len(u)
  <2>1. m \in Int /\ n \in Int /\ n = Len(net) - s /\ \A k \in m .. n : u[k] \in SeqNum
    BY <1>9, <1>10
  <2>. HIDE DEF n
  <2>2. /\ SubSeq(u, m, n) \in Seq(SeqNum)
        /\ Len(SubSeq(u, m, n)) = IF m <= n THEN n - m + 1 ELSE 0
        /\ \A k \in 1 .. n - m + 1 : SubSeq(u, m, n)[k] = u[m + k - 1]
    <3>. HIDE DEF m
    <3>. QED
      BY <2>1, SubSeqProperties
  <2>3. n - m + 1 = Len(net) - r /\ (m > n => Len(net) - r = 0)
    <3>1. \A x, y, l \in Nat :
            x <= l => /\ (l - y) - ((x - y) + 1) + 1 = l - x
                      /\ (x - y) + 1 > l - y => l - x = 0
      OBVIOUS
    <3>. QED
      BY <1>1, <1>6, <2>1, <3>1
  <2>4. Len(SubSeq(u, m, n)) = Len(net) - r
    BY <1>9, <2>1, <2>2, <2>3
  <2>. QED
    BY <2>2, <2>3, <2>4 DEF n
<1>15. v = w
  <2>. HIDE DEF w
  <2>1. ASSUME NEW k \in 1 .. Len(net) - r
        PROVE  v[k] = w[k]
    <3>1. (m + k) - 1 \in 1 .. Len(net) - s /\ s + ((m + k) - 1) = r + k
      BY <1>1, <1>4, <1>5, <1>6
    <3>2. u[(m + k) - 1] = net[r + k].ack
      BY <1>13, <3>1
    <3>. QED
      BY <1>12, <1>14, <3>2
  <2>. QED
    BY <1>11, <1>14, <2>1, SeqEqual
<1>16. Usable = u /\ Usable' = v
  BY <1>7, <1>8 DEF u, v
<1>17. Channel!Take(i, m)
  BY <1>1, <1>9, <1>10, <1>15, <1>16 DEF Channel!Take, w
<1>18. i \in 1 .. Len(Usable) /\ m \in 2 .. Len(Usable) + 1
  BY <1>9, <1>10, <1>16
<1>. QED
  BY <1>17, <1>18 DEF Channel!Next

\* The acknowledgements, with their clock and whatever the path does to them,
\* are the channel on which the model of the file transfer builds: a sequence
\* from which sendfile takes one after another, in the order of sending
\* (sendfile.c:164).
THEOREM ImplementsChannel == Spec => Implements
<1>1. Init => Channel!Init
  <2>. SUFFICES ASSUME Init PROVE Channel!Init
    OBVIOUS
  <2>1. AckInv /\ OrderInv /\ net = <<>> /\ heard.count = 0 /\ heard.last.ack = 0
    BY InitAck, InitOrder DEF Init, NoAck
  <2>2. FreshFrom(net, last_ack_time, 0) /\ net \in Seq(Ack) /\ Len(net) - 0 = 0
    BY <2>1 DEF FreshFrom
  <2>3. Usable = LastAcks(net, 0)
    BY <2>2, UsableIsOf, UsableLast
  <2>4. LastAcks(net, 0) \in Seq(SeqNum) /\ Len(LastAcks(net, 0)) = 0
    BY <2>2, UsableLast
  <2>5. Usable = <<>>
    BY <2>3, <2>4
  <2>. QED
    BY <2>1, <2>5 DEF Channel!Init
<1>2. /\ AckInv /\ AckInv' /\ WindowInv /\ WindowInv' /\ OrderInv
      /\ [Next]_vars
      => [Channel!Next]_Shown
  <2>. SUFFICES ASSUME AckInv, AckInv', WindowInv, WindowInv', OrderInv, [Next]_vars
                PROVE  [Channel!Next]_Shown
    OBVIOUS
  <2>1. CASE Acknowledge
    BY <2>1, AcknowledgeIsSend
  <2>2. ASSUME NEW j \in 1 .. Len(net), Lost(j) \/ HearDamaged(j)
        PROVE  [Channel!Next]_Shown
    BY <2>2, RemovedIsLose DEF Lost, HearDamaged
  <2>3. ASSUME NEW j \in 1 .. Len(net), HearHello(j) \/ HearAck(j)
        PROVE  [Channel!Next]_Shown
    BY <2>3, TakenIsTake DEF HearHello, HearAck
  <2>4. ASSUME UNCHANGED <<net, last_ack_time, heard>>
        PROVE  [Channel!Next]_Shown
    <3>1. Usable' = Usable
      BY <2>4, UsableIsOf, UsableIsOfNext
    <3>. QED
      BY <2>4, <3>1 DEF Shown
  <2>. QED
    BY <2>1, <2>2, <2>3, <2>4 DEF Next, Tick, SendPacket, vars
<1>3. Spec => [](AckInv /\ WindowInv /\ OrderInv)
  BY InitAck, StepAck, InitWindow, StepWindow, InitOrder, StepOrder, PTL DEF Spec
<1>. QED
  BY <1>1, <1>2, <1>3, PTL DEF Spec, Implements, Channel!Spec, Shown
=============================================================================
